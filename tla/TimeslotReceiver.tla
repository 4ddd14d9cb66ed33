-------------------------- MODULE TimeslotReceiver --------------------------
(***************************************************************************)
(* What happens to one timeslot after another: the burst synchroniser      *)
(* counts it and hands its burst to tetra_burst_rx_cb(), which passes the  *)
(* blocks to the lower MAC, tp_sap_udata_ind(), one call each.  The lower  *)
(* MAC sets the time from SYNC PDUs, the access assignment says whether    *)
(* the burst is traffic, and one traffic slot of each frame is played.     *)
(*                                                                         *)
(* The search for the burst grid is abstracted to its outcome for whole    *)
(* timeslots (BurstSync has it bit by bit): a timeslot whose burst was     *)
(* corrupted costs the lock, a SYNC burst gives it again for the timeslots *)
(* that follow.                                                            *)
(***************************************************************************)
EXTENDS TetraTdma, FiniteSets, Sequences

CONSTANT Usages     \* the downlink usage markers an ACCESS-ASSIGN PDU may have

ASSUME TimeslotReceiverAssumption == MaxFn >= 2 /\ MaxMn >= 2 /\ Usages \subseteq Nat

VARIABLES
    locked,         \* the synchroniser is locked
    time,           \* t_phy_state.time
    tcdTime,        \* tcd->time
    blocks,         \* the blocks of the burst not yet given to the lower MAC
    traffic,        \* tms->cur_burst.is_traffic
    frame,          \* t_display_st->curr_frame
    lastFrame,      \* tms->last_frame
    activeSlot,     \* tms->curr_active_timeslot
    shown,          \* what the last step wrote to t_display_st->timeslot_content[]
    air,            \* the time of the timeslot in the air
    good,           \* from now on bursts are not lost and SYNC PDUs not garbled
    synced,         \* history: a SYNC PDU was received since the lock was acquired
    heard,          \* history: the marker in this burst's access assignment, if any
    played          \* history: the slots of this frame that were played, since synced

receiver == <<locked, time, tcdTime, blocks, traffic, frame, lastFrame, activeSlot, shown>>
vars == <<receiver, air, good, synced, heard, played>>

-----------------------------------------------------------------------------
(* The bursts.  "odd" has a normal training sequence at a wrong place,     *)
(* "lost" none that can be recognised.                                     *)

Bursts == {"sync", "norm1", "norm2", "odd", "lost"}

\* The calls of tetra_burst_rx_cb, in order.
BlocksOf(b) ==
    CASE b = "sync"  -> <<"SB1", "BBK", "SB2">>
      [] b = "norm2" -> <<"BBK", "NDB1", "NDB2">>
      [] b = "norm1" -> <<"BBK", "SCH_F">>
      [] OTHER       -> <<>>

\* What tetra_burst_rx_cb notes for the display after the last block.
Content(lastBlock, isTraffic) ==
    CASE lastBlock = "SB2" -> 3
      [] lastBlock = "NDB2" -> 2
      [] lastBlock = "SCH_F" -> IF isTraffic = 0 THEN 1 ELSE 4

-----------------------------------------------------------------------------
\* The next timeslot is received.  A locked receiver counts it, whatever it is.
Receive(b) ==
    /\ blocks = <<>>
    /\ good => b # "lost"
    /\ air' = AddTn(air, 1)
    /\ IF locked
       THEN /\ locked' = (b # "lost")
            /\ time' = AddTn(time, 1)
            /\ blocks' = BlocksOf(b)
            /\ frame' = IF blocks' # <<>> THEN time'.fn ELSE frame
       ELSE /\ locked' \in {FALSE, b = "sync"}
            /\ blocks' = <<>>
            /\ UNCHANGED <<time, frame>>
    /\ synced' = (synced /\ locked') /\ heard' = {}
    /\ played' = IF air'.tn = 1 \/ ~locked' THEN {} ELSE played
    /\ shown' = {}
    /\ UNCHANGED <<tcdTime, traffic, lastFrame, activeSlot, good>>

NextSlot == \E b \in Bursts : Receive(b)

MutNote(t, isTraffic) ==                    \* the slot number itself
    shown' = IF Tail(blocks) = <<>>
             THEN {[index |-> t.tn, content |-> Content(Head(blocks), isTraffic)]}
             ELSE {}
\* After the last block of a burst its kind is noted for the display, under the
\* slot number of the time that is then valid.
Note(t, isTraffic) ==
    shown' = IF Tail(blocks) = <<>>
             THEN {[index |-> t.tn - 1, content |-> Content(Head(blocks), isTraffic)]}
             ELSE {}

\* The call begins with a copy of the time; blocks other than the ones below
\* leave the state of this module alone.
Block(type) == blocks # <<>> /\ Head(blocks) = type /\ blocks' = Tail(blocks)

MutPublishedTime(crc_ok) == IF crc_ok THEN air ELSE tcdTime     \* no copy before
MutKeptTime(crc_ok) == time                 \* the PDU's time is not taken over
\* SB1: the time of the SYNC PDU, or if it is garbled the one already known.
PublishedTime(crc_ok) == IF crc_ok THEN air ELSE time

RxSb1 ==
    /\ Block("SB1")
    /\ \E crc_ok \in BOOLEAN :
         /\ good => crc_ok
         /\ tcdTime' = PublishedTime(crc_ok)
         /\ time' = tcdTime'
         /\ synced' = (synced \/ crc_ok)
         /\ played' = IF crc_ok /\ ~synced THEN {} ELSE played
    /\ Note(time', traffic)
    /\ UNCHANGED <<locked, traffic, frame, lastFrame, activeSlot, air, good, heard>>

\* The usage marker is there in all frames but the last, and in one of the four
\* kinds of header not at all; without it the usage is 0.
Marker(t, usage) == IF t.fn = MaxFn THEN 0 ELSE usage

MutIsTraffic(usage) == IF usage > 3 THEN usage ELSE traffic          \* no reset
IsTraffic(usage) == IF usage > 3 THEN usage ELSE 0

\* The access assignment has no CRC: what was transmitted, or anything else when
\* it is garbled or the scrambling code not known yet.
RxBbk ==
    /\ Block("BBK")
    /\ \E usage \in Usages \cup {0} :
         /\ traffic' = IsTraffic(Marker(time, usage))
         /\ heard' = {usage}
    /\ tcdTime' = time
    /\ Note(time, traffic')
    /\ UNCHANGED <<locked, time, frame, lastFrame, activeSlot, air, good, synced, played>>

\* SCH/F of a traffic burst: the first such burst of a frame is the one played
\* in this frame.
MutLastFrame == lastFrame                   \* not updated
LastFrame == frame

PlaySchF ==
    /\ Block("SCH_F")
    /\ traffic # 0
    /\ IF frame # lastFrame
       THEN activeSlot' = time.tn /\ lastFrame' = LastFrame
       ELSE UNCHANGED <<activeSlot, lastFrame>>
    /\ played' = IF activeSlot' = time.tn THEN played \cup {air.tn} ELSE played
    /\ tcdTime' = time
    /\ Note(time, traffic)
    /\ UNCHANGED <<locked, time, traffic, frame, air, good, synced, heard>>

RxOther ==
    /\ \/ \E type \in {"SB2", "NDB1", "NDB2"} : Block(type)
       \/ Block("SCH_F") /\ traffic = 0
    /\ tcdTime' = time
    /\ Note(time, traffic)
    /\ UNCHANGED <<locked, time, traffic, frame, lastFrame, activeSlot, air, good, synced,
                   heard, played>>

RxBlock == RxSb1 \/ RxBbk \/ PlaySchF \/ RxOther

\* From here on bursts are not lost and SYNC PDUs not garbled.
SignalTurnsGood ==
    /\ ~good /\ good' = TRUE
    /\ UNCHANGED <<receiver, air, synced, heard, played>>

Times == [hn : {0}, sn : {0}, tn : 1 .. 4, fn : 1 .. MaxFn, mn : 1 .. MaxMn]

Init ==
    /\ locked = FALSE /\ time = ZeroTime /\ tcdTime = ZeroTime /\ blocks = <<>>
    /\ traffic = 0 /\ frame = 0 /\ lastFrame = 0 /\ activeSlot = 0
    /\ shown = {}
    /\ air \in Times
    /\ good = FALSE /\ synced = FALSE /\ heard = {} /\ played = {}

Next == NextSlot \/ RxBlock \/ SignalTurnsGood
Spec == Init /\ [][Next]_vars

\* Timeslots keep coming and are processed, the signal becomes good for ever, and
\* SYNC bursts keep being transmitted, of which not every one is overlooked.
FairSpec ==
    /\ Spec
    /\ WF_vars(NextSlot) /\ WF_vars(RxBlock) /\ WF_vars(SignalTurnsGood)
    /\ SF_vars(Receive("sync") /\ locked')

-----------------------------------------------------------------------------
\* Every value the fields of a time may get, the ones before the first SYNC PDU
\* included.
LocalTimes == [hn : {0}, sn : {0}, tn : 0 .. 4, fn : 0 .. MaxFn, mn : 0 .. MaxMn]

TypeOK ==
    /\ locked \in BOOLEAN
    /\ time \in LocalTimes /\ tcdTime \in LocalTimes
    /\ blocks \in Seq({"SB1", "SB2", "BBK", "NDB1", "NDB2", "SCH_F"})
    /\ traffic \in Nat
    /\ frame \in 0 .. MaxFn /\ lastFrame \in 0 .. MaxFn /\ activeSlot \in 0 .. 4
    /\ shown \subseteq [index : 0 .. 3, content : 0 .. 4]
    /\ air \in Times
    /\ good \in BOOLEAN /\ synced \in BOOLEAN
    /\ heard \subseteq Usages \cup {0} /\ played \subseteq 1 .. 4

\* From the first good SYNC PDU until the lock is lost the receiver's time is the
\* base station's: slots whose burst could not be used are counted, a garbled SYNC
\* PDU does not bring back an older time, no slot is counted twice.
TimeIsAirTime == synced => time = air

\* Whether a burst is traffic is decided by the access assignment of this burst,
\* never by an earlier one, before any block that depends on it.
TrafficIsOfThisBurst ==
    (blocks # <<>> /\ Head(blocks) \in {"SCH_F", "NDB1", "NDB2", "SB2"}) =>
        \E usage \in heard : traffic # 0 => traffic = usage

\* With the right time, no more than one timeslot of a frame is played: the speech
\* of two calls is never mixed in a frame, however slots were missed before.
OneSlotPerFrame == synced => Cardinality(played) <= 1

\* With the right time, nothing is played in the last frame of a multiframe, whose
\* access assignments have no usage marker to be trusted.
ControlFrameIsSilent == synced /\ air.fn = MaxFn => played = {}

\* Once reception stays good the time becomes right for good, although every
\* slot missed while unlocked had set it back.
TimeBecomesRight == <>[](time = air)
=============================================================================
