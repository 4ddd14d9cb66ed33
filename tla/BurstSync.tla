------------------------------ MODULE BurstSync ------------------------------
(***************************************************************************)
(* The burst synchroniser, tetra_burst_sync_in() of                        *)
(* decoder/src/phy/tetra_burst_sync.c: it finds the burst grid in a stream *)
(* of demodulated bits, which arrives in chunks of any length, and hands   *)
(* one timeslot at a time to tetra_burst_rx_cb().                          *)
(*                                                                         *)
(* A bit is abstracted to [ph, kind]: its position in the burst it was     *)
(* transmitted in, and the kind of that burst.  All the synchroniser can   *)
(* see of them is whether a training sequence starts at the bit (TrainSeq  *)
(* below).  NORM_1 and NORM_2 are one kind here, "norm": the synchroniser  *)
(* treats them alike.                                                      *)
(*                                                                         *)
(* The two absolute bit counters are modelled by their difference `gap`    *)
(* (next_frame_start_bitnum - bitbuf_start_bitnum), the only thing the     *)
(* machine depends on as long as they do not wrap; BurstCounters has the   *)
(* counters themselves.  Bit offsets are zero-based as in C, sequences are *)
(* one-based.                                                              *)
(***************************************************************************)
EXTENDS Integers, Sequences, SequencesExt

CONSTANTS
    TS,         \* TETRA_BITS_PER_TS, 510
    BufSize,    \* sizeof(bitbuf), 4096
    SyncOffs,   \* offset of the training sequence in a SYNC burst, 214
    NormOffs,   \* and in a normal burst, 244
    SyncLen,    \* length of the SYNC training sequence, 38
    NormLen,    \* length of the normal training sequences, 22
    Blind,      \* offsets below it are never reported by tetra_find_train_seq, 21
    Lossy,      \* whether a burst may be corrupted beyond recognition
    Lens,       \* the lengths a chunk of demodulated bits may have
    MaxNoSync   \* at most so many bursts without SYNC while the signal is good

ASSUME BurstSyncAssumption ==
    /\ {TS, BufSize, SyncOffs, NormOffs, SyncLen, NormLen, Blind, MaxNoSync} \subseteq Nat
    /\ SyncLen > 0 /\ NormLen > 0
    /\ Blind <= SyncOffs /\ SyncOffs < NormOffs /\ NormOffs < TS
    /\ SyncOffs + SyncLen <= TS /\ NormOffs + NormLen <= TS
    /\ 2 * TS <= BufSize
    /\ Lens \subseteq 1 .. BufSize
    /\ Lossy \in BOOLEAN

VARIABLES
    state,      \* trs->state
    buf,        \* trs->bitbuf[0 .. bits_in_buf - 1]
    gap,        \* next frame start relative to the buffer; 0 while it is dead
    out,        \* what the last call did: [tick, burst], and sent, the kind of
                \* the burst it consumed, a history field
    air         \* the transmitter: [ph, kind, run, good]

vars == <<state, buf, gap, out, air>>

MutFStartShort == TS - SyncOffs - 1     \* off by one
MutFStartNorm == TS - NormOffs          \* the other burst's offset
MutFStartNone == 0                      \* the start of the sequence itself
\* From the first bit of a SYNC training sequence to the next burst's first bit.
FStart == TS - SyncOffs

Kinds == {"sync", "norm"}
SeqLen(k) == IF k = "sync" THEN SyncLen ELSE NormLen

AirKinds == IF Lossy THEN Kinds \cup {"lost"} ELSE Kinds

Idle == [tick |-> FALSE, burst |-> "none", sent |-> "none"]

-----------------------------------------------------------------------------
(* The transmitter.  It sends bursts back to back; a burst of kind "lost"  *)
(* has a training sequence too corrupted to be recognised.                 *)

\* The training sequence that starts at a bit, as far as it can be recognised.
TrainSeq(bit) ==
    IF \/ bit.kind = "sync" /\ bit.ph = SyncOffs
       \/ bit.kind = "norm" /\ bit.ph = NormOffs
    THEN bit.kind ELSE "none"

\* How many new bursts begin in, or right after, the next len bits.
Begun(len) == (air.ph + len) \div TS

\* Those bits, of the burst in the air and of the bursts ks after it.
Sent(len, ks) ==
    [i \in 1 .. len |->
        LET p == air.ph + i - 1
        IN  [ph |-> p % TS,
             kind |-> IF p < TS THEN air.kind ELSE ks[p \div TS]]]

\* While the signal is good no burst is lost and SYNC bursts keep coming.
MayFollow(ks) ==
    (air.good /\ ks # <<>>) =>
        /\ "lost" \notin Range(ks)
        /\ air.run >= MaxNoSync => "sync" \in Range(ks)

Advance(len, ks) ==
    air' = [air EXCEPT
              !.ph = (@ + len) % TS,
              !.kind = IF ks = <<>> THEN @ ELSE Last(ks),
              !.run = IF "sync" \in Range(ks) THEN 0
                      ELSE IF @ + Len(ks) < MaxNoSync THEN @ + Len(ks) ELSE MaxNoSync]

-----------------------------------------------------------------------------
(* tetra_burst_sync_in, branch by branch.                                  *)

\* make_bitbuf_space: how many of the oldest bits give way to len new ones.
Dropped(len) == IF BufSize - Len(buf) < len THEN len - (BufSize - Len(buf)) ELSE 0

Appended(bits) == SubSeq(buf, Dropped(Len(bits)) + 1, Len(buf)) \o bits

\* tetra_find_train_seq: the offsets at which a sequence of one of the kinds
\* is recognised in b, and the first of them.
Matches(b, kinds) ==
    { p \in Blind .. Len(b) - 1 :
        /\ TrainSeq(b[p + 1]) \in kinds
        /\ p + SeqLen(TrainSeq(b[p + 1])) <= Len(b) }

First(matches) == CHOOSE p \in matches : \A q \in matches : p <= q

MutRemainder(b) == b                    \* the frame is not removed
\* The bits after the frame move to the start of the buffer.
Remainder(b) == SubSeq(b, TS + 1, Len(b))

\* The part of the call that runs with a full frame at the start of b: one
\* timeslot has passed, whatever is made of it.
Handle(b) ==
    LET m == Matches(b, Kinds)
        none == m = {}
        offs == First(m)
        found == TrainSeq(b[offs + 1])
        placed == ~none /\ offs = (IF found = "sync" THEN SyncOffs ELSE NormOffs)
        unlock == none \/ (found = "sync" /\ ~placed)
    IN  /\ state' = IF unlock THEN "unlocked" ELSE "locked"
        /\ out' = [tick |-> TRUE, burst |-> IF placed THEN found ELSE "none", sent |-> b[1].kind]
        /\ buf' = Remainder(b)

Consume(b) == Handle(b) /\ gap' = IF state' = "unlocked" THEN 0 ELSE TS

\* Fewer bits than a frame: keep them.
Wait(b, s, g) == state' = s /\ buf' = b /\ gap' = g /\ out' = Idle

Unlocked(b) ==
    /\ state = "unlocked"
    /\ LET m == IF Len(b) < 2 * TS THEN {} ELSE Matches(b, {"sync"})
       IN  IF m = {} THEN Wait(b, "unlocked", 0)
           ELSE Wait(b, "know_fstart", First(m) + FStart)

\* memmove(bitbuf, bitbuf + offset, bits_in_buf - offset).  A negative offset
\* reads what lies before the buffer; nothing is known of those bits.
Unknown == [ph |-> 0, kind |-> "lost"]

Shifted(b, offset) ==
    IF offset >= 0 THEN SubSeq(b, offset + 1, Len(b))
    ELSE [i \in 1 .. -offset |-> Unknown] \o b

\* The start of the frame moves to the start of the buffer, then as LOCKED.
KnowFStart(b, g) ==
    /\ state = "know_fstart"
    /\ IF Len(b) < g THEN Wait(b, "know_fstart", g)
       ELSE LET c == Shifted(b, g)
            IN  IF Len(c) < TS THEN Wait(c, "locked", TS) ELSE Consume(c)

Locked(b) ==
    /\ state = "locked"
    /\ IF Len(b) < TS THEN Wait(b, "locked", gap) ELSE Consume(b)

\* One call with the bits the air delivered meanwhile.
SyncIn(bits) ==
    LET b == Appended(bits)
        g == gap - Dropped(Len(bits))
    IN  Unlocked(b) \/ KnowFStart(b, g) \/ Locked(b)

Receive ==
    \E len \in Lens :
        \E ks \in [1 .. Begun(len) -> AirKinds] :
            /\ MayFollow(ks)
            /\ SyncIn(Sent(len, ks))
            /\ Advance(len, ks)

\* The receiver is retuned, or samples are lost, while locked: the grid jumps.
Slip ==
    /\ ~air.good
    /\ state = "locked"
    /\ \E p \in 0 .. TS - 1 : air' = [air EXCEPT !.ph = p]
    /\ UNCHANGED <<state, buf, gap, out>>

\* From here on the signal is good.  The burst in the air may still be lost.
SignalTurnsGood ==
    /\ ~air.good
    /\ air' = [air EXCEPT !.good = TRUE, !.run = 0]
    /\ UNCHANGED <<state, buf, gap, out>>

Init ==
    /\ state = "unlocked" /\ buf = <<>> /\ gap = 0 /\ out = Idle
    /\ air \in [ph : 0 .. TS - 1, kind : AirKinds, run : {0}, good : {FALSE}]

Next == Receive \/ SignalTurnsGood
Spec == Init /\ [][Next]_vars

SlippingSpec == Init /\ [][Next \/ Slip]_vars

\* Bits keep coming, and reception becomes good for ever at some point.  Receive
\* is always enabled, so []<> of it is its weak fairness.
SignalLives == []<><<Receive>>_vars /\ WF_vars(SignalTurnsGood)

FairSpec == Spec /\ SignalLives
FairSlippingSpec == SlippingSpec /\ SignalLives

-----------------------------------------------------------------------------
Bits == [ph : 0 .. TS - 1, kind : Kinds \cup {"lost"}]

TypeOK ==
    /\ state \in {"unlocked", "know_fstart", "locked"}
    /\ buf \in Seq(Bits) /\ Len(buf) <= BufSize
    /\ gap \in Int
    /\ out \in [tick : BOOLEAN, burst : Kinds \cup {"none"},
                sent : Kinds \cup {"lost", "none"}]
    /\ air \in [ph : 0 .. TS - 1, kind : Kinds \cup {"lost"},
                run : 0 .. MaxNoSync, good : BOOLEAN]

\* make_bitbuf_space never discards the bits in which the awaited frame starts:
\* the shift of RX_S_KNOW_FSTART moves the buffer by an offset that lies in it,
\* never by a negative one.
FrameStartKept == state = "know_fstart" => \A len \in Lens : Dropped(len) <= gap

\* Once locked, however late the lock came and however full the buffer was, the
\* receiver keeps up: no bit is discarded and the frames stay aligned.
LockedLosesNothing == state = "locked" => \A len \in Lens : Dropped(len) = 0

\* The next frame starts where the synchroniser says (next_frame_start_bitnum).
OnGrid ==
    LET next == IF state = "locked" THEN 0 ELSE gap
    IN  ((air.ph - Len(buf)) + next) % TS = 0

\* A synchroniser that believes to know the frame start does know it.
GridIsTrue == state # "unlocked" => OnGrid

\* Once reception stays good, the receiver ends up locked to the grid for good.
LocksForGood == <>[](state = "locked" /\ OnGrid)
=============================================================================
