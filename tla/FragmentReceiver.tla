-------------------------- MODULE FragmentReceiver --------------------------
(***************************************************************************)
(* Fragmented messages on their way from the base station through the      *)
(* blocks of the timeslots (tp_sap_udata_ind, one call of the upper MAC    *)
(* per PDU) into the fragslots.  Each timeslot number is a channel with a  *)
(* transmitter of its own; bursts are lost and blocks fail their CRC.      *)
(*                                                                         *)
(* A timeslot is three kinds of burst here: the access assignment and one  *)
(* full block, the access assignment and two half blocks, or nothing.      *)
(***************************************************************************)
EXTENDS UpperMac, SequencesExt

CONSTANTS
    Frames,         \* the frame numbers of a multiframe, the last one 18
    MaxMsgs,        \* bound: how many messages, for each timeslot number
    MaxFrags,       \* bound: fragments per message
    Hdr, Body       \* lengths of a header and of a fragment

ASSUME FragmentReceiverAssumption ==
    /\ Slots # {} /\ Frames \subseteq Nat /\ 18 \in Frames
    /\ MaxMsgs \in [Slots -> Nat] /\ MaxFrags \in Nat
    /\ Hdr \in Nat /\ Body \in Nat \ {0}
    /\ Hdr + Body <= MsgbSize

VARIABLES
    fragslots,      \* tms->fragslots
    now,            \* the time of the timeslot being received: [tn, fn]
    blocks,         \* its blocks yet to be parsed: [tup, pdus]
    tx,             \* per slot, the message sent and its fragments sent so far
    lost            \* history: <<slot, message, "start" or "end">> never taken

vars == <<fragslots, now, blocks, tx, lost>>

Pdu(kind, m, i, mode, key) ==
    [kind |-> kind, mode |-> mode, key |-> key, hdr |-> Hdr, body |-> Body, id |-> <<m, i>>]

Null == Pdu("null", 0, 0, 0, 0)

-----------------------------------------------------------------------------
(* The base station.  tx[s] = [msg, seq]: of message number msg the first  *)
(* seq fragments were sent; seq = 0 when there is no message under way.    *)

\* A message in clear, or encrypted, with or without a key at the receiver.
Starts(s, t) ==
    IF t.msg = MaxMsgs[s] THEN {}
    ELSE { Pdu("start", t.msg + 1, 1, c[1], c[2]) : c \in {<<0, 0>>, <<1, 0>>, <<1, 1>>} }

\* What may be sent in a slot, and the transmitter's state afterwards.
Offers(s) ==
    LET t == tx[s]
        m == t.msg
        i == t.seq + 1
        opened == [msg |-> m + 1, seq |-> 1]
        idle == [msg |-> m, seq |-> 0]
    IN  { [pdus |-> <<Null>>, next |-> t] }
        \cup
        (IF t.seq = 0
         THEN { [pdus |-> <<p>>, next |-> opened] : p \in Starts(s, t) }
         ELSE { [pdus |-> <<Pdu("end", m, i, 0, 0), Null>>, next |-> idle] }
              \cup { [pdus |-> <<Pdu("end", m, i, 0, 0), p>>, next |-> opened] : p \in Starts(s, t) }
              \cup (IF i < MaxFrags
                    THEN { [pdus |-> <<Pdu("frag", m, i, 0, 0)>>, next |-> [t EXCEPT !.seq = i]] }
                    ELSE {}))

\* The starts and ends among some PDUs that the receiver is not going to take.
Missed(s, pdus, good) ==
    { <<s, p.id[1], p.kind>> : p \in { q \in Range(pdus) :
        \/ q.kind = "start" /\ ~(good /\ Opens(q))
        \/ q.kind = "end" /\ ~good } }

-----------------------------------------------------------------------------
NextTime ==
    LET later == { s \in Slots : s > now.tn }
        laterFrames == { f \in Frames : f > now.fn }
        least(S) == CHOOSE x \in S : \A y \in S : x <= y
    IN  IF later # {} THEN [now EXCEPT !.tn = least(later)]
        ELSE [tn |-> least(Slots),
              fn |-> IF laterFrames # {} THEN least(laterFrames) ELSE least(Frames)]

Tup(time, lchan, ok) == [tn |-> time.tn, fn |-> time.fn, lchan |-> lchan, crc_ok |-> ok]

\* The access assignment has no CRC: its block is always good.
Aach(time) == [tup |-> Tup(time, "AACH", TRUE), pdus |-> <<Null>>]

\* The next timeslot comes in.
Receive(burst, good) ==
    /\ blocks = <<>>
    /\ now' = NextTime
    /\ \E o \in Offers(now'.tn) :
         /\ tx' = [tx EXCEPT ![now'.tn] = o.next]
         /\ lost' = lost \cup Missed(now'.tn, o.pdus, good /\ burst # "none")
         /\ LET data(lchan) == [tup |-> Tup(now', lchan, good), pdus |-> o.pdus]
                other == [tup |-> Tup(now', "UNKNOWN", good), pdus |-> <<Null>>]
            IN  blocks' = CASE burst = "none"  -> <<>>
                            [] burst = "norm1" -> <<Aach(now'), data("SCH_F")>>
                            [] burst = "norm2" -> <<Aach(now'), data("UNKNOWN"), other>>
    /\ UNCHANGED fragslots

NextSlot == \E burst \in {"none", "norm1", "norm2"}, good \in BOOLEAN : Receive(burst, good)

\* One call of upper_mac_prim_recv, and the head of the loop around it: a result
\* below 0 ends the block.
ParsePdu ==
    /\ blocks # <<>>
    /\ LET b == Head(blocks)
           p == Head(b.pdus)
       IN  /\ fragslots' = RxTmvUnitdataInd(fragslots, b.tup, p)
           /\ blocks' = IF MayFollow(b.tup, p) /\ Tail(b.pdus) # <<>>
                        THEN <<[b EXCEPT !.pdus = Tail(@)]>> \o Tail(blocks)
                        ELSE Tail(blocks)
    /\ UNCHANGED <<now, tx, lost>>

Init ==
    /\ fragslots = [s \in Slots |-> Cleared]
    /\ now \in [tn : Slots, fn : Frames]
    /\ blocks = <<>>
    /\ tx = [s \in Slots |-> [msg |-> 0, seq |-> 0]]
    /\ lost = {}

Next == NextSlot \/ ParsePdu
Spec == Init /\ [][Next]_vars

\* Time passes, what came in is parsed, and again and again a burst is received
\* in frame 18; not even that one needs to pass its CRC.
FairSpec ==
    /\ Spec /\ WF_vars(NextSlot) /\ WF_vars(ParsePdu)
    /\ SF_vars(Receive("norm1", FALSE) /\ now'.fn = 18)

-----------------------------------------------------------------------------
SlotType ==
    [active : BOOLEAN, age : Nat, num_frags : Nat, length : Nat, encryption : BOOLEAN,
     key : Nat, msgb : [alloc : BOOLEAN, l2h : Nat, len : Nat, ids : Seq(Nat \X Nat)]]

TypeOK == fragslots \in [Slots -> SlotType]

\* An unused slot is blank: neither an age, a key nor bits of an earlier message
\* are there for the next one to inherit (rx_resrc sets neither age nor, through
\* init_fragslot, what it expects to be zero).
UnusedIsBlank == \A s \in Slots : ~fragslots[s].active => fragslots[s] = Cleared

\* The counters of an active slot agree with its buffer, which is never overrun,
\* and its age is still allowed.
CountsMatchBuffer ==
    \A s \in Slots : LET f == fragslots[s] IN f.active =>
        /\ f.msgb.alloc
        /\ f.num_frags = Len(f.msgb.ids) /\ f.num_frags >= 1
        /\ f.msgb.len = f.msgb.l2h + f.length /\ f.msgb.len <= MsgbSize
        /\ f.age <= N203

\* A slot of an encrypted message has its key: rx_macend's test for one never
\* withholds a message, and no ciphertext is assembled.
KeyHeld == \A s \in Slots : fragslots[s].encryption => fragslots[s].key # 0

\* The bits a slot holds; or, when the end of its message is about to be parsed,
\* the message that rx_macend is going to have assembled.
Assembled(s) ==
    LET b == Head(blocks)
        p == Head(b.pdus)
        ending == /\ blocks # <<>> /\ b.tup.tn = s
                  /\ b.tup.crc_ok /\ b.tup.lchan \in PduChannels /\ p.kind = "end"
    IN  IF ending THEN Completed(Aged(fragslots, b.tup)[s], p).msgb.ids
        ELSE fragslots[s].msgb.ids

\* What is assembled begins with a first fragment, is in order, and is one message
\* unless both the end of the earlier one and the start of the later were missed
\* (rx_resrc, rx_macfrag, rx_macend; fragments carry no number).
MessagesNotMixed ==
    \A s \in Slots : LET ids == Assembled(s) IN
        /\ ids # <<>> => ids[1][2] = 1
        /\ \A i \in 1 .. Len(ids) - 1 :
             LET a == ids[i]
                 b == ids[i + 1]
             IN  \/ a[1] = b[1] /\ a[2] < b[2]
                 \/ a[1] < b[1] /\ <<s, a[1], "end">> \in lost /\ <<s, b[1], "start">> \in lost

\* No slot is occupied for ever by a message whose end never came.
SlotsAreFreed == \A s \in Slots : []<>(~fragslots[s].active)
=============================================================================
