--------------------------- MODULE UpperMac_proofs ---------------------------
(***************************************************************************)
(* What is proved of the upper MAC: of the fragslots, as FragmentReceiver  *)
(* models them between blocks and timeslots, and of the loop over the PDUs *)
(* of a block, as MacBlock models it bit for bit.                          *)
(***************************************************************************)
EXTENDS FragmentReceiver, MacBlock, SequenceTheorems, WellFoundedInduction, TLAPS

-----------------------------------------------------------------------------
(* The state of the fragslots is consistent for any number of timeslots,   *)
(* messages and fragments, any N203 and any buffer a first fragment fits   *)
(* in.  The invariant is SlotInv of every slot; for the steps it needs to  *)
(* know that what waits to be parsed is made of PDUs.  What is assembled   *)
(* is in order, whatever bursts are missed, because of OrderInv: it says   *)
(* how far the transmitter of a slot may be ahead of what the slot holds.  *)

PduType ==
    [kind : {"null", "start", "frag", "end"}, mode : Nat, key : Nat,
     hdr : {Hdr}, body : {Body}, id : Nat \X Nat]

TupType == [tn : Slots, fn : Frames, lchan : {"AACH", "SCH_F", "UNKNOWN"}, crc_ok : BOOLEAN]

BlockType == [tup : TupType, pdus : { ps \in Seq(PduType) : ps # <<>> }]

EnvType ==
    /\ now \in [tn : Slots, fn : Frames]
    /\ blocks \in Seq(BlockType)
    /\ tx \in [Slots -> [msg : Nat, seq : Nat]]

Counts(f) ==
    /\ f.msgb.alloc
    /\ f.num_frags = Len(f.msgb.ids) /\ f.num_frags >= 1
    /\ f.msgb.len = f.msgb.l2h + f.length /\ f.msgb.len <= MsgbSize
    /\ f.age <= N203

SlotInv(f) ==
    /\ f \in SlotType
    /\ ~f.active => f = Cleared
    /\ f.active => Counts(f)
    /\ f.encryption => f.key # 0

SlotsInv ==
    /\ fragslots \in [Slots -> SlotType]
    /\ \A s \in Slots : SlotInv(fragslots[s])

IInv == EnvType /\ SlotsInv

-----------------------------------------------------------------------------
(* One slot at a time.                                                     *)

LEMMA ClearedInv == SlotInv(Cleared)
<1>1. Cleared \in SlotType
      BY DEF Cleared, SlotType, NoMsgb
<1>.  QED  BY <1>1 DEF SlotInv, Cleared

LEMMA AppendInv ==
    ASSUME NEW f, SlotInv(f), f.active, NEW p \in PduType
    PROVE  SlotInv(AppendFragBits(f, p))
<1>.  USE FragmentReceiverAssumption, UpperMacAssumption
          DEF FragmentReceiverAssumption, UpperMacAssumption
<1>1. f \in SlotType /\ Counts(f) /\ (f.encryption => f.key # 0)
      BY DEF SlotInv
<1>2. p.body = Body /\ p.id \in Nat \X Nat
      BY DEF PduType
<1>3. CASE f.msgb.len + p.body > MsgbSize
      BY <1>3 DEF AppendFragBits
<1>4. CASE ~(f.msgb.len + p.body > MsgbSize)
  <2>.  DEFINE m == [alloc |-> f.msgb.alloc, l2h |-> f.msgb.l2h, len |-> f.msgb.len + Body,
                     ids |-> Append(f.msgb.ids, p.id)]
               g == [active |-> f.active, age |-> 0, num_frags |-> f.num_frags + 1,
                     length |-> f.length + Body, encryption |-> f.encryption,
                     key |-> f.key, msgb |-> m]
  <2>1. AppendFragBits(f, p) = g
        BY <1>1, <1>2, <1>4 DEF AppendFragBits, SlotType
  <2>2. /\ Append(f.msgb.ids, p.id) \in Seq(Nat \X Nat)
        /\ Len(Append(f.msgb.ids, p.id)) = Len(f.msgb.ids) + 1
        BY <1>1, <1>2, AppendProperties DEF SlotType
  <2>3. m \in [alloc : BOOLEAN, l2h : Nat, len : Nat, ids : Seq(Nat \X Nat)]
        BY <1>1, <2>2 DEF SlotType
  <2>4. /\ f.num_frags \in Nat /\ f.length \in Nat /\ f.encryption \in BOOLEAN
        /\ f.key \in Nat /\ f.active \in BOOLEAN
        /\ f.msgb.len \in Nat /\ f.msgb.l2h \in Nat
        BY <1>1 DEF SlotType
  <2>5. g \in SlotType
    <3>1. f.num_frags + 1 \in Nat /\ f.length + Body \in Nat
          BY <2>4
    <3>.  HIDE DEF m
    <3>.  QED  BY <2>3, <2>4, <3>1 DEF SlotType
  <2>6. Counts(g)
    <3>1. /\ f.msgb.alloc /\ f.num_frags = Len(f.msgb.ids) /\ f.num_frags >= 1
          /\ f.msgb.len = f.msgb.l2h + f.length
          BY <1>1 DEF Counts
    <3>2. f.msgb.len + Body <= MsgbSize
          BY <1>2, <1>4, <2>4
    <3>3. f.num_frags + 1 = Len(Append(f.msgb.ids, p.id)) /\ f.num_frags + 1 >= 1
          BY <2>2, <2>4, <3>1
    <3>4. f.msgb.len + Body = f.msgb.l2h + (f.length + Body) /\ 0 <= N203
          BY <2>4, <3>1
    <3>.  QED  BY <3>1, <3>2, <3>3, <3>4 DEF Counts
  <2>.  QED  BY <1>1, <2>1, <2>5, <2>6 DEF SlotInv
<1>.  QED  BY <1>3, <1>4

LEMMA ResrcInv ==
    ASSUME NEW f, SlotInv(f), NEW p \in PduType
    PROVE  SlotInv(RxResrc(f, p))
<1>.  USE FragmentReceiverAssumption, UpperMacAssumption
          DEF FragmentReceiverAssumption, UpperMacAssumption
<1>1. CASE ~Opens(p)
      BY <1>1 DEF RxResrc
<1>2. CASE Opens(p)
  <2>.  DEFINE k == IF p.mode > 0 THEN p.key ELSE 0
               m == [alloc |-> TRUE, l2h |-> p.hdr, len |-> p.hdr + p.body, ids |-> <<p.id>>]
               g == [active |-> TRUE, age |-> 0, num_frags |-> 1, length |-> p.body,
                     encryption |-> p.mode > 0, key |-> k, msgb |-> m]
  <2>1. (IF f.active THEN CleanupFragslot(f) ELSE f) = Cleared
        BY DEF SlotInv, CleanupFragslot
  <2>2. RxResrc(f, p) = g
    <3>1. InitFragslot(Cleared) = [Cleared EXCEPT !.msgb = FreshMsgb]
          BY Zenon DEF InitFragslot
    <3>2. InitFragslot(Cleared).age = 0 /\ InitFragslot(Cleared).msgb = FreshMsgb
          BY <3>1 DEF Cleared
    <3>3. InitFragslot(Cleared).msgb.alloc = TRUE
          BY <3>2 DEF FreshMsgb
    <3>4. RxResrc(f, p) = Opened(InitFragslot(Cleared), p)
          BY <1>2, <2>1, Zenon DEF RxResrc
    <3>5. Opened(InitFragslot(Cleared), p) = g
          BY <3>2, <3>3, Zenon DEF Opened
    <3>.  QED  BY <3>4, <3>5
  <2>3. p.hdr = Hdr /\ p.body = Body /\ p.id \in Nat \X Nat /\ p.mode \in Nat /\ p.key \in Nat
        BY DEF PduType
  <2>4. <<p.id>> \in Seq(Nat \X Nat) /\ Len(<<p.id>>) = 1
        BY <2>3
  <2>5. m \in [alloc : BOOLEAN, l2h : Nat, len : Nat, ids : Seq(Nat \X Nat)]
        BY <2>3, <2>4
  <2>6. g \in SlotType
        BY <2>3, <2>5 DEF SlotType
  <2>7. Counts(g)
        BY <2>3, <2>4 DEF Counts
  <2>8. g.encryption => g.key # 0
        BY <1>2, <2>3 DEF Opens
  <2>.  QED  BY <2>2, <2>6, <2>7, <2>8 DEF SlotInv
<1>.  QED  BY <1>1, <1>2

\* Ageing keeps every slot as it should be.
LEMMA AgeInv ==
    ASSUME NEW fs \in [Slots -> SlotType], \A s \in Slots : SlotInv(fs[s])
    PROVE  /\ AgeFragslots(fs) \in [Slots -> SlotType]
           /\ \A s \in Slots : SlotInv(AgeFragslots(fs)[s])
<1>.  USE UpperMacAssumption DEF UpperMacAssumption
<1>1. ASSUME NEW s \in Slots  PROVE  SlotInv(AgeFragslots(fs)[s])
  <2>.  DEFINE f == fs[s]
  <2>1. f \in SlotType /\ SlotInv(f)
        OBVIOUS
  <2>2. CASE ~f.active
        BY <2>1, <2>2 DEF AgeFragslots
  <2>3. CASE f.active /\ f.age + 1 > N203
        BY <2>3, ClearedInv DEF AgeFragslots, CleanupFragslot
  <2>4. CASE f.active /\ ~(f.age + 1 > N203)
    <3>.  DEFINE g == [active |-> f.active, age |-> f.age + 1, num_frags |-> f.num_frags,
                       length |-> f.length, encryption |-> f.encryption, key |-> f.key,
                       msgb |-> f.msgb]
    <3>1. AgeFragslots(fs)[s] = g
          BY <2>1, <2>4 DEF AgeFragslots, SlotType
    <3>2. g \in SlotType
          BY <2>1 DEF SlotType
    <3>3. Counts(g)
          BY <2>1, <2>4 DEF SlotInv, Counts, SlotType
    <3>4. g.encryption => g.key # 0
          BY <2>1 DEF SlotInv
    <3>.  QED  BY <2>4, <3>1, <3>2, <3>3, <3>4 DEF SlotInv
  <2>.  QED  BY <2>2, <2>3, <2>4
<1>2. ASSUME NEW s \in Slots  PROVE  AgeFragslots(fs)[s] \in SlotType
      BY <1>1 DEF SlotInv
<1>3. AgeFragslots(fs) = [s \in Slots |-> AgeFragslots(fs)[s]]
      BY DEF AgeFragslots
<1>.  QED  BY <1>1, <1>2, <1>3

\* So does any call of rx_tmv_unitdata_ind.
LEMMA UnitdataInv ==
    ASSUME NEW fs \in [Slots -> SlotType], \A s \in Slots : SlotInv(fs[s]),
           NEW tup \in TupType, NEW p \in PduType
    PROVE  /\ RxTmvUnitdataInd(fs, tup, p) \in [Slots -> SlotType]
           /\ \A s \in Slots : SlotInv(RxTmvUnitdataInd(fs, tup, p)[s])
<1>.  DEFINE aged == Aged(fs, tup)
             f == aged[tup.tn]
             h == CASE p.kind = "start" -> RxResrc(f, p)
                    [] p.kind = "frag"  -> RxMacFrag(f, p)
                    [] p.kind = "end"   -> RxMacEnd(f, p)
                    [] OTHER            -> f
<1>1. aged \in [Slots -> SlotType] /\ \A s \in Slots : SlotInv(aged[s])
      BY AgeInv DEF Aged
<1>2. tup.tn \in Slots
      BY DEF TupType
<1>3. SlotInv(f)
      BY <1>1, <1>2
<1>4. SlotInv(h)
  <2>1. SlotInv(RxResrc(f, p))
        BY <1>3, ResrcInv
  <2>2. SlotInv(RxMacFrag(f, p))
        BY <1>3, AppendInv DEF RxMacFrag
  <2>3. SlotInv(RxMacEnd(f, p))
        BY ClearedInv DEF RxMacEnd, CleanupFragslot
  <2>.  HIDE DEF f
  <2>.  QED  BY <1>3, <2>1, <2>2, <2>3
<1>5. h \in SlotType
      BY <1>4 DEF SlotInv
<1>6. \/ RxTmvUnitdataInd(fs, tup, p) = fs
      \/ RxTmvUnitdataInd(fs, tup, p) = aged
      \/ RxTmvUnitdataInd(fs, tup, p) = [aged EXCEPT ![tup.tn] = h]
      BY DEF RxTmvUnitdataInd
<1>.  HIDE DEF aged, h
<1>.  QED  BY <1>1, <1>2, <1>4, <1>5, <1>6

-----------------------------------------------------------------------------
(* What is sent, and when.                                                 *)

LEMMA SlotsLeast ==
    ASSUME NEW S, S \subseteq Nat, S # {}
    PROVE  (CHOOSE x \in S : \A y \in S : x <= y) \in S
<1>1. PICK x \in S : \A y \in S : ~ (<<y, x>> \in OpToRel(<, Nat))
      BY WFMin, NatLessThanWellFounded
<1>2. ASSUME NEW y \in S  PROVE  x <= y
  <2>1. <<y, x>> \in Nat \X Nat
        OBVIOUS
  <2>2. ~ (y < x)
        BY <1>1, <2>1, Zenon DEF OpToRel
  <2>.  QED  BY <2>2
<1>.  QED  BY <1>2

LEMMA NextTimeType ==
    ASSUME EnvType  PROVE  NextTime \in [tn : Slots, fn : Frames]
<1>.  USE FragmentReceiverAssumption, UpperMacAssumption
          DEF FragmentReceiverAssumption, UpperMacAssumption
<1>.  DEFINE least(S) == CHOOSE x \in S : \A y \in S : x <= y
             later == { s \in Slots : s > now.tn }
             laterFrames == { f \in Frames : f > now.fn }
<1>1. now \in [tn : Slots, fn : Frames]
      BY DEF EnvType
<1>2. later # {} => least(later) \in Slots
  <2>1. later \subseteq Nat
        OBVIOUS
  <2>.  QED  BY <2>1, SlotsLeast
<1>3. laterFrames # {} => least(laterFrames) \in Frames
  <2>1. laterFrames \subseteq Nat
        OBVIOUS
  <2>.  QED  BY <2>1, SlotsLeast
<1>4. least(Slots) \in Slots /\ least(Frames) \in Frames
      BY SlotsLeast
<1>.  QED  BY <1>1, <1>2, <1>3, <1>4 DEF NextTime

LEMMA OffersType ==
    ASSUME EnvType, NEW s \in Slots, NEW o \in Offers(s)
    PROVE  /\ o.pdus \in Seq(PduType) /\ o.pdus # <<>>
           /\ o.next \in [msg : Nat, seq : Nat]
<1>.  USE FragmentReceiverAssumption DEF FragmentReceiverAssumption
<1>.  DEFINE t == tx[s]
             m == t.msg
             i == t.seq + 1
             opened == [msg |-> m + 1, seq |-> 1]
             idle == [msg |-> m, seq |-> 0]
<1>1. t \in [msg : Nat, seq : Nat] /\ m \in Nat /\ i \in Nat
      BY DEF EnvType
<1>2. /\ opened \in [msg : Nat, seq : Nat] /\ idle \in [msg : Nat, seq : Nat]
      /\ [t EXCEPT !.seq = i] \in [msg : Nat, seq : Nat]
      BY <1>1
<1>3. Null \in PduType
      BY DEF Null, Pdu, PduType
<1>4. \A p \in Starts(s, t) : p \in PduType
      BY <1>1 DEF Starts, Pdu, PduType
<1>5. Pdu("end", m, i, 0, 0) \in PduType /\ Pdu("frag", m, i, 0, 0) \in PduType
      BY <1>1 DEF Pdu, PduType
<1>6. \/ o = [pdus |-> <<Null>>, next |-> t]
      \/ \E p \in Starts(s, t) : o = [pdus |-> <<p>>, next |-> opened]
      \/ o = [pdus |-> <<Pdu("end", m, i, 0, 0), Null>>, next |-> idle]
      \/ \E p \in Starts(s, t) :
            o = [pdus |-> <<Pdu("end", m, i, 0, 0), p>>, next |-> opened]
      \/ o = [pdus |-> <<Pdu("frag", m, i, 0, 0)>>, next |-> [t EXCEPT !.seq = i]]
      BY Zenon DEF Offers
<1>7. ASSUME NEW p \in PduType, NEW q \in PduType
      PROVE  /\ <<p>> \in Seq(PduType) /\ <<p>> # <<>>
             /\ <<q, p>> \in Seq(PduType) /\ <<q, p>> # <<>>
      OBVIOUS
<1>8. CASE o = [pdus |-> <<Null>>, next |-> t]
      BY <1>1, <1>3, <1>7, <1>8
<1>9. ASSUME NEW p \in Starts(s, t), o = [pdus |-> <<p>>, next |-> opened]
      PROVE  o.pdus \in Seq(PduType) /\ o.pdus # <<>> /\ o.next \in [msg : Nat, seq : Nat]
      BY <1>2, <1>4, <1>7, <1>9
<1>10. CASE o = [pdus |-> <<Pdu("end", m, i, 0, 0), Null>>, next |-> idle]
      BY <1>2, <1>3, <1>5, <1>7, <1>10
<1>11. ASSUME NEW p \in Starts(s, t),
              o = [pdus |-> <<Pdu("end", m, i, 0, 0), p>>, next |-> opened]
      PROVE  o.pdus \in Seq(PduType) /\ o.pdus # <<>> /\ o.next \in [msg : Nat, seq : Nat]
      BY <1>2, <1>4, <1>5, <1>7, <1>11
<1>12. CASE o = [pdus |-> <<Pdu("frag", m, i, 0, 0)>>, next |-> [t EXCEPT !.seq = i]]
      BY <1>2, <1>5, <1>7, <1>12
<1>.  QED  BY <1>6, <1>8, <1>9, <1>10, <1>11, <1>12

-----------------------------------------------------------------------------
LEMMA InitInv == Init => IInv
<1>.  USE FragmentReceiverAssumption DEF FragmentReceiverAssumption
<1>1. Init => EnvType
      BY DEF Init, EnvType
<1>2. Init => SlotsInv
      BY ClearedInv DEF Init, SlotsInv, SlotInv
<1>.  QED  BY <1>1, <1>2 DEF IInv

LEMMA ReceiveInv ==
    ASSUME IInv, NEW burst \in {"none", "norm1", "norm2"}, NEW good \in BOOLEAN,
           Receive(burst, good)
    PROVE  IInv'
<1>.  DEFINE data(o, lchan) == [tup |-> Tup(now', lchan, good), pdus |-> o.pdus]
             other == [tup |-> Tup(now', "UNKNOWN", good), pdus |-> <<Null>>]
<1>1. now' \in [tn : Slots, fn : Frames] /\ UNCHANGED fragslots
      BY NextTimeType DEF Receive, IInv
<1>2. PICK o \in Offers(now'.tn) :
         /\ tx' = [tx EXCEPT ![now'.tn] = o.next]
         /\ \/ blocks' = <<>>
            \/ blocks' = <<Aach(now'), data(o, "SCH_F")>>
            \/ blocks' = <<Aach(now'), data(o, "UNKNOWN"), other>>
      BY DEF Receive
<1>3. o.pdus \in Seq(PduType) /\ o.pdus # <<>> /\ o.next \in [msg : Nat, seq : Nat]
      BY <1>1, OffersType DEF IInv
<1>4. tx' \in [Slots -> [msg : Nat, seq : Nat]]
      BY <1>1, <1>2, <1>3 DEF IInv, EnvType
<1>5. <<Null>> \in Seq(PduType) /\ <<Null>> # <<>>
      BY DEF Null, Pdu, PduType
<1>6. Aach(now') \in BlockType /\ other \in BlockType
      BY <1>1, <1>5 DEF Aach, BlockType, TupType, Tup
<1>7. data(o, "SCH_F") \in BlockType /\ data(o, "UNKNOWN") \in BlockType
      BY <1>1, <1>3 DEF BlockType, TupType, Tup
<1>8. blocks' \in Seq(BlockType)
  <2>.  HIDE DEF data, other
  <2>1. ASSUME NEW a \in BlockType, NEW b \in BlockType, NEW c \in BlockType
        PROVE  <<>> \in Seq(BlockType) /\ <<a, b>> \in Seq(BlockType)
               /\ <<a, b, c>> \in Seq(BlockType)
        OBVIOUS
  <2>.  QED  BY <1>2, <1>6, <1>7, <2>1
<1>.  QED  BY <1>1, <1>4, <1>8 DEF IInv, EnvType, SlotsInv

LEMMA ParseInv ==
    ASSUME IInv, ParsePdu  PROVE  IInv'
<1>.  DEFINE b == Head(blocks)
             p == Head(b.pdus)
<1>1. blocks \in Seq(BlockType) /\ blocks # <<>>
      BY DEF IInv, EnvType, ParsePdu
<1>2. b \in BlockType /\ Tail(blocks) \in Seq(BlockType)
      BY <1>1, HeadTailProperties
<1>3. b.tup \in TupType /\ b.pdus \in Seq(PduType) /\ b.pdus # <<>>
      BY <1>2 DEF BlockType
<1>4. p \in PduType /\ Tail(b.pdus) \in Seq(PduType)
      BY <1>3, HeadTailProperties
<1>5. fragslots' = RxTmvUnitdataInd(fragslots, b.tup, p) /\ UNCHANGED <<now, tx>>
      BY DEF ParsePdu
<1>6. SlotsInv'
      BY <1>3, <1>4, <1>5, UnitdataInv DEF IInv, SlotsInv
<1>7. \/ blocks' = Tail(blocks)
      \/ Tail(b.pdus) # <<>> /\ blocks' = <<[b EXCEPT !.pdus = Tail(@)]>> \o Tail(blocks)
      BY DEF ParsePdu
<1>8. blocks' \in Seq(BlockType)
  <2>1. CASE blocks' = Tail(blocks)
        BY <1>2, <2>1
  <2>2. CASE Tail(b.pdus) # <<>> /\ blocks' = <<[b EXCEPT !.pdus = Tail(@)]>> \o Tail(blocks)
    <3>1. [b EXCEPT !.pdus = Tail(@)] \in BlockType
          BY <1>2, <1>4, <2>2 DEF BlockType
    <3>2. <<[b EXCEPT !.pdus = Tail(@)]>> \in Seq(BlockType)
          BY <3>1
    <3>.  QED  BY <1>2, <2>2, <3>2, ConcatProperties
  <2>.  QED  BY <1>7, <2>1, <2>2
<1>.  QED  BY <1>5, <1>6, <1>8 DEF IInv, EnvType

LEMMA Inductive == Spec => []IInv
<1>1. IInv /\ [Next]_vars => IInv'
  <2>.  SUFFICES ASSUME IInv, [Next]_vars PROVE IInv'
        OBVIOUS
  <2>1. CASE NextSlot
        BY <2>1, ReceiveInv DEF NextSlot
  <2>2. CASE ParsePdu
        BY <2>2, ParseInv
  <2>3. CASE UNCHANGED vars
        BY <2>3 DEF vars, IInv, EnvType, SlotsInv
  <2>.  QED  BY <2>1, <2>2, <2>3 DEF Next
<1>.  QED  BY <1>1, InitInv, PTL DEF Spec

-----------------------------------------------------------------------------
\* Type correctness of the fragslots.
THEOREM TypeCorrect == Spec => []TypeOK
<1>1. IInv => TypeOK
      BY DEF IInv, SlotsInv, TypeOK
<1>.  QED  BY <1>1, Inductive, PTL

\* Nothing of an earlier message is left in a slot that is not in use
\* (cleanup_fragslot, init_fragslot, age_fragslots).
THEOREM UnusedSlotsAreBlank == Spec => []UnusedIsBlank
<1>1. IInv => UnusedIsBlank
      BY DEF IInv, SlotsInv, SlotInv, UnusedIsBlank
<1>.  QED  BY <1>1, Inductive, PTL

\* The counters of a slot agree with its message buffer, which is never overrun
\* (append_frag_bits, rx_resrc).
THEOREM CountsAgree == Spec => []CountsMatchBuffer
<1>1. IInv => CountsMatchBuffer
      BY DEF IInv, SlotsInv, SlotInv, Counts, CountsMatchBuffer
<1>.  QED  BY <1>1, Inductive, PTL

\* The slot of an encrypted message has its key (rx_resrc, rx_macend).
THEOREM KeyIsHeld == Spec => []KeyHeld
<1>1. IInv => KeyHeld
      BY DEF IInv, SlotsInv, SlotInv, KeyHeld
<1>.  QED  BY <1>1, Inductive, PTL

-----------------------------------------------------------------------------
(* The order of what a slot holds.  A fragment b is put after a as it      *)
(* should be if it Joins it; ids is Behind the transmitter t if what t     *)
(* sends next will join what is held, or the end of that was missed.       *)

Joins(L, s, a, b) ==
    \/ a[1] = b[1] /\ a[2] < b[2]
    \/ a[1] < b[1] /\ <<s, a[1], "end">> \in L /\ <<s, b[1], "start">> \in L

InOrder(L, s, ids) ==
    /\ ids # <<>> => ids[1][2] = 1
    /\ \A i \in 1 .. Len(ids) - 1 : Joins(L, s, ids[i], ids[i + 1])

JoinsLast(L, s, ids, b) == ids # <<>> => Joins(L, s, ids[Len(ids)], b)

BehindAt(L, s, a, t) ==
    \/ t.seq > 0 /\ a[1] = t.msg /\ a[2] <= t.seq
    \/ t.seq > 0 /\ a[1] < t.msg /\ <<s, a[1], "end">> \in L /\ <<s, t.msg, "start">> \in L
    \/ t.seq = 0 /\ a[1] <= t.msg /\ <<s, a[1], "end">> \in L

Behind(L, s, ids, t) == ids # <<>> => BehindAt(L, s, ids[Len(ids)], t)

\* A start that was just sent, by a transmitter that is now at t.
StartsAt(p, t) == p.kind = "start" /\ p.id = <<t.msg, 1>> /\ t.seq = 1

\* What is left in the block of a slot that holds ids, and whose transmitter is at t.
Coming(L, s, ids, t, ps) ==
    \/ \E p \in PduType :
          /\ ps = <<p>> /\ StartsAt(p, t)
          /\ ~Opens(p) => Behind(L, s, ids, t)
    \/ \E p \in PduType :
          /\ ps = <<p>> /\ p.kind = "frag" /\ p.id = <<t.msg, t.seq>> /\ t.seq > 0
          /\ Behind(L, s, ids, t) /\ JoinsLast(L, s, ids, p.id)
    \/ \E p, q \in PduType :
          /\ ps = <<p, q>> /\ p.kind = "end" /\ JoinsLast(L, s, ids, p.id)
          /\ q = Null \/ StartsAt(q, t)

\* A block that does not touch the slots, but for their age.
Quiet(b) == ~b.tup.crc_ok \/ b.pdus = <<Null>>

OrderInv ==
    /\ \A j \in 1 .. Len(blocks) : blocks[j].tup.tn = now.tn
    /\ \A j, k \in 1 .. Len(blocks) : ~Quiet(blocks[j]) /\ ~Quiet(blocks[k]) => j = k
    /\ \A s \in Slots : InOrder(lost, s, fragslots[s].msgb.ids)
    /\ \A s \in Slots :
          s # now.tn \/ (\A j \in 1 .. Len(blocks) : Quiet(blocks[j]))
             => Behind(lost, s, fragslots[s].msgb.ids, tx[s])
    /\ \A j \in 1 .. Len(blocks) : ~Quiet(blocks[j]) =>
          /\ blocks[j].tup.lchan \in PduChannels
          /\ Coming(lost, now.tn, fragslots[now.tn].msgb.ids, tx[now.tn], blocks[j].pdus)

\* What is missed stays so.
LEMMA OrderKept ==
    ASSUME NEW L, NEW M, L \subseteq M, NEW s, NEW ids \in Seq(Nat \X Nat), NEW t,
           NEW b
    PROVE  /\ InOrder(L, s, ids) => InOrder(M, s, ids)
           /\ Behind(L, s, ids, t) => Behind(M, s, ids, t)
           /\ JoinsLast(L, s, ids, b) => JoinsLast(M, s, ids, b)
<1>1. \A a, c : Joins(L, s, a, c) => Joins(M, s, a, c)
      BY DEF Joins
<1>2. \A a : BehindAt(L, s, a, t) => BehindAt(M, s, a, t)
      BY DEF BehindAt
<1>.  QED  BY <1>1, <1>2 DEF InOrder, Behind, JoinsLast

\* A fragment that joins the last one keeps the order.
LEMMA OrderAppend ==
    ASSUME NEW L, NEW s, NEW ids \in Seq(Nat \X Nat), ids # <<>>, NEW b \in Nat \X Nat,
           InOrder(L, s, ids), JoinsLast(L, s, ids, b)
    PROVE  InOrder(L, s, Append(ids, b))
<1>.  DEFINE new == Append(ids, b)
<1>1. PICK n \in Nat : n = Len(ids)
      OBVIOUS
<1>2. /\ Len(new) = n + 1
      /\ \A i \in 1 .. n : new[i] = ids[i]
      /\ new[n + 1] = b
      BY <1>1, AppendProperties
<1>3. n >= 1
      BY <1>1, EmptySeq
<1>4. new[1] = ids[1] /\ ids[1][2] = 1
      BY <1>2, <1>3 DEF InOrder
<1>5. ASSUME NEW i \in 1 .. n  PROVE  Joins(L, s, new[i], new[i + 1])
  <2>1. CASE i = n
        BY <1>1, <1>2, <2>1 DEF JoinsLast
  <2>2. CASE i # n
    <3>1. i \in 1 .. n - 1 /\ i + 1 \in 1 .. n
          BY <2>2
    <3>2. Joins(L, s, ids[i], ids[i + 1])
          BY <1>1, <3>1 DEF InOrder
    <3>.  QED  BY <1>2, <3>1, <3>2
  <2>.  QED  BY <2>1, <2>2
<1>6. Len(new) - 1 = n
      BY <1>2
<1>.  HIDE DEF new
<1>7. InOrder(L, s, new)
      BY <1>4, <1>5, <1>6 DEF InOrder
<1>.  QED  BY <1>7 DEF new

\* What an order holds of one fragment, and of none.
LEMMA OrderShort ==
    ASSUME NEW L, NEW s, NEW t
    PROVE  /\ InOrder(L, s, <<>>) /\ Behind(L, s, <<>>, t)
           /\ \A b : JoinsLast(L, s, <<>>, b)
           /\ \A a \in Nat \X Nat : a[2] = 1 => InOrder(L, s, <<a>>)
<1>1. Len(<<>>) = 0
      OBVIOUS
<1>2. ASSUME NEW a \in Nat \X Nat  PROVE  Len(<<a>>) = 1 /\ <<a>>[1] = a
      OBVIOUS
<1>.  QED  BY <1>1, <1>2 DEF InOrder, Behind, JoinsLast

\* A slot is in use as long as it holds anything.
LEMMA ActiveHolds ==
    ASSUME NEW f, SlotInv(f)
    PROVE  /\ f.msgb.ids \in Seq(Nat \X Nat)
           /\ f.active <=> f.msgb.ids # <<>>
<1>1. f.msgb.ids \in Seq(Nat \X Nat)
      BY DEF SlotInv, SlotType
<1>2. f.active => f.msgb.ids # <<>>
      BY <1>1 DEF SlotInv, Counts
<1>3. ~f.active => f.msgb.ids = <<>>
      BY DEF SlotInv, Cleared, NoMsgb
<1>.  QED  BY <1>1, <1>2, <1>3

\* What the handlers leave in a slot.
LEMMA HandlersHold ==
    ASSUME NEW f, SlotInv(f), NEW p \in PduType
    PROVE  /\ RxResrc(f, p).msgb.ids = IF Opens(p) THEN <<p.id>> ELSE f.msgb.ids
           /\ RxMacFrag(f, p) = Completed(f, p)
           /\ \/ Completed(f, p).msgb.ids = f.msgb.ids
              \/ f.msgb.ids # <<>> /\ Completed(f, p).msgb.ids = Append(f.msgb.ids, p.id)
           /\ RxMacEnd(f, p).msgb.ids = <<>>
<1>1. RxResrc(f, p).msgb.ids = IF Opens(p) THEN <<p.id>> ELSE f.msgb.ids
      BY DEF RxResrc, Opened
<1>2. RxMacFrag(f, p) = Completed(f, p)
      BY DEF RxMacFrag, Completed
<1>3. RxMacEnd(f, p).msgb.ids = <<>>
      BY DEF RxMacEnd, CleanupFragslot, Cleared, NoMsgb
<1>4. \/ AppendFragBits(f, p).msgb.ids = f.msgb.ids
      \/ AppendFragBits(f, p).msgb.ids = Append(f.msgb.ids, p.id)
      BY DEF AppendFragBits, SlotInv, SlotType
<1>5. \/ Completed(f, p).msgb.ids = f.msgb.ids
      \/ f.msgb.ids # <<>> /\ Completed(f, p).msgb.ids = Append(f.msgb.ids, p.id)
      BY <1>4, ActiveHolds DEF Completed
<1>.  QED  BY <1>1, <1>2, <1>3, <1>5

LEMMA AgedHolds ==
    ASSUME NEW fs \in [Slots -> SlotType], \A s \in Slots : SlotInv(fs[s]), NEW tup,
           NEW s \in Slots
    PROVE  /\ SlotInv(Aged(fs, tup)[s])
           /\ Aged(fs, tup)[s].msgb.ids \in {fs[s].msgb.ids, <<>>}
<1>1. AgeFragslots(fs)[s].msgb.ids \in {fs[s].msgb.ids, <<>>}
  <2>1. fs[s] \in SlotType
        OBVIOUS
  <2>.  QED  BY <2>1 DEF AgeFragslots, CleanupFragslot, Cleared, NoMsgb, SlotType
<1>.  QED  BY <1>1, AgeInv DEF Aged

\* What a call of rx_tmv_unitdata_ind leaves in the slots.
LEMMA UnitdataHolds ==
    ASSUME NEW fs \in [Slots -> SlotType], \A s \in Slots : SlotInv(fs[s]),
           NEW tup \in TupType, NEW p \in PduType
    PROVE  LET f == Aged(fs, tup)[tup.tn]
               new == RxTmvUnitdataInd(fs, tup, p)
           IN  /\ \A s \in Slots : s # tup.tn => new[s].msgb.ids \in {fs[s].msgb.ids, <<>>}
               /\ ~tup.crc_ok \/ p.kind = "null" => new[tup.tn].msgb.ids \in {fs[tup.tn].msgb.ids, <<>>}
               /\ tup.crc_ok /\ tup.lchan \in PduChannels =>
                    /\ p.kind = "start" => new[tup.tn] = RxResrc(f, p)
                    /\ p.kind = "frag"  => new[tup.tn] = RxMacFrag(f, p)
                    /\ p.kind = "end"   => new[tup.tn] = RxMacEnd(f, p)
<1>.  DEFINE aged == Aged(fs, tup)
             f == aged[tup.tn]
             h == CASE p.kind = "start" -> RxResrc(f, p)
                    [] p.kind = "frag"  -> RxMacFrag(f, p)
                    [] p.kind = "end"   -> RxMacEnd(f, p)
                    [] OTHER            -> f
             new == RxTmvUnitdataInd(fs, tup, p)
<1>1. tup.tn \in Slots
      BY DEF TupType
<1>2. aged \in [Slots -> SlotType] /\ \A s \in Slots : aged[s].msgb.ids \in {fs[s].msgb.ids, <<>>}
      BY AgeInv, AgedHolds DEF Aged
<1>3. /\ ~tup.crc_ok => new = fs
      /\ tup.crc_ok /\ tup.lchan \notin PduChannels => new = aged
      /\ tup.crc_ok /\ tup.lchan \in PduChannels => new = [aged EXCEPT ![tup.tn] = h]
      BY DEF RxTmvUnitdataInd
<1>4. /\ p.kind = "start" => h = RxResrc(f, p)
      /\ p.kind = "frag"  => h = RxMacFrag(f, p)
      /\ p.kind = "end"   => h = RxMacEnd(f, p)
      /\ p.kind = "null"  => h = f
  <2>.  HIDE DEF f
  <2>.  QED  OBVIOUS
<1>.  HIDE DEF aged, h, new
<1>5. \A s \in Slots : s # tup.tn => new[s].msgb.ids \in {fs[s].msgb.ids, <<>>}
      BY <1>1, <1>2, <1>3
<1>6. ~tup.crc_ok \/ p.kind = "null" => new[tup.tn].msgb.ids \in {fs[tup.tn].msgb.ids, <<>>}
      BY <1>1, <1>2, <1>3, <1>4
<1>7. tup.crc_ok /\ tup.lchan \in PduChannels => new[tup.tn] = h
      BY <1>1, <1>2, <1>3
<1>.  QED  BY <1>4, <1>5, <1>6, <1>7 DEF aged, new

-----------------------------------------------------------------------------
(* What is sent comes in order.                                            *)

\* What a transmitter sends next joins what is behind it; and what is behind it
\* stays so if what is missed is recorded.
LEMMA BehindSteps ==
    ASSUME NEW L, NEW M, L \subseteq M, NEW s, NEW a \in Nat \X Nat,
           NEW m \in Nat, NEW n \in Nat, BehindAt(L, s, a, [msg |-> m, seq |-> n])
    PROVE  /\ n > 0 => /\ Joins(M, s, a, <<m, n + 1>>)
                       /\ BehindAt(M, s, a, [msg |-> m, seq |-> n + 1])
           /\ n > 0 /\ <<s, m, "end">> \in M => BehindAt(M, s, a, [msg |-> m, seq |-> 0])
           /\ /\ <<s, m + 1, "start">> \in M
              /\ n = 0 \/ <<s, m, "end">> \in M
              => BehindAt(M, s, a, [msg |-> m + 1, seq |-> 1])
<1>.  DEFINE u == a[1]
             v == a[2]
<1>1. u \in Nat /\ v \in Nat
      OBVIOUS
<1>2. \/ n > 0 /\ u = m /\ v <= n
      \/ n > 0 /\ u < m /\ <<s, u, "end">> \in M /\ <<s, m, "start">> \in M
      \/ n = 0 /\ u <= m /\ <<s, u, "end">> \in M
      BY DEF BehindAt
<1>.  HIDE DEF u, v
<1>3. n > 0 => \/ u = m /\ v < n + 1
               \/ u < m /\ <<s, u, "end">> \in M /\ <<s, m, "start">> \in M
      BY <1>1, <1>2
<1>4. n > 0 => \/ u = m /\ v <= n + 1
               \/ u < m /\ <<s, u, "end">> \in M /\ <<s, m, "start">> \in M
      BY <1>1, <1>3
<1>5. n > 0 /\ <<s, m, "end">> \in M => u <= m /\ <<s, u, "end">> \in M
      BY <1>1, <1>2
<1>6. n = 0 \/ <<s, m, "end">> \in M => u < m + 1 /\ <<s, u, "end">> \in M
      BY <1>1, <1>2
<1>7. n > 0 => Joins(M, s, a, <<m, n + 1>>)
      BY <1>3 DEF Joins, u, v
<1>8. n > 0 => BehindAt(M, s, a, [msg |-> m, seq |-> n + 1])
  <2>1. n > 0 => n + 1 > 0
        OBVIOUS
  <2>.  QED  BY <1>4, <2>1 DEF BehindAt, u, v
<1>9. n > 0 /\ <<s, m, "end">> \in M => BehindAt(M, s, a, [msg |-> m, seq |-> 0])
      BY <1>5 DEF BehindAt, u, v
<1>10. /\ <<s, m + 1, "start">> \in M
       /\ n = 0 \/ <<s, m, "end">> \in M
       => BehindAt(M, s, a, [msg |-> m + 1, seq |-> 1])
      BY <1>6 DEF BehindAt, u, v
<1>.  QED  BY <1>7, <1>8, <1>9, <1>10

\* The same of all that a slot holds.
LEMMA BehindAll ==
    ASSUME NEW L, NEW M, L \subseteq M, NEW s, NEW ids \in Seq(Nat \X Nat),
           NEW m \in Nat, NEW n \in Nat, Behind(L, s, ids, [msg |-> m, seq |-> n])
    PROVE  /\ n > 0 => /\ JoinsLast(M, s, ids, <<m, n + 1>>)
                       /\ Behind(M, s, ids, [msg |-> m, seq |-> n + 1])
           /\ n > 0 /\ <<s, m, "end">> \in M => Behind(M, s, ids, [msg |-> m, seq |-> 0])
           /\ /\ <<s, m + 1, "start">> \in M
              /\ n = 0 \/ <<s, m, "end">> \in M
              => Behind(M, s, ids, [msg |-> m + 1, seq |-> 1])
<1>1. CASE ids = <<>>
      BY <1>1 DEF Behind, JoinsLast
<1>2. CASE ids # <<>>
  <2>.  DEFINE a == ids[Len(ids)]
  <2>1. a \in Nat \X Nat
    <3>1. Len(ids) \in 1 .. Len(ids)
          BY <1>2, EmptySeq, LenProperties
    <3>.  QED  BY <3>1, ElementOfSeq
  <2>2. BehindAt(L, s, a, [msg |-> m, seq |-> n])
        BY <1>2 DEF Behind
  <2>.  HIDE DEF a
  <2>3. /\ n > 0 => /\ Joins(M, s, a, <<m, n + 1>>)
                    /\ BehindAt(M, s, a, [msg |-> m, seq |-> n + 1])
        /\ n > 0 /\ <<s, m, "end">> \in M => BehindAt(M, s, a, [msg |-> m, seq |-> 0])
        /\ /\ <<s, m + 1, "start">> \in M
           /\ n = 0 \/ <<s, m, "end">> \in M
           => BehindAt(M, s, a, [msg |-> m + 1, seq |-> 1])
        BY <2>1, <2>2, BehindSteps
  <2>.  QED  BY <1>2, <2>3, Zenon DEF Behind, JoinsLast, a
<1>.  QED  BY <1>1, <1>2

\* What is offered is in order if it is taken, and if it is not its start and its end
\* are recorded as missed.
LEMMA OffersOrder ==
    ASSUME EnvType, NEW s \in Slots, NEW o \in Offers(s), NEW ids \in Seq(Nat \X Nat),
           Behind(lost, s, ids, tx[s]), NEW heard \in BOOLEAN,
           NEW M, M = lost \cup Missed(s, o.pdus, heard)
    PROVE  /\ ~heard => Behind(M, s, ids, o.next)
           /\ heard => \/ o.pdus = <<Null>> /\ Behind(M, s, ids, o.next)
                       \/ Coming(M, s, ids, o.next, o.pdus)
<1>1. PICK m \in Nat, n \in Nat : tx[s] = [msg |-> m, seq |-> n]
  <2>1. tx[s] \in [msg : Nat, seq : Nat]
        BY DEF EnvType
  <2>.  QED  BY <2>1
<1>2. lost \subseteq M
      OBVIOUS
<1>.  DEFINE i == n + 1
             opened == [msg |-> m + 1, seq |-> 1]
             idle == [msg |-> m, seq |-> 0]
             more == [msg |-> m, seq |-> i]
             end == Pdu("end", m, i, 0, 0)
             frag == Pdu("frag", m, i, 0, 0)
<1>3. /\ n > 0 => JoinsLast(M, s, ids, <<m, i>>) /\ Behind(M, s, ids, more)
      /\ n > 0 /\ <<s, m, "end">> \in M => Behind(M, s, ids, idle)
      /\ <<s, m + 1, "start">> \in M /\ (n = 0 \/ <<s, m, "end">> \in M)
            => Behind(M, s, ids, opened)
  <2>1. Behind(lost, s, ids, [msg |-> m, seq |-> n])
        BY <1>1
  <2>2. /\ n > 0 => /\ JoinsLast(M, s, ids, <<m, n + 1>>)
                    /\ Behind(M, s, ids, [msg |-> m, seq |-> n + 1])
        /\ n > 0 /\ <<s, m, "end">> \in M => Behind(M, s, ids, [msg |-> m, seq |-> 0])
        /\ /\ <<s, m + 1, "start">> \in M
           /\ n = 0 \/ <<s, m, "end">> \in M
           => Behind(M, s, ids, [msg |-> m + 1, seq |-> 1])
        BY ONLY <1>2, <2>1, BehindAll, m \in Nat, n \in Nat, ids \in Seq(Nat \X Nat)
  <2>.  QED  BY <2>2
<1>4. \A p \in Starts(s, tx[s]) :
         /\ p \in PduType /\ p.kind = "start" /\ p.id = <<m + 1, 1>>
      BY <1>1, FragmentReceiverAssumption DEF FragmentReceiverAssumption, Starts, Pdu, PduType
<1>5. /\ end \in PduType /\ end.kind = "end" /\ end.id = <<m, i>>
      /\ frag \in PduType /\ frag.kind = "frag" /\ frag.id = <<m, i>>
      /\ Null \in PduType /\ Null.kind = "null"
      BY <1>1, FragmentReceiverAssumption DEF FragmentReceiverAssumption, Null, Pdu, PduType
<1>6. \/ o = [pdus |-> <<Null>>, next |-> tx[s]]
      \/ n = 0 /\ \E p \in Starts(s, tx[s]) : o = [pdus |-> <<p>>, next |-> opened]
      \/ n # 0 /\ o = [pdus |-> <<end, Null>>, next |-> idle]
      \/ n # 0 /\ \E p \in Starts(s, tx[s]) : o = [pdus |-> <<end, p>>, next |-> opened]
      \/ n # 0 /\ o = [pdus |-> <<frag>>, next |-> more]
      BY <1>1 DEF Offers
<1>.  HIDE DEF i, opened, idle, more, end, frag
<1>7. ASSUME NEW k \in DOMAIN o.pdus
      PROVE  /\ o.pdus[k].kind = "start" /\ ~(heard /\ Opens(o.pdus[k]))
                   => <<s, o.pdus[k].id[1], "start">> \in M
             /\ o.pdus[k].kind = "end" /\ ~heard => <<s, o.pdus[k].id[1], "end">> \in M
  <2>1. o.pdus[k] \in Range(o.pdus)
        BY DEF Range
  <2>.  QED  BY <2>1, Zenon DEF Missed
<1>8. CASE o = [pdus |-> <<Null>>, next |-> tx[s]]
      BY <1>2, <1>8, OrderKept
<1>9. CASE n = 0 /\ \E p \in Starts(s, tx[s]) : o = [pdus |-> <<p>>, next |-> opened]
  <2>1. PICK p \in Starts(s, tx[s]) : o = [pdus |-> <<p>>, next |-> opened]
        BY <1>9
  <2>2. p \in PduType /\ p.kind = "start" /\ p.id = <<m + 1, 1>> /\ p.id[1] = m + 1
        BY <1>4
  <2>3. 1 \in DOMAIN o.pdus /\ o.pdus[1] = p
        BY <2>1
  <2>4. ~(heard /\ Opens(p)) => <<s, m + 1, "start">> \in M
        BY <1>7, <2>2, <2>3
  <2>5. ~(heard /\ Opens(p)) => Behind(M, s, ids, opened)
        BY <1>3, <1>9, <2>4
  <2>6. StartsAt(p, opened)
        BY <2>2 DEF StartsAt, opened
  <2>7. heard => Coming(M, s, ids, opened, <<p>>)
        BY <2>2, <2>5, <2>6 DEF Coming
  <2>.  QED  BY <2>1, <2>5, <2>7
<1>10. CASE n # 0 /\ o = [pdus |-> <<end, Null>>, next |-> idle]
  <2>1. 1 \in DOMAIN o.pdus /\ o.pdus[1] = end /\ end.id[1] = m
        BY <1>5, <1>10
  <2>2. ~heard => <<s, m, "end">> \in M
        BY <1>5, <1>7, <2>1
  <2>3. n > 0
        BY <1>10
  <2>4. ~heard => Behind(M, s, ids, idle)
        BY <1>3, <2>2, <2>3, Zenon
  <2>5. JoinsLast(M, s, ids, end.id)
        BY <1>3, <1>5, <2>3
  <2>6. Coming(M, s, ids, idle, <<end, Null>>)
        BY <1>5, <2>5, Zenon DEF Coming
  <2>.  QED  BY <1>10, <2>4, <2>6
<1>11. CASE n # 0 /\ \E p \in Starts(s, tx[s]) : o = [pdus |-> <<end, p>>, next |-> opened]
  <2>1. PICK p \in Starts(s, tx[s]) : o = [pdus |-> <<end, p>>, next |-> opened]
        BY <1>11
  <2>2. p \in PduType /\ p.kind = "start" /\ p.id = <<m + 1, 1>> /\ p.id[1] = m + 1
        BY <1>4
  <2>3. /\ 1 \in DOMAIN o.pdus /\ o.pdus[1] = end /\ end.id[1] = m
        /\ 2 \in DOMAIN o.pdus /\ o.pdus[2] = p
        BY <1>5, <2>1
  <2>4. ~heard => <<s, m, "end">> \in M /\ <<s, m + 1, "start">> \in M
        BY <1>5, <1>7, <2>2, <2>3
  <2>5. ~heard => Behind(M, s, ids, opened)
        BY <1>3, <2>4
  <2>6. StartsAt(p, opened)
        BY <2>2 DEF StartsAt, opened
  <2>7. n > 0
        BY <1>11
  <2>8. JoinsLast(M, s, ids, end.id)
        BY <1>3, <1>5, <2>7
  <2>9. Coming(M, s, ids, opened, <<end, p>>)
        BY <1>5, <2>2, <2>6, <2>8, Zenon DEF Coming
  <2>.  QED  BY <2>1, <2>5, <2>9
<1>12. CASE n # 0 /\ o = [pdus |-> <<frag>>, next |-> more]
  <2>1. Behind(M, s, ids, more) /\ JoinsLast(M, s, ids, frag.id)
        BY <1>3, <1>5, <1>12
  <2>2. frag.id = <<more.msg, more.seq>> /\ more.seq > 0
        BY <1>5 DEF more, i
  <2>3. Coming(M, s, ids, more, <<frag>>)
        BY <1>5, <2>1, <2>2 DEF Coming
  <2>.  QED  BY <1>12, <2>1, <2>3
<1>.  QED  BY <1>6, <1>8, <1>9, <1>10, <1>11, <1>12

-----------------------------------------------------------------------------
LEMMA OrderInit == Init => OrderInv
<1>.  SUFFICES ASSUME Init PROVE OrderInv
      OBVIOUS
<1>1. /\ Len(blocks) = 0
      /\ \A s \in Slots : fragslots[s].msgb.ids = <<>>
      BY DEF Init, Cleared, NoMsgb
<1>2. \A s \in Slots : /\ InOrder(lost, s, fragslots[s].msgb.ids)
                       /\ Behind(lost, s, fragslots[s].msgb.ids, tx[s])
      BY <1>1, OrderShort
<1>.  QED  BY <1>1, <1>2 DEF OrderInv

LEMMA OrderReceive ==
    ASSUME IInv, OrderInv, NEW burst \in {"none", "norm1", "norm2"}, NEW good \in BOOLEAN,
           Receive(burst, good)
    PROVE  OrderInv'
<1>.  DEFINE s == now'.tn
             heard == good /\ burst # "none"
             data(o, lchan) == [tup |-> Tup(now', lchan, good), pdus |-> o.pdus]
             other == [tup |-> Tup(now', "UNKNOWN", good), pdus |-> <<Null>>]
             Ids(x) == fragslots[x].msgb.ids
<1>1. /\ now' \in [tn : Slots, fn : Frames] /\ s \in Slots /\ UNCHANGED fragslots
      /\ blocks = <<>>
      BY NextTimeType DEF Receive, IInv
<1>2. PICK o \in Offers(s) :
         /\ tx' = [tx EXCEPT ![s] = o.next]
         /\ lost' = lost \cup Missed(s, o.pdus, heard)
         /\ \/ burst = "none" /\ blocks' = <<>>
            \/ burst = "norm1" /\ blocks' = <<Aach(now'), data(o, "SCH_F")>>
            \/ burst = "norm2" /\ blocks' = <<Aach(now'), data(o, "UNKNOWN"), other>>
      BY DEF Receive
<1>3. \A x \in Slots : /\ Ids(x) \in Seq(Nat \X Nat)
                       /\ InOrder(lost, x, Ids(x)) /\ Behind(lost, x, Ids(x), tx[x])
  <2>1. \A x \in Slots : SlotInv(fragslots[x])
        BY DEF IInv, SlotsInv
  <2>2. \A j \in 1 .. Len(blocks) : Quiet(blocks[j])
        BY <1>1
  <2>.  QED  BY <2>1, <2>2, ActiveHolds DEF OrderInv
<1>4. heard \in BOOLEAN
      OBVIOUS
<1>.  HIDE DEF heard
<1>5. /\ ~heard => Behind(lost', s, Ids(s), o.next)
      /\ heard => \/ o.pdus = <<Null>> /\ Behind(lost', s, Ids(s), o.next)
                  \/ Coming(lost', s, Ids(s), o.next, o.pdus)
      BY <1>1, <1>2, <1>3, <1>4, OffersOrder DEF IInv
<1>6. tx'[s] = o.next /\ \A x \in Slots : x # s => tx'[x] = tx[x]
      BY <1>1, <1>2 DEF IInv, EnvType
<1>7. \A x \in Slots : InOrder(lost', x, Ids(x))
      BY <1>2, <1>3, OrderKept
<1>8. ASSUME NEW x \in Slots, x # s  PROVE  Behind(lost', x, Ids(x), tx'[x])
  <2>1. tx'[x] = tx[x] /\ lost \subseteq lost'
        BY <1>2, <1>6, <1>8
  <2>2. Behind(lost', x, Ids(x), tx[x])
        BY <1>3, <2>1, OrderKept, Zenon
  <2>.  QED  BY <2>1, <2>2
\* At most the second block is not quiet, and it is the one of the data.
<1>9. /\ \A j \in 1 .. Len(blocks') : blocks'[j].tup.tn = s
      /\ \A j \in 1 .. Len(blocks') : ~Quiet(blocks'[j]) =>
            /\ j = 2 /\ heard /\ o.pdus # <<Null>> /\ blocks'[j].pdus = o.pdus
            /\ blocks'[j].tup.lchan \in PduChannels
      /\ (\A j \in 1 .. Len(blocks') : Quiet(blocks'[j])) => ~heard \/ o.pdus = <<Null>>
  <2>1. CASE burst = "none" /\ blocks' = <<>>
        BY <2>1 DEF heard
  <2>2. ASSUME NEW c \in {"SCH_F", "UNKNOWN"}
        PROVE  /\ data(o, c).tup.tn = s /\ data(o, c).pdus = o.pdus
               /\ data(o, c).tup.lchan \in PduChannels
               /\ Quiet(data(o, c)) <=> ~good \/ o.pdus = <<Null>>
        BY DEF Tup, Quiet, PduChannels
  <2>3. /\ Aach(now').tup.tn = s /\ Quiet(Aach(now'))
        /\ other.tup.tn = s /\ Quiet(other)
        BY DEF Aach, Tup, Quiet
  <2>.  HIDE DEF data, other
  <2>4. CASE burst = "norm1" /\ blocks' = <<Aach(now'), data(o, "SCH_F")>>
    <3>1. Len(blocks') = 2 /\ blocks'[1] = Aach(now') /\ blocks'[2] = data(o, "SCH_F")
          BY <2>4
    <3>2. \A j \in 1 .. 2 : j = 1 \/ j = 2
          OBVIOUS
    <3>.  QED  BY <2>2, <2>3, <2>4, <3>1, <3>2 DEF heard
  <2>5. CASE burst = "norm2" /\ blocks' = <<Aach(now'), data(o, "UNKNOWN"), other>>
    <3>1. /\ Len(blocks') = 3 /\ blocks'[1] = Aach(now') /\ blocks'[2] = data(o, "UNKNOWN")
          /\ blocks'[3] = other
          BY <2>5
    <3>2. \A j \in 1 .. 3 : j = 1 \/ j = 2 \/ j = 3
          OBVIOUS
    <3>.  QED  BY <2>2, <2>3, <2>5, <3>1, <3>2 DEF heard
  <2>.  QED  BY <1>2, <2>1, <2>4, <2>5
<1>10. fragslots' = fragslots
      BY <1>1
<1>11. \A x \in Slots : x # s \/ (\A j \in 1 .. Len(blocks') : Quiet(blocks'[j]))
         => Behind(lost', x, Ids(x), tx'[x])
  <2>1. (\A j \in 1 .. Len(blocks') : Quiet(blocks'[j])) => Behind(lost', s, Ids(s), tx'[s])
    <3>1. Behind(lost', s, Ids(s), o.next) => Behind(lost', s, Ids(s), tx'[s])
          BY <1>6
    <3>2. ASSUME \A j \in 1 .. Len(blocks') : Quiet(blocks'[j])
          PROVE  Behind(lost', s, Ids(s), o.next)
      <4>1. ~heard \/ o.pdus = <<Null>>
            BY <1>9, <3>2, Zenon
      <4>2. Null.kind = "null" /\ Len(<<Null>>) = 1 /\ <<Null>>[1] = Null
            BY DEF Null, Pdu
      <4>3. ~(o.pdus = <<Null>> /\ Coming(lost', s, Ids(s), o.next, o.pdus))
            BY <4>2 DEF Coming, StartsAt
      <4>.  QED  BY <1>5, <4>1, <4>3, Zenon
    <3>.  QED  BY <3>1, <3>2
  <2>.  QED  BY <1>8, <2>1
<1>12. \A j \in 1 .. Len(blocks') : ~Quiet(blocks'[j]) =>
         /\ blocks'[j].tup.lchan \in PduChannels
         /\ Coming(lost', s, Ids(s), tx'[s], blocks'[j].pdus)
      BY <1>5, <1>6, <1>9
<1>13. \A j, k \in 1 .. Len(blocks') : ~Quiet(blocks'[j]) /\ ~Quiet(blocks'[k]) => j = k
      BY <1>9
<1>14. \A j \in 1 .. Len(blocks') : blocks'[j].tup.tn = s
      BY <1>9
<1>.  QED  BY <1>7, <1>10, <1>11, <1>12, <1>13, <1>14, Zenon DEF OrderInv, Quiet

\* Fewer fragments behind what comes are in order too.
LEMMA FewerHeld ==
    ASSUME NEW L, NEW s, NEW ids, NEW new \in {ids, <<>>}, NEW t, NEW ps
    PROVE  /\ InOrder(L, s, ids) => InOrder(L, s, new)
           /\ Behind(L, s, ids, t) => Behind(L, s, new, t)
           /\ Coming(L, s, ids, t, ps) => Coming(L, s, new, t, ps)
<1>1. CASE new = ids
      BY <1>1
<1>2. CASE new = <<>>
  <2>1. /\ InOrder(L, s, <<>>) /\ Behind(L, s, <<>>, t)
        /\ \A b : JoinsLast(L, s, <<>>, b)
        BY OrderShort
  <2>2. Coming(L, s, ids, t, ps) => Coming(L, s, <<>>, t, ps)
        BY <2>1, Zenon DEF Coming
  <2>.  QED  BY <1>2, <2>1, <2>2
<1>.  QED  BY <1>1, <1>2

\* The head of what is parsed.
LEMMA ParseFacts ==
    ASSUME IInv, OrderInv, ParsePdu,
           NEW b, b = Head(blocks), NEW p, p = Head(b.pdus)
    PROVE  /\ b \in BlockType /\ p \in PduType /\ b.tup \in TupType
           /\ Len(blocks) \in Nat /\ Len(blocks) >= 1 /\ b = blocks[1] /\ b.tup.tn = now.tn
           /\ now.tn \in Slots /\ UNCHANGED <<now, tx, lost>>
           /\ fragslots' = RxTmvUnitdataInd(fragslots, b.tup, p)
           /\ ~MayFollow(b.tup, p) \/ Tail(b.pdus) = <<>> =>
                 /\ Len(blocks') = Len(blocks) - 1
                 /\ \A j \in 1 .. Len(blocks') : blocks'[j] = blocks[j + 1]
           /\ MayFollow(b.tup, p) /\ Tail(b.pdus) # <<>> =>
                 /\ Len(blocks') = Len(blocks)
                 /\ blocks'[1] = [b EXCEPT !.pdus = Tail(b.pdus)]
                 /\ \A j \in 2 .. Len(blocks') : blocks'[j] = blocks[j]
<1>1. blocks \in Seq(BlockType) /\ blocks # <<>> /\ now.tn \in Slots
      BY DEF IInv, EnvType, ParsePdu
<1>2. PICK n \in Nat : n = Len(blocks)
      BY <1>1
<1>3. /\ n >= 1 /\ b = blocks[1] /\ b \in BlockType
      /\ Tail(blocks) \in Seq(BlockType) /\ Len(Tail(blocks)) = n - 1
      /\ \A j \in 1 .. n - 1 : Tail(blocks)[j] = blocks[j + 1]
  <2>1. n # 0
        BY <1>1, <1>2, EmptySeq
  <2>2. /\ Tail(blocks) \in Seq(BlockType) /\ Len(Tail(blocks)) = Len(blocks) - 1
        /\ \A j \in 1 .. Len(Tail(blocks)) : Tail(blocks)[j] = blocks[j + 1]
        BY <1>1, HeadTailProperties
  <2>3. 1 \in 1 .. Len(blocks) /\ blocks[1] \in BlockType
        BY <1>1, <1>2, <2>1
  <2>.  QED  BY <1>1, <1>2, <2>1, <2>2, <2>3
<1>4. b.tup \in TupType /\ b.pdus \in Seq(PduType) /\ b.pdus # <<>>
      BY <1>3 DEF BlockType
<1>5. p \in PduType /\ Tail(b.pdus) \in Seq(PduType)
      BY <1>4, HeadTailProperties
<1>6. b.tup.tn = now.tn
      BY <1>2, <1>3 DEF OrderInv
<1>7. /\ fragslots' = RxTmvUnitdataInd(fragslots, b.tup, p)
      /\ UNCHANGED <<now, tx, lost>>
      /\ ~MayFollow(b.tup, p) \/ Tail(b.pdus) = <<>> => blocks' = Tail(blocks)
      /\ MayFollow(b.tup, p) /\ Tail(b.pdus) # <<>> =>
            blocks' = <<[b EXCEPT !.pdus = Tail(b.pdus)]>> \o Tail(blocks)
      BY Zenon DEF ParsePdu
<1>8. ASSUME MayFollow(b.tup, p), Tail(b.pdus) # <<>>
      PROVE  /\ Len(blocks') = n /\ blocks'[1] = [b EXCEPT !.pdus = Tail(b.pdus)]
             /\ \A j \in 2 .. n : blocks'[j] = blocks[j]
  <2>.  DEFINE c == [b EXCEPT !.pdus = Tail(b.pdus)]
               rest == Tail(blocks)
  <2>1. c \in BlockType
        BY <1>3, <1>5, <1>8 DEF BlockType
  <2>.  HIDE DEF c, rest
  <2>2. /\ <<c>> \in Seq(BlockType) /\ Len(<<c>>) = 1 /\ <<c>>[1] = c
        BY <2>1
  <2>3. rest \in Seq(BlockType) /\ Len(rest) = n - 1
        BY <1>3 DEF rest
  <2>4. /\ Len(<<c>> \o rest) = Len(<<c>>) + Len(rest)
        /\ \A j \in 1 .. Len(<<c>>) + Len(rest) :
              (<<c>> \o rest)[j] = IF j <= Len(<<c>>) THEN <<c>>[j] ELSE rest[j - Len(<<c>>)]
        BY <2>2, <2>3, ConcatProperties
  <2>5. \A j \in 1 .. n : (<<c>> \o rest)[j] = IF j <= 1 THEN c ELSE rest[j - 1]
        BY <1>3, <2>2, <2>3, <2>4
  <2>6. \A j \in 2 .. n : rest[j - 1] = blocks[j]
    <3>1. ASSUME NEW j \in 2 .. n  PROVE  j - 1 \in 1 .. n - 1 /\ (j - 1) + 1 = j
          OBVIOUS
    <3>.  QED  BY <1>3, <3>1 DEF rest
  <2>7. blocks' = <<c>> \o rest
        BY <1>7, <1>8 DEF c, rest
  <2>8. Len(blocks') = n
        BY <1>3, <2>2, <2>3, <2>4, <2>7
  <2>9. blocks'[1] = c
        BY <1>3, <2>5, <2>7
  <2>10. \A j \in 2 .. n : blocks'[j] = blocks[j]
    <3>1. ASSUME NEW j \in 2 .. n  PROVE  (<<c>> \o rest)[j] = rest[j - 1]
      <4>1. j \in 1 .. n /\ ~(j <= 1)
            BY <3>1
      <4>.  QED  BY <2>5, <4>1, Zenon
    <3>.  QED  BY <2>6, <2>7, <3>1
  <2>.  QED  BY <2>8, <2>9, <2>10 DEF c
<1>.  QED  BY <1>1, <1>2, <1>3, <1>4, <1>5, <1>6, <1>7, <1>8

\* A PDU of a block that does not touch the slots.
LEMMA OrderQuiet ==
    ASSUME IInv, OrderInv, ParsePdu, Quiet(Head(blocks))
    PROVE  OrderInv'
<1>.  DEFINE Ids(x) == fragslots[x].msgb.ids
<1>1. PICK b, p : b = Head(blocks) /\ p = Head(b.pdus)
      OBVIOUS
<1>2. PICK n \in Nat : n = Len(blocks) /\ n >= 1 /\ b = blocks[1]
      BY <1>1, ParseFacts
<1>3. ~b.tup.crc_ok \/ p.kind = "null"
  <2>1. Head(<<Null>>) = Null /\ Null.kind = "null"
        BY DEF Null, Pdu
  <2>.  QED  BY <1>1, <2>1 DEF Quiet
<1>4. ~MayFollow(b.tup, p)
      BY <1>3 DEF MayFollow
<1>5. /\ Len(blocks') = n - 1
      /\ \A j \in 1 .. n - 1 : blocks'[j] = blocks[j + 1] /\ j + 1 \in 1 .. n
  <2>1. Len(blocks') = Len(blocks) - 1 /\ \A j \in 1 .. Len(blocks') : blocks'[j] = blocks[j + 1]
        BY <1>1, <1>4, ParseFacts
  <2>.  QED  BY <1>2, <2>1
<1>6. UNCHANGED <<now, tx, lost>> /\ b.tup.tn = now.tn /\ now.tn \in Slots
      BY <1>1, ParseFacts
<1>7. \A x \in Slots : Ids(x)' \in {Ids(x), <<>>}
  <2>1. fragslots' = RxTmvUnitdataInd(fragslots, b.tup, p) /\ b.tup \in TupType /\ p \in PduType
        BY <1>1, ParseFacts
  <2>2. fragslots \in [Slots -> SlotType] /\ \A x \in Slots : SlotInv(fragslots[x])
        BY DEF IInv, SlotsInv
  <2>.  HIDE DEF Ids
  <2>3. /\ \A x \in Slots : x # b.tup.tn => fragslots'[x].msgb.ids \in {fragslots[x].msgb.ids, <<>>}
        /\ fragslots'[b.tup.tn].msgb.ids \in {fragslots[b.tup.tn].msgb.ids, <<>>}
        BY <1>3, <2>1, <2>2, UnitdataHolds
  <2>.  QED  BY <2>3 DEF Ids
<1>8. \A j \in 1 .. n - 1 : blocks'[j].tup.tn = now.tn
      BY <1>2, <1>5 DEF OrderInv
<1>9. \A j, k \in 1 .. n - 1 : ~Quiet(blocks'[j]) /\ ~Quiet(blocks'[k]) => j = k
  <2>1. ASSUME NEW j \in 1 .. n - 1, NEW k \in 1 .. n - 1, ~Quiet(blocks'[j]), ~Quiet(blocks'[k])
        PROVE  j = k
    <3>1. j + 1 = k + 1
          BY <1>2, <1>5, <2>1, Zenon DEF OrderInv
    <3>.  QED  BY <3>1
  <2>.  QED  BY <2>1
<1>10. \A x \in Slots : InOrder(lost, x, Ids(x)')
  <2>1. \A x \in Slots : InOrder(lost, x, Ids(x))
        BY DEF OrderInv
  <2>.  QED  BY <1>7, <2>1, FewerHeld, Zenon
<1>11. ASSUME NEW x \in Slots, x # now.tn \/ (\A j \in 1 .. n - 1 : Quiet(blocks'[j]))
       PROVE  Behind(lost, x, Ids(x)', tx[x])
  <2>1. x # now.tn \/ (\A j \in 1 .. n : Quiet(blocks[j]))
    <3>1. ASSUME \A j \in 1 .. n - 1 : Quiet(blocks'[j]), NEW j \in 1 .. n  PROVE Quiet(blocks[j])
      <4>1. CASE j = 1
            BY <1>1, <1>2, <4>1
      <4>2. CASE j # 1
        <5>1. PICK k \in 1 .. n - 1 : k = j - 1
              BY <4>2
        <5>2. blocks'[k] = blocks[j]
              BY <1>5, <5>1
        <5>.  QED  BY <3>1, <5>2
      <4>.  QED  BY <4>1, <4>2
    <3>.  QED  BY <1>11, <3>1
  <2>2. Behind(lost, x, Ids(x), tx[x])
        BY <1>2, <2>1 DEF OrderInv
  <2>.  QED  BY <1>7, <2>2, FewerHeld, Zenon
<1>12. ASSUME NEW j \in 1 .. n - 1, ~Quiet(blocks'[j])
       PROVE  /\ blocks'[j].tup.lchan \in PduChannels
              /\ Coming(lost, now.tn, Ids(now.tn)', tx[now.tn], blocks'[j].pdus)
  <2>1. /\ blocks'[j].tup.lchan \in PduChannels
        /\ Coming(lost, now.tn, Ids(now.tn), tx[now.tn], blocks'[j].pdus)
        BY <1>2, <1>5, <1>12, Zenon DEF OrderInv
  <2>2. Coming(lost, now.tn, Ids(now.tn)', tx[now.tn], blocks'[j].pdus)
        BY <1>6, <1>7, <2>1, FewerHeld, Zenon
  <2>.  QED  BY <2>1, <2>2
<1>13. Len(blocks') = n - 1 /\ UNCHANGED <<now, tx, lost>>
      BY <1>5, <1>6
<1>.  QED  BY <1>8, <1>9, <1>10, <1>11, <1>12, <1>13 DEF OrderInv, Quiet

\* A PDU of the block that does.
LEMMA OrderData ==
    ASSUME IInv, OrderInv, ParsePdu, ~Quiet(Head(blocks))
    PROVE  OrderInv'
<1>.  DEFINE Ids(x) == fragslots[x].msgb.ids
<1>1. PICK b, p, s, t : b = Head(blocks) /\ p = Head(b.pdus) /\ s = now.tn /\ t = tx[s]
      OBVIOUS
<1>2. PICK n \in Nat : n = Len(blocks) /\ n >= 1 /\ b = blocks[1]
      BY <1>1, ParseFacts
<1>3. UNCHANGED <<now, tx, lost>> /\ b.tup.tn = s /\ s = now.tn /\ t = tx[s]
      /\ s \in Slots /\ p \in PduType
      BY <1>1, ParseFacts
\* The others are quiet.
<1>4. \A j \in 2 .. n : Quiet(blocks[j])
  <2>1. ASSUME NEW j \in 2 .. n, ~Quiet(blocks[j])  PROVE  FALSE
    <3>1. j \in 1 .. Len(blocks) /\ 1 \in 1 .. Len(blocks) /\ ~Quiet(blocks[1])
          BY <1>1, <1>2
    <3>2. j = 1
          BY <2>1, <3>1, Zenon DEF OrderInv
    <3>.  QED  BY <3>2
  <2>.  QED  BY <2>1
<1>5. b.tup.crc_ok /\ b.tup.lchan \in PduChannels /\ Coming(lost, s, Ids(s), t, b.pdus)
  <2>1. 1 \in 1 .. Len(blocks)
        BY <1>2
  <2>2. ~Quiet(blocks[1])
        BY <1>1, <1>2
  <2>.  QED  BY <1>2, <1>3, <2>1, <2>2 DEF OrderInv, Quiet
<1>6. PICK f : /\ SlotInv(f) /\ f.msgb.ids \in {Ids(s), <<>>}
               /\ p.kind = "start" => fragslots'[s] = RxResrc(f, p)
               /\ p.kind = "frag"  => fragslots'[s] = RxMacFrag(f, p)
               /\ p.kind = "end"   => fragslots'[s] = RxMacEnd(f, p)
               /\ \A x \in Slots : x # s => Ids(x)' \in {Ids(x), <<>>}
  <2>1. fragslots' = RxTmvUnitdataInd(fragslots, b.tup, p) /\ b.tup \in TupType
        BY <1>1, ParseFacts
  <2>2. fragslots \in [Slots -> SlotType] /\ \A x \in Slots : SlotInv(fragslots[x])
        BY DEF IInv, SlotsInv
  <2>3. /\ SlotInv(Aged(fragslots, b.tup)[s])
        /\ Aged(fragslots, b.tup)[s].msgb.ids \in {fragslots[s].msgb.ids, <<>>}
        BY <1>3, <2>2, AgedHolds
  <2>4. /\ \A x \in Slots : x # s => fragslots'[x].msgb.ids \in {fragslots[x].msgb.ids, <<>>}
        /\ p.kind = "start" => fragslots'[s] = RxResrc(Aged(fragslots, b.tup)[s], p)
        /\ p.kind = "frag"  => fragslots'[s] = RxMacFrag(Aged(fragslots, b.tup)[s], p)
        /\ p.kind = "end"   => fragslots'[s] = RxMacEnd(Aged(fragslots, b.tup)[s], p)
        BY <1>3, <1>5, <2>1, <2>2, UnitdataHolds
  <2>.  QED  BY <2>3, <2>4
<1>7. f.msgb.ids \in Seq(Nat \X Nat)
      BY <1>6, ActiveHolds
<1>8. /\ RxResrc(f, p).msgb.ids = IF Opens(p) THEN <<p.id>> ELSE f.msgb.ids
      /\ RxMacFrag(f, p) = Completed(f, p)
      /\ \/ Completed(f, p).msgb.ids = f.msgb.ids
         \/ f.msgb.ids # <<>> /\ Completed(f, p).msgb.ids = Append(f.msgb.ids, p.id)
      /\ RxMacEnd(f, p).msgb.ids = <<>>
      BY <1>3, <1>6, HandlersHold
<1>9. InOrder(lost, s, f.msgb.ids) /\ Coming(lost, s, f.msgb.ids, t, b.pdus)
  <2>1. InOrder(lost, s, Ids(s))
        BY <1>3 DEF OrderInv
  <2>.  QED  BY <1>5, <1>6, <2>1, FewerHeld, Zenon
<1>10. \A x \in Slots : x # s => InOrder(lost, x, Ids(x)') /\ Behind(lost, x, Ids(x)', tx[x])
  <2>1. \A x \in Slots : x # s => InOrder(lost, x, Ids(x)) /\ Behind(lost, x, Ids(x), tx[x])
        BY <1>3 DEF OrderInv
  <2>.  QED  BY <1>6, <2>1, FewerHeld, Zenon
\* It is enough that it is the last of its block, or that a start is left.
<1>11. CASE /\ ~MayFollow(b.tup, p)
            /\ InOrder(lost, s, Ids(s)') /\ Behind(lost, s, Ids(s)', t)
  <2>1. /\ Len(blocks') = n - 1
        /\ \A j \in 1 .. n - 1 : blocks'[j] = blocks[j + 1] /\ j + 1 \in 2 .. n
    <3>1. Len(blocks') = Len(blocks) - 1 /\ \A j \in 1 .. Len(blocks') : blocks'[j] = blocks[j + 1]
          BY <1>1, <1>11, ParseFacts
    <3>.  QED  BY <1>2, <3>1
  <2>2. \A j \in 1 .. n - 1 : blocks'[j].tup.tn = s /\ Quiet(blocks'[j])
    <3>1. \A j \in 2 .. n : blocks[j].tup.tn = s
          BY <1>2, <1>3 DEF OrderInv
    <3>.  QED  BY <1>4, <2>1, <3>1
  <2>.  QED  BY <1>3, <1>10, <1>11, <2>1, <2>2 DEF OrderInv, Quiet
<1>12. CASE /\ MayFollow(b.tup, p) /\ Tail(b.pdus) # <<>> /\ Ids(s)' = <<>>
            /\ Tail(b.pdus) = <<Null>> \/ Coming(lost, s, <<>>, t, Tail(b.pdus))
  <2>1. /\ Len(blocks') = n /\ blocks'[1] = [b EXCEPT !.pdus = Tail(b.pdus)]
        /\ \A j \in 2 .. n : blocks'[j] = blocks[j]
    <3>1. /\ Len(blocks') = Len(blocks) /\ blocks'[1] = [b EXCEPT !.pdus = Tail(b.pdus)]
          /\ \A j \in 2 .. Len(blocks') : blocks'[j] = blocks[j]
          BY <1>1, <1>12, ParseFacts
    <3>.  QED  BY <1>2, <3>1
  <2>2. blocks'[1].tup = b.tup /\ blocks'[1].pdus = Tail(b.pdus)
    <3>1. b \in BlockType
          BY <1>1, ParseFacts
    <3>.  QED  BY <2>1, <3>1 DEF BlockType
  <2>3. \A j \in 1 .. n : /\ blocks'[j].tup.tn = s
                          /\ ~Quiet(blocks'[j]) => j = 1
    <3>1. \A j \in 2 .. n : blocks[j].tup.tn = s
          BY <1>2, <1>3 DEF OrderInv
    <3>2. \A j \in 1 .. n : j = 1 \/ j \in 2 .. n
          OBVIOUS
    <3>.  QED  BY <1>3, <1>4, <2>1, <2>2, <3>1, <3>2, Zenon
  <2>4. InOrder(lost, s, Ids(s)') /\ Behind(lost, s, Ids(s)', t)
        BY <1>12, OrderShort
  <2>5. \A j \in 1 .. n : ~Quiet(blocks'[j]) =>
          /\ blocks'[j].tup.lchan \in PduChannels
          /\ Coming(lost, s, Ids(s)', t, blocks'[j].pdus)
    <3>1. ~Quiet(blocks'[1]) => Coming(lost, s, Ids(s)', t, blocks'[1].pdus)
          BY <1>12, <2>2 DEF Quiet
    <3>.  QED  BY <1>5, <2>2, <2>3, <3>1
  <2>6. \A j, k \in 1 .. n : ~Quiet(blocks'[j]) /\ ~Quiet(blocks'[k]) => j = k
        BY <2>3
  <2>7. \A x \in Slots : InOrder(lost, x, Ids(x)') /\ Behind(lost, x, Ids(x)', tx[x])
    <3>1. Behind(lost, s, Ids(s)', tx[s])
          BY <1>3, <2>4
    <3>2. InOrder(lost, s, Ids(s)')
          BY <2>4
    <3>.  HIDE DEF Ids
    <3>.  QED  BY <1>10, <3>1, <3>2, Zenon
  <2>.  QED  BY <1>3, <2>1, <2>3, <2>5, <2>6, <2>7 DEF OrderInv, Quiet
<1>13. CASE \E q \in PduType :
              /\ b.pdus = <<q>> /\ StartsAt(q, t)
              /\ ~Opens(q) => Behind(lost, s, f.msgb.ids, t)
  <2>1. /\ p.kind = "start" /\ p.id = <<t.msg, 1>> /\ t.seq = 1
        /\ ~Opens(p) => Behind(lost, s, f.msgb.ids, t)
        BY <1>1, <1>13 DEF StartsAt
  <2>2. ~MayFollow(b.tup, p)
        BY <2>1 DEF MayFollow
  <2>3. CASE ~Opens(p)
        BY <1>6, <1>8, <1>9, <1>11, <2>1, <2>2, <2>3
  <2>4. CASE Opens(p)
    <3>1. Ids(s)' = <<p.id>> /\ p.id \in Nat \X Nat /\ p.id[1] = t.msg /\ p.id[2] = 1
          BY <1>3, <1>6, <1>8, <2>1, <2>4 DEF PduType
    <3>2. InOrder(lost, s, Ids(s)')
          BY <3>1, OrderShort
    <3>3. BehindAt(lost, s, p.id, t)
          BY <2>1, <3>1 DEF BehindAt
    <3>4. Len(<<p.id>>) = 1 /\ <<p.id>>[1] = p.id
          OBVIOUS
    <3>5. Behind(lost, s, Ids(s)', t)
          BY <3>1, <3>3, <3>4 DEF Behind
    <3>.  QED  BY <1>11, <2>2, <3>2, <3>5
  <2>.  QED  BY <2>3, <2>4
<1>14. CASE \E q \in PduType :
              /\ b.pdus = <<q>> /\ q.kind = "frag" /\ q.id = <<t.msg, t.seq>> /\ t.seq > 0
              /\ Behind(lost, s, f.msgb.ids, t) /\ JoinsLast(lost, s, f.msgb.ids, q.id)
  <2>1. /\ p.kind = "frag" /\ p.id = <<t.msg, t.seq>> /\ t.seq > 0
        /\ Behind(lost, s, f.msgb.ids, t) /\ JoinsLast(lost, s, f.msgb.ids, p.id)
        BY <1>1, <1>14
  <2>2. ~MayFollow(b.tup, p)
        BY <2>1 DEF MayFollow
  <2>3. CASE Ids(s)' = f.msgb.ids
        BY <1>9, <1>11, <2>1, <2>2, <2>3
  <2>4. CASE f.msgb.ids # <<>> /\ Ids(s)' = Append(f.msgb.ids, p.id)
    <3>1. p.id \in Nat \X Nat /\ p.id[1] = t.msg /\ p.id[2] = t.seq
          BY <1>3, <2>1 DEF PduType
    <3>2. InOrder(lost, s, Ids(s)')
          BY <1>7, <1>9, <2>1, <2>4, <3>1, OrderAppend
    <3>3. BehindAt(lost, s, p.id, t)
      <4>1. t.seq \in Nat
            BY <1>3 DEF IInv, EnvType
      <4>.  QED  BY <2>1, <3>1, <4>1 DEF BehindAt
    <3>4. Ids(s)'[Len(Ids(s)')] = p.id
          BY <1>7, <2>4, <3>1, AppendProperties
    <3>5. Behind(lost, s, Ids(s)', t)
          BY <3>3, <3>4 DEF Behind
    <3>.  QED  BY <1>11, <2>2, <3>2, <3>5
  <2>.  QED  BY <1>6, <1>8, <2>1, <2>3, <2>4
<1>15. CASE \E u, q \in PduType :
              /\ b.pdus = <<u, q>> /\ u.kind = "end" /\ JoinsLast(lost, s, f.msgb.ids, u.id)
              /\ q = Null \/ StartsAt(q, t)
  <2>1. PICK q \in PduType : /\ b.pdus = <<p, q>> /\ p.kind = "end"
                             /\ q = Null \/ StartsAt(q, t)
        BY <1>1, <1>15
  <2>2. Tail(b.pdus) = <<q>> /\ <<q>> # <<>>
        BY <2>1
  <2>3. MayFollow(b.tup, p)
        BY <1>5, <2>1 DEF MayFollow
  <2>4. Ids(s)' = <<>>
        BY <1>6, <1>8, <2>1
  <2>5. Behind(lost, s, <<>>, t)
        BY OrderShort
  <2>6. StartsAt(q, t) => Coming(lost, s, <<>>, t, <<q>>)
        BY <2>1, <2>5, Zenon DEF Coming
  <2>.  QED  BY <1>12, <2>1, <2>2, <2>3, <2>4, <2>6
<1>16. \/ \E q \in PduType :
              /\ b.pdus = <<q>> /\ StartsAt(q, t)
              /\ ~Opens(q) => Behind(lost, s, f.msgb.ids, t)
       \/ \E q \in PduType :
              /\ b.pdus = <<q>> /\ q.kind = "frag" /\ q.id = <<t.msg, t.seq>> /\ t.seq > 0
              /\ Behind(lost, s, f.msgb.ids, t) /\ JoinsLast(lost, s, f.msgb.ids, q.id)
       \/ \E u, q \in PduType :
              /\ b.pdus = <<u, q>> /\ u.kind = "end" /\ JoinsLast(lost, s, f.msgb.ids, u.id)
              /\ q = Null \/ StartsAt(q, t)
      BY <1>9, Zenon DEF Coming
<1>.  QED  BY <1>13, <1>14, <1>15, <1>16

LEMMA OrderStep == IInv /\ OrderInv /\ [Next]_vars => OrderInv'
<1>.  SUFFICES ASSUME IInv, OrderInv, [Next]_vars PROVE OrderInv'
      OBVIOUS
<1>1. CASE NextSlot
      BY <1>1, OrderReceive DEF NextSlot
<1>2. CASE ParsePdu
      BY <1>2, OrderQuiet, OrderData
<1>3. CASE UNCHANGED vars
      BY <1>3 DEF vars, OrderInv, Quiet
<1>.  QED  BY <1>1, <1>2, <1>3 DEF Next

\* The end of a message is about to be parsed: the fragment joins those that are held.
LEMMA AssembledInOrder ==
    ASSUME IInv, OrderInv, NEW s \in Slots
    PROVE  InOrder(lost, s, Assembled(s))
<1>.  DEFINE b == Head(blocks)
             p == Head(b.pdus)
             ending == /\ blocks # <<>> /\ b.tup.tn = s
                       /\ b.tup.crc_ok /\ b.tup.lchan \in PduChannels /\ p.kind = "end"
             f == Aged(fragslots, b.tup)[s]
             ids == fragslots[s].msgb.ids
<1>1. InOrder(lost, s, ids)
      BY DEF OrderInv
<1>2. CASE ~ending
      BY <1>1, <1>2 DEF Assembled
<1>3. CASE ending
  <2>1. blocks \in Seq(BlockType) /\ blocks # <<>>
        BY <1>3 DEF IInv, EnvType
  <2>2. b \in BlockType /\ b = blocks[1] /\ 1 \in 1 .. Len(blocks)
        BY <2>1, HeadTailProperties, EmptySeq
  <2>3. p \in PduType
        BY <2>2, HeadTailProperties DEF BlockType
  <2>4. b.tup.tn = now.tn /\ s = now.tn
        BY <1>3, <2>2 DEF OrderInv
  <2>5. ~Quiet(b)
    <3>1. Head(<<Null>>) = Null /\ Null.kind = "null"
          BY DEF Null, Pdu
    <3>.  QED  BY <1>3, <3>1 DEF Quiet
  <2>6. Coming(lost, s, ids, tx[s], b.pdus)
        BY <2>2, <2>4, <2>5, Zenon DEF OrderInv
  <2>7. fragslots \in [Slots -> SlotType] /\ \A x \in Slots : SlotInv(fragslots[x])
        BY DEF IInv, SlotsInv
  <2>8. SlotInv(f) /\ f.msgb.ids \in {ids, <<>>}
        BY <2>7, AgedHolds
  <2>9. Assembled(s) = Completed(f, p).msgb.ids
        BY <1>3 DEF Assembled
  <2>.  HIDE DEF f, ids
  <2>10. InOrder(lost, s, f.msgb.ids) /\ Coming(lost, s, f.msgb.ids, tx[s], b.pdus)
        BY <1>1, <2>6, <2>8, FewerHeld, Zenon
  <2>11. JoinsLast(lost, s, f.msgb.ids, p.id)
    <3>1. \E u, q \in PduType : b.pdus = <<u, q>> /\ JoinsLast(lost, s, f.msgb.ids, u.id)
          BY <1>3, <2>10 DEF Coming, StartsAt
    <3>.  QED  BY <3>1
  <2>12. \/ Completed(f, p).msgb.ids = f.msgb.ids
         \/ f.msgb.ids # <<>> /\ Completed(f, p).msgb.ids = Append(f.msgb.ids, p.id)
        BY <2>3, <2>8, HandlersHold
  <2>13. p.id \in Nat \X Nat /\ f.msgb.ids \in Seq(Nat \X Nat)
        BY <2>3, <2>8, ActiveHolds DEF PduType
  <2>14. InOrder(lost, s, Completed(f, p).msgb.ids)
        BY <2>10, <2>11, <2>12, <2>13, OrderAppend
  <2>.  QED  BY <2>9, <2>14
<1>.  QED  BY <1>2, <1>3

\* What is assembled is one message, or two of which the end of the one and the start of
\* the other were missed: it begins with a first fragment and none is out of order
\* (rx_resrc, rx_macfrag, rx_macend, age_fragslots).
THEOREM MessagesAreNotMixed == Spec => []MessagesNotMixed
<1>1. ASSUME IInv, OrderInv  PROVE  MessagesNotMixed
  <2>1. \A s \in Slots : InOrder(lost, s, Assembled(s))
        BY <1>1, AssembledInOrder
  <2>.  HIDE DEF Assembled
  <2>.  QED  BY <2>1 DEF InOrder, Joins, MessagesNotMixed
<1>2. IInv /\ OrderInv => MessagesNotMixed
      BY <1>1
<1>.  QED  BY <1>2, Inductive, OrderInit, OrderStep, PTL DEF Spec

-----------------------------------------------------------------------------
(* The loop over a block, for every type of block, length of message and   *)
(* set of optional elements.  Moves(p) is what the loop needs to know of a *)
(* PDU to stay aligned; Found(p) what its content needs to be complete.    *)

\* What the loop relies on: the length returned for a PDU is that it was sent with, or
\* it says that the block ends, or it is 0.
Moves(p) ==
    /\ p.bits \in Int /\ p.sdu \in Int /\ Result(p) \in Int
    /\ Result(p) > 0 => Result(p) = p.bits

AlignInv ==
    /\ offset = pos /\ pos \in Nat /\ type \in BlockTypes
    /\ sending.left \in Int
    /\ \A p \in again : Moves(p)

LEMMA BlocksHaveBits == type \in BlockTypes => N \in {60, 124, 268}
BY MacBlockAssumption DEF MacBlockAssumption, N, Type1Bits

LEMMA HeaderIsNat ==
    ASSUME NEW p, p.addr \in 1 .. 7
    PROVE  SentHeader(p) \in Nat /\ SentHeader(p) >= 16
<1>1. AddrBits[p.addr] \in Nat
    BY DEF AddrBits
<1>2. SentAlloc(p.alloc[1]) \in Nat
    BY DEF SentAlloc
<1>3. SentOptions(p) \in Nat
    BY <1>2 DEF SentOptions
<1>4. (IF p.power THEN 5 ELSE 1) \in {1, 5}
    OBVIOUS
<1> QED
    BY <1>1, <1>3, <1>4 DEF SentHeader

LEMMA EndHeaderIsNat ==
    ASSUME NEW p
    PROVE  SentEndHeader(p) \in Nat /\ SentEndHeader(p) >= 11
<1>2. SentAlloc(p.alloc[1]) \in Nat
    BY DEF SentAlloc
<1>3. SentOptions(p) \in Nat
    BY <1>2 DEF SentOptions
<1> QED
    BY <1>3 DEF SentEndHeader

\* A PDU with its length filled in.
Fielded(p) == DOMAIN p = DOMAIN Blank

LEMMA SizedFields ==
    ASSUME NEW p, Fielded(p), p.sdu \in Int, NEW header \in Nat,
           NEW q, q = Sized(p, header)
    PROVE  /\ q.kind = p.kind /\ q.addr = p.addr /\ q.sdu = p.sdu
           /\ q.li = Octets(header + p.sdu) /\ q.li \in Int /\ q.bits = 8 * q.li
<1>1. Octets(header + p.sdu) \in Int
  BY DEF Octets
<1> DEFINE li == Octets(header + p.sdu)
           fill == 8 * li - (header + p.sdu)
<1>2. q = [p EXCEPT !.li = li, !.bits = 8 * li, !.fill = fill]
  BY DEF Sized
<1> HIDE DEF li, fill
<1>3. {"li", "bits", "fill", "kind", "addr", "sdu"} \subseteq DOMAIN p
  BY DEF Fielded, Blank
<1>4. q.kind = p.kind /\ q.addr = p.addr /\ q.sdu = p.sdu
  BY <1>2, <1>3
<1>5. q.li = li /\ q.bits = 8 * li
  BY <1>2, <1>3
<1> QED
  BY <1>1, <1>4, <1>5 DEF li

\* A length that is filled in is not reserved.
LEMMA OctetsFit ==
    ASSUME NEW m \in Nat, NEW n \in Nat, m >= 11, NEW room \in Int, room <= 268,
           8 * Octets(m + n) <= room
    PROVE  Octets(m + n) \in 1 .. 58
<1>1. PICK k \in Nat : k = m + n /\ k >= 11
    OBVIOUS
<1>2. (k + 7) \div 8 \in 1 .. 58
    BY <1>1 DEF Octets
<1> QED
    BY <1>1, <1>2 DEF Octets

\* A resource, and a PDU that fills the block, before its length is filled in.
LEMMA ResourceOffered ==
    ASSUME NEW room, NEW p \in Resources(room)
    PROVE  \E b : /\ Fielded(b) /\ b.sdu \in Nat /\ b.kind = "resource" /\ b.addr \in 1 .. 7
                  /\ SentHeader(b) \in Nat /\ SentHeader(b) >= 16
                  /\ p = Sized(b, SentHeader(b)) /\ p.bits <= room
<1> DEFINE headers == { Resource(a, g, c, e, s) :
                          a \in Addrs, g \in BOOLEAN, c \in Allocs, e \in 0 .. 2, s \in SduBits }
<1>1. p \in { q \in { Sized(r, SentHeader(r)) : r \in headers } : q.bits <= room }
    BY DEF Resources
<1> HIDE DEF headers
<1>2. PICK b \in headers : p = Sized(b, SentHeader(b)) /\ p.bits <= room
    BY <1>1
<1>3. PICK a \in Addrs, g \in BOOLEAN, c \in Allocs, e \in 0 .. 2, s \in SduBits :
          b = Resource(a, g, c, e, s)
    BY DEF headers
<1>4. a \in 1 .. 7 /\ s \in Nat
    BY MacBlockAssumption DEF MacBlockAssumption
<1>5. b.kind = "resource" /\ b.addr = a /\ b.sdu = s /\ Fielded(b)
    BY <1>3 DEF Resource, Blank, Fielded
<1>6. SentHeader(b) \in Nat /\ SentHeader(b) >= 16
    BY <1>4, <1>5, HeaderIsNat
<1> QED
    BY <1>2, <1>4, <1>5, <1>6

LEMMA FillerOffered ==
    ASSUME NEW room \in Int, NEW p \in Fillers(room)
    PROVE  \E b :
             /\ Fielded(b) /\ b.kind \in {"start", "stolen"} /\ b.addr \in 1 .. 7 /\ b.li \in {62, 63} /\ b.bits = room
             /\ b.fill = 0 /\ SentHeader(b) \in Nat /\ SentHeader(b) < room
             /\ p = [b EXCEPT !.sdu = room - SentHeader(b)]
<1> DEFINE headers == { Filler(k, a, c, e, room) :
                          k \in {"start", "stolen"}, a \in Addrs, c \in Allocs, e \in 0 .. 2 }
<1>1. p \in { [q EXCEPT !.sdu = room - SentHeader(q)] :
                q \in { r \in headers : SentHeader(r) < room } }
    BY DEF Fillers
<1> HIDE DEF headers
<1>2. PICK b \in headers : p = [b EXCEPT !.sdu = room - SentHeader(b)] /\ SentHeader(b) < room
    BY <1>1
<1>3. PICK k \in {"start", "stolen"}, a \in Addrs, c \in Allocs, e \in 0 .. 2 :
          b = Filler(k, a, c, e, room)
    BY DEF headers
<1>4. a \in 1 .. 7
    BY MacBlockAssumption DEF MacBlockAssumption
<1>5. b.kind = k /\ b.addr = a /\ b.li \in {62, 63} /\ b.bits = room /\ b.fill = 0 /\ Fielded(b)
    BY <1>3 DEF Filler, Blank, Fielded
<1>6. SentHeader(b) \in Nat
    BY <1>4, <1>5, HeaderIsNat
<1> QED
    BY <1>2, <1>4, <1>5, <1>6

\* A PDU with a length indicator that is not reserved.
LEMMA ResourceMoves ==
    ASSUME NEW p, p.kind = "resource", p.addr \in 1 .. 7, p.sdu \in Int,
           p.li \in 1 .. 58, p.bits = 8 * p.li
    PROVE  Moves(p)
<1>1. DecodeLength(p.li) = p.li
    BY DEF DecodeLength
<1>2. ResourceResult(p) = p.li * 8
    BY <1>1 DEF ResourceResult, SecondStolen, StartFrag, NullAddr
<1>3. Result(p) = p.li * 8
    BY <1>2 DEF Result
<1> QED
    BY <1>3 DEF Moves

LEMMA EndMoves ==
    ASSUME NEW p, p.kind = "end", p.sdu \in Int, p.li \in Int, p.bits = 8 * p.li
    PROVE  Moves(p)
<1>1. Result(p) = p.li * 8
    BY DEF Result, EndResult
<1> QED
    BY <1>1 DEF Moves

\* One after which the block ends.
LEMMA LastMoves ==
    ASSUME NEW p, p.bits \in Int, p.sdu \in Int,
           \/ p.kind \in {"null", "start", "stolen"} /\ (p.li \in {62, 63} \/ p.addr = NullAddr)
           \/ p.kind = "resource" /\ p.li \in {0, 60}
           \/ p.kind \in {"frag", "suppl", "bcast"}
    PROVE  Moves(p)
<1>1. CASE p.kind \in {"null", "start", "stolen"} /\ (p.li \in {62, 63} \/ p.addr = NullAddr)
    <2>1. ResourceResult(p) = -1
        BY <1>1 DEF ResourceResult, DecodeLength, SecondStolen, StartFrag, NullAddr
    <2>2. Result(p) = -1
        BY <1>1, <2>1 DEF Result
    <2> QED
        BY <2>2 DEF Moves
<1>2. CASE p.kind = "resource" /\ p.li \in {0, 60}
    <2>1. DecodeLength(p.li) = -22
        BY <1>2 DEF DecodeLength, EINVAL
    <2>2. ResourceResult(p) \in {-1, -176}
        BY <2>1 DEF ResourceResult, SecondStolen, StartFrag
    <2>3. Result(p) \in {-1, -176}
        BY <1>2, <2>2 DEF Result
    <2> QED
        BY <2>3 DEF Moves
<1>3. CASE p.kind \in {"frag", "suppl", "bcast"}
    <2>1. Result(p) = -1
        BY <1>3 DEF Result
    <2> QED
        BY <2>1 DEF Moves
<1> QED
    BY <1>1, <1>2, <1>3

LEMMA NullsMove == \A p \in Nulls : Moves(p)
<1> SUFFICES ASSUME NEW p \in Nulls PROVE Moves(p)
    OBVIOUS
<1>1. p.kind = "null" /\ p.addr = NullAddr /\ p.bits = 16 /\ p.sdu = 0
    BY DEF Nulls, Blank
<1> QED
    BY <1>1, LastMoves

LEMMA ResourcesMove ==
    ASSUME NEW room \in Int, room <= 268
    PROVE  \A p \in Resources(room) : Moves(p)
<1> SUFFICES ASSUME NEW p \in Resources(room) PROVE Moves(p)
    OBVIOUS
<1>1. PICK b : /\ Fielded(b) /\ b.sdu \in Nat /\ b.kind = "resource" /\ b.addr \in 1 .. 7
               /\ SentHeader(b) \in Nat /\ SentHeader(b) >= 16
               /\ p = Sized(b, SentHeader(b)) /\ p.bits <= room
    BY ResourceOffered
<1>2. /\ p.kind = "resource" /\ p.addr = b.addr /\ p.sdu = b.sdu
      /\ p.li = Octets(SentHeader(b) + b.sdu) /\ p.li \in Int /\ p.bits = 8 * p.li
    BY <1>1, SizedFields
<1>3. 8 * Octets(SentHeader(b) + b.sdu) <= room /\ SentHeader(b) >= 11
    BY <1>1, <1>2
<1>4. p.li \in 1 .. 58
    BY <1>1, <1>2, <1>3, OctetsFit
<1> QED
    BY <1>1, <1>2, <1>4, ResourceMoves

LEMMA FillersMove ==
    ASSUME NEW room \in Int
    PROVE  \A p \in Fillers(room) : Moves(p)
<1> SUFFICES ASSUME NEW p \in Fillers(room) PROVE Moves(p)
    OBVIOUS
<1>1. PICK b : /\ Fielded(b) /\ b.kind \in {"start", "stolen"} /\ b.li \in {62, 63}
               /\ b.bits = room /\ SentHeader(b) \in Nat
               /\ p = [b EXCEPT !.sdu = room - SentHeader(b)]
    BY FillerOffered
<1>2. {"li", "bits", "kind", "sdu"} \subseteq DOMAIN b
    BY <1>1 DEF Fielded, Blank
<1>3. p.kind = b.kind /\ p.li \in {62, 63} /\ p.bits = room /\ p.sdu = room - SentHeader(b)
    BY <1>1, <1>2
<1>4. p.bits \in Int /\ p.sdu \in Int
    BY <1>1, <1>3
<1> QED
    BY <1>1, <1>3, <1>4, LastMoves

LEMMA PartsMove ==
    ASSUME NEW room \in Int, sending.left \in Int
    PROVE  \A p \in Parts(room) : Moves(p)
<1> SUFFICES ASSUME NEW p \in Parts(room) PROVE Moves(p)
    OBVIOUS
<1> DEFINE ends == { End(g, c) : g \in BOOLEAN, c \in Allocs }
           sizedEnds == { Sized(q, SentEndHeader(q)) : q \in ends }
<1>1. CASE p = Fragment(room)
    <2>1. p.kind = "frag" /\ p.bits = room /\ p.sdu \in Int
        BY <1>1 DEF Fragment, Blank
    <2> QED
        BY <2>1, LastMoves
<1>2. CASE p \in sizedEnds
    <2> HIDE DEF ends
    <2>1. PICK b \in ends : p = Sized(b, SentEndHeader(b))
        BY <1>2
    <2>2. PICK g \in BOOLEAN, c \in Allocs : b = End(g, c)
        BY DEF ends
    <2>3. b.kind = "end" /\ b.sdu = sending.left /\ Fielded(b)
        BY <2>2 DEF End, Blank, Fielded
    <2>4. SentEndHeader(b) \in Nat
        BY EndHeaderIsNat
    <2>5. p.kind = "end" /\ p.sdu = sending.left /\ p.li \in Int /\ p.bits = 8 * p.li
        BY <2>1, <2>3, <2>4, SizedFields
    <2> QED
        BY <2>5, EndMoves
<1>3. p \in (IF sending.left > 0 THEN { Fragment(room) } ELSE {})
            \cup { q \in sizedEnds : q.bits <= room }
    BY DEF Parts
<1> HIDE DEF sizedEnds
<1> QED
    BY <1>1, <1>2, <1>3

LEMMA OddMove ==
    ASSUME N - pos \in Int
    PROVE  \A p \in Odd : Moves(p)
<1> SUFFICES ASSUME NEW p \in Odd PROVE Moves(p)
    OBVIOUS
<1> DEFINE rest == N - pos
<1>1. rest \in Int
    OBVIOUS
<1>2. \/ p = [Blank EXCEPT !.kind = "end", !.li = 0, !.bits = 0]
      \/ p = [Blank EXCEPT !.kind = "resource", !.addr = 1, !.li = 0, !.bits = rest]
      \/ p = [Blank EXCEPT !.kind = "resource", !.addr = 1, !.li = 60, !.bits = rest]
    BY DEF Odd
<1> HIDE DEF rest
<1>3. \/ p.kind = "end" /\ p.li = 0 /\ p.bits = 0 /\ p.sdu = 0
      \/ p.kind = "resource" /\ p.li \in {0, 60} /\ p.bits = rest /\ p.sdu = 0
    BY <1>2 DEF Blank
<1>4. CASE p.kind = "end" /\ p.li = 0 /\ p.bits = 0 /\ p.sdu = 0
    BY <1>4, EndMoves
<1>5. CASE p.kind = "resource" /\ p.li \in {0, 60} /\ p.bits = rest /\ p.sdu = 0
    BY <1>1, <1>5, LastMoves
<1> QED
    BY <1>3, <1>4, <1>5

LEMMA OthersMove ==
    ASSUME NEW room \in Int
    PROVE  \A p \in Others(room) : Moves(p)
<1> SUFFICES ASSUME NEW p \in Others(room) PROVE Moves(p)
    OBVIOUS
<1>1. PICK k \in {"suppl", "bcast"} : p = [Blank EXCEPT !.kind = k, !.bits = room]
    BY DEF Others
<1>2. p.kind = k /\ p.bits = room /\ p.sdu = 0
    BY <1>1 DEF Blank
<1> QED
    BY <1>2, LastMoves

LEMMA OffersMove ==
    ASSUME AlignInv
    PROVE  \A p \in Offered : Moves(p)
<1> DEFINE room == N - pos
<1>1. room \in Int /\ room <= 268 /\ sending.left \in Int
    BY BlocksHaveBits DEF AlignInv
<1> HIDE DEF room
<1>2. \A p \in Nulls : Moves(p)
    BY NullsMove
<1>3. \A p \in Resources(room) : Moves(p)
    BY <1>1, ResourcesMove
<1>4. \A p \in Fillers(room) : Moves(p)
    BY <1>1, FillersMove
<1>5. \A p \in Parts(room) : Moves(p)
    BY <1>1, PartsMove
<1>6. \A p \in Odd : Moves(p)
    BY <1>1, OddMove DEF room
<1>7. \A p \in Others(room) : Moves(p)
    BY <1>1, OthersMove
<1>8. Offered \subseteq Nulls \cup Resources(room) \cup Fillers(room) \cup Parts(room)
                       \cup Odd \cup Others(room)
    BY DEF Offered, room
<1> HIDE DEF Moves, Nulls, Resources, Fillers, Parts, Odd, Others
<1> QED
    BY <1>2, <1>3, <1>4, <1>5, <1>6, <1>7, <1>8

LEMMA AlignInit == BlockInit => AlignInv
BY DEF BlockInit, AlignInv, NoMessage

\* One turn of the loop, over a PDU that is new or one it is at again.
LEMMA ParseAligned ==
    ASSUME AlignInv, NEW p, Moves(p), Parse(p)
    PROVE  AlignInv'
<1> DEFINE result == Result(p)
<1>1. result \in Int /\ p.bits \in Int /\ p.sdu \in Int /\ (result > 0 => result = p.bits)
    BY DEF Moves
<1>2. IF result < 0 \/ ~More(offset + result) THEN NextBlock
      ELSE /\ offset' = offset + result
           /\ pos' = IF result = 0 THEN pos ELSE pos + p.bits
           /\ again' = IF result = 0 THEN {p} ELSE {}
           /\ UNCHANGED type
    BY DEF Parse
<1>3. sending'.left \in Int
    <2>1. Transmit(p)
        BY DEF Parse
    <2>2. CASE p.kind = "start"
        <3>1. PICK b \in MessageBits :
                 sending' = [bits |-> b, left |-> b - p.sdu, readable |-> Readable(p)]
            BY <2>1, <2>2 DEF Transmit
        <3> QED
            BY <1>1, <3>1, MacBlockAssumption DEF MacBlockAssumption
    <2>3. CASE p.kind = "frag"
        <3>1. sending' = [sending EXCEPT !.left = @ - p.sdu]
            BY <2>1, <2>3 DEF Transmit
        <3> QED
            BY <1>1, <3>1 DEF AlignInv
    <2>4. CASE p.kind = "end"
        BY <2>1, <2>4 DEF Transmit, NoMessage
    <2>5. CASE p.kind \notin {"start", "frag", "end"}
        BY <2>1, <2>5 DEF Transmit, AlignInv
    <2> QED
        BY <2>2, <2>3, <2>4, <2>5
<1> HIDE DEF result
<1>4. CASE result < 0 \/ ~More(offset + result)
    BY <1>2, <1>3, <1>4 DEF AlignInv, NextBlock
<1>5. CASE ~(result < 0 \/ ~More(offset + result))
    <2>1. /\ offset' = offset + result
          /\ pos' = IF result = 0 THEN pos ELSE pos + p.bits
          /\ again' = IF result = 0 THEN {p} ELSE {}
          /\ type' = type
        BY <1>2, <1>5
    <2>2. offset' = pos' /\ pos' \in Nat
        BY <1>1, <1>5, <2>1 DEF AlignInv
    <2>3. \A r \in again' : Moves(r)
        BY <2>1
    <2> QED
        BY <1>3, <2>1, <2>2, <2>3 DEF AlignInv
<1> QED
    BY <1>4, <1>5

LEMMA AlignNext == AlignInv /\ [BlockNext]_blockVars => AlignInv'
<1> SUFFICES ASSUME AlignInv, [BlockNext]_blockVars PROVE AlignInv'
    OBVIOUS
<1>1. CASE ParseNext
    <2>1. PICK p \in IF again # {} THEN again ELSE Offered : Parse(p)
        BY <1>1 DEF ParseNext
    <2>2. Moves(p)
        BY <2>1, OffersMove DEF AlignInv
    <2> QED
        BY <2>1, <2>2, ParseAligned
<1>2. CASE UNCHANGED blockVars
    BY <1>2 DEF AlignInv, blockVars
<1> QED
    BY <1>1, <1>2 DEF BlockNext

\* The loop over a block looks only at places where a PDU was put (tp_sap_udata_ind and
\* the results of rx_resrc and rx_macend): for any lengths and optional elements.
THEOREM LoopStaysAligned == BlockSpec => []LoopIsAligned
<1>1. AlignInv => LoopIsAligned
    BY DEF AlignInv, LoopIsAligned
<1> QED
    BY <1>1, AlignInit, AlignNext, PTL DEF BlockSpec

-----------------------------------------------------------------------------
(* What the receiver makes of a PDU that is sent at pos.                   *)

\* PDU p is found as it was sent: the block ends with it only if nothing follows, and
\* its TM-SDU is there with all its bits.
Found(p) ==
    /\ Result(p) < 0 => p.bits = N - pos \/ p.kind = "null" \/ ReservedLength(p)
    /\ Result(p) = 0 => ReservedLength(p)
    /\ p.kind \in HasSdu /\ Readable(p) /\ ~ReservedLength(p) => Decoded(p).body = p.sdu
    /\ p.kind = "start" => /\ p.sdu \in Nat \ {0} /\ Decoded(p).kind = "start"
                           /\ Readable(p) => Decoded(p).hdr \in 0 .. 268
    /\ p.kind = "frag" => p.sdu \in Int /\ p.sdu <= sending.left /\ Readable(p)
    /\ p.kind = "end" => Readable(p) /\ (p.sdu = sending.left \/ ReservedLength(p))

\* n bits of a message are in slot f, behind the header of its first fragment.
Held(f, n) ==
    /\ DOMAIN f = DOMAIN Cleared /\ DOMAIN f.msgb = DOMAIN NoMsgb
    /\ f.active /\ f.length = n
    /\ f.msgb.l2h \in 0 .. 268 /\ f.msgb.len = f.msgb.l2h + n

SentInv ==
    /\ AlignInv
    /\ sending \in [bits : Nat, left : Nat, readable : BOOLEAN]
    /\ \A p \in again : ReservedLength(p)

WholeInv ==
    /\ SentInv
    /\ sending.readable => /\ sending.bits \in MessageBits
                      /\ Held(fragslot, sending.bits - sending.left)

\* The fields that the optional elements depend on.
SameElements(p, q) ==
    /\ p.addr = q.addr /\ p.power = q.power /\ p.grant = q.grant /\ p.alloc = q.alloc
    /\ p.enc = q.enc /\ p.key = q.key

LEMMA SizedElements ==
    ASSUME NEW p, Fielded(p), NEW header, NEW q, q = Sized(p, header)
    PROVE  /\ SameElements(p, q) /\ q.fill = q.bits - (header + p.sdu)
           /\ q.kind = p.kind
<1> DEFINE li == Octets(header + p.sdu)
           fill == 8 * li - (header + p.sdu)
<1>1. q = [p EXCEPT !.li = li, !.bits = 8 * li, !.fill = fill]
    BY DEF Sized
<1>2. fill = 8 * li - (header + p.sdu)
    OBVIOUS
<1> HIDE DEF li, fill
<1>3. DOMAIN p = DOMAIN Blank
    BY DEF Fielded
<1>4. {"li", "bits", "fill", "kind", "addr", "sdu", "power", "grant", "alloc", "enc", "key"}
         \subseteq DOMAIN p
    BY <1>3 DEF Blank
<1>5. q.bits = 8 * li /\ q.fill = fill
    BY <1>1, <1>4
<1>6. SameElements(p, q) /\ q.kind = p.kind
    BY <1>1, <1>4 DEF SameElements
<1> QED
    BY <1>2, <1>5, <1>6

LEMMA SameHeader ==
    ASSUME NEW p, NEW q, SameElements(p, q)
    PROVE  SentHeader(q) = SentHeader(p) /\ SentEndHeader(q) = SentEndHeader(p)
BY DEF SameElements, SentHeader, SentEndHeader, SentOptions

\* The lengths of the elements that the decoders count are those they were sent with.
LEMMA HeadersAgree ==
    ASSUME NEW p, p.addr \in 1 .. 7
    PROVE  /\ Readable(p) => ResourceHeader(p, p.key) = SentHeader(p)
           /\ EndHeader(p) = SentEndHeader(p)
<1>1. p.alloc # <<>> => ChanAllocBits(p.alloc[1]) = SentAlloc(p.alloc[1])
    BY DEF ChanAllocBits, SentAlloc, OneOf
<1>2. SentAlloc(p.alloc[1]) \in Nat /\ AddrBits[p.addr] \in Nat
    BY DEF SentAlloc, AddrBits
<1> DEFINE a == SentAlloc(p.alloc[1])
           b == AddrBits[p.addr]
           c == IF p.alloc = <<>> THEN 0 ELSE a
<1>3. AllocBits(p) = c /\ c \in Nat
    BY <1>1, <1>2 DEF AllocBits
<1>4. SentOptions(p) = (IF p.grant THEN 9 ELSE 1) + 1 + c
    BY <1>2 DEF SentOptions
<1> HIDE DEF a, b, c
<1>5. EndHeader(p) = SentEndHeader(p)
    BY <1>3, <1>4 DEF EndHeader, SentEndHeader, OneOf
<1>6. b = AddrBits[p.addr] /\ b \in Nat /\ p.addr # NullAddr
    BY <1>2 DEF b, NullAddr
<1>7. SentHeader(p) = 16 + b + (IF p.power THEN 5 ELSE 1) + ((IF p.grant THEN 9 ELSE 1) + 1 + c)
    BY <1>4, <1>6 DEF SentHeader
<1>8. DecodeResource(p) = 16 + b + 1 + OneOf(p.power, 4) + 1 + OneOf(p.grant, 8) + 1 + OneOf(~p.enc, c)
    BY <1>3, <1>6 DEF DecodeResource
<1>9. Readable(p) => OneOf(~p.enc, c) + OneOf(p.enc /\ p.key # 0, c) = c
    BY <1>3 DEF Readable, OneOf
<1>10. /\ OneOf(~p.enc, c) \in Nat /\ OneOf(p.enc /\ p.key # 0, c) \in Nat
       /\ OneOf(p.power, 4) = (IF p.power THEN 5 ELSE 1) - 1
       /\ OneOf(p.grant, 8) = (IF p.grant THEN 9 ELSE 1) - 1
       /\ (IF p.power THEN 5 ELSE 1) \in Nat /\ (IF p.grant THEN 9 ELSE 1) \in Nat
    BY <1>3 DEF OneOf
<1>11. Readable(p) => ResourceHeader(p, p.key) = SentHeader(p)
    BY <1>3, <1>6, <1>7, <1>8, <1>9, <1>10 DEF ResourceHeader
<1> QED
    BY <1>5, <1>11

\* The lengths of the elements of a MAC-END.
LEMMA EndHeadersAgree ==
    ASSUME NEW p
    PROVE  EndHeader(p) = SentEndHeader(p)
<1> DEFINE a == SentAlloc(p.alloc[1])
<1>1. p.alloc # <<>> => ChanAllocBits(p.alloc[1]) = a
    BY DEF ChanAllocBits, SentAlloc, OneOf
<1>2. a \in Nat
    BY DEF SentAlloc
<1> HIDE DEF a
<1>3. AllocBits(p) = IF p.alloc = <<>> THEN 0 ELSE a
    BY <1>1 DEF AllocBits
<1>4. SentOptions(p) = (IF p.grant THEN 9 ELSE 1) + (IF p.alloc = <<>> THEN 1 ELSE 1 + a)
    BY DEF SentOptions, a
<1> QED
    BY <1>2, <1>3, <1>4 DEF EndHeader, SentEndHeader, OneOf

LEMMA NullsFound == \A p \in Nulls : Found(p)
<1> SUFFICES ASSUME NEW p \in Nulls PROVE Found(p)
    OBVIOUS
<1>1. p.kind = "null" /\ p.addr = NullAddr /\ p.li = 2
    BY DEF Nulls, Blank
<1>2. Result(p) = -1
    BY <1>1 DEF Result, ResourceResult
<1> QED
    BY <1>1, <1>2 DEF Found, HasSdu

LEMMA ResourcesFound ==
    ASSUME AlignInv, NEW room \in Int, room <= 268
    PROVE  \A p \in Resources(room) : Found(p)
<1> SUFFICES ASSUME NEW p \in Resources(room) PROVE Found(p)
    OBVIOUS
<1>1. PICK b : /\ Fielded(b) /\ b.sdu \in Nat /\ b.kind = "resource" /\ b.addr \in 1 .. 7
               /\ SentHeader(b) \in Nat /\ SentHeader(b) >= 16
               /\ p = Sized(b, SentHeader(b))
    BY ResourceOffered
<1>2. /\ p.kind = "resource" /\ p.addr = b.addr /\ p.sdu = b.sdu
      /\ p.li = Octets(SentHeader(b) + b.sdu) /\ p.li \in Int /\ p.bits = 8 * p.li
      /\ p.fill = p.bits - (SentHeader(b) + b.sdu) /\ SameElements(b, p)
    BY <1>1, SizedFields, SizedElements
<1>3. p.bits <= room
    BY DEF Resources
<1>4. p.li \in 1 .. 58
    <2>1. 8 * Octets(SentHeader(b) + b.sdu) <= room /\ SentHeader(b) >= 11
        BY <1>1, <1>2, <1>3
    <2> QED
        BY <1>1, <1>2, <2>1, OctetsFit
<1>5. DecodeLength(p.li) = p.li
    BY <1>4 DEF DecodeLength
<1>6. Result(p) = p.li * 8
    BY <1>1, <1>2, <1>4, <1>5 DEF Result, ResourceResult, SecondStolen, StartFrag, NullAddr
<1>7. L1Len(p, offset, N) = p.li * 8 - p.fill
    BY <1>4, <1>5 DEF L1Len, SecondStolen, StartFrag
<1>8. Readable(p) => ResourceHeader(p, p.key) = SentHeader(b)
    BY <1>1, <1>2, HeadersAgree, SameHeader
<1>9. Decoded(p).body = L1Len(p, offset, N) - ResourceHeader(p, p.key)
    BY <1>2 DEF Decoded
<1>10. Readable(p) => Decoded(p).body = p.sdu
    BY <1>1, <1>2, <1>4, <1>7, <1>8, <1>9
<1> QED
    BY <1>2, <1>4, <1>6, <1>10 DEF Found

LEMMA FillersFound ==
    ASSUME AlignInv
    PROVE  \A p \in Fillers(N - pos) : Found(p)
<1> SUFFICES ASSUME NEW p \in Fillers(N - pos) PROVE Found(p)
    OBVIOUS
<1> DEFINE room == N - pos
<1>1. room \in Int /\ room <= 268 /\ N - offset = room
    BY BlocksHaveBits DEF AlignInv
<1>2. p \in Fillers(room)
    OBVIOUS
<1> HIDE DEF room
<1>3. PICK b :
         /\ Fielded(b) /\ b.kind \in {"start", "stolen"} /\ b.addr \in 1 .. 7 /\ b.li \in {62, 63} /\ b.bits = room
         /\ b.fill = 0 /\ SentHeader(b) \in Nat /\ SentHeader(b) < room
         /\ p = [b EXCEPT !.sdu = room - SentHeader(b)]
    BY <1>1, <1>2, FillerOffered
<1>4. {"li", "bits", "fill", "kind", "addr", "sdu", "power", "grant", "alloc", "enc", "key"}
         \subseteq DOMAIN b
    BY <1>3 DEF Fielded, Blank
<1>5. /\ p.kind = b.kind /\ p.li \in {62, 63} /\ p.bits = room /\ p.sdu = room - SentHeader(b)
      /\ p.fill = 0 /\ p.addr \in 1 .. 7 /\ SameElements(b, p)
    BY <1>3, <1>4 DEF SameElements
<1>6. DecodeLength(p.li) \in {SecondStolen, StartFrag}
    BY <1>5 DEF DecodeLength
<1>7. Result(p) = -1
    BY <1>3, <1>5, <1>6 DEF Result, ResourceResult
<1>8. L1Len(p, offset, N) = room
    BY <1>1, <1>5, <1>6 DEF L1Len
<1>9. Readable(p) => ResourceHeader(p, p.key) = SentHeader(b)
    BY <1>5, HeadersAgree, SameHeader
<1>10. /\ Decoded(p).body = L1Len(p, offset, N) - ResourceHeader(p, p.key)
       /\ Decoded(p).hdr = ResourceHeader(p, p.key) /\ Decoded(p).kind = p.kind
    BY <1>3, <1>5 DEF Decoded
<1>11. Readable(p) => Decoded(p).body = p.sdu /\ Decoded(p).hdr \in 0 .. 268
    BY <1>1, <1>3, <1>5, <1>8, <1>9, <1>10
<1>12. p.sdu \in Nat \ {0} /\ p.bits = N - pos
    BY <1>1, <1>3, <1>5 DEF room
<1> QED
    BY <1>3, <1>5, <1>7, <1>10, <1>11, <1>12 DEF Found

LEMMA PartsFound ==
    ASSUME AlignInv, sending.left \in Nat
    PROVE  \A p \in Parts(N - pos) : Found(p)
<1> SUFFICES ASSUME NEW p \in Parts(N - pos) PROVE Found(p)
    OBVIOUS
<1> DEFINE room == N - pos
           ends == { End(g, c) : g \in BOOLEAN, c \in Allocs }
           sizedEnds == { Sized(q, SentEndHeader(q)) : q \in ends }
<1>1. room \in Int /\ room <= 268 /\ N - offset = room
    BY BlocksHaveBits DEF AlignInv
<1>2. CASE p = Fragment(room)
    <2>1. /\ p.kind = "frag" /\ p.bits = room /\ ~p.enc
          /\ p.sdu = IF sending.left < room - 4 THEN sending.left ELSE room - 4
          /\ p.fill = IF sending.left < room - 4 THEN room - 4 - sending.left ELSE 0
        BY <1>2 DEF Fragment, Blank
    <2>2. p.sdu \in Int /\ p.sdu <= sending.left /\ p.fill = room - 4 - p.sdu
        BY <1>1, <2>1
    <2>3. Decoded(p).body = N - offset - p.fill - FragHeader
        BY <2>1 DEF Decoded
    <2>4. Decoded(p).body = p.sdu
        BY <1>1, <2>2, <2>3 DEF FragHeader
    <2>5. Result(p) = -1
        BY <2>1 DEF Result
    <2> QED
        BY <2>1, <2>2, <2>4, <2>5 DEF Found, Readable
<1>3. CASE p \in sizedEnds /\ p.bits <= room
    <2> HIDE DEF ends, room
    <2>1. PICK b \in ends : p = Sized(b, SentEndHeader(b))
        BY <1>3
    <2>2. PICK g \in BOOLEAN, c \in Allocs : b = End(g, c)
        BY DEF ends
    <2>3. b.kind = "end" /\ b.sdu = sending.left /\ Fielded(b) /\ ~b.enc
        BY <2>2 DEF End, Blank, Fielded
    <2>4. SentEndHeader(b) \in Nat /\ SentEndHeader(b) >= 11
        BY EndHeaderIsNat
    <2>5. /\ p.kind = "end" /\ p.sdu = sending.left /\ p.li \in Int /\ p.bits = 8 * p.li
          /\ p.li = Octets(SentEndHeader(b) + sending.left)
          /\ p.fill = p.bits - (SentEndHeader(b) + sending.left) /\ SameElements(b, p)
        BY <2>1, <2>3, <2>4, SizedFields, SizedElements
    <2>6. p.li \in 1 .. 58
        BY <1>1, <1>3, <2>4, <2>5, OctetsFit
    <2>7. Result(p) = p.li * 8
        BY <2>5 DEF Result, EndResult
    <2>8. DecodeLength(p.li) = p.li
        BY <2>6 DEF DecodeLength
    <2>9. L1Len(p, offset, N) = p.li * 8 - p.fill
        BY <2>6, <2>8 DEF L1Len, SecondStolen, StartFrag
    <2>10. EndHeader(p) = SentEndHeader(b)
        BY <2>5, EndHeadersAgree, SameHeader
    <2>11. Decoded(p).body = L1Len(p, offset, N) - EndHeader(p)
        BY <2>5 DEF Decoded
    <2>12. Decoded(p).body = p.sdu
        BY <2>4, <2>5, <2>6, <2>9, <2>10, <2>11
    <2>13. Readable(p)
        BY <2>3, <2>5 DEF Readable, SameElements
    <2> QED
        BY <2>5, <2>6, <2>7, <2>12, <2>13 DEF Found
<1>4. p \in (IF sending.left > 0 THEN { Fragment(room) } ELSE {})
            \cup { q \in sizedEnds : q.bits <= room }
    BY DEF Parts
<1> HIDE DEF sizedEnds
<1> QED
    BY <1>2, <1>3, <1>4

LEMMA OddFound == \A p \in Odd : Found(p)
<1> SUFFICES ASSUME NEW p \in Odd PROVE Found(p)
    OBVIOUS
<1>1. \/ p = [Blank EXCEPT !.kind = "end", !.li = 0, !.bits = 0]
      \/ p = [Blank EXCEPT !.kind = "resource", !.addr = 1, !.li = 0, !.bits = N - pos]
      \/ p = [Blank EXCEPT !.kind = "resource", !.addr = 1, !.li = 60, !.bits = N - pos]
    BY DEF Odd
<1>2. p.kind \in {"end", "resource"} /\ p.li \in {0, 60} /\ ~p.enc
    BY <1>1 DEF Blank
<1>3. ReservedLength(p) /\ Readable(p)
    BY <1>2 DEF ReservedLength, Readable
<1> QED
    BY <1>2, <1>3 DEF Found

LEMMA OthersFound == \A p \in Others(N - pos) : Found(p)
<1> SUFFICES ASSUME NEW p \in Others(N - pos) PROVE Found(p)
    OBVIOUS
<1>1. PICK k \in {"suppl", "bcast"} : p = [Blank EXCEPT !.kind = k, !.bits = N - pos]
    BY DEF Others
<1>2. p.kind = k /\ p.bits = N - pos
    BY <1>1 DEF Blank
<1>3. Result(p) = -1
    BY <1>2 DEF Result
<1> QED
    BY <1>2, <1>3 DEF Found, HasSdu

LEMMA OffersFound ==
    ASSUME AlignInv, sending.left \in Nat
    PROVE  \A p \in Offered : Found(p)
<1>1. N - pos \in Int /\ N - pos <= 268
    BY BlocksHaveBits DEF AlignInv
<1>2. \A p \in Nulls : Found(p)
    BY NullsFound
<1>3. \A p \in Resources(N - pos) : Found(p)
    BY <1>1, ResourcesFound
<1>4. \A p \in Fillers(N - pos) : Found(p)
    BY FillersFound
<1>5. \A p \in Parts(N - pos) : Found(p)
    BY PartsFound
<1>6. \A p \in Odd : Found(p)
    BY OddFound
<1>7. \A p \in Others(N - pos) : Found(p)
    BY OthersFound
<1>8. Offered \subseteq Nulls \cup Resources(N - pos) \cup Fillers(N - pos) \cup Parts(N - pos)
                       \cup Odd \cup Others(N - pos)
    BY DEF Offered
<1> QED
    BY <1>2, <1>3, <1>4, <1>5, <1>6, <1>7, <1>8, Zenon

-----------------------------------------------------------------------------
(* What a turn of the loop makes of the slot.                              *)

LEMMA Handled ==
    ASSUME NEW d
    PROVE  RxTmvUnitdataInd([s \in Slots |-> fragslot],
                  [tn |-> Tn, fn |-> 1, lchan |-> "UNKNOWN", crc_ok |-> TRUE], d)[Tn]
           = CASE d.kind = "start" -> RxResrc(fragslot, d)
               [] d.kind = "frag"  -> RxMacFrag(fragslot, d)
               [] d.kind = "end"   -> RxMacEnd(fragslot, d)
               [] OTHER            -> fragslot
<1> DEFINE tup == [tn |-> Tn, fn |-> 1, lchan |-> "UNKNOWN", crc_ok |-> TRUE]
           fs == [s \in Slots |-> fragslot]
<1>1. Tn \in Slots
    BY MacBlockAssumption DEF MacBlockAssumption, Tn
<1>2. Aged(fs, tup) = fs
    BY DEF Aged
<1>3. fs[Tn] = fragslot /\ tup.tn = Tn /\ tup.crc_ok /\ tup.lchan \in PduChannels
    BY <1>1 DEF PduChannels
<1> DEFINE h == CASE d.kind = "start" -> RxResrc(fragslot, d)
                  [] d.kind = "frag"  -> RxMacFrag(fragslot, d)
                  [] d.kind = "end"   -> RxMacEnd(fragslot, d)
                  [] OTHER            -> fragslot
<1>4. RxTmvUnitdataInd(fs, tup, d) = [fs EXCEPT ![Tn] = h]
    BY <1>2, <1>3, Zenon DEF RxTmvUnitdataInd
<1>5. [fs EXCEPT ![Tn] = h][Tn] = h
    BY <1>1
<1> QED
    BY <1>4, <1>5

\* The first fragment of a message that can be read opens the slot, whatever is in it.
LEMMA StartHolds ==
    ASSUME NEW f, NEW d, Opens(d), d.body \in Nat, d.hdr \in 0 .. 268
    PROVE  Held(RxResrc(f, d), d.body)
<1>1. PICK g : RxResrc(f, d) = Opened(g, d)
    BY DEF RxResrc
<1> QED
    BY <1>1 DEF Held, Opened, Cleared, NoMsgb

\* Every further part is put behind it: the buffer is large enough for all of it.
LEMMA PartHolds ==
    ASSUME NEW f, NEW n \in Int, Held(f, n), NEW d, d.body \in Int, n + d.body + 268 <= MsgbSize
    PROVE  Completed(f, d).length = n + d.body /\ Held(RxMacFrag(f, d), n + d.body)
<1> USE UpperMacAssumption DEF UpperMacAssumption
<1> DEFINE k == f.num_frags + 1
           g == [f EXCEPT !.msgb.len = @ + d.body, !.msgb.ids = Append(@, d.id),
                          !.length = @ + d.body, !.num_frags = k, !.age = 0]
<1>1. f.active /\ f.length = n /\ f.msgb.len \in Int /\ f.msgb.len = f.msgb.l2h + n
      /\ f.msgb.l2h \in 0 .. 268
    BY DEF Held
<1>2. ~(f.msgb.len + d.body > MsgbSize)
    BY <1>1
<1>3. AppendFragBits(f, d) = g
    BY <1>2 DEF AppendFragBits
<1>4. /\ {"active", "age", "num_frags", "length", "encryption", "key", "msgb"} = DOMAIN f
      /\ {"alloc", "l2h", "len", "ids"} = DOMAIN f.msgb
    BY DEF Held, Cleared, NoMsgb
<1>5. /\ DOMAIN g = DOMAIN f /\ DOMAIN g.msgb = DOMAIN f.msgb
      /\ g.active = f.active /\ g.length = f.length + d.body
      /\ g.msgb.l2h = f.msgb.l2h /\ g.msgb.len = f.msgb.len + d.body
    BY <1>4
<1> HIDE DEF g
<1>6. g.length = n + d.body /\ g.msgb.len = g.msgb.l2h + (n + d.body)
    BY <1>1, <1>5
<1>7. Held(g, n + d.body)
    BY <1>1, <1>5, <1>6 DEF Held
<1>8. Completed(f, d) = g /\ RxMacFrag(f, d) = g
    BY <1>1, <1>3 DEF Completed, RxMacFrag
<1> QED
    BY <1>6, <1>7, <1>8

\* The buffer is large enough for the messages, and the header of a first fragment.
FitsBuffer == \A m \in MessageBits : m + 268 <= MsgbSize

LEMMA WholeInit == BlockInit => WholeInv
BY AlignInit DEF BlockInit, WholeInv, SentInv, NoMessage

LEMMA TransmitType ==
    ASSUME SentInv, NEW p, Found(p) \/ ReservedLength(p), Transmit(p)
    PROVE  sending' \in [bits : Nat, left : Nat, readable : BOOLEAN]
<1>1. sending \in [bits : Nat, left : Nat, readable : BOOLEAN] /\ MessageBits \subseteq Nat
    BY MacBlockAssumption DEF MacBlockAssumption, SentInv
<1>2. ReservedLength(p) => p.kind \in {"resource", "end"}
    BY DEF ReservedLength
<1>3. CASE p.kind = "start"
    <2>1. p.sdu \in Nat
        BY <1>2, <1>3 DEF Found
    <2>2. PICK b \in MessageBits :
             b > p.sdu /\ sending' = [bits |-> b, left |-> b - p.sdu, readable |-> Readable(p)]
        BY <1>3 DEF Transmit
    <2>3. b \in Nat /\ b - p.sdu \in Nat
        BY <1>1, <2>1, <2>2
    <2>4. Readable(p) \in BOOLEAN
        BY DEF Readable
    <2> QED
        BY <2>2, <2>3, <2>4
<1>4. CASE p.kind = "frag"
    <2>1. p.sdu \in Int /\ p.sdu <= sending.left
        BY <1>2, <1>4 DEF Found
    <2>2. sending' = [bits |-> sending.bits, left |-> sending.left - p.sdu, readable |-> sending.readable]
        BY <1>1, <1>4 DEF Transmit
    <2>3. sending.left - p.sdu \in Nat
        BY <1>1, <2>1
    <2> QED
        BY <1>1, <2>2, <2>3
<1>5. CASE p.kind = "end"
    <2>1. sending' = NoMessage
        BY <1>5 DEF Transmit
    <2> QED
        BY <2>1 DEF NoMessage
<1>6. CASE p.kind \notin {"start", "frag", "end"}
    BY <1>1, <1>6 DEF Transmit
<1> QED
    BY <1>3, <1>4, <1>5, <1>6

LEMMA TransmitWhole ==
    ASSUME FitsBuffer, WholeInv, NEW p, Moves(p), Found(p) \/ ReservedLength(p), Parse(p)
    PROVE  sending'.readable => /\ sending'.bits \in MessageBits
                           /\ Held(fragslot', sending'.bits - sending'.left)
<1> DEFINE d == Decoded(p)
<1>1. /\ fragslot' = CASE d.kind = "start" -> RxResrc(fragslot, d)
                       [] d.kind = "frag"  -> RxMacFrag(fragslot, d)
                       [] d.kind = "end"   -> RxMacEnd(fragslot, d)
                       [] OTHER            -> fragslot
      /\ Transmit(p)
    BY Handled DEF Parse
<1>2. d.kind = p.kind /\ d.mode = OneOf(p.enc, 1) /\ d.key = p.key
    BY DEF Decoded
<1>3. sending \in [bits : Nat, left : Nat, readable : BOOLEAN] /\ MessageBits \subseteq Nat
    BY MacBlockAssumption DEF MacBlockAssumption, WholeInv, SentInv
<1>4. ReservedLength(p) => p.kind \in {"resource", "end"}
    BY DEF ReservedLength
<1> HIDE DEF d
<1>5. CASE p.kind = "start"
    <2>1. /\ p.sdu \in Nat \ {0}
          /\ Readable(p) => d.body = p.sdu /\ d.hdr \in 0 .. 268
        BY <1>4, <1>5 DEF Found, HasSdu, d
    <2>2. PICK b \in MessageBits :
             b > p.sdu /\ sending' = [bits |-> b, left |-> b - p.sdu, readable |-> Readable(p)]
        BY <1>1, <1>5 DEF Transmit
    <2>3. b - (b - p.sdu) = p.sdu
        BY <1>3, <2>1, <2>2
    <2>4. ASSUME Readable(p)
          PROVE  Held(fragslot', p.sdu)
        <3>1. Opens(d)
            BY <1>2, <1>5, <2>1, <2>4 DEF Opens, OneOf, Readable
        <3>2. fragslot' = RxResrc(fragslot, d)
            BY <1>1, <1>2, <1>5
        <3> QED
            BY <2>1, <2>4, <3>1, <3>2, StartHolds
    <2> QED
        BY <2>2, <2>3, <2>4
<1>6. CASE p.kind = "frag"
    <2>1. p.sdu \in Int /\ p.sdu <= sending.left /\ Readable(p) /\ d.body = p.sdu
        BY <1>4, <1>6 DEF Found, HasSdu, d
    <2>2. sending' = [bits |-> sending.bits, left |-> sending.left - p.sdu, readable |-> sending.readable]
        BY <1>1, <1>3, <1>6 DEF Transmit
    <2>3. ASSUME sending.readable
          PROVE  sending.bits \in MessageBits /\ Held(fragslot', sending.bits - (sending.left - p.sdu))
        <3>1. PICK m \in Nat, l \in Nat : m = sending.bits /\ l = sending.left
            BY <1>3
        <3>2. m \in MessageBits /\ Held(fragslot, m - l) /\ m + 268 <= MsgbSize
            BY <2>3, <3>1 DEF WholeInv, FitsBuffer
        <3>3. (m - l) + d.body + 268 <= MsgbSize /\ d.body \in Int /\ m - l \in Int
            BY <2>1, <3>1, <3>2, UpperMacAssumption DEF UpperMacAssumption
        <3>4. Held(fragslot', (m - l) + d.body)
            BY <1>1, <1>2, <1>6, <3>2, <3>3, PartHolds
        <3>5. (m - l) + d.body = m - (l - p.sdu)
            BY <2>1
        <3> QED
            BY <3>1, <3>2, <3>4, <3>5
    <2> QED
        BY <1>3, <2>2, <2>3
<1>7. CASE p.kind = "end"
    <2>1. sending' = NoMessage
        BY <1>1, <1>7 DEF Transmit
    <2> QED
        BY <2>1 DEF NoMessage
<1>8. CASE p.kind \notin {"start", "frag", "end"}
    <2>1. sending' = sending /\ fragslot' = fragslot
        BY <1>1, <1>2, <1>8 DEF Transmit
    <2> QED
        BY <1>3, <2>1 DEF WholeInv
<1> QED
    BY <1>5, <1>6, <1>7, <1>8

\* The records of the last PDU.
LEMMA LastWhole ==
    ASSUME FitsBuffer, WholeInv, NEW p, Moves(p), Found(p) \/ ReservedLength(p), Parse(p)
    PROVE  MessageIsWhole'
<1> DEFINE d == Decoded(p)
           whole == d.body = p.sdu
           message == sending.readable => Completed(fragslot, d).length = sending.bits
           l == [kind |-> p.kind, regular |-> ~ReservedLength(p), whole |-> whole,
                 readable |-> Readable(p), room |-> N - (pos + p.bits), message |-> message]
<1>1. last' = {l}
    BY DEF Parse
<1>2. ASSUME ~ReservedLength(p), p.kind \in HasSdu, Readable(p)
      PROVE  whole
    BY <1>2 DEF Found
<1>3. ASSUME ~ReservedLength(p), p.kind = "end", sending.readable
      PROVE  Completed(fragslot, d).length = sending.bits
    <2>1. whole /\ p.sdu = sending.left
        BY <1>2, <1>3 DEF Found, HasSdu
    <2>2. PICK m \in Nat, n \in Nat : m = sending.bits /\ n = sending.left
        BY DEF WholeInv, SentInv
    <2>3. m \in MessageBits /\ Held(fragslot, m - n) /\ m + 268 <= MsgbSize
        BY <1>3, <2>2 DEF WholeInv, FitsBuffer
    <2> HIDE DEF d
    <2>4. d.body = n /\ m - n \in Int /\ (m - n) + d.body + 268 <= MsgbSize
        BY <2>1, <2>2, <2>3, UpperMacAssumption DEF UpperMacAssumption
    <2>5. Completed(fragslot, d).length = (m - n) + d.body
        BY <2>3, <2>4, PartHolds
    <2> QED
        BY <2>2, <2>4, <2>5
<1>4. /\ l.regular => /\ l.kind \in HasSdu /\ l.readable => l.whole
                      /\ l.kind = "end" => l.message
    <2> HIDE DEF d
    <2>1. /\ l.regular = ~ReservedLength(p) /\ l.kind = p.kind /\ l.readable = Readable(p)
          /\ l.whole = whole /\ l.message = message
        OBVIOUS
    <2> HIDE DEF l, whole
    <2> QED
        BY <1>2, <1>3, <2>1
<1> HIDE DEF l
<1>5. \A k \in last' : k.regular => /\ k.kind \in HasSdu /\ k.readable => k.whole
                                    /\ k.kind = "end" => k.message
    BY <1>1, <1>4
<1> QED
    BY <1>5 DEF MessageIsWhole, HasSdu

LEMMA LastHides ==
    ASSUME SentInv, NEW p, Moves(p), Found(p) \/ ReservedLength(p), Parse(p)
    PROVE  NothingIsHidden' /\ \A q \in again' : ReservedLength(q)
<1> DEFINE room == N - (pos + p.bits)
           result == Result(p)
           l == [kind |-> p.kind, regular |-> ~ReservedLength(p),
                 whole |-> Decoded(p).body = p.sdu, readable |-> Readable(p), room |-> room,
                 message |-> sending.readable => Completed(fragslot, Decoded(p)).length = sending.bits]
<1>1. /\ last' = {l} /\ l.kind = p.kind /\ l.regular = ~ReservedLength(p)
      /\ l.room = room
    BY DEF Parse
<1>2. /\ result \in Int /\ p.bits \in Int /\ (result > 0 => result = p.bits)
      /\ offset = pos /\ pos \in Nat /\ N \in Int
    BY BlocksHaveBits DEF Moves, SentInv, AlignInv
<1>3. ReservedLength(p)
      \/ /\ result < 0 => p.bits = N - pos \/ p.kind = "null"
         /\ result # 0
    BY DEF Found
<1>4. IF result < 0 \/ ~More(offset + result) THEN NextBlock
      ELSE /\ offset' = offset + result
           /\ pos' = IF result = 0 THEN pos ELSE pos + p.bits
           /\ again' = IF result = 0 THEN {p} ELSE {}
           /\ UNCHANGED type
    BY DEF Parse
<1>5. room = N - (pos + p.bits)
    OBVIOUS
<1> HIDE DEF result, room, l
<1>6. CASE result < 0 \/ ~More(offset + result)
    <2>1. again' = {}
        BY <1>4, <1>6 DEF NextBlock
    <2>2. ReservedLength(p) \/ p.kind = "null" \/ room <= 16
        BY <1>2, <1>3, <1>5, <1>6 DEF More
    <2>3. room \in Int
        BY <1>2, <1>5
    <2>4. room < SmallestResource \/ p.kind = "null" \/ ReservedLength(p)
        BY <2>2, <2>3 DEF SmallestResource
    <2>5. \A k \in last' : k.room < SmallestResource \/ k.kind = "null" \/ ~k.regular
        BY <1>1, <2>4
    <2> QED
        BY <2>1, <2>5 DEF NothingIsHidden, SmallestResource
<1>7. CASE ~(result < 0 \/ ~More(offset + result))
    <2>1. /\ offset' = offset + result
          /\ again' = IF result = 0 THEN {p} ELSE {}
        BY <1>4, <1>7
    <2>2. result = 0 => ReservedLength(p)
        BY <1>3
    <2>3. ~(offset' = 0 /\ again' = {})
        BY <1>2, <1>7, <2>1
    <2> QED
        BY <2>1, <2>2, <2>3 DEF NothingIsHidden
<1> QED
    BY <1>6, <1>7

LEMMA SentStep ==
    ASSUME SentInv, ParseNext
    PROVE  /\ SentInv' /\ NothingIsHidden'
           /\ \E p : Moves(p) /\ (Found(p) \/ ReservedLength(p)) /\ Parse(p)
<1>1. PICK p \in IF again # {} THEN again ELSE Offered : Parse(p)
    BY DEF ParseNext
<1>2. AlignInv /\ sending.left \in Nat /\ \A q \in again : Moves(q) /\ ReservedLength(q)
    BY DEF SentInv, AlignInv
<1>3. Moves(p)
    BY <1>1, <1>2, OffersMove
<1>4. Found(p) \/ ReservedLength(p)
    BY <1>1, <1>2, OffersFound
<1>5. AlignInv'
    BY <1>1, <1>2, <1>3, ParseAligned
<1>6. sending' \in [bits : Nat, left : Nat, readable : BOOLEAN]
    <2>1. Transmit(p)
        BY <1>1 DEF Parse
    <2> QED
        BY <1>4, <2>1, TransmitType
<1>7. NothingIsHidden' /\ \A q \in again' : ReservedLength(q)
    BY <1>1, <1>3, <1>4, LastHides
<1> QED
    BY <1>1, <1>3, <1>4, <1>5, <1>6, <1>7 DEF SentInv

LEMMA SentNext ==
    /\ SentInv /\ [BlockNext]_blockVars => SentInv'
    /\ SentInv /\ NothingIsHidden /\ [BlockNext]_blockVars => NothingIsHidden'
<1>1. ASSUME UNCHANGED blockVars
      PROVE  (SentInv => SentInv') /\ (NothingIsHidden => NothingIsHidden')
    BY <1>1 DEF blockVars, SentInv, AlignInv, NothingIsHidden
<1> QED
    BY <1>1, SentStep DEF BlockNext

LEMMA WholeNext ==
    ASSUME FitsBuffer
    PROVE  /\ WholeInv /\ [BlockNext]_blockVars => WholeInv'
           /\ WholeInv /\ MessageIsWhole /\ [BlockNext]_blockVars => MessageIsWhole'
<1>1. ASSUME WholeInv, ParseNext
      PROVE  WholeInv' /\ MessageIsWhole'
    <2>1. SentInv
        BY <1>1 DEF WholeInv
    <2>2. PICK p : Moves(p) /\ (Found(p) \/ ReservedLength(p)) /\ Parse(p)
        BY <1>1, <2>1, SentStep
    <2>3. SentInv'
        BY <1>1, <2>1, SentStep
    <2>4. MessageIsWhole'
        BY <1>1, <2>2, LastWhole
    <2>5. sending'.readable => sending'.bits \in MessageBits /\ Held(fragslot', sending'.bits - sending'.left)
        BY <1>1, <2>2, TransmitWhole
    <2> QED
        BY <2>3, <2>4, <2>5 DEF WholeInv
<1>2. ASSUME UNCHANGED blockVars
      PROVE  (WholeInv => WholeInv') /\ (MessageIsWhole => MessageIsWhole')
    BY <1>2 DEF blockVars, WholeInv, SentInv, AlignInv, MessageIsWhole
<1> QED
    BY <1>1, <1>2 DEF BlockNext

\* The loop never leaves a PDU behind in a block (tp_sap_udata_ind).
THEOREM NoPduIsHidden == BlockSpec => []NothingIsHidden
<1>1. BlockInit => SentInv /\ NothingIsHidden
    BY AlignInit DEF BlockInit, SentInv, NoMessage, NothingIsHidden
<1> QED
    BY <1>1, SentNext, PTL DEF BlockSpec

\* A TM-SDU is found with the length it was sent with, and a message that was sent in
\* fragments has all its bits at its MAC-END (rx_resrc, rx_macfrag, rx_macend): for any
\* messages that fit in a fragslot.
THEOREM MessagesAreWhole ==
    ASSUME FitsBuffer
    PROVE  BlockSpec => []MessageIsWhole
<1>1. BlockInit => MessageIsWhole
    BY DEF BlockInit, MessageIsWhole
<1> QED
    BY <1>1, WholeInit, WholeNext, PTL DEF BlockSpec
=============================================================================
