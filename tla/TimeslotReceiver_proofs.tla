----------------------- MODULE TimeslotReceiver_proofs -----------------------
(***************************************************************************)
(* Proofs of the safety properties of TimeslotReceiver, for every number   *)
(* of frames and multiframes and every set of usage markers.               *)
(***************************************************************************)
EXTENDS TimeslotReceiver, FiniteSetTheorems, TLAPS

-----------------------------------------------------------------------------
(* The time, one slot further.                                             *)

\* A carry leaves 1 in the field it comes from and adds 1 to the next one.
LEMMA CarryByOne ==
    ASSUME NEW m \in Nat, m >= 2
    PROVE  (m + 1) % m = 1 /\ (m + 1) \div m = 1
<1>1. m + 1 = m * 1 + 1 OBVIOUS
<1>2. QED BY <1>1, SMTT(30)

At(tn, fn, mn) == [hn |-> 0, sn |-> 0, tn |-> tn, fn |-> fn, mn |-> mn]

\* The three carries, on a time whose fields are known.
LEMMA Carries ==
    ASSUME NEW tn \in Nat, NEW fn \in Nat, NEW mn \in Nat
    PROVE  /\ NormalizeMn(At(tn, fn, mn)) = At(tn, fn, IF mn > MaxMn THEN mn % MaxMn ELSE mn)
           /\ NormalizeFn(At(tn, fn, mn)) =
                 NormalizeMn(IF fn > MaxFn THEN At(tn, fn % MaxFn, mn + fn \div MaxFn)
                                           ELSE At(tn, fn, mn))
           /\ NormalizeTn(At(tn, fn, mn)) =
                 NormalizeFn(IF tn > 4 THEN At(tn % 4, fn + tn \div 4, mn)
                                       ELSE At(tn, fn, mn))
           /\ AddTn(At(tn, fn, mn), 1) = NormalizeTn(At(tn + 1, fn, mn))
<1>1. NormalizeMn(At(tn, fn, mn)) = At(tn, fn, IF mn > MaxMn THEN mn % MaxMn ELSE mn)
      BY Zenon DEF NormalizeMn, At
<1>2. NormalizeFn(At(tn, fn, mn)) =
         NormalizeMn(IF fn > MaxFn THEN At(tn, fn % MaxFn, mn + fn \div MaxFn)
                                   ELSE At(tn, fn, mn))
  <2>1. At(tn, fn, mn).fn = fn BY DEF At
  <2>2. [At(tn, fn, mn) EXCEPT !.mn = At(tn, fn, mn).mn + At(tn, fn, mn).fn \div MaxFn]
        = At(tn, fn, mn + fn \div MaxFn)
        BY DEF At
  <2>3. [At(tn, fn, mn + fn \div MaxFn) EXCEPT
            !.fn = At(tn, fn, mn + fn \div MaxFn).fn % MaxFn]
        = At(tn, fn % MaxFn, mn + fn \div MaxFn)
        BY DEF At
  <2>4. QED BY <2>1, <2>2, <2>3, Zenon DEF NormalizeFn
<1>3. NormalizeTn(At(tn, fn, mn)) =
         NormalizeFn(IF tn > 4 THEN At(tn % 4, fn + tn \div 4, mn) ELSE At(tn, fn, mn))
  <2>1. At(tn, fn, mn).tn = tn BY DEF At
  <2>2. [At(tn, fn, mn) EXCEPT !.fn = At(tn, fn, mn).fn + At(tn, fn, mn).tn \div 4]
        = At(tn, fn + tn \div 4, mn)
        BY DEF At
  <2>3. [At(tn, fn + tn \div 4, mn) EXCEPT !.tn = At(tn, fn + tn \div 4, mn).tn % 4]
        = At(tn % 4, fn + tn \div 4, mn)
        BY DEF At
  <2>4. QED BY <2>1, <2>2, <2>3, Zenon DEF NormalizeTn
<1>4. AddTn(At(tn, fn, mn), 1) = NormalizeTn(At(tn + 1, fn, mn))
  <2>1. [At(tn, fn, mn) EXCEPT !.tn = At(tn, fn, mn).tn + 1] = At(tn + 1, fn, mn) BY DEF At
  <2>2. QED BY <2>1, Zenon DEF AddTn
<1>5. QED BY <1>1, <1>2, <1>3, <1>4

\* One slot later, for a time in the widest range: every carry written out.
LEMMA Tick ==
    ASSUME NEW tn \in 0 .. 4, NEW fn \in 0 .. MaxFn, NEW mn \in 0 .. MaxMn
    PROVE  AddTn(At(tn, fn, mn), 1) =
             IF tn < 4 THEN At(tn + 1, fn, mn)
             ELSE IF fn < MaxFn THEN At(1, fn + 1, mn)
             ELSE IF mn < MaxMn THEN At(1, 1, mn + 1)
             ELSE At(1, 1, 1)
<1> USE TetraTdmaAssumption, TimeslotReceiverAssumption
    DEF TetraTdmaAssumption, TimeslotReceiverAssumption
<1>1. (MaxFn + 1) % MaxFn = 1 /\ (MaxFn + 1) \div MaxFn = 1 BY CarryByOne
<1>2. (MaxMn + 1) % MaxMn = 1 /\ (MaxMn + 1) \div MaxMn = 1 BY CarryByOne
<1>3. AddTn(At(tn, fn, mn), 1) = NormalizeTn(At(tn + 1, fn, mn)) BY Carries
<1>4. \A m \in 0 .. MaxMn + 1 :
        NormalizeMn(At(1, 1, m)) = At(1, 1, IF m > MaxMn THEN 1 ELSE m)
      BY <1>2, Carries
<1>5. CASE tn < 4
  <2>1. NormalizeTn(At(tn + 1, fn, mn)) = NormalizeFn(At(tn + 1, fn, mn)) BY <1>5, Carries
  <2>2. NormalizeFn(At(tn + 1, fn, mn)) = NormalizeMn(At(tn + 1, fn, mn)) BY <1>5, Carries
  <2>3. NormalizeMn(At(tn + 1, fn, mn)) = At(tn + 1, fn, mn) BY <1>5, Carries
  <2>4. QED BY <1>3, <1>5, <2>1, <2>2, <2>3
<1>6. CASE tn = 4
  <2>1. NormalizeTn(At(5, fn, mn)) = NormalizeFn(At(1, fn + 1, mn)) BY Carries
  <2>2. CASE fn < MaxFn
    <3>1. NormalizeFn(At(1, fn + 1, mn)) = NormalizeMn(At(1, fn + 1, mn)) BY <2>2, Carries
    <3>2. NormalizeMn(At(1, fn + 1, mn)) = At(1, fn + 1, mn) BY <2>2, Carries
    <3>3. QED BY <1>3, <1>6, <2>1, <2>2, <3>1, <3>2
  <2>3. CASE fn = MaxFn
    <3>1. NormalizeFn(At(1, MaxFn + 1, mn)) = NormalizeMn(At(1, 1, mn + 1)) BY <1>1, Carries
    <3>2. NormalizeMn(At(1, 1, mn + 1)) = At(1, 1, IF mn + 1 > MaxMn THEN 1 ELSE mn + 1)
          BY <1>4
    <3>3. QED BY <1>3, <1>6, <2>1, <2>3, <3>1, <3>2
  <2>4. QED BY <2>2, <2>3
<1>7. QED BY <1>5, <1>6

\* Any time the receiver may have is followed by one with a slot number from 1
\* to 4, the time it has before the first SYNC PDU included.
LEMMA TickLocal ==
    ASSUME NEW t \in LocalTimes
    PROVE  AddTn(t, 1) \in LocalTimes /\ AddTn(t, 1).tn \in 1 .. 4
<1> USE TetraTdmaAssumption, TimeslotReceiverAssumption
    DEF TetraTdmaAssumption, TimeslotReceiverAssumption
<1>1. t = At(t.tn, t.fn, t.mn) /\ t.tn \in 0 .. 4 /\ t.fn \in 0 .. MaxFn /\ t.mn \in 0 .. MaxMn
      BY DEF LocalTimes, At
<1>2. \A tn \in 1 .. 4, fn \in 0 .. MaxFn, mn \in 0 .. MaxMn :
        At(tn, fn, mn) \in LocalTimes /\ At(tn, fn, mn).tn \in 1 .. 4
      BY DEF LocalTimes, At
<1>3. \E tn \in 1 .. 4, fn \in 0 .. MaxFn, mn \in 0 .. MaxMn : AddTn(t, 1) = At(tn, fn, mn)
  <2>1. AddTn(t, 1) =
             IF t.tn < 4 THEN At(t.tn + 1, t.fn, t.mn)
             ELSE IF t.fn < MaxFn THEN At(1, t.fn + 1, t.mn)
             ELSE IF t.mn < MaxMn THEN At(1, 1, t.mn + 1)
             ELSE At(1, 1, 1)
        BY <1>1, Tick
  <2>2. QED BY <1>1, <2>1
<1>4. QED BY <1>2, <1>3

\* The base station's time stays in its range, and the frame changes only with the
\* first slot of the next one.
LEMMA TickAir ==
    ASSUME NEW t \in Times
    PROVE  /\ AddTn(t, 1) \in Times
           /\ AddTn(t, 1).tn # 1 => AddTn(t, 1).fn = t.fn
<1> USE TetraTdmaAssumption, TimeslotReceiverAssumption
    DEF TetraTdmaAssumption, TimeslotReceiverAssumption
<1>1. t = At(t.tn, t.fn, t.mn) /\ t.tn \in 1 .. 4 /\ t.fn \in 1 .. MaxFn /\ t.mn \in 1 .. MaxMn
      BY DEF Times, At
<1>2. \A tn \in 1 .. 4, fn \in 1 .. MaxFn, mn \in 1 .. MaxMn :
        /\ At(tn, fn, mn) \in Times
        /\ At(tn, fn, mn).tn = tn /\ At(tn, fn, mn).fn = fn
      BY DEF Times, At
<1>3. AddTn(t, 1) =
             IF t.tn < 4 THEN At(t.tn + 1, t.fn, t.mn)
             ELSE IF t.fn < MaxFn THEN At(1, t.fn + 1, t.mn)
             ELSE IF t.mn < MaxMn THEN At(1, 1, t.mn + 1)
             ELSE At(1, 1, 1)
      BY <1>1, Tick
<1>4. QED BY <1>1, <1>2, <1>3

-----------------------------------------------------------------------------
(* The invariant.  What is pending determines what was done of the burst.  *)

Lchans == {"SB1", "SB2", "BBK", "NDB1", "NDB2", "SCH_F"}

AfterBbk == {<<"SB2">>, <<"NDB1", "NDB2">>, <<"NDB2">>, <<"SCH_F">>}
Pending ==
    {<<>>, <<"SB1", "BBK", "SB2">>, <<"BBK", "SB2">>, <<"BBK", "NDB1", "NDB2">>,
     <<"BBK", "SCH_F">>} \cup AfterBbk

Types ==
    /\ locked \in BOOLEAN
    /\ time \in LocalTimes /\ tcdTime \in LocalTimes
    /\ traffic \in Nat
    /\ frame \in 0 .. MaxFn /\ lastFrame \in 0 .. MaxFn /\ activeSlot \in 0 .. 4
    /\ shown \subseteq [index : 0 .. 3, content : 0 .. 4]
    /\ air \in Times
    /\ good \in BOOLEAN /\ synced \in BOOLEAN
    /\ heard \subseteq Usages \cup {0} /\ played \subseteq 1 .. 4

Parsing ==
    /\ blocks \in Pending
    /\ blocks # <<>> => locked /\ time.tn \in 1 .. 4
    /\ blocks \in {<<"BBK", "SCH_F">>, <<"SCH_F">>} => frame = time.fn

Assigned ==
    blocks \in AfterBbk =>
        /\ \E usage \in heard : traffic # 0 => traffic = usage
        /\ synced /\ air.fn = MaxFn => traffic = 0

Synced ==
    synced =>
        /\ locked /\ time = air
        /\ played = {} \/ (played = {activeSlot} /\ lastFrame = air.fn)
        /\ air.fn = MaxFn => played = {}

IInv == Types /\ Parsing /\ Assigned /\ Synced

LEMMA Sequences ==
    ASSUME NEW x, NEW y, NEW z
    PROVE  /\ Head(<<x>>) = x /\ Tail(<<x>>) = <<>> /\ <<x>> # <<>>
           /\ Head(<<x, y>>) = x /\ Tail(<<x, y>>) = <<y>> /\ <<x, y>> # <<>>
           /\ Head(<<x, y, z>>) = x /\ Tail(<<x, y, z>>) = <<y, z>> /\ <<x, y, z>> # <<>>
           /\ Tail(<<x, y>>) # <<>> /\ Tail(<<x, y, z>>) # <<>>
OBVIOUS

\* Which block is first says which burst is being parsed.
LEMMA BlockSteps ==
    ASSUME blocks \in Pending
    PROVE  /\ Block("SB1") => blocks' = <<"BBK", "SB2">>
           /\ Block("BBK") => /\ blocks' \in AfterBbk
                              /\ blocks' = <<"SCH_F">> => blocks = <<"BBK", "SCH_F">>
           /\ Block("SCH_F") => blocks = <<"SCH_F">> /\ blocks' = <<>>
           /\ \A type \in {"SB2", "NDB1", "NDB2"} :
                Block(type) => /\ blocks' \in {<<>>, <<"NDB2">>}
                               /\ blocks' # <<>> => blocks = <<"NDB1", "NDB2">>
           /\ \A type : Block(type) => blocks # <<>>
<1>1. CASE blocks = <<>>
      BY <1>1 DEF Block
<1>2. CASE blocks = <<"SB1", "BBK", "SB2">>
  <2>1. Head(blocks) = "SB1" /\ Tail(blocks) = <<"BBK", "SB2">> BY <1>2
  <2>2. QED BY <1>2, <2>1, Sequences DEF Block
<1>3. CASE blocks = <<"BBK", "SB2">>
  <2>1. Head(blocks) = "BBK" /\ Tail(blocks) = <<"SB2">> BY <1>3
  <2>2. QED BY <1>3, <2>1 DEF Block, AfterBbk
<1>4. CASE blocks = <<"BBK", "NDB1", "NDB2">>
  <2>1. Head(blocks) = "BBK" /\ Tail(blocks) = <<"NDB1", "NDB2">> BY <1>4
  <2>2. QED BY <1>4, <2>1 DEF Block, AfterBbk
<1>5. CASE blocks = <<"BBK", "SCH_F">>
  <2>1. Head(blocks) = "BBK" /\ Tail(blocks) = <<"SCH_F">> BY <1>5
  <2>2. QED BY <1>5, <2>1 DEF Block, AfterBbk
<1>6. CASE blocks = <<"SB2">>
  <2>1. Head(blocks) = "SB2" /\ Tail(blocks) = <<>> BY <1>6
  <2>2. QED BY <1>6, <2>1 DEF Block
<1>7. CASE blocks = <<"NDB2">>
  <2>1. Head(blocks) = "NDB2" /\ Tail(blocks) = <<>> BY <1>7
  <2>2. QED BY <1>7, <2>1 DEF Block
<1>8. CASE blocks = <<"NDB1", "NDB2">>
  <2>1. Head(blocks) = "NDB1" /\ Tail(blocks) = <<"NDB2">> BY <1>8
  <2>2. QED BY <1>8, <2>1 DEF Block
<1>9. CASE blocks = <<"SCH_F">>
  <2>1. Head(blocks) = "SCH_F" /\ Tail(blocks) = <<>> BY <1>9
  <2>2. QED BY <1>9, <2>1 DEF Block
<1>10. QED BY <1>1, <1>2, <1>3, <1>4, <1>5, <1>6, <1>7, <1>8, <1>9 DEF Pending, AfterBbk

LEMMA LastBlock ==
    ASSUME blocks \in Pending, blocks # <<>>, Tail(blocks) = <<>>
    PROVE  Head(blocks) \in {"SB2", "NDB2", "SCH_F"}
<1>1. \A x, y, z : Tail(<<x, y, z>>) # <<>> /\ Tail(<<x, y>>) # <<>>
      BY Sequences
<1>2. blocks # <<"SB1", "BBK", "SB2">> /\ blocks # <<"BBK", "NDB1", "NDB2">>
      BY <1>1, Zenon
<1>3. blocks # <<"BBK", "SB2">> /\ blocks # <<"BBK", "SCH_F">> /\ blocks # <<"NDB1", "NDB2">>
      BY <1>1, Zenon
<1>4. blocks \in {<<"SB2">>, <<"NDB2">>, <<"SCH_F">>}
      BY <1>2, <1>3, Zenon DEF Pending, AfterBbk
<1>5. QED BY <1>4

\* The display array is indexed within its bounds.
LEMMA NoteInBounds ==
    ASSUME blocks \in Pending, blocks # <<>>, NEW t \in LocalTimes, t.tn \in 1 .. 4,
           NEW isTraffic, Note(t, isTraffic)
    PROVE  shown' \subseteq [index : 0 .. 3, content : 0 .. 4]
<1>1. Tail(blocks) = <<>> => Head(blocks) \in {"SB2", "NDB2", "SCH_F"}
      BY LastBlock
<1>2. Tail(blocks) = <<>> => Content(Head(blocks), isTraffic) \in 0 .. 4
      BY <1>1 DEF Content
<1>3. t.tn - 1 \in 0 .. 3 OBVIOUS
<1>4. QED BY <1>2, <1>3 DEF Note

-----------------------------------------------------------------------------
(* The steps.                                                              *)

LEMMA Initially == Init => IInv
<1>1. SUFFICES ASSUME Init PROVE IInv OBVIOUS
<1>2. ZeroTime \in LocalTimes
      BY TetraTdmaAssumption DEF TetraTdmaAssumption, ZeroTime, LocalTimes
<1>3. Types
  <2>1. time \in LocalTimes /\ tcdTime \in LocalTimes /\ air \in Times
        BY <1>1, <1>2, Zenon DEF Init
  <2>2. /\ traffic \in Nat /\ frame \in 0 .. MaxFn /\ lastFrame \in 0 .. MaxFn
        /\ activeSlot \in 0 .. 4
        BY <1>1, TetraTdmaAssumption DEF TetraTdmaAssumption, Init
  <2>3. QED BY <1>1, <2>1, <2>2, Zenon DEF Init, Types
<1>4. Parsing
      BY <1>1, Zenon DEF Init, Parsing, Pending, BlocksOf
<1>5. Assigned
      BY <1>1, <1>4, Sequences DEF Init, Assigned, AfterBbk
<1>6. Synced
      BY <1>1 DEF Init, Synced
<1>7. QED BY <1>3, <1>4, <1>5, <1>6 DEF IInv

\* A timeslot: both times advance, and the speech of the frame is forgotten with
\* the frame.
LEMMA ReceiveStep ==
    ASSUME IInv, NEW b \in Bursts, Receive(b)
    PROVE  IInv'
<1>  USE DEF IInv
<1>1. /\ AddTn(air, 1) \in Times
      /\ AddTn(air, 1).tn # 1 => AddTn(air, 1).fn = air.fn
      BY TickAir DEF Types
<1>2. AddTn(time, 1) \in LocalTimes /\ AddTn(time, 1).tn \in 1 .. 4
      BY TickLocal DEF Types
<1>3. /\ time' \in LocalTimes
      /\ locked' \in BOOLEAN
      /\ (blocks' = BlocksOf(b) /\ locked) \/ blocks' = <<>>
      /\ frame' = time'.fn \/ (frame' = frame /\ blocks' = <<>>)
      BY <1>2 DEF Receive, Types
<1>4. BlocksOf(b) \in Pending
      BY DEF BlocksOf, Bursts, Pending
<1>5. BlocksOf(b) # <<>> => b # "lost"
      BY DEF BlocksOf, Bursts
<1>6. BlocksOf(b) \notin AfterBbk
      BY DEF BlocksOf, Bursts, AfterBbk
<1>7. Types'
  <2>1. frame' \in 0 .. MaxFn
        BY <1>3 DEF Types, LocalTimes
  <2>2. QED BY <1>1, <1>3, <2>1 DEF Types, Receive
<1>8. Parsing'
  <2>1. blocks' \in Pending
        BY <1>3, <1>4 DEF Pending
  <2>2. blocks' # <<>> => locked' /\ time'.tn \in 1 .. 4
        BY <1>2, <1>5 DEF Receive
  <2>3. blocks' # <<>> => frame' = time'.fn
        BY <1>3
  <2>4. QED BY <2>1, <2>2, <2>3 DEF Parsing
<1>9. Assigned'
      BY <1>3, <1>6 DEF Assigned, AfterBbk
<1>10. Synced'
  <2>1. SUFFICES ASSUME synced' PROVE Synced'
        BY DEF Synced
  <2>2. synced /\ locked' BY <2>1 DEF Receive
  <2>3. locked /\ time = air BY <2>2 DEF Synced
  <2>4. time' = air' BY <2>3 DEF Receive
  <2>5. CASE air'.tn = 1
        BY <2>2, <2>4, <2>5 DEF Synced, Receive
  <2>6. CASE air'.tn # 1
    <3>1. air'.fn = air.fn BY <1>1, <2>6 DEF Receive
    <3>2. played' = played /\ lastFrame' = lastFrame /\ activeSlot' = activeSlot
          BY <2>2, <2>6 DEF Receive
    <3>3. QED BY <2>2, <2>4, <3>1, <3>2 DEF Synced
  <2>7. QED BY <2>5, <2>6
<1>11. QED BY <1>7, <1>8, <1>9, <1>10

\* A SYNC PDU: good or garbled, the time is the base station's if it was known to
\* be or becomes known to be.
LEMMA RxSb1Step ==
    ASSUME IInv, RxSb1
    PROVE  IInv'
<1>  USE DEF IInv
<1>1. PICK crc_ok \in BOOLEAN :
        /\ tcdTime' = PublishedTime(crc_ok)
        /\ synced' = (synced \/ crc_ok)
        /\ played' = IF crc_ok /\ ~synced THEN {} ELSE played
      BY DEF RxSb1
<1>2. /\ time' = tcdTime' /\ Note(time', traffic) /\ Block("SB1")
      /\ UNCHANGED <<locked, traffic, frame, lastFrame, activeSlot, air, good, heard>>
      BY DEF RxSb1
<1>3. blocks' = <<"BBK", "SB2">> /\ blocks # <<>> /\ locked
      BY <1>2, BlockSteps DEF Parsing
<1>4. time' = air \/ time' = time
      BY <1>1, <1>2 DEF PublishedTime
<1>5. time' \in LocalTimes /\ time'.tn \in 1 .. 4
  <2>1. air \in LocalTimes /\ air.tn \in 1 .. 4
        BY TetraTdmaAssumption DEF TetraTdmaAssumption, Types, Times, LocalTimes
  <2>2. time \in LocalTimes /\ time.tn \in 1 .. 4
        BY <1>3 DEF Types, Parsing
  <2>3. QED BY <1>4, <2>1, <2>2
<1>6. Types'
  <2>1. shown' \subseteq [index : 0 .. 3, content : 0 .. 4]
        BY <1>2, <1>3, <1>5, NoteInBounds DEF Parsing
  <2>2. played' \subseteq 1 .. 4 /\ synced' \in BOOLEAN
        BY <1>1 DEF Types
  <2>3. QED BY <1>2, <1>5, <2>1, <2>2 DEF Types
<1>7. Parsing'
      BY <1>2, <1>3, <1>5 DEF Parsing, Pending
<1>8. Assigned'
      BY <1>3 DEF Assigned, AfterBbk
<1>9. Synced'
  <2>1. SUFFICES ASSUME synced' PROVE Synced'
        BY DEF Synced
  <2>2. time' = air'
        BY <1>1, <1>2, <2>1 DEF PublishedTime, Synced
  <2>3. QED BY <1>1, <1>2, <1>3, <2>1, <2>2 DEF Synced
<1>10. QED BY <1>6, <1>7, <1>8, <1>9

\* The access assignment: what the traffic flag is now, it says.
LEMMA RxBbkStep ==
    ASSUME IInv, RxBbk
    PROVE  IInv'
<1>  USE DEF IInv
<1>1. PICK usage \in Usages \cup {0} :
        traffic' = IsTraffic(Marker(time, usage)) /\ heard' = {usage}
      BY DEF RxBbk
<1>2. /\ tcdTime' = time /\ Note(time, traffic') /\ Block("BBK")
      /\ UNCHANGED <<locked, time, frame, lastFrame, activeSlot, air, good, synced, played>>
      BY DEF RxBbk
<1>3. /\ blocks' \in AfterBbk /\ blocks # <<>> /\ locked
      /\ blocks' = <<"SCH_F">> => blocks = <<"BBK", "SCH_F">>
      BY <1>2, BlockSteps DEF Parsing
<1>4. usage \in Nat /\ traffic' \in Nat /\ (traffic' # 0 => traffic' = usage)
      BY <1>1, TimeslotReceiverAssumption DEF TimeslotReceiverAssumption, IsTraffic, Marker
<1>5. Types'
  <2>1. shown' \subseteq [index : 0 .. 3, content : 0 .. 4]
        BY <1>2, <1>3, NoteInBounds DEF Parsing, Types
  <2>2. QED BY <1>1, <1>2, <1>4, <2>1 DEF Types
<1>6. Parsing'
  <2>1. blocks' \in Pending BY <1>3 DEF Pending
  <2>2. blocks' # <<"BBK", "SCH_F">> BY <1>3 DEF AfterBbk
  <2>3. QED BY <1>2, <1>3, <2>1, <2>2 DEF Parsing
<1>7. Assigned'
  <2>1. \E u \in heard' : traffic' # 0 => traffic' = u
        BY <1>1, <1>4
  <2>2. synced' /\ air'.fn = MaxFn => traffic' = 0
        BY <1>1, <1>2 DEF Synced, IsTraffic, Marker
  <2>3. QED BY <2>1, <2>2 DEF Assigned
<1>8. Synced'
      BY <1>2 DEF Synced
<1>9. QED BY <1>5, <1>6, <1>7, <1>8

\* Speech: if it is played, it is the first of its frame or of the slot that was,
\* and the frame is not the last one of the multiframe.
LEMMA PlayStep ==
    ASSUME IInv, PlaySchF
    PROVE  IInv'
<1>  USE DEF IInv
<1>1. /\ traffic # 0 /\ Block("SCH_F") /\ tcdTime' = time /\ Note(time, traffic)
      /\ IF frame # lastFrame
         THEN activeSlot' = time.tn /\ lastFrame' = LastFrame
         ELSE UNCHANGED <<activeSlot, lastFrame>>
      /\ played' = IF activeSlot' = time.tn THEN played \cup {air.tn} ELSE played
      /\ UNCHANGED <<locked, time, traffic, frame, air, good, synced, heard>>
      BY DEF PlaySchF
<1>2. /\ blocks = <<"SCH_F">> /\ blocks' = <<>> /\ blocks # <<>>
      /\ locked /\ time.tn \in 1 .. 4 /\ frame = time.fn
      BY <1>1, BlockSteps DEF Parsing
<1>3. Types'
  <2>1. shown' \subseteq [index : 0 .. 3, content : 0 .. 4]
        BY <1>1, <1>2, NoteInBounds DEF Parsing, Types
  <2>2. air.tn \in 1 .. 4 BY DEF Types, Times
  <2>3. played' \subseteq 1 .. 4 BY <1>1, <2>2 DEF Types
  <2>4. activeSlot' \in 0 .. 4 /\ lastFrame' \in 0 .. MaxFn
        BY <1>1, <1>2 DEF Types, LastFrame
  <2>5. QED BY <1>1, <2>1, <2>3, <2>4 DEF Types
<1>4. blocks' \notin AfterBbk /\ blocks' \in Pending
      /\ blocks' # <<"BBK", "SCH_F">> /\ blocks' # <<"SCH_F">>
      BY <1>2, Sequences DEF AfterBbk, Pending
<1>5. Parsing'
      BY <1>2, <1>4 DEF Parsing
<1>6. Assigned'
      BY <1>4 DEF Assigned
<1>7. Synced'
  <2>1. SUFFICES ASSUME synced PROVE Synced'
        BY <1>1 DEF Synced
  <2>2. locked /\ time = air /\ frame = air.fn BY <1>2, <2>1 DEF Synced
  <2>3. air.fn # MaxFn BY <1>1, <1>2, <2>1 DEF Assigned, AfterBbk
  <2>4. CASE frame # lastFrame
    <3>1. played = {} BY <2>1, <2>2, <2>4 DEF Synced
    <3>2. activeSlot' = air.tn /\ lastFrame' = air.fn /\ played' = {air.tn}
          BY <1>1, <2>2, <2>4, <3>1 DEF LastFrame
    <3>3. QED BY <1>1, <2>2, <2>3, <3>2 DEF Synced
  <2>5. CASE frame = lastFrame
    <3>1. activeSlot' = activeSlot /\ lastFrame' = air.fn BY <1>1, <2>2, <2>5
    <3>2. played' = {} \/ played' = {activeSlot'}
          BY <1>1, <2>1, <2>2, <3>1 DEF Synced
    <3>3. QED BY <1>1, <2>2, <2>3, <3>1, <3>2 DEF Synced
  <2>6. QED BY <2>4, <2>5
<1>8. QED BY <1>3, <1>5, <1>6, <1>7

\* The other blocks leave all of this alone.
LEMMA RxOtherStep ==
    ASSUME IInv, RxOther
    PROVE  IInv'
<1>  USE DEF IInv
<1>1. /\ \/ \E type \in {"SB2", "NDB1", "NDB2"} : Block(type)
         \/ Block("SCH_F")
      /\ tcdTime' = time /\ Note(time, traffic)
      /\ UNCHANGED <<locked, time, traffic, frame, lastFrame, activeSlot, air, good, synced,
                     heard, played>>
      BY DEF RxOther
<1>2. /\ blocks # <<>> /\ blocks' \in {<<>>, <<"NDB2">>}
      /\ blocks' # <<>> => blocks = <<"NDB1", "NDB2">>
      BY <1>1, BlockSteps DEF Parsing
<1>3. Types'
  <2>1. shown' \subseteq [index : 0 .. 3, content : 0 .. 4]
        BY <1>1, <1>2, NoteInBounds DEF Parsing, Types
  <2>2. QED BY <1>1, <2>1 DEF Types
<1>4. Parsing'
  <2>1. blocks' \in Pending /\ blocks' # <<"BBK", "SCH_F">> /\ blocks' # <<"SCH_F">>
        BY <1>2, Sequences DEF Pending, AfterBbk
  <2>2. QED BY <1>1, <1>2, <2>1 DEF Parsing
<1>5. Assigned'
  <2>1. blocks' \in AfterBbk => blocks \in AfterBbk
        BY <1>2, Sequences DEF AfterBbk
  <2>2. QED BY <1>1, <2>1 DEF Assigned
<1>6. Synced'
      BY <1>1 DEF Synced
<1>7. QED BY <1>3, <1>4, <1>5, <1>6

LEMMA Inductive == IInv /\ [Next]_vars => IInv'
<1>1. ASSUME IInv, NEW b \in Bursts, Receive(b) PROVE IInv'
      BY <1>1, ReceiveStep
<1>2. ASSUME IInv, RxBlock PROVE IInv'
      BY <1>2, RxSb1Step, RxBbkStep, PlayStep, RxOtherStep DEF RxBlock
<1>3. ASSUME IInv, SignalTurnsGood PROVE IInv'
  <2>1. good' \in BOOLEAN BY <1>3 DEF SignalTurnsGood
  <2>2. QED BY <1>3, <2>1 DEF SignalTurnsGood, receiver, IInv, Types, Parsing, Assigned, Synced
<1>4. ASSUME IInv, UNCHANGED vars PROVE IInv'
      BY <1>4 DEF vars, receiver, IInv, Types, Parsing, Assigned, Synced
<1>5. QED BY <1>1, <1>2, <1>3, <1>4 DEF Next, NextSlot

LEMMA Invariance == Spec => []IInv
BY Initially, Inductive, PTL DEF Spec

-----------------------------------------------------------------------------
(* The theorems.                                                           *)

\* The state is well-formed; in particular the slot number is from 1 to 4 whenever a
\* block is parsed, so that the display array is indexed within its bounds
\* (tetra_burst_rx_cb).
THEOREM TypeCorrect == Spec => []TypeOK
<1>1. \A p \in Pending : p \in Seq(Lchans)
  <2>1. \A x, y, z \in Lchans : /\ <<>> \in Seq(Lchans) /\ <<x>> \in Seq(Lchans)
                               /\ <<x, y>> \in Seq(Lchans) /\ <<x, y, z>> \in Seq(Lchans)
        OBVIOUS
  <2>2. \A x \in {"SB1", "SB2", "BBK", "NDB1", "NDB2", "SCH_F"} : x \in Lchans
        BY DEF Lchans
  <2>3. QED BY <2>1, <2>2, Zenon DEF Pending, AfterBbk
<1>2. IInv => TypeOK
      BY <1>1 DEF IInv, Types, Parsing, TypeOK, Lchans
<1>3. QED BY <1>2, Invariance, PTL

\* Once synchronised, and until the lock is lost, the time is the base station's.
THEOREM TimeIsRight == Spec => []TimeIsAirTime
<1>1. IInv => TimeIsAirTime
      BY DEF IInv, Synced, TimeIsAirTime
<1>2. QED BY <1>1, Invariance, PTL

\* A block is taken for speech only on the word of its own burst.
THEOREM TrafficIsOwn == Spec => []TrafficIsOfThisBurst
<1>1. IInv => TrafficIsOfThisBurst
  <2>1. SUFFICES ASSUME IInv, blocks # <<>>, Head(blocks) \in {"SCH_F", "NDB1", "NDB2", "SB2"}
                 PROVE  \E usage \in heard : traffic # 0 => traffic = usage
        BY DEF TrafficIsOfThisBurst
  <2>2. \A y, z : /\ Head(<<"BBK", y>>) = "BBK" /\ Head(<<"BBK", y, z>>) = "BBK"
                  /\ Head(<<"SB1", y, z>>) = "SB1"
        BY Sequences
  <2>3. blocks \in AfterBbk
        BY <2>1, <2>2 DEF IInv, Parsing, Pending
  <2>4. QED BY <2>1, <2>3 DEF IInv, Assigned
<1>2. QED BY <1>1, Invariance, PTL

\* With the right time, no frame has the speech of two slots.
THEOREM OneSlot == Spec => []OneSlotPerFrame
<1>1. IInv => OneSlotPerFrame
  <2>1. Cardinality({}) = 0 /\ Cardinality({activeSlot}) = 1
        BY FS_EmptySet, FS_Singleton, Zenon
  <2>2. IInv /\ synced => Cardinality(played) = 0 \/ Cardinality(played) = 1
        BY <2>1, Zenon DEF IInv, Synced
  <2>3. QED BY <2>2 DEF OneSlotPerFrame
<1>2. QED BY <1>1, Invariance, PTL

\* With the right time, nothing is played in the last frame of a multiframe.
THEOREM ControlFrameSilent == Spec => []ControlFrameIsSilent
<1>1. IInv => ControlFrameIsSilent
      BY DEF IInv, Synced, ControlFrameIsSilent
<1>2. QED BY <1>1, Invariance, PTL
=============================================================================
