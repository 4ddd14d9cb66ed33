-------------------------- MODULE BurstSync_proofs --------------------------
(***************************************************************************)
(* Theorems about the burst synchroniser, for every slot length, buffer    *)
(* size and set of chunk lengths that meet BurstSyncAssumption; all but    *)
(* TypeCorrect with chunks no longer than SmallChunks allows.              *)
(***************************************************************************)
EXTENDS BurstSyncSlots, SequenceTheorems, WellFoundedInduction, TLAPS

\* The longest chunk the synchroniser is good for: no more than a slot (it
\* consumes one per call), and no more than the shortest distance from the
\* start of the buffer to the frame start it has just computed.
SmallChunks == \A len \in Lens : len <= TS /\ len <= FStart + Blind

\* What makes the three invariants inductive: while the frame start is awaited
\* it is at least a chunk away, and once locked the buffer has room for a slot.
IInv ==
    /\ TypeOK
    /\ state = "unlocked" => gap = 0
    /\ state = "know_fstart" => \A len \in Lens : len <= gap
    /\ state = "locked" => gap = TS /\ Len(buf) + TS <= BufSize

LEMMA LeastNat ==
    ASSUME NEW T, T \subseteq Nat, T # {}
    PROVE  First(T) \in T
<1>1. PICK x \in T : \A y \in T : ~ (<<y, x>> \in OpToRel(<, Nat))
      BY WFMin, NatLessThanWellFounded
<1>2. ASSUME NEW y \in T  PROVE  x <= y
  <2>1. <<y, x>> \in Nat \X Nat
        OBVIOUS
  <2>2. ~ (y < x)
        BY <1>1, <2>1, Zenon DEF OpToRel
  <2>. QED  BY <2>2
<1>. QED  BY <1>2 DEF First

LEMMA DivMod ==
    ASSUME NEW d \in Nat \ {0}, NEW a \in Nat, NEW b \in Nat, a <= b
    PROVE  /\ a % d \in 0 .. d - 1
           /\ a \div d \in Nat
           /\ a \div d <= b \div d
           /\ a >= d => a \div d >= 1
<1>1. a % d \in 0 .. d - 1 /\ a = d * (a \div d) + (a % d) /\ a \div d \in Int
      OBVIOUS
<1>2. b % d \in 0 .. d - 1 /\ b = d * (b \div d) + (b % d) /\ b \div d \in Int
      OBVIOUS
<1>3. a \div d >= 0
      BY <1>1
<1>4. a \div d <= b \div d
      BY <1>1, <1>2
<1>5. a >= d => a \div d >= 1
      BY <1>1
<1>. QED  BY <1>1, <1>3, <1>4, <1>5

LEMMA SentType ==
    ASSUME TypeOK, NEW len \in Lens, NEW ks \in [1 .. Begun(len) -> AirKinds]
    PROVE  /\ Sent(len, ks) \in Seq(Bits)
           /\ Len(Sent(len, ks)) = len
<1>. DEFINE p(i) == air.ph + i - 1
<1>1. len \in Nat /\ TS \in Nat \ {0} /\ air.ph \in Nat
      BY BurstSyncAssumption DEF BurstSyncAssumption, TypeOK
<1>2. ASSUME NEW i \in 1 .. len
      PROVE  [ph |-> p(i) % TS,
              kind |-> IF p(i) < TS THEN air.kind ELSE ks[p(i) \div TS]] \in Bits
  <2>1. PICK q \in Nat : q = p(i) /\ q <= air.ph + len
        BY <1>1
  <2>2. q % TS \in 0 .. TS - 1
        BY <1>1, DivMod
  <2>3. q >= TS => q \div TS \in 1 .. Begun(len)
    <3>1. PICK r \in Nat : r = air.ph + len
          BY <1>1
    <3>2. q <= r
          BY <2>1, <3>1
    <3>4. q \div TS \in Nat /\ q \div TS <= r \div TS
          BY <1>1, <3>2, DivMod
    <3>5. r \div TS \in Nat
          BY <1>1, r <= r, DivMod
    <3>3. q >= TS => q \div TS >= 1
          BY <1>1, <2>1, DivMod
    <3>. QED  BY <3>1, <3>3, <3>4, <3>5 DEF Begun
  <2>4. q >= TS => ks[q \div TS] \in Kinds \cup {"lost"}
        BY <2>3 DEF AirKinds
  <2>5. air.kind \in Kinds \cup {"lost"}
        BY DEF TypeOK
  <2>. QED  BY <1>1, <2>1, <2>2, <2>4, <2>5 DEF Bits
<1>3. Sent(len, ks) = [i \in 1 .. len |->
                          [ph |-> p(i) % TS,
                           kind |-> IF p(i) < TS THEN air.kind ELSE ks[p(i) \div TS]]]
      BY DEF Sent
<1>. HIDE DEF p
<1>. QED  BY <1>1, <1>2, <1>3

LEMMA AppendedType ==
    ASSUME TypeOK, NEW bits \in Seq(Bits), Len(bits) \in Lens
    PROVE  /\ Dropped(Len(bits)) \in 0 .. Len(bits)
           /\ Appended(bits) \in Seq(Bits)
           /\ Len(Appended(bits)) <= BufSize
           /\ Dropped(Len(bits)) > 0 => Len(Appended(bits)) = BufSize
<1>. DEFINE d == Dropped(Len(bits))
           kept == SubSeq(buf, d + 1, Len(buf))
<1>1. /\ Len(bits) \in 1 .. BufSize /\ BufSize \in Nat
      /\ buf \in Seq(Bits) /\ Len(buf) \in 0 .. BufSize
      BY BurstSyncAssumption, LenProperties DEF BurstSyncAssumption, TypeOK
<1>2. /\ d \in 0 .. Len(bits) /\ d <= Len(buf)
      /\ Len(buf) - d + Len(bits) <= BufSize
      /\ d > 0 => Len(buf) - d + Len(bits) = BufSize
      BY <1>1 DEF Dropped
<1>. HIDE DEF d
<1>3. kept \in Seq(Bits) /\ Len(kept) = Len(buf) - d
  <2>1. \A i \in d + 1 .. Len(buf) : buf[i] \in Bits
        BY <1>1, <1>2, ElementOfSeq
  <2>2. /\ kept \in Seq(Bits)
        /\ Len(kept) = IF d + 1 <= Len(buf) THEN Len(buf) - (d + 1) + 1 ELSE 0
        BY <1>1, <1>2, <2>1, SubSeqProperties
  <2>. QED  BY <1>1, <1>2, <2>2
<1>4. /\ kept \o bits \in Seq(Bits)
      /\ Len(kept \o bits) = Len(buf) - d + Len(bits)
      BY <1>3, ConcatProperties
<1>5. Appended(bits) = kept \o bits
      BY DEF Appended, d
<1>. QED  BY <1>1, <1>2, <1>4, <1>5 DEF d

LEMMA FirstMatch ==
    ASSUME NEW b \in Seq(Bits), NEW kinds \in SUBSET Kinds, Matches(b, kinds) # {}
    PROVE  LET offs == First(Matches(b, kinds))
           IN  /\ offs \in Nat /\ Blind <= offs /\ offs < Len(b)
               /\ TrainSeq(b[offs + 1]) \in kinds
<1>1. Blind \in Nat /\ Len(b) \in Nat
      BY BurstSyncAssumption, LenProperties DEF BurstSyncAssumption
<1>2. Matches(b, kinds) \subseteq Nat
      BY <1>1 DEF Matches
<1>3. First(Matches(b, kinds)) \in Matches(b, kinds)
      BY <1>2, LeastNat
<1>. QED  BY <1>1, <1>3 DEF Matches

\* What one call leaves of the synchroniser's state, whichever branch it takes.
CallInv(s, b, g, o) ==
    /\ s \in {"unlocked", "know_fstart", "locked"}
    /\ b \in Seq(Bits) /\ Len(b) <= BufSize
    /\ g \in Int
    /\ o \in [tick : BOOLEAN, burst : Kinds \cup {"none"},
              sent : Kinds \cup {"lost", "none"}]
    /\ s = "unlocked" => g = 0
    /\ s = "know_fstart" => \A len \in Lens : len <= g
    /\ s = "locked" => g = TS /\ Len(b) + TS <= BufSize

LEMMA ConsumeInv ==
    ASSUME NEW b \in Seq(Bits), TS <= Len(b), Len(b) <= BufSize, Consume(b)
    PROVE  CallInv(state', buf', gap', out')
<1>1. TS \in Nat \ {0} /\ BufSize \in Nat /\ Len(b) \in Nat
      BY BurstSyncAssumption, LenProperties DEF BurstSyncAssumption
<1>2. Remainder(b) \in Seq(Bits) /\ Len(Remainder(b)) = Len(b) - TS
  <2>1. \A i \in TS + 1 .. Len(b) : b[i] \in Bits
        BY <1>1, ElementOfSeq
  <2>2. /\ SubSeq(b, TS + 1, Len(b)) \in Seq(Bits)
        /\ Len(SubSeq(b, TS + 1, Len(b)))
             = IF TS + 1 <= Len(b) THEN Len(b) - (TS + 1) + 1 ELSE 0
        BY <1>1, <2>1, SubSeqProperties
  <2>. QED  BY <1>1, <2>2 DEF Remainder
<1>. DEFINE m == Matches(b, Kinds)
           offs == First(m)
           found == TrainSeq(b[offs + 1])
           placed == m # {} /\ offs = (IF found = "sync" THEN SyncOffs ELSE NormOffs)
<1>3. placed => found \in Kinds
      BY FirstMatch
<1>4. b[1].kind \in Kinds \cup {"lost"}
  <2>1. b[1] \in Bits
        BY <1>1, ElementOfSeq
  <2>. QED  BY <2>1 DEF Bits
<1>5. /\ \/ state' = "unlocked" /\ gap' = 0
         \/ state' = "locked" /\ gap' = TS
      /\ buf' = Remainder(b)
      /\ out' = [tick |-> TRUE, burst |-> IF placed THEN found ELSE "none",
                 sent |-> b[1].kind]
      BY DEF Consume, Handle
<1>. HIDE DEF placed, found
<1>6. out' \in [tick : BOOLEAN, burst : Kinds \cup {"none"},
                sent : Kinds \cup {"lost", "none"}]
      BY <1>3, <1>4, <1>5
<1>. QED  BY <1>1, <1>2, <1>5, <1>6 DEF CallInv
LEMMA WaitInv ==
    ASSUME NEW b \in Seq(Bits), NEW s, NEW g, CallInv(s, b, g, Idle), Wait(b, s, g)
    PROVE  CallInv(state', buf', gap', out')
BY DEF Wait

LEMMA CallPreserves ==
    ASSUME SmallChunks, IInv, NEW bits \in Seq(Bits), Len(bits) \in Lens, SyncIn(bits)
    PROVE  CallInv(state', buf', gap', out')
<1>. DEFINE b == Appended(bits)
           g == gap - Dropped(Len(bits))
<1>1. /\ TS \in Nat \ {0} /\ BufSize \in Nat /\ 2 * TS <= BufSize
      /\ SyncOffs \in Nat /\ Blind \in Nat /\ SyncOffs < TS
      BY BurstSyncAssumption DEF BurstSyncAssumption
<1>2. /\ b \in Seq(Bits) /\ Len(b) \in Nat /\ Len(b) <= BufSize
      /\ Dropped(Len(bits)) \in 0 .. Len(bits)
      /\ Dropped(Len(bits)) > 0 => Len(b) = BufSize
      BY AppendedType, LenProperties DEF IInv
<1>3. Idle \in [tick : BOOLEAN, burst : Kinds \cup {"none"},
               sent : Kinds \cup {"lost", "none"}]
      BY DEF Idle
<1>4. \A len \in Lens : len \in Nat /\ len <= BufSize
      BY BurstSyncAssumption DEF BurstSyncAssumption
<1>. HIDE DEF b
<1>5. CASE Unlocked(b)
  <2>. DEFINE m == IF Len(b) < 2 * TS THEN {} ELSE Matches(b, {"sync"})
  <2>1. CASE m = {}
    <3>1. Wait(b, "unlocked", 0)
          BY <1>5, <2>1 DEF Unlocked
    <3>2. CallInv("unlocked", b, 0, Idle)
          BY <1>2, <1>3 DEF CallInv
    <3>. QED  BY <1>2, <3>1, <3>2, WaitInv
  <2>2. CASE m # {}
    <3>1. m = Matches(b, {"sync"}) /\ {"sync"} \in SUBSET Kinds
          BY <2>2 DEF Kinds
    <3>2. First(m) \in Nat /\ Blind <= First(m)
          BY <1>2, <2>2, <3>1, FirstMatch
    <3>3. Wait(b, "know_fstart", First(m) + FStart)
          BY <1>5, <2>2 DEF Unlocked
    <3>. HIDE DEF m
    <3>4. \A len \in Lens : len <= First(m) + FStart
          BY <1>1, <1>4, <3>2 DEF SmallChunks, FStart
    <3>5. First(m) + FStart \in Int
          BY <1>1, <3>2 DEF FStart
    <3>6. CallInv("know_fstart", b, First(m) + FStart, Idle)
          BY <1>2, <1>3, <3>4, <3>5 DEF CallInv
    <3>. QED  BY <1>2, <3>3, <3>6, WaitInv
  <2>. QED  BY <2>1, <2>2
<1>6. CASE KnowFStart(b, g)
  <2>1. gap \in Int /\ Len(bits) <= gap
        BY <1>6 DEF IInv, TypeOK, KnowFStart
  <2>2. g \in Nat
        BY <1>2, <2>1, <1>4
  <2>. HIDE DEF g
  <2>3. CASE Len(b) < g
    <3>1. Wait(b, "know_fstart", g)
          BY <1>6, <2>3 DEF KnowFStart
    <3>2. \A len \in Lens : len <= g
          BY <1>1, <1>2, <1>4, <1>6, <2>1, <2>2, <2>3 DEF g, IInv, KnowFStart
    <3>3. CallInv("know_fstart", b, g, Idle)
          BY <1>2, <1>3, <2>2, <3>2 DEF CallInv
    <3>. QED  BY <1>2, <3>1, <3>3, WaitInv
  <2>4. CASE Len(b) >= g
    <3>. DEFINE c == Shifted(b, g)
    <3>1. c \in Seq(Bits) /\ Len(c) = Len(b) - g
      <4>1. \A i \in g + 1 .. Len(b) : b[i] \in Bits
            BY <1>2, <2>2, ElementOfSeq
      <4>2. /\ SubSeq(b, g + 1, Len(b)) \in Seq(Bits)
            /\ Len(SubSeq(b, g + 1, Len(b)))
                 = IF g + 1 <= Len(b) THEN Len(b) - (g + 1) + 1 ELSE 0
            BY <1>2, <2>2, <4>1, SubSeqProperties
      <4>. QED  BY <1>2, <2>2, <2>4, <4>2 DEF Shifted
    <3>2. IF Len(c) < TS THEN Wait(c, "locked", TS) ELSE Consume(c)
          BY <1>2, <1>6, <2>2, <2>4 DEF KnowFStart
    <3>. HIDE DEF c
    <3>3. CASE Len(c) < TS
      <4>1. CallInv("locked", c, TS, Idle)
            BY <1>1, <1>2, <1>3, <2>2, <3>1, <3>3 DEF CallInv
      <4>. QED  BY <3>1, <3>2, <3>3, <4>1, WaitInv
    <3>4. CASE Len(c) >= TS
          BY <1>1, <1>2, <2>2, <3>1, <3>2, <3>4, ConsumeInv
    <3>. QED  BY <1>1, <1>2, <2>2, <3>1, <3>3, <3>4
  <2>. QED  BY <1>2, <2>2, <2>3, <2>4
<1>7. CASE Locked(b)
  <2>1. gap = TS
        BY <1>7 DEF IInv, Locked
  <2>2. CASE Len(b) < TS
    <3>1. Wait(b, "locked", TS)
          BY <1>7, <2>1, <2>2 DEF Locked
    <3>2. CallInv("locked", b, TS, Idle)
          BY <1>1, <1>2, <1>3, <2>2 DEF CallInv
    <3>. QED  BY <1>2, <3>1, <3>2, WaitInv
  <2>3. CASE Len(b) >= TS
        BY <1>1, <1>2, <1>7, <2>3, ConsumeInv DEF Locked
  <2>. QED  BY <1>1, <1>2, <2>2, <2>3
<1>. QED  BY <1>5, <1>6, <1>7 DEF SyncIn, b
AirOK == air \in [ph : 0 .. TS - 1, kind : Kinds \cup {"lost"},
                 run : 0 .. MaxNoSync, good : BOOLEAN]

LEMMA AdvanceType ==
    ASSUME TypeOK, NEW len \in Lens, NEW ks \in [1 .. Begun(len) -> AirKinds],
           Advance(len, ks)
    PROVE  AirOK'
<1>1. len \in Nat /\ TS \in Nat \ {0} /\ MaxNoSync \in Nat /\ air.ph \in Nat
      BY BurstSyncAssumption DEF BurstSyncAssumption, TypeOK
<1>2. PICK r \in Nat : r = air.ph + len
      BY <1>1
<1>3. r % TS \in 0 .. TS - 1 /\ Begun(len) \in Nat
      BY <1>1, <1>2, r <= r, DivMod DEF Begun
<1>4. ks \in Seq(AirKinds)
      BY <1>3
<1>5. ks # <<>> => Last(ks) \in Kinds \cup {"lost"}
  <2>1. ks # <<>> => Len(ks) \in 1 .. Len(ks)
        BY <1>4, EmptySeq
  <2>. QED  BY <1>4, <2>1, ElementOfSeq DEF Last, AirKinds
<1>6. DEFINE run == IF "sync" \in Range(ks) THEN 0
                    ELSE IF air.run + Len(ks) < MaxNoSync THEN air.run + Len(ks)
                         ELSE MaxNoSync
<1>7. run \in 0 .. MaxNoSync
      BY <1>1, <1>4, LenProperties DEF TypeOK
<1>8. air' = [air EXCEPT !.ph = (air.ph + len) % TS,
                         !.kind = IF ks = <<>> THEN air.kind ELSE Last(ks),
                         !.run = run]
      BY DEF Advance
<1>. HIDE DEF run
<1>. QED  BY <1>2, <1>3, <1>5, <1>7, <1>8 DEF AirOK, TypeOK

LEMMA InitInv == Init => IInv
<1>. SUFFICES ASSUME Init PROVE IInv
     OBVIOUS
<1>1. /\ TS \in Nat \ {0} /\ BufSize \in Nat /\ MaxNoSync \in Nat
      BY BurstSyncAssumption DEF BurstSyncAssumption
<1>2. AirOK
  <2>1. AirKinds \subseteq Kinds \cup {"lost"} /\ 0 \in 0 .. MaxNoSync
        BY <1>1 DEF AirKinds
  <2>2. air \in [ph : 0 .. TS - 1, kind : AirKinds, run : {0}, good : {FALSE}]
        BY DEF Init
  <2>. QED  BY <2>1, <2>2, Zenon DEF AirOK
<1>3. buf \in Seq(Bits) /\ Len(buf) = 0
      BY EmptySeq DEF Init
<1>. QED  BY <1>1, <1>2, <1>3 DEF Init, IInv, TypeOK, AirOK, Idle

LEMMA StepInv == SmallChunks /\ IInv /\ [Next \/ Slip]_vars => IInv'
<1>. SUFFICES ASSUME SmallChunks, IInv, [Next \/ Slip]_vars
     PROVE  IInv'
     OBVIOUS
<1>1. AirOK /\ TypeOK
      BY DEF IInv, TypeOK, AirOK
<1>2. CASE Receive
  <2>0. PICK len \in Lens : \E ks \in [1 .. Begun(len) -> AirKinds] :
           SyncIn(Sent(len, ks)) /\ Advance(len, ks)
        BY <1>2 DEF Receive
  <2>1. PICK ks \in [1 .. Begun(len) -> AirKinds] :
           SyncIn(Sent(len, ks)) /\ Advance(len, ks)
        BY <2>0
  <2>2. AirOK'
        BY <1>1, <2>1, AdvanceType
  <2>3. CallInv(state', buf', gap', out')
        BY <1>1, <2>1, SentType, CallPreserves
  <2>. QED  BY <2>2, <2>3 DEF IInv, TypeOK, AirOK, CallInv
<1>3. ASSUME AirOK', UNCHANGED <<state, buf, gap, out>>
      PROVE  IInv'
      BY <1>3 DEF IInv, TypeOK, AirOK
<1>4. CASE SignalTurnsGood
  <2>1. air' = [air EXCEPT !.good = TRUE, !.run = 0]
        BY <1>4 DEF SignalTurnsGood
  <2>2. 0 \in 0 .. MaxNoSync
        BY BurstSyncAssumption DEF BurstSyncAssumption
  <2>3. AirOK'
        BY <1>1, <2>1, <2>2, Zenon DEF AirOK
  <2>. QED  BY <1>3, <1>4, <2>3 DEF SignalTurnsGood
<1>5. CASE Slip
  <2>1. AirOK'
        BY <1>1, <1>5 DEF Slip, AirOK
  <2>. QED  BY <1>3, <1>5, <2>1 DEF Slip
<1>6. CASE UNCHANGED vars
      BY <1>1, <1>3, <1>6 DEF vars, AirOK
<1>. QED  BY <1>2, <1>4, <1>5, <1>6 DEF Next

LEMMA Inductive ==
    ASSUME SmallChunks  PROVE SlippingSpec => []IInv
<1>1. Init => IInv
      BY InitInv
<1>2. IInv /\ [Next \/ Slip]_vars => IInv'
      BY StepInv
<1>. QED  BY <1>1, <1>2, PTL DEF SlippingSpec

\* What one call leaves, for chunks of any length, as long as the awaited frame start was
\* in the buffer: the types only.
CallTypes(s, b, g, o) ==
    /\ s \in {"unlocked", "know_fstart", "locked"}
    /\ b \in Seq(Bits) /\ Len(b) <= BufSize
    /\ g \in Int
    /\ o \in [tick : BOOLEAN, burst : Kinds \cup {"none"},
              sent : Kinds \cup {"lost", "none"}]

LEMMA CallKeepsTypes ==
    ASSUME TypeOK, FrameStartKept, NEW bits \in Seq(Bits), Len(bits) \in Lens, SyncIn(bits)
    PROVE  CallTypes(state', buf', gap', out')
<1>. DEFINE b == Appended(bits)
           g == gap - Dropped(Len(bits))
<1>1. /\ TS \in Nat \ {0} /\ BufSize \in Nat
      /\ SyncOffs \in Nat /\ Blind \in Nat /\ SyncOffs < TS
      BY BurstSyncAssumption DEF BurstSyncAssumption
<1>2. /\ b \in Seq(Bits) /\ Len(b) \in Nat /\ Len(b) <= BufSize
      /\ Dropped(Len(bits)) \in 0 .. Len(bits)
      BY AppendedType, LenProperties
<1>3. gap \in Int /\ g \in Int
      BY <1>2 DEF TypeOK
<1>4. /\ Idle \in [tick : BOOLEAN, burst : Kinds \cup {"none"},
                  sent : Kinds \cup {"lost", "none"}]
      /\ \A c, s, x : Wait(c, s, x) =>
            state' = s /\ buf' = c /\ gap' = x /\ out' = Idle
      BY DEF Idle, Wait
<1>5. \A c : Consume(c) /\ c \in Seq(Bits) /\ TS <= Len(c) /\ Len(c) <= BufSize
         => CallTypes(state', buf', gap', out')
  <2>1. ASSUME NEW c \in Seq(Bits), Consume(c), TS <= Len(c), Len(c) <= BufSize
        PROVE  CallInv(state', buf', gap', out')
        BY <2>1, ConsumeInv
  <2>. QED  BY <2>1 DEF CallInv, CallTypes
<1>. HIDE DEF b
<1>6. CASE Unlocked(b)
  <2>. DEFINE m == IF Len(b) < 2 * TS THEN {} ELSE Matches(b, {"sync"})
  <2>1. CASE m = {}
    <3>1. Wait(b, "unlocked", 0)
          BY <1>6, <2>1 DEF Unlocked
    <3>. QED  BY <1>2, <1>4, <3>1 DEF CallTypes
  <2>2. CASE m # {}
    <3>1. m = Matches(b, {"sync"}) /\ {"sync"} \in SUBSET Kinds
          BY <2>2 DEF Kinds
    <3>2. First(m) \in Nat
          BY <1>2, <2>2, <3>1, FirstMatch
    <3>3. Wait(b, "know_fstart", First(m) + FStart)
          BY <1>6, <2>2 DEF Unlocked
    <3>. HIDE DEF m
    <3>4. First(m) + FStart \in Int
          BY <1>1, <3>2 DEF FStart
    <3>. QED  BY <1>2, <1>4, <3>3, <3>4 DEF CallTypes
  <2>. QED  BY <2>1, <2>2
<1>7. CASE KnowFStart(b, g)
  <2>1. g \in Nat
        BY <1>2, <1>3, <1>7 DEF FrameStartKept, KnowFStart
  <2>. HIDE DEF g
  <2>2. CASE Len(b) < g
    <3>1. Wait(b, "know_fstart", g)
          BY <1>7, <2>2 DEF KnowFStart
    <3>. QED  BY <1>2, <1>4, <2>1, <3>1 DEF CallTypes
  <2>3. CASE Len(b) >= g
    <3>. DEFINE c == Shifted(b, g)
    <3>1. c \in Seq(Bits) /\ Len(c) = Len(b) - g
      <4>1. \A i \in g + 1 .. Len(b) : b[i] \in Bits
            BY <1>2, <2>1, ElementOfSeq
      <4>2. /\ SubSeq(b, g + 1, Len(b)) \in Seq(Bits)
            /\ Len(SubSeq(b, g + 1, Len(b)))
                 = IF g + 1 <= Len(b) THEN Len(b) - (g + 1) + 1 ELSE 0
            BY <1>2, <2>1, <4>1, SubSeqProperties
      <4>. QED  BY <1>2, <2>1, <2>3, <4>2 DEF Shifted
    <3>2. IF Len(c) < TS THEN Wait(c, "locked", TS) ELSE Consume(c)
          BY <1>2, <1>7, <2>1, <2>3 DEF KnowFStart
    <3>. HIDE DEF c
    <3>3. Len(c) \in Nat /\ Len(c) <= BufSize
          BY <1>1, <1>2, <2>1, <2>3, <3>1
    <3>4. CASE Len(c) < TS
          BY <1>1, <1>4, <3>1, <3>2, <3>3, <3>4 DEF CallTypes
    <3>5. CASE Len(c) >= TS
          BY <1>1, <1>5, <3>1, <3>2, <3>3, <3>5
    <3>. QED  BY <1>1, <3>3, <3>4, <3>5
  <2>. QED  BY <1>2, <2>1, <2>2, <2>3
<1>8. CASE Locked(b)
  <2>1. CASE Len(b) < TS
    <3>1. Wait(b, "locked", gap)
          BY <1>8, <2>1 DEF Locked
    <3>. QED  BY <1>2, <1>3, <1>4, <3>1 DEF CallTypes
  <2>2. CASE Len(b) >= TS
        BY <1>1, <1>2, <1>5, <1>8, <2>2 DEF Locked
  <2>. QED  BY <1>1, <1>2, <2>1, <2>2
<1>. QED  BY <1>6, <1>7, <1>8 DEF SyncIn, b

LEMMA TypesStep == TypeOK /\ FrameStartKept /\ [Next \/ Slip]_vars => TypeOK'
<1>. SUFFICES ASSUME TypeOK, FrameStartKept, [Next \/ Slip]_vars
     PROVE  TypeOK'
     OBVIOUS
<1>1. AirOK
      BY DEF TypeOK, AirOK
<1>2. CASE Receive
  <2>0. PICK len \in Lens : \E ks \in [1 .. Begun(len) -> AirKinds] :
           SyncIn(Sent(len, ks)) /\ Advance(len, ks)
        BY <1>2 DEF Receive
  <2>1. PICK ks \in [1 .. Begun(len) -> AirKinds] :
           SyncIn(Sent(len, ks)) /\ Advance(len, ks)
        BY <2>0
  <2>2. AirOK'
        BY <2>1, AdvanceType
  <2>3. CallTypes(state', buf', gap', out')
        BY <2>1, SentType, CallKeepsTypes
  <2>. QED  BY <2>2, <2>3 DEF TypeOK, AirOK, CallTypes
<1>3. ASSUME AirOK', UNCHANGED <<state, buf, gap, out>>
      PROVE  TypeOK'
      BY <1>3 DEF TypeOK, AirOK
<1>4. CASE SignalTurnsGood
  <2>1. air' = [air EXCEPT !.good = TRUE, !.run = 0]
        BY <1>4 DEF SignalTurnsGood
  <2>2. 0 \in 0 .. MaxNoSync
        BY BurstSyncAssumption DEF BurstSyncAssumption
  <2>3. AirOK'
        BY <1>1, <2>1, <2>2, Zenon DEF AirOK
  <2>. QED  BY <1>3, <1>4, <2>3 DEF SignalTurnsGood
<1>5. CASE Slip
  <2>1. AirOK'
        BY <1>1, <1>5 DEF Slip, AirOK
  <2>. QED  BY <1>3, <1>5, <2>1 DEF Slip
<1>6. CASE UNCHANGED vars
      BY <1>1, <1>3, <1>6 DEF vars, AirOK
<1>. QED  BY <1>2, <1>4, <1>5, <1>6 DEF Next

\* For chunks of any length that fits the buffer, lost bursts and jumps of the grid included:
\* as long as make_bitbuf_space never discards an awaited frame start (FrameStartIsKept says
\* for which chunks it does not), the state of tetra_burst_sync_in() stays well-typed.  In
\* particular the buffer never overflows, and only known sequences are reported.  It is not
\* true without the condition: a negative shift makes the buffer longer than it is.
THEOREM TypeCorrect == SlippingSpec /\ []FrameStartKept => []TypeOK
<1>1. Init => TypeOK
      BY InitInv DEF IInv
<1>2. TypeOK /\ FrameStartKept /\ [Next \/ Slip]_vars => TypeOK'
      BY TypesStep
<1>. QED  BY <1>1, <1>2, PTL DEF SlippingSpec

\* make_bitbuf_space never discards the start of the frame being awaited, so the
\* shift of RX_S_KNOW_FSTART never has a negative offset.
THEOREM FrameStartIsKept ==
    ASSUME SmallChunks  PROVE SlippingSpec => []FrameStartKept
<1>1. IInv => FrameStartKept
  <2>. SUFFICES ASSUME IInv, state = "know_fstart", NEW len \in Lens
       PROVE  Dropped(len) <= gap
       BY DEF FrameStartKept
  <2>1. len <= gap /\ gap \in Int /\ len \in 1 .. BufSize /\ BufSize \in Nat
        BY BurstSyncAssumption DEF IInv, TypeOK, BurstSyncAssumption
  <2>2. Len(buf) \in Nat /\ Len(buf) <= BufSize
        BY LenProperties DEF IInv, TypeOK
  <2>. QED  BY <2>1, <2>2 DEF Dropped
<1>. QED  BY <1>1, Inductive, PTL

\* Once locked no bit is ever discarded, however full the buffer was when the
\* lock was acquired: consuming one slot per call keeps up with the input.
THEOREM LockedKeepsUp ==
    ASSUME SmallChunks  PROVE SlippingSpec => []LockedLosesNothing
<1>1. ASSUME IInv  PROVE LockedLosesNothing
  <2>. SUFFICES ASSUME state = "locked", NEW len \in Lens
       PROVE  Dropped(len) = 0
       BY DEF LockedLosesNothing
  <2>1. /\ len <= TS /\ len \in Nat /\ TS \in Nat /\ BufSize \in Nat
        BY <1>1, BurstSyncAssumption DEF SmallChunks, BurstSyncAssumption
  <2>2. Len(buf) \in Nat /\ Len(buf) + TS <= BufSize
        BY <1>1, LenProperties DEF IInv, TypeOK
  <2>. QED  BY <2>1, <2>2 DEF Dropped
<1>2. IInv => LockedLosesNothing
      BY <1>1
<1>. QED  BY <1>2, Inductive, PTL

-----------------------------------------------------------------------------
(* Division by a variable, which the solver knows only by its definition.  *)

LEMMA SmallMultiple ==
    ASSUME NEW d \in Nat \ {0}, NEW k \in Int, k * d > -d, k * d < d
    PROVE  k = 0
<1>1. CASE k >= 1
  BY <1>1
<1>2. CASE k <= -1
  BY <1>2
<1>. QED BY <1>1, <1>2

LEMMA ModIs ==
    ASSUME NEW d \in Nat \ {0}, NEW q \in Int, NEW r \in 0 .. d - 1
    PROVE  /\ (q * d + r) % d = r
           /\ (q * d + r) \div d = q
<1>. DEFINE a == q * d + r
<1>1. /\ a \in Int /\ a % d \in 0 .. d - 1 /\ a = d * (a \div d) + (a % d) /\ a \div d \in Int
      OBVIOUS
<1>2. PICK q2 \in Int, r2 \in 0 .. d - 1 : a = d * q2 + r2 /\ r2 = a % d /\ q2 = a \div d
      BY <1>1
<1>3. (q2 - q) * d = r - r2
      BY <1>2
<1>4. q2 - q = 0
      BY <1>3, SmallMultiple
<1>. QED BY <1>2, <1>3, <1>4

LEMMA ModShift ==
    ASSUME NEW d \in Nat \ {0}, NEW a \in Int, NEW k \in Int
    PROVE  (a + k * d) % d = a % d
<1>1. /\ a % d \in 0 .. d - 1 /\ a = d * (a \div d) + (a % d) /\ a \div d \in Int
      OBVIOUS
<1>2. PICK q \in Int, r \in 0 .. d - 1 : a = d * q + r /\ r = a % d
      BY <1>1
<1>3. a + k * d = (q + k) * d + r
      BY <1>2
<1>4. ((q + k) * d + r) % d = r
      BY ModIs
<1>. QED BY <1>2, <1>3, <1>4
LEMMA ModSum ==
    ASSUME NEW d \in Nat \ {0}, NEW a \in Int, NEW b \in Int
    PROVE  ((a % d) + b) % d = (a + b) % d
<1>1. /\ a % d \in 0 .. d - 1 /\ a = d * (a \div d) + (a % d) /\ a \div d \in Int
      OBVIOUS
<1>2. PICK q \in Int, r \in 0 .. d - 1 : a = d * q + r /\ r = a % d
      BY <1>1
<1>3. PICK c \in Int : c = r + b
      OBVIOUS
<1>4. a + b = c + q * d
      BY <1>2, <1>3
<1>5. (c + q * d) % d = c % d
      BY ModShift
<1>. QED  BY <1>2, <1>3, <1>4, <1>5

LEMMA Euclid ==
    ASSUME NEW d \in Nat \ {0}, NEW a \in Nat
    PROVE  \E q \in Nat, r \in 0 .. d - 1 : a = q * d + r /\ q = a \div d /\ r = a % d
<1>1. /\ a % d \in 0 .. d - 1 /\ a = d * (a \div d) + (a % d) /\ a \div d \in Int
      OBVIOUS
<1>2. PICK q \in Int, r \in 0 .. d - 1 : a = d * q + r /\ q = a \div d /\ r = a % d
      BY <1>1
<1>3. q >= 0
      BY <1>2
<1>4. a = q * d + r /\ q \in Nat
      BY <1>2, <1>3
<1>. QED  BY <1>2, <1>4, Zenon

\* y is not before the last multiple of d up to x.
LEMMA SameMultiple ==
    ASSUME NEW d \in Nat \ {0}, NEW x \in Nat, NEW y \in Int, y <= x, x - y <= x % d
    PROVE  /\ y \in Nat
           /\ y \div d = x \div d
           /\ x \div d = 0 <=> y < d
<1>1. PICK q \in Nat, r \in 0 .. d - 1 : x = q * d + r /\ q = x \div d /\ r = x % d
      BY Euclid
<1>2. PICK k \in Int : k = x - y /\ 0 <= k /\ k <= x % d
      OBVIOUS
<1>3. PICK s \in Int : s = r - k /\ s \in 0 .. d - 1
  <2>1. k <= r
        BY <1>1, <1>2
  <2>. QED  BY <1>2, <2>1
<1>4. y = q * d + s
  <2>1. PICK w \in Int : w = q * d
        OBVIOUS
  <2>2. x = w + r
        BY <1>1, <2>1
  <2>. QED  BY <1>2, <1>3, <2>1, <2>2
<1>5. y \div d = q
      BY <1>3, <1>4, ModIs
<1>6. q * d >= 0 /\ (q >= 1 => q * d >= d) /\ (q = 0 => q * d = 0)
      OBVIOUS
<1>. QED  BY <1>1, <1>3, <1>4, <1>5, <1>6

-----------------------------------------------------------------------------
(* The grid.  What makes GridIsTrue inductive is that the buffer is always *)
(* a piece of the stream that was sent, up to the bit the transmitter a is *)
(* at: phases follow each other, and the bits of one burst are of its kind.*)

Phased(b, a) == \A i \in 1 .. Len(b) : b[i].ph = (a.ph - Len(b) + i - 1) % TS

\* Neighbours in a burst are of its kind.
OfOneKind(b) ==
    \A i, j \in 1 .. Len(b) : i <= j /\ j - i <= b[j].ph => b[i].kind = b[j].kind

EndsWith(b, a) == \A i \in 1 .. Len(b) : Len(b) - i < a.ph => b[i].kind = a.kind

Stream(b, a) == Phased(b, a) /\ OfOneKind(b) /\ EndsWith(b, a)

LEMMA Suffix ==
    ASSUME NEW b \in Seq(Bits), NEW n \in 0 .. Len(b)
    PROVE  /\ SubSeq(b, n + 1, Len(b)) \in Seq(Bits)
           /\ Len(SubSeq(b, n + 1, Len(b))) = Len(b) - n
           /\ \A i \in 1 .. Len(b) - n :
                 SubSeq(b, n + 1, Len(b))[i] = b[n + i] /\ n + i \in 1 .. Len(b)
<1>1. Len(b) \in Nat
      BY LenProperties
<1>2. \A i \in n + 1 .. Len(b) : b[i] \in Bits
      BY <1>1, ElementOfSeq
<1>3. /\ SubSeq(b, n + 1, Len(b)) \in Seq(Bits)
      /\ Len(SubSeq(b, n + 1, Len(b)))
           = IF n + 1 <= Len(b) THEN Len(b) - (n + 1) + 1 ELSE 0
      /\ \A i \in 1 .. Len(b) - (n + 1) + 1 :
            SubSeq(b, n + 1, Len(b))[i] = b[n + 1 + i - 1]
      BY <1>1, <1>2, SubSeqProperties
<1>. QED  BY <1>1, <1>3

LEMMA SuffixStream ==
    ASSUME NEW b \in Seq(Bits), NEW a, a.ph \in Nat, NEW n \in 0 .. Len(b), Stream(b, a)
    PROVE  Stream(SubSeq(b, n + 1, Len(b)), a)
<1>. DEFINE c == SubSeq(b, n + 1, Len(b))
<1>1. /\ Len(b) \in Nat /\ Len(c) = Len(b) - n
      /\ \A i \in 1 .. Len(c) : c[i] = b[n + i] /\ n + i \in 1 .. Len(b)
      BY Suffix, LenProperties
<1>. HIDE DEF c
<1>2. Phased(c, a)
  <2>1. ASSUME NEW i \in 1 .. Len(c)
        PROVE  c[i].ph = (a.ph - Len(c) + i - 1) % TS
    <3>1. b[n + i].ph = (a.ph - Len(b) + (n + i) - 1) % TS
          BY <1>1 DEF Stream, Phased
    <3>2. a.ph - Len(b) + (n + i) - 1 = a.ph - Len(c) + i - 1
          BY <1>1
    <3>. QED  BY <1>1, <3>1, <3>2
  <2>. QED  BY <2>1 DEF Phased
<1>3. OfOneKind(c)
  <2>1. ASSUME NEW i \in 1 .. Len(c), NEW j \in 1 .. Len(c), i <= j, j - i <= c[j].ph
        PROVE  c[i].kind = c[j].kind
    <3>1. n + i <= n + j /\ (n + j) - (n + i) = j - i
          BY <1>1, <2>1
    <3>2. b[n + i].kind = b[n + j].kind
          BY <1>1, <2>1, <3>1 DEF Stream, OfOneKind
    <3>. QED  BY <1>1, <3>2
  <2>. QED  BY <2>1 DEF OfOneKind
<1>4. EndsWith(c, a)
  <2>1. ASSUME NEW i \in 1 .. Len(c), Len(c) - i < a.ph
        PROVE  c[i].kind = a.kind
    <3>1. Len(b) - (n + i) = Len(c) - i
          BY <1>1
    <3>. QED  BY <1>1, <2>1, <3>1 DEF Stream, EndsWith
  <2>. QED  BY <2>1 DEF EndsWith
<1>. QED  BY <1>2, <1>3, <1>4 DEF Stream, c

LEMMA SentStream ==
    ASSUME AirOK, NEW len \in Lens, NEW ks \in [1 .. Begun(len) -> AirKinds],
           Advance(len, ks), NEW b \in Seq(Bits), Stream(b, air),
           Sent(len, ks) \in Seq(Bits)
    PROVE  Stream(b \o Sent(len, ks), air')
<1>1. /\ TS \in Nat \ {0} /\ len \in Nat
      /\ \E ph \in 0 .. TS - 1 : ph = air.ph
      /\ \E n \in Nat : n = Len(b)
      BY BurstSyncAssumption, LenProperties DEF BurstSyncAssumption, AirOK
<1>2. PICK ph \in 0 .. TS - 1, n \in Nat : ph = air.ph /\ n = Len(b)
      BY <1>1
<1>3. PICK end \in Nat : end = ph + len
      BY <1>1
<1>4. PICK q \in Nat, r \in 0 .. TS - 1 : q = end \div TS /\ r = end % TS
      BY <1>1, Euclid
<1>5. ks \in Seq(AirKinds) /\ Len(ks) = q
      BY <1>2, <1>3, <1>4 DEF Begun
<1>6. air'.ph = r /\ air'.kind = IF q = 0 THEN air.kind ELSE ks[q]
  <2>1. /\ air'.ph = end % TS
        /\ air'.kind = IF ks = <<>> THEN air.kind ELSE Last(ks)
        BY <1>2, <1>3 DEF Advance, AirOK
  <2>2. ks = <<>> <=> q = 0
        BY <1>5, EmptySeq
  <2>. QED  BY <1>4, <1>5, <2>1, <2>2 DEF Last
<1>. DEFINE c == b \o Sent(len, ks)
           kind(p) == IF p < TS THEN air.kind ELSE ks[p \div TS]
<1>7. /\ Len(c) = n + len
      /\ \A i \in 1 .. n : c[i] = b[i]
      /\ \A i \in n + 1 .. n + len : c[i] = Sent(len, ks)[i - n]
  <2>1. Len(Sent(len, ks)) = len
        BY <1>1 DEF Sent
  <2>2. PICK bits \in Seq(Bits) : bits = Sent(len, ks)
        OBVIOUS
  <2>3. /\ Len(b \o bits) = Len(b) + Len(bits)
        /\ \A i \in 1 .. Len(b) + Len(bits) :
              (b \o bits)[i] = IF i <= Len(b) THEN b[i] ELSE bits[i - Len(b)]
        BY ConcatProperties
  <2>. QED  BY <1>1, <1>2, <2>1, <2>2, <2>3
<1>. HIDE DEF c
\* Where each bit was in the stream, from the start of the burst in the air.
<1>8. ASSUME NEW i \in 1 .. n + len, NEW p \in Int, p = ph + (i - n) - 1
      PROVE  /\ i <= n => /\ i \in 1 .. n
                          /\ c[i].ph = p % TS
                          /\ p >= 0 => p < TS /\ c[i].kind = air.kind
             /\ i > n  => /\ p \in Nat
                          /\ c[i].ph = p % TS
                          /\ c[i].kind = kind(p)
  <2>1. CASE i <= n
    <3>1. i \in 1 .. n /\ c[i] = b[i]
          BY <1>7, <2>1
    <3>2. b[i].ph = p % TS
      <4>1. air.ph - Len(b) + i - 1 = p
            BY <1>2, <1>8
      <4>. QED  BY <1>2, <3>1, <4>1 DEF Stream, Phased
    <3>3. p >= 0 => p < TS /\ n - i < ph
          BY <1>1, <1>8, <2>1
    <3>4. p >= 0 => b[i].kind = air.kind
          BY <1>2, <3>1, <3>3 DEF Stream, EndsWith
    <3>. QED  BY <2>1, <3>1, <3>2, <3>3, <3>4
  <2>2. CASE i > n
    <3>1. i - n \in 1 .. len /\ p \in Nat /\ ph + (i - n) - 1 = p
          BY <1>1, <1>8, <2>2
    <3>2. Sent(len, ks)[i - n] = [ph |-> p % TS, kind |-> kind(p)]
          BY <1>2, <3>1 DEF Sent
    <3>3. c[i] = Sent(len, ks)[i - n]
          BY <1>1, <1>7, <2>2
    <3>. QED  BY <2>2, <3>1, <3>2, <3>3
  <2>. QED  BY <2>1, <2>2
<1>9. ASSUME NEW i \in 1 .. n + len, NEW p \in Int, p = ph + (i - n) - 1
      PROVE  c[i].ph = p % TS /\ (p >= 0 => c[i].kind = kind(p))
      BY <1>8, <1>9
<1>. HIDE DEF kind
<1>10. Phased(c, air')
  <2>1. ASSUME NEW i \in 1 .. n + len
        PROVE  c[i].ph = (r - (n + len) + i - 1) % TS
    <3>1. PICK p \in Int, back \in Int :
             p = ph + (i - n) - 1 /\ back = i - 1 - (n + len) /\ p = end + back
          BY <1>1, <1>3
    <3>2. ((end % TS) + back) % TS = (end + back) % TS
      <4>1. end \in Int
            OBVIOUS
      <4>. QED  BY <1>1, <3>1, <4>1, ModSum, Zenon
    <3>3. r - (n + len) + i - 1 = (end % TS) + back
          BY <1>1, <1>4, <3>1
    <3>. QED  BY <1>9, <3>1, <3>2, <3>3
  <2>. QED  BY <1>6, <1>7, <2>1 DEF Phased
<1>11. OfOneKind(c)
  <2>1. ASSUME NEW i \in 1 .. n + len, NEW j \in 1 .. n + len, i <= j, j - i <= c[j].ph
        PROVE  c[i].kind = c[j].kind
    <3>1. PICK x \in Int, y \in Int : x = ph + (j - n) - 1 /\ y = ph + (i - n) - 1
          OBVIOUS
    <3>2. y <= x /\ x - y = j - i
          BY <1>1, <2>1, <3>1
    <3>3. CASE j <= n
      <4>1. i \in 1 .. n /\ j \in 1 .. n /\ c[i] = b[i] /\ c[j] = b[j]
            BY <1>1, <1>7, <2>1, <3>3
      <4>. QED  BY <1>2, <2>1, <4>1 DEF Stream, OfOneKind
    <3>4. CASE j > n
      <4>1. x \in Nat /\ c[j].ph = x % TS /\ c[j].kind = kind(x)
            BY <1>8, <3>1, <3>4 DEF kind
      <4>2. y \in Nat /\ y \div TS = x \div TS /\ (x \div TS = 0 <=> y < TS)
            BY <1>1, <2>1, <3>2, <4>1, SameMultiple
      <4>3. x \div TS = 0 <=> x < TS
        <5>1. PICK qq \in Nat, rr \in 0 .. TS - 1 : x = qq * TS + rr /\ qq = x \div TS
              BY <1>1, <4>1, Euclid
        <5>2. (qq = 0 => qq * TS = 0) /\ (qq >= 1 => qq * TS >= TS)
              BY <1>1
        <5>. QED  BY <1>1, <5>1, <5>2
      <4>4. kind(y) = kind(x)
            BY <4>2, <4>3 DEF kind
      <4>5. c[i].kind = kind(y)
            BY <1>9, <3>1, <4>2
      <4>. QED  BY <4>1, <4>4, <4>5
    <3>. QED  BY <1>1, <3>3, <3>4
  <2>. QED  BY <1>7, <2>1 DEF OfOneKind
<1>12. EndsWith(c, air')
  <2>1. ASSUME NEW i \in 1 .. Len(c), Len(c) - i < air'.ph
        PROVE  c[i].kind = air'.kind
    <3>0. i \in 1 .. n + len /\ n + len - i < r
          BY <1>1, <1>6, <1>7, <2>1
    <3>1. PICK y \in Int : y = ph + (i - n) - 1
          BY <3>0
    <3>2. y <= end /\ end - y <= r
          BY <1>1, <1>3, <3>0, <3>1
    <3>3. y \in Nat /\ y \div TS = q /\ (q = 0 <=> y < TS)
          BY <1>1, <1>4, <3>2, SameMultiple
    <3>4. c[i].kind = kind(y)
          BY <1>9, <3>0, <3>1, <3>3
    <3>. QED  BY <1>6, <3>3, <3>4 DEF kind
  <2>. QED  BY <2>1 DEF EndsWith
<1>. QED  BY <1>10, <1>11, <1>12 DEF Stream, c

LEMMA AppendedStream ==
    ASSUME TypeOK, NEW len \in Lens, NEW ks \in [1 .. Begun(len) -> AirKinds],
           Advance(len, ks), Stream(buf, air)
    PROVE  Stream(Appended(Sent(len, ks)), air')
<1>. DEFINE bits == Sent(len, ks)
<1>1. bits \in Seq(Bits) /\ Len(bits) = len
      BY SentType
<1>2. /\ AirOK /\ buf \in Seq(Bits) /\ Len(buf) \in 0 .. BufSize
      /\ BufSize \in Nat /\ len \in 1 .. BufSize
      BY BurstSyncAssumption, LenProperties DEF BurstSyncAssumption, TypeOK, AirOK
<1>3. air.ph \in Nat
      BY <1>2, BurstSyncAssumption DEF AirOK, BurstSyncAssumption
<1>4. Dropped(Len(bits)) \in 0 .. Len(buf)
      BY <1>1, <1>2 DEF Dropped
<1>. HIDE DEF bits
<1>5. PICK kept \in Seq(Bits) :
         kept = SubSeq(buf, Dropped(Len(bits)) + 1, Len(buf)) /\ Stream(kept, air)
      BY <1>2, <1>3, <1>4, Suffix, SuffixStream
<1>6. Stream(kept \o bits, air')
      BY <1>1, <1>2, <1>5, SentStream DEF bits
<1>. QED  BY <1>5, <1>6 DEF Appended, bits

\* The buffer starts with the first bit of a burst.
Aligned(b, a) == (a.ph - Len(b)) % TS = 0

LEMMA Multiple ==
    ASSUME NEW d \in Nat \ {0}, NEW a \in Int, a % d = 0
    PROVE  \E q \in Int : a = q * d
<1>1. a = d * (a \div d) + (a % d) /\ a \div d \in Int
      OBVIOUS
<1>2. PICK q \in Int : a = d * q + (a % d)
      BY <1>1
<1>. QED  BY <1>2

LEMMA AlignedAt ==
    ASSUME NEW b \in Seq(Bits), NEW a, a.ph \in Nat, Stream(b, a), Aligned(b, a),
           NEW k \in Nat, NEW r \in 0 .. TS - 1, k * TS + r + 1 <= Len(b)
    PROVE  b[k * TS + r + 1].ph = r
<1>1. TS \in Nat \ {0} /\ Len(b) \in Nat
      BY BurstSyncAssumption, LenProperties DEF BurstSyncAssumption
<1>2. PICK p \in Int, w \in Nat : p = a.ph - Len(b) /\ w = k * TS
      BY <1>1
<1>3. b[w + r + 1].ph = (p + w + r) % TS
  <2>1. w + r + 1 \in 1 .. Len(b)
        BY <1>1, <1>2
  <2>2. a.ph - Len(b) + (w + r + 1) - 1 = p + w + r
        BY <1>1, <1>2
  <2>. QED  BY <2>1, <2>2 DEF Stream, Phased
<1>4. PICK q \in Int : p = q * TS
  <2>1. p % TS = 0
        BY <1>2 DEF Aligned
  <2>. QED  BY <1>1, <2>1, Multiple
<1>5. p + w + r = (q + k) * TS + r /\ q + k \in Int
      BY <1>1, <1>2, <1>4
<1>6. ((q + k) * TS + r) % TS = r
      BY <1>1, <1>5, ModIs
<1>. QED  BY <1>2, <1>3, <1>5, <1>6

LEMMA RemainderStream ==
    ASSUME NEW b \in Seq(Bits), TS <= Len(b), NEW a, a.ph \in Nat,
           Stream(b, a), Aligned(b, a)
    PROVE  /\ Remainder(b) \in Seq(Bits) /\ Len(Remainder(b)) = Len(b) - TS
           /\ \A i \in 1 .. Len(b) - TS : Remainder(b)[i] = b[TS + i]
           /\ Stream(Remainder(b), a)
           /\ Aligned(Remainder(b), a)
<1>1. TS \in Nat \ {0} /\ Len(b) \in Nat /\ TS \in 0 .. Len(b)
      BY BurstSyncAssumption, LenProperties DEF BurstSyncAssumption
<1>2. /\ Remainder(b) \in Seq(Bits) /\ Len(Remainder(b)) = Len(b) - TS
      /\ \A i \in 1 .. Len(b) - TS : Remainder(b)[i] = b[TS + i]
      BY <1>1, Suffix DEF Remainder
<1>3. Stream(Remainder(b), a)
      BY <1>1, SuffixStream DEF Remainder
<1>4. Aligned(Remainder(b), a)
  <2>1. PICK p \in Int : p = a.ph - Len(b)
        BY <1>1
  <2>2. (p + 1 * TS) % TS = p % TS
        BY <1>1, 1 \in Int, ModShift, Zenon
  <2>3. a.ph - (Len(b) - TS) = p + 1 * TS
        BY <1>1, <2>1
  <2>. QED  BY <1>2, <2>1, <2>2, <2>3 DEF Aligned
<1>. QED  BY <1>2, <1>3, <1>4

\* The grid does not move while a call appends its bits and drops the oldest.
LEMMA GridStays ==
    ASSUME AirOK, NEW len \in Lens, NEW ks, Advance(len, ks),
           NEW n \in Int, (air.ph + n) % TS = 0
    PROVE  (air'.ph + (n - len)) % TS = 0
<1>1. /\ TS \in Nat \ {0} /\ len \in Nat /\ air.ph \in Nat
      BY BurstSyncAssumption DEF BurstSyncAssumption, AirOK
<1>2. air'.ph = (air.ph + len) % TS
      BY DEF Advance, AirOK
<1>3. PICK x \in Int, y \in Int : x = air.ph + len /\ y = n - len
      BY <1>1
<1>4. ((x % TS) + y) % TS = (x + y) % TS
      BY <1>1, ModSum
<1>5. x + y = air.ph + n
      BY <1>1, <1>3
<1>. QED  BY <1>2, <1>3, <1>4, <1>5

LEMMA NextMultiple ==
    ASSUME NEW d \in Nat \ {0}, NEW x \in Int
    PROVE  (x + (d - (x % d))) % d = 0
<1>1. /\ x % d \in 0 .. d - 1 /\ x = d * (x \div d) + (x % d) /\ x \div d \in Int
      OBVIOUS
<1>2. PICK q \in Int, r \in 0 .. d - 1 : x = d * q + r /\ r = x % d
      BY <1>1
<1>3. x + (d - r) = (q + 1) * d + 0
      BY <1>2
<1>4. ((q + 1) * d + 0) % d = 0
      BY ModIs
<1>. QED  BY <1>2, <1>3, <1>4

LEMMA FirstOf ==
    ASSUME NEW T, T \subseteq Nat, NEW p \in T, \A q \in T : p <= q
    PROVE  First(T) = p
<1>1. First(T) \in T /\ \A q \in T : First(T) <= q
  <2>1. \E x \in T : \A q \in T : x <= q
        OBVIOUS
  <2>. QED  BY <2>1, Zenon DEF First
<1>2. PICK x \in T : x = First(T)
      BY <1>1, Zenon
<1>3. x <= p /\ p <= x /\ x \in Nat /\ p \in Nat
      BY <1>1, <1>2
<1>. QED  BY <1>2, <1>3

\* On the grid a frame is handed on as the burst it is, and only a corrupted one can cost
\* the lock.
LEMMA ConsumeTakes ==
    ASSUME NEW b \in Seq(Bits), TS <= Len(b), NEW a, a.ph \in Nat,
           Stream(b, a), Aligned(b, a), Consume(b)
    PROVE  /\ out'.burst = IF b[1].kind = "lost" THEN "none" ELSE b[1].kind
           /\ \/ state' = "locked"
              \/ b[1].kind = "lost" /\ state' = "unlocked"
           /\ b[1].kind \in Kinds \cup {"lost"}
           /\ buf' = Remainder(b)
<1>. DEFINE K == b[1].kind
           m == Matches(b, Kinds)
           offs == First(m)
           found == TrainSeq(b[offs + 1])
           placed == m # {} /\ offs = (IF found = "sync" THEN SyncOffs ELSE NormOffs)
<1>1. /\ TS \in Nat \ {0} /\ Blind \in Nat /\ SyncOffs \in Nat /\ NormOffs \in Nat
      /\ SyncLen \in Nat /\ NormLen \in Nat
      /\ Blind <= SyncOffs /\ SyncOffs < NormOffs /\ NormOffs < TS
      /\ SyncOffs + SyncLen <= TS /\ NormOffs + NormLen <= TS
      /\ Len(b) \in Nat
      BY BurstSyncAssumption, LenProperties DEF BurstSyncAssumption
<1>2. ASSUME NEW r \in 0 .. TS - 1
      PROVE  b[r + 1].ph = r /\ b[r + 1].kind = K
  <2>1. 0 * TS + r + 1 <= Len(b) => b[0 * TS + r + 1].ph = r
        BY <1>1, 0 \in Nat, AlignedAt, Zenon
  <2>2. 0 * TS + r + 1 = r + 1 /\ r + 1 <= Len(b) /\ 1 \in 1 .. Len(b) /\ r + 1 \in 1 .. Len(b)
        BY <1>1
  <2>. QED  BY <2>1, <2>2 DEF Stream, OfOneKind
<1>3. K \in Kinds \cup {"lost"}
  <2>1. b[1] \in Bits
        BY <1>1, ElementOfSeq
  <2>. QED  BY <2>1 DEF Bits
<1>4. /\ state' = IF m = {} \/ (found = "sync" /\ ~placed) THEN "unlocked" ELSE "locked"
      /\ out'.burst = IF placed THEN found ELSE "none"
      /\ buf' = Remainder(b)
      BY DEF Consume, Handle
<1>5. m \subseteq Nat
      BY <1>1 DEF Matches
<1>6. ASSUME NEW p \in m, p < TS
      PROVE  /\ (K = "sync" /\ p = SyncOffs) \/ (K = "norm" /\ p = NormOffs)
             /\ TrainSeq(b[p + 1]) = K
  <2>1. p \in 0 .. TS - 1 /\ TrainSeq(b[p + 1]) \in Kinds
        BY <1>1, <1>6 DEF Matches
  <2>2. b[p + 1].ph = p /\ b[p + 1].kind = K
        BY <1>2, <2>1
  <2>. QED  BY <2>1, <2>2 DEF TrainSeq, Kinds
<1>7. CASE K \in Kinds
  <2>1. PICK o \in {SyncOffs, NormOffs} : o = IF K = "sync" THEN SyncOffs ELSE NormOffs
        OBVIOUS
  <2>2. o \in 0 .. TS - 1
        BY <1>1
  <2>3. TrainSeq(b[o + 1]) = K
        BY <1>2, <1>7, <2>1, <2>2 DEF TrainSeq, Kinds
  <2>4. o \in m
        BY <1>1, <1>7, <2>1, <2>2, <2>3 DEF Matches, SeqLen, Kinds
  <2>5. \A q \in m : o <= q
        BY <1>1, <1>5, <1>6, <1>7, <2>1, <2>2 DEF Kinds
  <2>6. offs = o
        BY <1>5, <2>4, <2>5, FirstOf
  <2>. QED  BY <1>3, <1>4, <1>7, <2>1, <2>3, <2>4, <2>6 DEF Kinds
<1>8. CASE K = "lost"
  <2>1. m # {} => offs >= TS
    <3>. SUFFICES ASSUME m # {}  PROVE offs >= TS
         OBVIOUS
    <3>1. offs \in m
          BY <1>5, LeastNat
    <3>. QED  BY <1>1, <1>5, <1>6, <1>8, <3>1
  <2>2. ~placed
        BY <1>1, <2>1
  <2>. QED  BY <1>3, <1>4, <1>8, <2>2
<1>. QED  BY <1>3, <1>7, <1>8

\* The invariant of the grid.
GInv == IInv /\ Stream(buf, air) /\ GridIsTrue

\* A call either searches on, or has a stream that starts with a burst.
SearchesOn ==
    /\ state # "locked" /\ state' # "locked" /\ out' = Idle
    /\ Stream(buf', air')
    /\ state' = "know_fstart" => ((air'.ph - Len(buf')) + gap') % TS = 0

Serves(c) ==
    /\ Stream(c, air') /\ Aligned(c, air')
    /\ Len(c) <= BufSize
    /\ IF Len(c) < TS THEN Wait(c, "locked", TS) ELSE Consume(c)

LEMMA CallCases ==
    ASSUME SmallChunks, GInv, NEW len \in Lens, NEW ks \in [1 .. Begun(len) -> AirKinds],
           SyncIn(Sent(len, ks)), Advance(len, ks)
    PROVE  \/ SearchesOn
           \/ state = "know_fstart" /\ \E c \in Seq(Bits) : Serves(c)
           \/ state = "locked" /\ Serves(buf \o Sent(len, ks)) /\ buf \o Sent(len, ks) \in Seq(Bits)
<1>. DEFINE bits == Sent(len, ks)
           b == Appended(bits)
           D == Dropped(Len(bits))
           g == gap - D
<1>1. /\ IInv /\ TypeOK /\ AirOK /\ Stream(buf, air)
      /\ TS \in Nat \ {0} /\ BufSize \in Nat /\ len \in Nat
      /\ SyncOffs \in Nat /\ SyncOffs < TS /\ Blind \in Nat
      BY BurstSyncAssumption DEF BurstSyncAssumption, GInv, IInv, TypeOK, AirOK
<1>2. bits \in Seq(Bits) /\ Len(bits) = len
      BY <1>1, SentType
<1>3. /\ b \in Seq(Bits) /\ D \in 0 .. len /\ Len(b) <= BufSize
      BY <1>1, <1>2, AppendedType
<1>4. Stream(b, air')
      BY <1>1, AppendedStream
<1>5. /\ buf \in Seq(Bits) /\ Len(buf) \in Nat /\ Len(buf) <= BufSize /\ gap \in Int
      /\ Len(b) \in Nat
      BY <1>1, <1>3, LenProperties DEF TypeOK
<1>6. D <= Len(buf) /\ Len(b) = Len(buf) - D + len
  <2>1. D <= Len(buf)
        BY <1>1, <1>2, <1>5, BurstSyncAssumption DEF Dropped, BurstSyncAssumption
  <2>2. PICK kept \in Seq(Bits) :
           kept = SubSeq(buf, D + 1, Len(buf)) /\ Len(kept) = Len(buf) - D
    <3>1. D \in 0 .. Len(buf)
          BY <1>3, <1>5, <2>1
    <3>. QED  BY <1>5, <3>1, Suffix
  <2>3. Len(kept \o bits) = Len(kept) + Len(bits)
        BY <1>2, ConcatProperties
  <2>. QED  BY <1>2, <2>1, <2>2, <2>3 DEF Appended
<1>7. air'.ph \in 0 .. TS - 1
  <2>1. AirOK'
        BY <1>1, AdvanceType
  <2>. QED  BY <2>1 DEF AirOK
<1>. HIDE DEF b, D
<1>8. CASE Unlocked(b)
  <2>. DEFINE m == IF Len(b) < 2 * TS THEN {} ELSE Matches(b, {"sync"})
  <2>1. CASE m = {}
    <3>1. Wait(b, "unlocked", 0) /\ state = "unlocked"
          BY <1>8, <2>1 DEF Unlocked
    <3>. QED  BY <1>4, <3>1 DEF SearchesOn, Wait
  <2>2. CASE m # {}
    <3>1. m = Matches(b, {"sync"}) /\ {"sync"} \in SUBSET Kinds
          BY <2>2 DEF Kinds
    <3>2. PICK p \in Nat : p = First(m) /\ p < Len(b) /\ TrainSeq(b[p + 1]) = "sync"
          BY <1>3, <2>2, <3>1, FirstMatch
    <3>3. Wait(b, "know_fstart", p + FStart) /\ state = "unlocked"
          BY <1>8, <2>2, <3>2 DEF Unlocked
    <3>4. b[p + 1].ph = SyncOffs
          BY <3>2 DEF TrainSeq
    <3>5. PICK x \in Int : x = air'.ph - Len(b) + p
          BY <1>5, <1>7
    <3>6. x % TS = SyncOffs
      <4>1. p + 1 \in 1 .. Len(b) /\ air'.ph - Len(b) + (p + 1) - 1 = x
            BY <1>5, <1>7, <3>2, <3>5
      <4>. QED  BY <1>4, <3>4, <4>1 DEF Stream, Phased
    <3>7. (x + (TS - SyncOffs)) % TS = 0
          BY <1>1, <3>6, NextMultiple
    <3>8. (air'.ph - Len(b)) + (p + FStart) = x + (TS - SyncOffs)
          BY <1>1, <1>5, <1>7, <3>5 DEF FStart
    <3>. QED  BY <1>4, <3>3, <3>7, <3>8 DEF SearchesOn, Wait
  <2>. QED  BY <2>1, <2>2
<1>9. CASE KnowFStart(b, g)
  <2>1. state = "know_fstart" /\ len <= gap
        BY <1>1, <1>9 DEF IInv, KnowFStart
  <2>2. g \in Nat
        BY <1>1, <1>3, <1>5, <2>1
  <2>3. (air'.ph + (g - Len(b))) % TS = 0
    <3>0. gap \in Int /\ Len(buf) \in Int
          BY <1>5
    <3>1. PICK n \in Int : n = gap - Len(buf)
          BY <3>0
    <3>2. (air.ph + n) % TS = 0
      <4>1. ((air.ph - Len(buf)) + gap) % TS = 0
            BY <2>1 DEF GInv, GridIsTrue, OnGrid
      <4>2. (air.ph - Len(buf)) + gap = air.ph + n
            BY <1>1, <1>5, <3>1 DEF AirOK
      <4>. QED  BY <4>1, <4>2
    <3>3. (air'.ph + (n - len)) % TS = 0
          BY <1>1, <3>2, GridStays
    <3>4. g - Len(b) = n - len
          BY <1>1, <1>3, <1>5, <1>6, <3>1
    <3>. QED  BY <3>3, <3>4
  <2>. HIDE DEF g
  <2>4. CASE Len(b) < g
    <3>1. Wait(b, "know_fstart", g)
          BY <1>9, <2>4 DEF KnowFStart
    <3>2. (air'.ph - Len(b)) + g = air'.ph + (g - Len(b))
          BY <1>5, <1>7, <2>2
    <3>. QED  BY <1>4, <2>1, <2>3, <3>1, <3>2 DEF SearchesOn, Wait
  <2>5. CASE Len(b) >= g
    <3>. DEFINE c == Shifted(b, g)
    <3>1. g \in 0 .. Len(b)
          BY <1>5, <2>2, <2>5
    <3>2. c = SubSeq(b, g + 1, Len(b))
          BY <2>2 DEF Shifted
    <3>3. c \in Seq(Bits) /\ Len(c) = Len(b) - g
          BY <1>3, <3>1, <3>2, Suffix
    <3>4. Stream(c, air')
          BY <1>3, <1>4, <1>7, <3>1, <3>2, SuffixStream
    <3>5. Aligned(c, air')
      <4>1. air'.ph - Len(c) = air'.ph + (g - Len(b))
            BY <1>5, <1>7, <2>2, <3>3
      <4>. QED  BY <2>3, <4>1 DEF Aligned
    <3>6. IF Len(c) < TS THEN Wait(c, "locked", TS) ELSE Consume(c)
          BY <1>5, <1>9, <2>2, <2>5 DEF KnowFStart
    <3>7. Len(c) <= BufSize
          BY <1>1, <1>3, <1>5, <2>2, <3>3
    <3>. HIDE DEF c
    <3>. QED  BY <2>1, <3>3, <3>4, <3>5, <3>6, <3>7 DEF Serves
  <2>. QED  BY <1>5, <2>2, <2>4, <2>5
<1>10. CASE Locked(b)
  <2>1. state = "locked" /\ gap = TS /\ Len(buf) + TS <= BufSize
        BY <1>1, <1>10 DEF IInv, Locked
  <2>2. D = 0
        BY <1>1, <1>2, <1>5, <2>1 DEF D, Dropped, SmallChunks
  <2>3. b = buf \o bits
    <3>1. SubSeq(buf, 1, Len(buf)) = buf
          BY <1>5, SubSeqProperties
    <3>2. b = SubSeq(buf, D + 1, Len(buf)) \o bits
          BY DEF b, Appended, D
    <3>3. D + 1 = 1
          BY <2>2
    <3>. QED  BY <3>1, <3>2, <3>3
  <2>4. Aligned(b, air')
    <3>1. PICK n \in Int : n = -Len(buf)
          BY <1>5
    <3>2. (air.ph + n) % TS = 0
      <4>1. ((air.ph - Len(buf)) + 0) % TS = 0
            BY <2>1 DEF GInv, GridIsTrue, OnGrid
      <4>2. (air.ph - Len(buf)) + 0 = air.ph + n
            BY <1>1, <1>5, <3>1 DEF AirOK
      <4>. QED  BY <4>1, <4>2
    <3>3. (air'.ph + (n - len)) % TS = 0
          BY <1>1, <3>2, GridStays
    <3>4. air'.ph - Len(b) = air'.ph + (n - len)
          BY <1>1, <1>5, <1>6, <1>7, <2>2, <3>1
    <3>. QED  BY <3>3, <3>4 DEF Aligned
  <2>5. IF Len(b) < TS THEN Wait(b, "locked", TS) ELSE Consume(b)
        BY <1>10, <2>1 DEF Locked
  <2>. QED  BY <1>3, <1>4, <2>1, <2>3, <2>4, <2>5 DEF Serves
<1>. QED  BY <1>8, <1>9, <1>10 DEF SyncIn, b, D

LEMMA ServesKeepsStream ==
    ASSUME NEW c \in Seq(Bits), air'.ph \in Nat, Serves(c)
    PROVE  /\ Stream(buf', air')
           /\ state' \in {"unlocked", "locked"}
           /\ Aligned(buf', air')
<1>1. CASE Len(c) < TS
      BY <1>1 DEF Serves, Wait
<1>2. CASE TS <= Len(c)
  <2>1. Stream(Remainder(c), air') /\ Aligned(Remainder(c), air')
        BY <1>2, RemainderStream DEF Serves
  <2>2. Consume(c)
        BY <1>2, BurstSyncAssumption, LenProperties DEF Serves, BurstSyncAssumption
  <2>. QED  BY <1>2, <2>1, <2>2, ConsumeTakes DEF Serves
<1>. QED  BY <1>1, <1>2, BurstSyncAssumption, LenProperties DEF BurstSyncAssumption

LEMMA GridInit == Init => GInv
<1>. SUFFICES ASSUME Init PROVE GInv
     OBVIOUS
<1>1. IInv
      BY InitInv
<1>2. buf = <<>> /\ Len(buf) = 0 /\ state = "unlocked"
      BY EmptySeq DEF Init
<1>. QED  BY <1>1, <1>2 DEF GInv, GridIsTrue, Stream, Phased, OfOneKind, EndsWith

LEMMA GridStep == SmallChunks /\ GInv /\ [Next]_vars => GInv'
<1>. SUFFICES ASSUME SmallChunks, GInv, [Next]_vars
     PROVE  GInv'
     OBVIOUS
<1>1. IInv'
      BY StepInv DEF GInv
<1>2. CASE Receive
  <2>1. PICK len \in Lens : \E ks \in [1 .. Begun(len) -> AirKinds] :
           SyncIn(Sent(len, ks)) /\ Advance(len, ks)
        BY <1>2 DEF Receive
  <2>2. PICK ks \in [1 .. Begun(len) -> AirKinds] :
           SyncIn(Sent(len, ks)) /\ Advance(len, ks)
        BY <2>1
  <2>3. air'.ph \in Nat
        BY <1>1, BurstSyncAssumption DEF IInv, TypeOK, BurstSyncAssumption
  <2>4. CASE SearchesOn
        BY <1>1, <2>4 DEF GInv, SearchesOn, GridIsTrue, OnGrid, IInv, TypeOK
  <2>5. ASSUME NEW c \in Seq(Bits), Serves(c)  PROVE GInv'
    <3>1. /\ Stream(buf', air') /\ state' \in {"unlocked", "locked"}
          /\ (air'.ph - Len(buf')) % TS = 0
          BY <2>3, <2>5, ServesKeepsStream DEF Aligned
    <3>2. (air'.ph - Len(buf')) + 0 = air'.ph - Len(buf')
      <4>1. Len(buf') \in Nat
            BY <1>1, LenProperties DEF IInv, TypeOK
      <4>. QED  BY <2>3, <4>1
    <3>. QED  BY <1>1, <3>1, <3>2 DEF GInv, GridIsTrue, OnGrid
  <2>. QED  BY <2>2, <2>4, <2>5, CallCases
<1>3. CASE SignalTurnsGood
  <2>1. UNCHANGED <<state, buf, gap>> /\ air'.ph = air.ph /\ air'.kind = air.kind
        BY <1>3 DEF SignalTurnsGood, GInv, IInv, TypeOK
  <2>. QED  BY <1>1, <2>1 DEF GInv, GridIsTrue, OnGrid, Stream, Phased, OfOneKind, EndsWith
<1>4. CASE UNCHANGED vars
      BY <1>1, <1>4 DEF vars, GInv, GridIsTrue, OnGrid, Stream, Phased, OfOneKind, EndsWith
<1>. QED  BY <1>2, <1>3, <1>4 DEF Next

LEMMA GridInductive ==
    ASSUME SmallChunks  PROVE Spec => []GInv
<1>1. Init => GInv
      BY GridInit
<1>2. GInv /\ [Next]_vars => GInv'
      BY GridStep
<1>. QED  BY <1>1, <1>2, PTL DEF Spec

\* A synchroniser that believes to know where the next frame starts is right: through
\* every chunk, drop of old bits, shift and frame, next_frame_start_bitnum stays a
\* multiple of the slot length away from the burst boundaries that were sent.
THEOREM GridStaysTrue ==
    ASSUME SmallChunks  PROVE Spec => []GridIsTrue
<1>1. GInv => GridIsTrue
      BY DEF GInv
<1>. QED  BY <1>1, GridInductive, PTL

-----------------------------------------------------------------------------
(* The refinement.  A frame handled on the grid is one whole burst: its own*)
(* training sequence is the first that is found, at its place; a corrupted *)
(* one has none before the next burst's.                                   *)

\* How many bursts a stream of n bits has bits of.
Bursts(n) == (n + TS - 1) \div TS

LEMMA BurstsCount ==
    ASSUME NEW n \in Nat, n <= BufSize
    PROVE  /\ Bursts(n) \in 0 .. BufSize \div TS + 1
           /\ BufSize \div TS + 1 \in Nat
           /\ \A m \in Nat : m <= n => Bursts(m) <= Bursts(n)
           /\ n > 0 => Bursts(n) >= 1
           /\ n = 0 => Bursts(n) = 0
           /\ \A i \in 1 .. Bursts(n) : (i - 1) * TS + 1 \in 1 .. n
           /\ n >= TS => Bursts(n - TS) = Bursts(n) - 1
<1>1. TS \in Nat \ {0} /\ BufSize \in Nat
      BY BurstSyncAssumption DEF BurstSyncAssumption
<1>2. PICK q \in Nat, r \in 0 .. TS - 1 : n + TS - 1 = q * TS + r /\ q = Bursts(n)
  <2>1. PICK x \in Nat : x = n + TS - 1
        BY <1>1
  <2>. QED  BY <1>1, <2>1, Euclid DEF Bursts
<1>3. PICK w \in Nat : w = BufSize \div TS /\ BufSize < (w + 1) * TS
  <2>1. PICK y \in Nat, s \in 0 .. TS - 1 : BufSize = y * TS + s /\ y = BufSize \div TS
        BY <1>1, Euclid
  <2>2. (y + 1) * TS = y * TS + TS
        BY <1>1
  <2>. QED  BY <1>1, <2>1, <2>2
<1>4. q <= w + 1
  <2>1. CASE q >= w + 2
    <3>1. q * TS >= (w + 2) * TS
          BY <1>1, <2>1
    <3>2. (w + 2) * TS = (w + 1) * TS + TS
          BY <1>1
    <3>. QED  BY <1>1, <1>2, <1>3, <3>1, <3>2
  <2>. QED  BY <2>1
<1>5. ASSUME NEW m \in Nat, m <= n  PROVE Bursts(m) <= q
  <2>1. PICK x \in Nat, y \in Nat : x = m + TS - 1 /\ y = n + TS - 1 /\ x <= y
        BY <1>1, <1>5
  <2>. QED  BY <1>1, <1>2, <2>1, DivMod DEF Bursts
<1>6. n > 0 => q >= 1
      BY <1>1, <1>2
<1>7. n = 0 => q = 0
  <2>1. q >= 1 => q * TS >= TS
        BY <1>1
  <2>. QED  BY <1>1, <1>2, <2>1
<1>8. ASSUME NEW i \in 1 .. q  PROVE (i - 1) * TS + 1 \in 1 .. n
  <2>1. (i - 1) * TS \in Nat /\ (i - 1) * TS + TS = i * TS /\ i * TS <= q * TS
        BY <1>1, <1>8
  <2>. QED  BY <1>1, <1>2, <2>1
<1>9. n >= TS => Bursts(n - TS) = q - 1
  <2>1. PICK k \in Int : k = q - 1
        OBVIOUS
  <2>2. k * TS + r = q * TS + r - TS
        BY <1>1, <2>1
  <2>3. (k * TS + r) \div TS = k
        BY <1>1, ModIs
  <2>4. (n - TS) + TS - 1 = k * TS + r
        BY <1>1, <1>2, <2>2
  <2>. QED  BY <2>1, <2>3, <2>4 DEF Bursts
<1>. QED  BY <1>1, <1>2, <1>3, <1>4, <1>5, <1>6, <1>7, <1>8, <1>9

LEMMA BurstsInType ==
    ASSUME NEW b \in Seq(Bits), Len(b) <= BufSize, NEW a, a.ph \in Nat,
           Stream(b, a), Aligned(b, a)
    PROVE  /\ BurstsIn(b) \in Seq(Kinds \cup {"lost"})
           /\ Len(BurstsIn(b)) = Bursts(Len(b))
           /\ \A i \in 1 .. Bursts(Len(b)) : BurstsIn(b)[i] = b[(i - 1) * TS + 1].kind
<1>1. TS \in Nat \ {0} /\ Len(b) \in Nat
      BY BurstSyncAssumption, LenProperties DEF BurstSyncAssumption
<1>2. Bursts(Len(b)) \in Nat
      BY <1>1, BurstsCount
<1>3. ASSUME NEW i \in 1 .. Bursts(Len(b))
      PROVE  /\ b[(i - 1) * TS + 1].ph = 0
             /\ b[(i - 1) * TS + 1].kind \in Kinds \cup {"lost"}
  <2>1. (i - 1) * TS + 1 \in 1 .. Len(b)
        BY <1>1, BurstsCount
  <2>2. b[(i - 1) * TS + 1] \in Bits
        BY <1>1, <2>1, ElementOfSeq
  <2>3. PICK k \in Nat : k = i - 1
        BY <1>2
  <2>4. k * TS + 0 + 1 = (i - 1) * TS + 1 /\ 0 \in 0 .. TS - 1
        BY <1>1, <2>3
  <2>5. b[k * TS + 0 + 1].ph = 0
        BY <2>1, <2>4, <1>1, AlignedAt
  <2>. QED  BY <2>2, <2>4, <2>5 DEF Bits
<1>4. BurstsIn(b) = [i \in 1 .. Bursts(Len(b)) |->
                        IF b[(i - 1) * TS + 1].ph = 0 THEN b[(i - 1) * TS + 1].kind
                        ELSE "misplaced"]
      BY DEF BurstsIn, Bursts
<1>. DEFINE n == Bursts(Len(b))
           e(i) == b[(i - 1) * TS + 1].kind
<1>5. BurstsIn(b) = [i \in 1 .. n |-> e(i)] /\ \A i \in 1 .. n : e(i) \in Kinds \cup {"lost"}
      BY <1>3, <1>4
<1>6. n \in Nat
      BY <1>2
<1>. HIDE DEF n, e
<1>7. /\ BurstsIn(b) \in Seq(Kinds \cup {"lost"}) /\ Len(BurstsIn(b)) = n
      /\ \A i \in 1 .. n : BurstsIn(b)[i] = e(i)
      BY <1>5, <1>6
<1>. QED  BY <1>7 DEF n, e

LEMMA BurstsInRemainder ==
    ASSUME NEW b \in Seq(Bits), TS <= Len(b), Len(b) <= BufSize, NEW a, a.ph \in Nat,
           Stream(b, a), Aligned(b, a)
    PROVE  /\ BurstsIn(b) # <<>> /\ Head(BurstsIn(b)) = b[1].kind
           /\ BurstsIn(Remainder(b)) = Tail(BurstsIn(b))
<1>1. TS \in Nat \ {0} /\ Len(b) \in Nat /\ BufSize \in Nat
      BY BurstSyncAssumption, LenProperties DEF BurstSyncAssumption
<1>. DEFINE c == Remainder(b)
           s == BurstsIn(b)
           t == BurstsIn(c)
           n == Bursts(Len(b))
<1>2. /\ c \in Seq(Bits) /\ Len(c) = Len(b) - TS /\ Stream(c, a) /\ Aligned(c, a)
      /\ \A i \in 1 .. Len(b) - TS : c[i] = b[TS + i]
      BY RemainderStream
<1>21. Len(c) \in Nat /\ Len(c) <= BufSize
      BY <1>1, <1>2
<1>3. /\ s \in Seq(Kinds \cup {"lost"}) /\ Len(s) = n
      /\ \A i \in 1 .. n : s[i] = b[(i - 1) * TS + 1].kind
      BY BurstsInType
<1>4. /\ n \in Nat /\ n >= 1 /\ Bursts(Len(c)) = n - 1
      BY <1>1, <1>2, BurstsCount
<1>5. /\ t \in Seq(Kinds \cup {"lost"}) /\ Len(t) = n - 1
      /\ \A i \in 1 .. n - 1 : t[i] = c[(i - 1) * TS + 1].kind
      BY <1>2, <1>21, <1>4, BurstsInType
<1>6. \A i \in 1 .. n - 1 : (i - 1) * TS + 1 \in 1 .. Len(c)
      BY <1>21, <1>4, BurstsCount
<1>. HIDE DEF c, s, t, n
<1>7. s # <<>> /\ Head(s) = s[1] /\ s[1] = b[1].kind
  <2>1. (1 - 1) * TS + 1 = 1 /\ 1 \in 1 .. n
        BY <1>1, <1>4
  <2>. QED  BY <1>3, <1>4, <2>1, EmptySeq, HeadTailProperties
<1>8. /\ Tail(s) \in Seq(Kinds \cup {"lost"}) /\ Len(Tail(s)) = n - 1
      /\ \A i \in 1 .. n - 1 : Tail(s)[i] = s[i + 1]
      BY <1>3, <1>7, HeadTailProperties
<1>9. ASSUME NEW i \in 1 .. n - 1  PROVE t[i] = Tail(s)[i]
  <2>1. c[(i - 1) * TS + 1] = b[TS + ((i - 1) * TS + 1)]
        BY <1>2, <1>6
  <2>2. TS + ((i - 1) * TS + 1) = ((i + 1) - 1) * TS + 1 /\ i + 1 \in 1 .. n
        BY <1>1, <1>4
  <2>. QED  BY <1>3, <1>5, <1>8, <2>1, <2>2
<1>10. t = Tail(s)
      BY <1>5, <1>8, <1>9, SeqEqual
<1>. QED  BY <1>7, <1>10 DEF s, t, c

MaxBegun == BufSize \div TS + 1

LEMMA SplitAfter ==
    ASSUME NEW T, NEW s \in Seq(T), NEW t \in Seq(T), Len(s) <= Len(t),
           \A i \in 1 .. Len(s) : t[i] = s[i]
    PROVE  \E r \in Seq(T) : t = s \o r /\ Len(r) = Len(t) - Len(s)
<1>1. PICK m \in Nat, n \in Nat : m = Len(s) /\ n = Len(t) /\ m <= n
      BY LenProperties
<1>2. PICK r \in Seq(T) : Len(r) = n - m /\ \A i \in 1 .. n - m : r[i] = t[m + i]
  <2>1. \A i \in 1 .. n - m : t[m + i] \in T
        BY <1>1, ElementOfSeq
  <2>2. PICK r : r = [i \in 1 .. n - m |-> t[m + i]]
        OBVIOUS
  <2>3. r \in Seq(T) /\ Len(r) = n - m
        BY <1>1, <2>1, <2>2
  <2>. QED  BY <2>2, <2>3
<1>3. /\ s \o r \in Seq(T) /\ Len(s \o r) = n
      /\ \A i \in 1 .. n : (s \o r)[i] = IF i <= m THEN s[i] ELSE r[i - m]
  <2>1. /\ s \o r \in Seq(T) /\ Len(s \o r) = Len(s) + Len(r)
        /\ \A i \in 1 .. Len(s) + Len(r) :
              (s \o r)[i] = IF i <= Len(s) THEN s[i] ELSE r[i - Len(s)]
        BY ConcatProperties
  <2>2. Len(s) + Len(r) = n
        BY <1>1, <1>2
  <2>. QED  BY <1>1, <2>1, <2>2
<1>4. ASSUME NEW i \in 1 .. n  PROVE (s \o r)[i] = t[i]
  <2>1. (s \o r)[i] = IF i <= m THEN s[i] ELSE r[i - m]
        BY <1>1, <1>3
  <2>2. i > m => i - m \in 1 .. n - m /\ m + (i - m) = i
        BY <1>1
  <2>. QED  BY <1>1, <1>2, <2>1, <2>2
<1>5. s \o r = t
      BY <1>1, <1>3, <1>4, SeqEqual
<1>. QED  BY <1>1, <1>2, <1>5

LEMMA BurstsInAppended ==
    ASSUME NEW b \in Seq(Bits), NEW a, a.ph \in Nat, Stream(b, a), Aligned(b, a),
           NEW bits \in Seq(Bits), Len(b \o bits) <= BufSize,
           NEW aa, aa.ph \in Nat, Stream(b \o bits, aa), Aligned(b \o bits, aa)
    PROVE  \E ks \in Slots!BoundedSeq(Kinds \cup {"lost"}, MaxBegun) :
              BurstsIn(b \o bits) = BurstsIn(b) \o ks
<1>. DEFINE T == Kinds \cup {"lost"}
           c == b \o bits
           m == Bursts(Len(b))
           n == Bursts(Len(c))
<1>1. /\ c \in Seq(Bits) /\ Len(c) \in Nat /\ Len(b) \in Nat /\ Len(b) <= Len(c)
      /\ \A i \in 1 .. Len(b) : c[i] = b[i]
  <2>1. Len(b) \in Nat /\ Len(bits) \in Nat
        BY LenProperties
  <2>2. /\ c \in Seq(Bits) /\ Len(c) = Len(b) + Len(bits)
        /\ \A i \in 1 .. Len(b) + Len(bits) :
              c[i] = IF i <= Len(b) THEN b[i] ELSE bits[i - Len(b)]
        BY ConcatProperties
  <2>. QED  BY <2>1, <2>2
<1>2. BufSize \in Nat /\ Len(b) <= BufSize /\ Len(c) <= BufSize
      BY <1>1, BurstSyncAssumption DEF BurstSyncAssumption
<1>. HIDE DEF c
<1>3. /\ n \in 0 .. MaxBegun /\ m <= n /\ MaxBegun \in Nat
      BY <1>1, <1>2, BurstsCount DEF MaxBegun
<1>4. /\ m \in 0 .. MaxBegun
      /\ \A i \in 1 .. m : (i - 1) * TS + 1 \in 1 .. Len(b)
      BY <1>1, <1>2, BurstsCount DEF MaxBegun
<1>. HIDE DEF T, m, n
<1>5. /\ BurstsIn(b) \in Seq(T) /\ Len(BurstsIn(b)) = m
      /\ \A i \in 1 .. m : BurstsIn(b)[i] = b[(i - 1) * TS + 1].kind
      BY <1>1, <1>2, BurstsInType DEF T, m
<1>6. /\ BurstsIn(c) \in Seq(T) /\ Len(BurstsIn(c)) = n
      /\ \A i \in 1 .. n : BurstsIn(c)[i] = c[(i - 1) * TS + 1].kind
      BY <1>1, <1>2, BurstsInType DEF T, n, c
<1>7. \A i \in 1 .. m : BurstsIn(c)[i] = BurstsIn(b)[i]
  <2>1. ASSUME NEW i \in 1 .. m  PROVE BurstsIn(c)[i] = BurstsIn(b)[i]
    <3>1. i \in 1 .. n
          BY <1>3, <1>4
    <3>2. c[(i - 1) * TS + 1] = b[(i - 1) * TS + 1]
          BY <1>1, <1>4
    <3>. QED  BY <1>5, <1>6, <3>1, <3>2
  <2>. QED  BY <2>1
<1>8. PICK ks \in Seq(T) : BurstsIn(c) = BurstsIn(b) \o ks /\ Len(ks) = n - m
      BY <1>3, <1>5, <1>6, <1>7, SplitAfter
<1>9. ks \in Slots!BoundedSeq(T, MaxBegun)
  <2>1. n - m \in 0 .. MaxBegun
        BY <1>3, <1>4
  <2>2. ks \in [1 .. n - m -> T]
        BY <1>8
  <2>. QED  BY <2>1, <2>2 DEF Slots!BoundedSeq, Slots!SeqOf
<1>. QED  BY <1>8, <1>9 DEF T, c

LEMMA ServesTakesOrKeeps ==
    ASSUME NEW c \in Seq(Bits), air'.ph \in Nat, Serves(c)
    PROVE  Slots!Take(BurstsIn(c)) \/ Slots!Keep(BurstsIn(c))
<1>1. TS \in Nat /\ Len(c) \in Nat
      BY BurstSyncAssumption, LenProperties DEF BurstSyncAssumption
<1>2. CASE Len(c) < TS
      BY <1>2 DEF Serves, Wait, Idle, Slots!Keep
<1>3. CASE TS <= Len(c)
  <2>1. Consume(c) /\ Stream(c, air') /\ Aligned(c, air') /\ Len(c) <= BufSize
        BY <1>1, <1>3 DEF Serves
  <2>2. /\ BurstsIn(c) # <<>> /\ Head(BurstsIn(c)) = c[1].kind
        /\ BurstsIn(Remainder(c)) = Tail(BurstsIn(c))
        BY <1>3, <2>1, BurstsInRemainder
  <2>3. /\ out'.burst = IF c[1].kind = "lost" THEN "none" ELSE c[1].kind
        /\ \/ state' = "locked"
           \/ c[1].kind = "lost" /\ state' = "unlocked"
        /\ buf' = Remainder(c)
        BY <1>3, <2>1, ConsumeTakes
  <2>4. BurstsIn(buf)' = BurstsIn(buf')
        BY DEF BurstsIn
  <2>. QED  BY <2>2, <2>3, <2>4 DEF Slots!Take
<1>. QED  BY <1>1, <1>2, <1>3

LEMMA SlotsInit == Init => Slots!Init
BY DEF Init, Idle, Slots!Init

LEMMA SlotsStep == SmallChunks /\ GInv /\ GInv' /\ [Next]_vars => [Slots!Next]_(Slots!vars)
<1>. SUFFICES ASSUME SmallChunks, GInv, GInv', [Next]_vars
     PROVE  [Slots!Next]_(Slots!vars)
     OBVIOUS
<1>1. CASE UNCHANGED <<state, buf, gap, out>>
      BY <1>1 DEF Slots!vars, BurstsIn
<1>2. CASE Receive
  <2>1. PICK len \in Lens : \E ks \in [1 .. Begun(len) -> AirKinds] :
           SyncIn(Sent(len, ks)) /\ Advance(len, ks)
        BY <1>2 DEF Receive
  <2>2. PICK ks \in [1 .. Begun(len) -> AirKinds] :
           SyncIn(Sent(len, ks)) /\ Advance(len, ks)
        BY <2>1
  <2>3. air'.ph \in Nat /\ air.ph \in Nat
        BY BurstSyncAssumption DEF GInv, IInv, TypeOK, BurstSyncAssumption
  <2>4. CASE SearchesOn
        BY <2>4 DEF SearchesOn, Idle, Slots!Next, Slots!Search
  <2>5. CASE state = "know_fstart" /\ \E c \in Seq(Bits) : Serves(c)
    <3>1. PICK c \in Seq(Bits) : Serves(c)
          BY <2>5
    <3>2. BurstsIn(c) \in Slots!BoundedSeq(Kinds \cup {"lost"}, MaxBegun)
      <4>1. Stream(c, air') /\ Aligned(c, air') /\ Len(c) <= BufSize
            BY <3>1 DEF Serves
      <4>2. /\ BurstsIn(c) \in Seq(Kinds \cup {"lost"})
            /\ Len(BurstsIn(c)) = Bursts(Len(c))
            BY <2>3, <4>1, BurstsInType
      <4>3. Bursts(Len(c)) \in 0 .. MaxBegun
            BY <4>1, BurstsCount, LenProperties DEF MaxBegun
      <4>4. BurstsIn(c) \in [1 .. Bursts(Len(c)) -> Kinds \cup {"lost"}]
            BY <4>2
      <4>. QED  BY <4>3, <4>4 DEF Slots!BoundedSeq, Slots!SeqOf
    <3>3. Slots!Take(BurstsIn(c)) \/ Slots!Keep(BurstsIn(c))
          BY <2>3, <3>1, ServesTakesOrKeeps
    <3>4. \E new \in Slots!BoundedSeq(Slots!AirKinds, BufSize \div TS + 1) :
             Slots!Take(new) \/ Slots!Keep(new)
          BY <3>2, <3>3, Zenon DEF Slots!AirKinds, MaxBegun
    <3>5. Slots!Lock
          BY <2>5, <3>4 DEF Slots!Lock
    <3>. QED  BY <3>5 DEF Slots!Next
  <2>6. CASE /\ state = "locked" /\ Serves(buf \o Sent(len, ks))
             /\ buf \o Sent(len, ks) \in Seq(Bits)
    <3>1. /\ buf \in Seq(Bits) /\ Stream(buf, air) /\ TypeOK
          BY DEF GInv, IInv, TypeOK
    <3>2. Aligned(buf, air)
      <4>1. ((air.ph - Len(buf)) + 0) % TS = 0
            BY <2>6 DEF GInv, GridIsTrue, OnGrid
      <4>2. (air.ph - Len(buf)) + 0 = air.ph - Len(buf)
            BY <2>3, <3>1, LenProperties
      <4>. QED  BY <4>1, <4>2 DEF Aligned
    <3>3. PICK bits \in Seq(Bits) : bits = Sent(len, ks)
          BY <3>1, SentType
    <3>4. PICK fresh \in Slots!BoundedSeq(Kinds \cup {"lost"}, MaxBegun) :
             BurstsIn(buf \o bits) = BurstsIn(buf) \o fresh
          BY <2>3, <2>6, <3>1, <3>2, <3>3, BurstsInAppended DEF Serves
    <3>5. Slots!Take(BurstsIn(buf \o bits)) \/ Slots!Keep(BurstsIn(buf \o bits))
          BY <2>3, <2>6, <3>3, ServesTakesOrKeeps
    <3>6. \E new \in Slots!BoundedSeq(Slots!AirKinds, BufSize \div TS + 1) :
             Slots!Take(BurstsIn(buf) \o new) \/ Slots!Keep(BurstsIn(buf) \o new)
          BY <3>4, <3>5, Zenon DEF Slots!AirKinds, MaxBegun
    <3>7. (IF state = "locked" THEN BurstsIn(buf) ELSE <<>>) = BurstsIn(buf)
          BY <2>6
    <3>8. Slots!Call
          BY <2>6, <3>6, <3>7, Zenon DEF Slots!Call
    <3>. QED  BY <3>8 DEF Slots!Next
  <2>. QED  BY <2>2, <2>4, <2>5, <2>6, CallCases
<1>. QED  BY <1>1, <1>2 DEF Next, SignalTurnsGood, vars

\* The synchroniser, bit by bit, implements the stream of whole bursts: from the lock to
\* its loss tetra_burst_rx_cb() is given each burst that was sent, once and in order.
THEOREM SlotsAreTaken ==
    ASSUME SmallChunks  PROVE Spec => GivesAllBursts
<1>1. Init => Slots!Init
      BY SlotsInit
<1>2. GInv /\ GInv' /\ [Next]_vars => [Slots!Next]_(Slots!vars)
      BY SlotsStep
<1>. QED  BY <1>1, <1>2, GridInductive, PTL DEF Spec, GivesAllBursts, Slots!Spec
=============================================================================
