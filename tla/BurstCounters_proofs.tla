------------------------ MODULE BurstCounters_proofs ------------------------
(***************************************************************************)
(* The synchroniser with counters that wrap implements the one with their  *)
(* difference, for every width of the counters above four buffers, and     *)
(* with it keeps its grid.                                                 *)
(***************************************************************************)
EXTENDS BurstCounters, SequenceTheorems, TLAPS

\* The lemmas about BurstSync, on the difference of the counters.
SP == INSTANCE BurstSync_proofs

\* Both instances of BurstSync are the same.
LEMMA SameHelpers ==
    /\ \A n : SP!Dropped(n) = Sync!Dropped(n)
    /\ \A bits : SP!Appended(bits) = Sync!Appended(bits)
    /\ \A len, ks : SP!Sent(len, ks) = Sync!Sent(len, ks)
    /\ \A b, kinds : SP!Matches(b, kinds) = Sync!Matches(b, kinds)
    /\ \A m : SP!First(m) = Sync!First(m)
    /\ SP!FStart = Sync!FStart
    /\ \A len : SP!Begun(len) = Sync!Begun(len)
    /\ SP!AirKinds = Sync!AirKinds
BY DEF SP!Dropped, Sync!Dropped, SP!Appended, Sync!Appended, SP!Sent, Sync!Sent,
       SP!Matches, Sync!Matches, SP!First, Sync!First, SP!FStart, Sync!FStart,
       SP!TrainSeq, Sync!TrainSeq, SP!SeqLen, Sync!SeqLen, SP!Begun, Sync!Begun,
       SP!AirKinds, Sync!AirKinds, SP!Kinds, Sync!Kinds

LEMMA SameNext == [Sync!Next]_(Sync!vars) => [SP!Next]_(SP!vars)
<1>1. ASSUME NEW bits, Sync!SyncIn(bits) PROVE SP!SyncIn(bits)
    BY <1>1 DEF SP!SyncIn, Sync!SyncIn, SP!Appended, Sync!Appended, SP!Dropped, Sync!Dropped,
           SP!Unlocked, Sync!Unlocked, SP!KnowFStart, Sync!KnowFStart, SP!Locked, Sync!Locked,
           SP!Wait, Sync!Wait, SP!Consume, Sync!Consume, SP!Handle, Sync!Handle,
           SP!Remainder, Sync!Remainder, SP!Matches, Sync!Matches, SP!First, Sync!First,
           SP!FStart, Sync!FStart, SP!Kinds, Sync!Kinds, SP!Shifted, Sync!Shifted,
           SP!Unknown, Sync!Unknown, SP!Idle, Sync!Idle, SP!TrainSeq, Sync!TrainSeq,
           SP!SeqLen, Sync!SeqLen
<1>2. \A ks : Sync!MayFollow(ks) => SP!MayFollow(ks)
    BY DEF SP!MayFollow, Sync!MayFollow, SP!Range, Sync!Range
<1>3. \A len, ks : Sync!Advance(len, ks) => SP!Advance(len, ks)
    BY DEF SP!Advance, Sync!Advance, SP!Range, Sync!Range, SP!Last, Sync!Last
<1>4. Sync!Receive => SP!Receive
    BY <1>1, <1>2, <1>3, SameHelpers DEF SP!Receive, Sync!Receive
<1>5. Sync!SignalTurnsGood => SP!SignalTurnsGood
    BY DEF SP!SignalTurnsGood, Sync!SignalTurnsGood
<1> QED
    BY <1>4, <1>5 DEF SP!Next, Sync!Next, SP!vars, Sync!vars

-----------------------------------------------------------------------------
(* The counters.  Whatever they are, their difference modulo Wrap is the    *)
(* distance: that of a slot while locked, and less than two buffers while   *)
(* the frame start is awaited.                                              *)

CountersInv ==
    /\ SP!GInv
    /\ start \in 0 .. Wrap - 1 /\ next \in 0 .. Wrap - 1
    /\ state = "know_fstart" => \E g \in Nat : g < 2 * BufSize /\ next = U32(start + g)

\* Sums of wrapped numbers.
LEMMA Wraps ==
    ASSUME NEW a \in Int, NEW b \in Int
    PROVE  /\ U32(a) \in 0 .. Wrap - 1
           /\ a \in 0 .. Wrap - 1 => U32(a) = a
           /\ U32(U32(a) - U32(b)) = U32(a - b)
<1>1. Wrap \in Nat \ {0}
    BY BurstCountersAssumption DEF BurstCountersAssumption, Sync!BurstSyncAssumption
<1>2. U32(a) \in 0 .. Wrap - 1 /\ U32(b) \in 0 .. Wrap - 1
    BY <1>1 DEF U32
<1>3. a \in 0 .. Wrap - 1 => U32(a) = a
    BY <1>1 DEF U32
<1>4. PICK i \in Int, j \in Int : a = Wrap * i + U32(a) /\ b = Wrap * j + U32(b)
    <2>1. \A x \in Int : x \div Wrap \in Int /\ x = Wrap * (x \div Wrap) + (x % Wrap)
        BY <1>1
    <2> QED
        BY <2>1 DEF U32
<1>5. U32(a) - U32(b) = (a - b) + (j - i) * Wrap
    BY <1>1, <1>2, <1>4
<1>6. ((a - b) + (j - i) * Wrap) % Wrap = (a - b) % Wrap
    <2>1. PICK c \in Int, k \in Int : c = a - b /\ k = j - i
        OBVIOUS
    <2>2. (c + k * Wrap) % Wrap = c % Wrap
        BY <1>1, SP!ModShift, BurstCountersAssumption DEF BurstCountersAssumption
    <2> QED
        BY <2>1, <2>2
<1>7. U32(U32(a) - U32(b)) = U32(a - b)
    BY <1>5, <1>6 DEF U32
<1> QED
    BY <1>2, <1>3, <1>7

LEMMA Unwrapped == \A a \in 0 .. Wrap - 1 : U32(a) = a
<1>1. Wrap \in Int
    BY BurstCountersAssumption DEF BurstCountersAssumption
<1> QED
    BY <1>1, Wraps

\* A difference of less than half of Wrap is the one read as signed.
LEMMA SignedIs ==
    ASSUME NEW n \in Nat, n < 2 * BufSize
    PROVE  Signed(n) = n
<1>1. Wrap \in Nat /\ BufSize \in Nat /\ Wrap > 4 * BufSize
    BY BurstCountersAssumption DEF BurstCountersAssumption, Sync!BurstSyncAssumption
<1>2. n < Wrap \div 2 /\ n \in 0 .. Wrap - 1
    BY <1>1
<1> QED
    BY <1>2, Wraps DEF Signed

\* A wrapped number and the one it is of differ by nothing that matters.
LEMMA Added ==
    ASSUME NEW a \in Int, NEW b \in Int
    PROVE  U32(U32(a) + b) = U32(a + b)
<1>1. PICK c \in Int : c = 0 - b
    OBVIOUS
<1>2. Wrap \in Nat \ {0}
    BY BurstCountersAssumption DEF BurstCountersAssumption, Sync!BurstSyncAssumption
<1>3. U32(a) \in Int
    BY Wraps
<1>4. U32(U32(U32(a)) - U32(c)) = U32(U32(a) - c)
    BY <1>3, Wraps
<1>5. U32(U32(a)) = U32(a)
    BY <1>3, Wraps
<1>6. U32(U32(a) - U32(c)) = U32(a - c)
    BY Wraps
<1>7. U32(a) - c = U32(a) + b /\ a - c = a + b
    BY <1>1, <1>3
<1> QED
    BY <1>4, <1>5, <1>6, <1>7

\* Of two counters that are counted up alike, however they wrap.
LEMMA SignedOf ==
    ASSUME NEW a \in Int, NEW b \in Int
    PROVE  Signed(U32(a) - U32(b)) = Signed(a - b)
BY Wraps DEF Signed

LEMMA Sizes ==
    /\ BufSize \in Nat /\ TS \in Nat \ {0} /\ 2 * TS <= BufSize
    /\ Wrap \in Nat /\ Wrap > 4 * BufSize
    /\ Sync!FStart \in 0 .. TS
    /\ Lens \subseteq Nat
    /\ SP!BurstSyncAssumption
BY BurstCountersAssumption
   DEF BurstCountersAssumption, Sync!BurstSyncAssumption, SP!BurstSyncAssumption, Sync!FStart

\* The buffer after a call has taken its bits in.
LEMMA Lengths ==
    ASSUME SP!SmallChunks, SP!IInv, NEW len \in Lens, NEW ks \in [1 .. Sync!Begun(len) -> Sync!AirKinds],
           NEW bits, bits = Sync!Sent(len, ks)
    PROVE  /\ Len(bits) = len /\ Len(buf) \in Nat
           /\ Sync!Dropped(len) \in 0 .. len
           /\ Sync!Appended(bits) \in Seq(SP!Bits)
           /\ Len(Sync!Appended(bits)) \in Nat /\ Len(Sync!Appended(bits)) <= BufSize
           /\ Sync!Dropped(len) + Len(Sync!Appended(bits)) = Len(buf) + len
           /\ state = "locked" => Sync!Dropped(len) = 0
<1>1. SP!TypeOK /\ len \in Nat /\ Len(buf) \in Nat /\ buf \in Seq(SP!Bits) /\ Len(buf) <= BufSize
    BY Sizes, LenProperties DEF SP!IInv, SP!TypeOK
<1>2. bits \in Seq(SP!Bits) /\ Len(bits) = len
    BY <1>1, Sizes, SameHelpers, SP!SentType
<1>3. PICK b : b = Sync!Appended(bits)
    OBVIOUS
<1>4. /\ SP!Dropped(Len(bits)) \in 0 .. Len(bits)
      /\ SP!Appended(bits) \in Seq(SP!Bits)
      /\ Len(SP!Appended(bits)) <= BufSize
      /\ SP!Dropped(Len(bits)) > 0 => Len(SP!Appended(bits)) = BufSize
    BY <1>1, <1>2, Sizes, SP!AppendedType
<1>5. /\ Sync!Dropped(len) \in 0 .. len /\ b \in Seq(SP!Bits) /\ Len(b) <= BufSize
      /\ Sync!Dropped(len) > 0 => Len(b) = BufSize
    BY <1>2, <1>3, <1>4, SameHelpers
<1>6. Len(b) \in Nat
    BY <1>5, LenProperties
<1>7. Sync!Dropped(len) = IF BufSize - Len(buf) < len THEN len - (BufSize - Len(buf)) ELSE 0
    BY DEF Sync!Dropped
<1>8. Sync!Dropped(len) + Len(b) = Len(buf) + len
    <2>1. CASE Sync!Dropped(len) > 0
        <3>1. PICK d \in Nat : d = Sync!Dropped(len) /\ d > 0
            BY <1>1, <1>5, <2>1
        <3>2. d = len - (BufSize - Len(buf))
            BY <1>7, <3>1
        <3>3. Len(b) = BufSize
            BY <1>5, <2>1
        <3>4. d + BufSize = Len(buf) + len
            BY <1>1, <3>2, Sizes
        <3> QED
            BY <3>1, <3>3, <3>4
    <2>2. CASE Sync!Dropped(len) = 0
        <3>1. b = SubSeq(buf, 1, Len(buf)) \o bits
            BY <1>2, <1>3, <2>2 DEF Sync!Appended
        <3>2. SubSeq(buf, 0 + 1, Len(buf)) \in Seq(SP!Bits)
              /\ Len(SubSeq(buf, 0 + 1, Len(buf))) = Len(buf) - 0
            BY <1>1, Sizes, SP!Suffix
        <3>3. SubSeq(buf, 1, Len(buf)) \in Seq(SP!Bits) /\ Len(SubSeq(buf, 1, Len(buf))) = Len(buf)
            BY <1>1, <3>2
        <3>4. Len(b) = Len(SubSeq(buf, 1, Len(buf))) + Len(bits)
            BY <1>2, <3>1, <3>3, ConcatProperties
        <3> QED
            BY <1>1, <1>2, <2>2, <3>3, <3>4
    <2> QED
        BY <1>5, <2>1, <2>2
<1>9. state = "locked" => Sync!Dropped(len) = 0
    <2>1. SUFFICES ASSUME state = "locked" PROVE Sync!Dropped(len) = 0
        OBVIOUS
    <2>2. len <= TS /\ Len(buf) + TS <= BufSize
        BY <2>1 DEF SP!IInv, SP!SmallChunks
    <2>3. ~(BufSize - Len(buf) < len)
        BY <1>1, <2>2, Sizes
    <2> QED
        BY <1>7, <2>3
<1> QED
    BY <1>1, <1>2, <1>3, <1>5, <1>6, <1>8, <1>9

\* Adding n < Wrap to a counter, it wraps once at most, and is below its old value then.
LEMMA WrapsOnce ==
    ASSUME NEW s \in 0 .. Wrap - 1, NEW n \in Nat, n < Wrap
    PROVE  /\ U32(s + n) = IF s + n < Wrap THEN s + n ELSE s + n - Wrap
           /\ U32(s + n) < s <=> s + n >= Wrap
<1>1. Wrap \in Nat \ {0} /\ s \in Int
    BY Sizes
<1>2. CASE s + n < Wrap
    <2>1. s + n \in 0 .. Wrap - 1
        BY <1>1, <1>2
    <2>2. U32(s + n) = s + n
        BY <2>1, Unwrapped, Zenon
    <2> QED
        BY <1>1, <1>2, <2>2
<1>3. CASE s + n >= Wrap
    <2>1. s + n - Wrap \in 0 .. Wrap - 1
        BY <1>1, <1>3
    <2>2. PICK c \in Int, k \in Int : k = 1 /\ c = s + n - Wrap /\ s + n = c + k * Wrap
        <3>1. s + n = (s + n - Wrap) + 1 * Wrap
            BY <1>1
        <3> QED
            BY <1>1, <3>1
    <2>3. (c + k * Wrap) % Wrap = c % Wrap
        BY <1>1, SP!ModShift, BurstCountersAssumption DEF BurstCountersAssumption
    <2>4. U32(s + n) = U32(c)
        BY <2>2, <2>3 DEF U32
    <2>5. U32(c) = c
        BY <2>1, <2>2, Unwrapped, Zenon
    <2> QED
        BY <1>1, <1>3, <2>2, <2>4, <2>5
<1> QED
    BY <1>1, <1>2, <1>3

\* The comparison is right if both numbers have wrapped, or none, and wrong otherwise.
LEMMA Comparison ==
    ASSUME NEW s \in 0 .. Wrap - 1, NEW n \in Nat, n <= BufSize, NEW g \in Nat, g < 2 * BufSize
    PROVE  (U32(s + n) >= U32(s + g) <=> n >= g)
               <=> ~((U32(s + n) < s) # (U32(s + g) < s))
<1>1. Wrap \in Nat /\ s \in Int /\ n < Wrap /\ g < Wrap
    BY Sizes
<1>2. PICK e \in Int, f \in Int :
          /\ e = U32(s + n) /\ f = U32(s + g)
          /\ e = IF s + n < Wrap THEN s + n ELSE s + n - Wrap
          /\ f = IF s + g < Wrap THEN s + g ELSE s + g - Wrap
          /\ e < s <=> s + n >= Wrap
          /\ f < s <=> s + g >= Wrap
    BY <1>1, WrapsOnce
<1>3. (e >= f <=> n >= g) <=> ~((e < s) # (f < s))
    <2>1. CASE s + n < Wrap /\ s + g < Wrap
        BY <1>1, <1>2, <2>1
    <2>2. CASE s + n >= Wrap /\ s + g >= Wrap
        BY <1>1, <1>2, <2>2
    <2>3. CASE s + n < Wrap /\ s + g >= Wrap
        BY <1>1, <1>2, <2>3
    <2>4. CASE s + n >= Wrap /\ s + g < Wrap
        BY <1>1, <1>2, <2>4
    <2> QED
        BY <1>1, <2>1, <2>2, <2>3, <2>4
<1> QED
    BY <1>2, <1>3

\* What a call leaves behind.
CountersOK ==
    /\ start' \in 0 .. Wrap - 1 /\ next' \in 0 .. Wrap - 1
    /\ state' = "know_fstart" => \E g \in Nat : g < 2 * BufSize /\ next' = U32(start' + g)

\* A full frame is taken, or its rest waited for: the counters differ by a slot then.
LEMMA ProcessRefines ==
    ASSUME NEW b, NEW s \in Int, NEW n \in Int, Process(b, s, n), Signed(n - s) = TS
    PROVE  /\ IF Len(b) < TS THEN Sync!Wait(b, "locked", TS) ELSE Sync!Consume(b)
           /\ CountersOK
<1>1. CASE Len(b) < TS
    <2>1. state' = "locked" /\ buf' = b /\ out' = Sync!Idle /\ start' = U32(s) /\ next' = U32(n)
        BY <1>1 DEF Process, Keep, Counters
    <2>2. gap' = Signed(U32(n) - U32(s))
        BY <2>1 DEF gap
    <2>3. gap' = TS
        BY <2>2, SignedOf
    <2> QED
        BY <1>1, <2>1, <2>3, Wraps DEF CountersOK, Sync!Wait
<1>2. CASE ~(Len(b) < TS)
    <2>1. Sync!Handle(b) /\ start' = U32(s + TS) /\ next' = U32(n + TS)
        BY <1>2 DEF Process, Counters
    <2>2. state' \in {"unlocked", "locked"}
        BY <2>1 DEF Sync!Handle
    <2>3. TS \in Nat
        BY Sizes
    <2>4. state' = "locked" => gap' = TS
        <3>1. SUFFICES ASSUME state' = "locked" PROVE gap' = TS
            OBVIOUS
        <3>2. gap' = Signed(U32(n + TS) - U32(s + TS))
            BY <2>1, <3>1 DEF gap
        <3>3. gap' = Signed((n + TS) - (s + TS))
            BY <2>3, <3>2, SignedOf
        <3>4. (n + TS) - (s + TS) = n - s
            BY <2>3
        <3> QED
            BY <3>3, <3>4
    <2>5. state' = "unlocked" => gap' = 0
        BY DEF gap
    <2>6. Sync!Consume(b)
        BY <2>1, <2>2, <2>4, <2>5 DEF Sync!Consume
    <2>7. start' \in 0 .. Wrap - 1 /\ next' \in 0 .. Wrap - 1
        BY <2>1, <2>3, Wraps
    <2> QED
        BY <1>2, <2>2, <2>6, <2>7 DEF CountersOK
<1> QED
    BY <1>1, <1>2

\* A call of the counting synchroniser is one of BurstSync if it does not compare across
\* the wrap, and only then.
LEMMA CallRefines ==
    ASSUME SP!SmallChunks, CountersInv,
           NEW len \in Lens, NEW ks \in [1 .. Sync!Begun(len) -> Sync!AirKinds],
           NEW bits, bits = Sync!Sent(len, ks), SyncIn(bits)
    PROVE  /\ ~Across(len) => Sync!SyncIn(bits) /\ CountersOK
           /\ Across(len) => ~Sync!SyncIn(bits)
<1>1. PICK d \in 0 .. len : d = Sync!Dropped(len)
    BY Lengths DEF CountersInv, SP!GInv
<1>2. start + d \in Int
    BY Sizes DEF CountersInv
<1>3. PICK s \in 0 .. Wrap - 1 : s = U32(start + d)
    BY <1>2, Wraps
<1>4. PICK b : b = Sync!Appended(bits)
    OBVIOUS
<1>5. b = Sync!Appended(bits) /\ d = Sync!Dropped(len) /\ s = U32(start + d) /\ s \in Int
    BY <1>1, <1>3, <1>4
<1>6. /\ Len(bits) = len /\ Len(buf) \in Nat /\ b \in Seq(SP!Bits)
      /\ Len(b) \in Nat /\ Len(b) <= BufSize /\ d + Len(b) = Len(buf) + len
      /\ state = "locked" => d = 0
    BY <1>5, Lengths DEF CountersInv, SP!GInv
<1>7. start \in 0 .. Wrap - 1 /\ next \in 0 .. Wrap - 1 /\ len \in Nat /\ Wrap \in Nat
    BY Sizes DEF CountersInv
<1>8. Unlocked(b, s) \/ KnowFStart(b, s) \/ Locked(b, s)
    BY <1>5, <1>6 DEF SyncIn
<1>9. state # "know_fstart" => ~Across(len)
    BY DEF Across
<1>10. CASE Unlocked(b, s)
    <2>1. state = "unlocked"
        BY <1>10 DEF Unlocked
    <2> DEFINE m == IF Len(b) < 2 * TS THEN {} ELSE Sync!Matches(b, {"sync"})
    <2>2. CASE m = {}
        <3>1. state' = "unlocked" /\ buf' = b /\ out' = Sync!Idle
              /\ start' = U32(s) /\ next' = U32(next)
            BY <1>10, <2>2 DEF Unlocked, Keep, Counters
        <3>2. gap' = 0
            BY <3>1 DEF gap
        <3>3. CountersOK
            BY <1>5, <1>7, <3>1, Wraps DEF CountersOK
        <3>4. Sync!Unlocked(b)
            BY <2>1, <2>2, <3>1, <3>2 DEF Sync!Unlocked, Sync!Wait
        <3> QED
            BY <1>5, <1>9, <2>1, <3>3, <3>4 DEF Sync!SyncIn
    <2>3. CASE m # {}
        <3>1. m = Sync!Matches(b, {"sync"})
            BY <2>3
        <3>2. PICK f : f = Sync!First(m)
            OBVIOUS
        <3>3. f \in Nat /\ f < Len(b)
            <4>1. SP!Matches(b, {"sync"}) # {} /\ {"sync"} \in SUBSET SP!Kinds
                BY <2>3, <3>1, SameHelpers DEF SP!Kinds
            <4>2. SP!First(SP!Matches(b, {"sync"})) \in Nat
                  /\ SP!First(SP!Matches(b, {"sync"})) < Len(b)
                BY <1>6, <4>1, Sizes, SP!FirstMatch
            <4> QED
                BY <3>1, <3>2, <4>2, SameHelpers
        <3>4. PICK fstart \in 0 .. TS : fstart = Sync!FStart
            BY Sizes
        <3>5. state' = "know_fstart" /\ buf' = b /\ out' = Sync!Idle
              /\ start' = U32(s) /\ next' = U32(s + f + fstart)
            BY <1>10, <2>3, <3>2, <3>4 DEF Unlocked, Keep, Counters
        <3>6. f + fstart \in Nat /\ f + fstart < 2 * BufSize
            BY <1>6, <3>3, Sizes
        <3>7. PICK g \in Nat : g = f + fstart /\ g < 2 * BufSize /\ s + f + fstart = s + g
            BY <1>5, <3>3, <3>6
        <3>8. start' = s /\ next' = U32(s + g) /\ next' \in 0 .. Wrap - 1
            <4>1. start' = s
                BY <1>3, <3>5, Unwrapped, Zenon
            <4>2. next' = U32(s + g)
                BY <3>5, <3>7
            <4>3. s + g \in Int
                BY <1>5
            <4> QED
                BY <4>1, <4>2, <4>3, Wraps
        <3>9. gap' = g
            <4>1. gap' = Signed(U32(s + g) - U32(s))
                BY <1>3, <3>5, <3>8, Unwrapped DEF gap
            <4>2. (s + g) - s = g
                BY <1>5
            <4> QED
                BY <1>5, <3>7, <4>1, <4>2, SignedOf, SignedIs
        <3>10. gap' = f + fstart
            BY <3>7, <3>9
        <3>11. CountersOK
            BY <3>7, <3>8, <1>3 DEF CountersOK
        <3>12. Sync!Unlocked(b)
            BY <2>1, <2>3, <3>2, <3>4, <3>5, <3>10 DEF Sync!Unlocked, Sync!Wait
        <3> QED
            BY <1>5, <1>9, <2>1, <3>11, <3>12 DEF Sync!SyncIn
    <2> QED
        BY <2>2, <2>3
<1>11. CASE KnowFStart(b, s)
    <2>1. state = "know_fstart"
        BY <1>11 DEF KnowFStart
    <2>2. PICK h \in Nat : h < 2 * BufSize /\ next = U32(start + h)
        BY <2>1 DEF CountersInv
    <2>3. gap = h
        <3>1. gap = Signed(U32(start + h) - U32(start))
            BY <1>7, <2>1, <2>2, Unwrapped DEF gap
        <3>2. (start + h) - start = h /\ start \in Int
            BY <1>7
        <3> QED
            BY <2>2, <3>1, <3>2, SignedOf, SignedIs
    <2>4. len <= gap
        BY <2>1 DEF CountersInv, SP!GInv, SP!IInv
    <2>5. PICK g \in Nat : g = h - d /\ g < 2 * BufSize
        BY <1>7, <2>2, <2>3, <2>4, Sizes
    <2>6. next = U32(s + g)
        <3>1. PICK a \in Int : a = start + d /\ start + h = a + g
            BY <1>7, <2>5
        <3>2. U32(U32(a) + g) = U32(a + g)
            BY <3>1, Added
        <3> QED
            BY <1>5, <2>2, <3>1, <3>2
    <2>7. Signed(next - s) = g /\ s = U32(s)
        <3>1. s = U32(s)
            BY <1>3, Unwrapped, Zenon
        <3>2. (s + g) - s = g
            BY <1>5
        <3> QED
            BY <1>5, <2>5, <2>6, <3>1, <3>2, SignedOf, SignedIs
    <2>8. (FrameStartReceived(b, s) <=> Len(b) >= g) <=> ~Across(len)
        <3>1. Across(len) <=> (U32(s + Len(b)) < s) # (next < s)
            <4>1. Len(buf) + len - d = Len(b)
                BY <1>6, <1>7
            <4> QED
                BY <1>5, <2>1, <4>1 DEF Across
        <3>2. PICK n \in Nat : n = Len(b) /\ n <= BufSize
            BY <1>6
        <3>3. (U32(s + n) >= U32(s + g) <=> n >= g)
                  <=> ~((U32(s + n) < s) # (U32(s + g) < s))
            BY <1>3, <2>5, <3>2, Comparison
        <3> QED
            BY <2>6, <3>1, <3>2, <3>3 DEF FrameStartReceived
    <2>9. CASE ~FrameStartReceived(b, s)
        <3>2. state' = "know_fstart" /\ buf' = b /\ out' = Sync!Idle
              /\ start' = U32(s) /\ next' = U32(next)
            BY <1>11, <2>9 DEF KnowFStart, Keep, Counters
        <3>3. start' = s /\ next' = next
            BY <1>7, <2>7, <3>2, Unwrapped
        <3>4. gap' = g
            BY <2>7, <3>2, <3>3 DEF gap
        <3>5. CountersOK
            BY <1>3, <1>7, <2>5, <2>6, <3>3 DEF CountersOK
        <3>6. CASE ~Across(len)
            <4>1. Len(b) < g
                BY <1>6, <2>8, <2>9, <3>6
            <4>2. Sync!KnowFStart(b, g)
                BY <2>1, <3>2, <3>4, <4>1 DEF Sync!KnowFStart, Sync!Wait
            <4> QED
                BY <1>5, <1>6, <2>3, <2>5, <3>5, <3>6, <4>2 DEF Sync!SyncIn
        <3>7. CASE Across(len)
            <4>1. ~(Len(b) < g)
                BY <1>6, <2>8, <2>9, <3>7
            <4>2. ~Sync!KnowFStart(b, g)
                BY <3>2, <4>1 DEF Sync!KnowFStart, Sync!Wait, Sync!Consume, Sync!Handle
            <4> QED
                BY <1>5, <1>6, <2>1, <2>3, <2>5, <3>7, <4>2
                   DEF Sync!SyncIn, Sync!Unlocked, Sync!Locked
        <3> QED
            BY <3>6, <3>7
    <2>10. CASE FrameStartReceived(b, s)
        <3>2. PICK c : c = Sync!Shifted(b, g)
            OBVIOUS
        <3>3. Process(c, s + g, next + TS)
            BY <1>11, <2>7, <2>10, <3>2 DEF KnowFStart
        <3>4. Signed((next + TS) - (s + g)) = TS /\ s + g \in Int /\ next + TS \in Int
            <4>1. next \in Int /\ s \in Int /\ TS \in Int
                BY <1>5, <1>7, Sizes
            <4>2. Signed(U32(next + TS) - U32(s + g)) = Signed((next + TS) - (s + g))
                BY <4>1, SignedOf
            <4>3. PICK a \in Int : a = s + g
                BY <4>1
            <4>4. U32(U32(a) + TS) = U32(a + TS)
                BY <4>1, <4>3, Added
            <4>5. Signed(U32(a + TS) - U32(a)) = Signed((a + TS) - a)
                BY <4>1, SignedOf
            <4>6. (a + TS) - a = TS
                BY <4>1
            <4>7. Signed(TS) = TS
                BY Sizes, SignedIs
            <4> QED
                BY <2>6, <4>1, <4>2, <4>3, <4>4, <4>5, <4>6, <4>7
        <3>5. /\ IF Len(c) < TS THEN Sync!Wait(c, "locked", TS) ELSE Sync!Consume(c)
              /\ CountersOK
            BY <3>3, <3>4, ProcessRefines
        <3>6. CASE ~Across(len)
            <4>1. ~(Len(b) < g)
                BY <1>6, <2>8, <2>10, <3>6
            <4>2. Sync!KnowFStart(b, g)
                BY <2>1, <3>2, <3>5, <4>1 DEF Sync!KnowFStart
            <4> QED
                BY <1>5, <1>6, <2>3, <2>5, <3>5, <3>6, <4>2 DEF Sync!SyncIn
        <3>7. CASE Across(len)
            <4>1. Len(b) < g
                BY <1>6, <2>8, <2>10, <3>7
            <4>2. state' # "know_fstart"
                BY <3>5 DEF Sync!Wait, Sync!Consume, Sync!Handle
            <4>3. ~Sync!KnowFStart(b, g)
                BY <4>1, <4>2 DEF Sync!KnowFStart, Sync!Wait
            <4> QED
                BY <1>5, <1>6, <2>1, <2>3, <2>5, <3>7, <4>3
                   DEF Sync!SyncIn, Sync!Unlocked, Sync!Locked
        <3> QED
            BY <3>6, <3>7
    <2> QED
        BY <2>9, <2>10
<1>12. CASE Locked(b, s)
    <2>1. state = "locked" /\ Process(b, s, next) /\ d = 0
        BY <1>6, <1>12 DEF Locked
    <2>2. s = start
        <3>1. start + d = start
            BY <1>7, <2>1
        <3> QED
            BY <1>5, <1>7, <3>1, Unwrapped
    <2>3. gap = TS /\ Signed(next - start) = TS
        BY <2>1 DEF CountersInv, SP!GInv, SP!IInv, gap
    <2>4. /\ IF Len(b) < TS THEN Sync!Wait(b, "locked", TS) ELSE Sync!Consume(b)
          /\ CountersOK
        BY <1>7, <2>1, <2>2, <2>3, ProcessRefines
    <2>5. Sync!Locked(b)
        BY <2>1, <2>3, <2>4 DEF Sync!Locked
    <2> QED
        BY <1>5, <1>9, <2>1, <2>4, <2>5 DEF Sync!SyncIn
<1> QED
    BY <1>8, <1>10, <1>11, <1>12

LEMMA CountersStep ==
    SP!SmallChunks /\ CountersInv /\ [Calls]_vars => CountersInv' /\ [Sync!Next]_(Sync!vars)
<1> SUFFICES ASSUME SP!SmallChunks, CountersInv, [Calls]_vars
             PROVE  CountersInv' /\ [Sync!Next]_(Sync!vars)
    OBVIOUS
<1>1. CASE Calls
    <2>1. PICK len \in Lens : ~Across(len) /\ Receive(len)
        BY <1>1 DEF Calls
    <2>2. PICK ks \in [1 .. Sync!Begun(len) -> Sync!AirKinds] :
              /\ Sync!MayFollow(ks) /\ SyncIn(Sync!Sent(len, ks)) /\ Sync!Advance(len, ks)
        BY <2>1 DEF Receive
    <2>3. Sync!SyncIn(Sync!Sent(len, ks)) /\ CountersOK
        BY <2>1, <2>2, CallRefines
    <2>4. Sync!Next
        BY <2>2, <2>3 DEF Sync!Next, Sync!Receive
    <2>5. SP!GInv'
        BY <2>4, SameNext, Sizes, SP!GridStep DEF CountersInv
    <2> QED
        BY <2>3, <2>4, <2>5 DEF CountersInv, CountersOK, U32
<1>2. CASE UNCHANGED vars
    <2>1. UNCHANGED <<state, buf, out, air, start, next>>
        BY <1>2 DEF vars
    <2>2. gap' = gap
        BY <2>1 DEF gap
    <2>3. UNCHANGED Sync!vars
        BY <2>1, <2>2 DEF Sync!vars
    <2>4. SP!GInv'
        BY <2>3, SameNext, Sizes, SP!GridStep DEF CountersInv
    <2> QED
        BY <2>1, <2>3, <2>4 DEF CountersInv
<1> QED
    BY <1>1, <1>2

LEMMA CountersInit == Init \/ LockedInit => CountersInv
<1>1. 0 \in 0 .. Wrap - 1
    BY Sizes
<1>2. CASE Init
    <2>1. SP!Init
        <3>1. gap = 0
            BY <1>2 DEF Init, gap
        <3> QED
            BY <1>2, <3>1 DEF Init, SP!Init, SP!Idle, Sync!Idle, SP!AirKinds, Sync!AirKinds,
                              SP!Kinds, Sync!Kinds
    <2>2. SP!GInv
        BY <2>1, Sizes, SP!GridInit
    <2> QED
        BY <1>1, <1>2, <2>2 DEF Init, CountersInv
<1>3. CASE LockedInit
    <2>1. /\ state = "locked" /\ buf = <<>> /\ out = Sync!Idle
          /\ start \in 0 .. Wrap - 1 /\ next = U32(start + TS)
        BY <1>3 DEF LockedInit
    <2>2. start \in Int /\ TS \in Nat /\ next \in 0 .. Wrap - 1
        BY <2>1, Sizes, Wraps
    <2>3. gap = TS
        <3>1. U32(start) = start
            BY <2>1, <2>2, Wraps
        <3>2. Signed(U32(start + TS) - U32(start)) = Signed((start + TS) - start)
            BY <2>2, SignedOf
        <3>3. (start + TS) - start = TS /\ Signed(TS) = TS
            BY <2>2, Sizes, SignedIs
        <3> QED
            BY <2>1, <3>1, <3>2, <3>3 DEF gap
    <2>4. Len(buf) = 0 /\ buf \in Seq(SP!Bits)
        BY <2>1, EmptySeq
    <2>5. air \in [ph : 0 .. TS - 1, kind : SP!Kinds \cup {"lost"},
                   run : 0 .. MaxNoSync, good : BOOLEAN] /\ air.ph = 0
        <3>1. PICK k \in Sync!AirKinds : air = [ph |-> 0, kind |-> k, run |-> 0, good |-> FALSE]
            BY <1>3 DEF LockedInit
        <3>2. k \in SP!Kinds \cup {"lost"}
            BY DEF Sync!AirKinds, Sync!Kinds, SP!Kinds
        <3>3. 0 \in 0 .. TS - 1 /\ 0 \in 0 .. MaxNoSync
            BY BurstCountersAssumption DEF BurstCountersAssumption, Sync!BurstSyncAssumption
        <3> QED
            BY <3>1, <3>2, <3>3
    <2>6. SP!IInv
        BY <2>1, <2>3, <2>4, <2>5, Sizes
           DEF SP!IInv, SP!TypeOK, Sync!Idle, SP!Kinds
    <2>7. SP!Stream(buf, air)
        BY <2>4 DEF SP!Stream, SP!Phased, SP!OfOneKind, SP!EndsWith
    <2>8. SP!GridIsTrue
        BY <2>1, <2>2, <2>4, <2>5, Sizes DEF SP!GridIsTrue, SP!OnGrid
    <2> QED
        BY <2>1, <2>2, <2>6, <2>7, <2>8 DEF CountersInv, SP!GInv
<1> QED
    BY <1>2, <1>3

LEMMA CountersHold ==
    ASSUME SP!SmallChunks
    PROVE  BoundedSpec => [](CountersInv)
<1>1. CountersInv /\ [Calls]_vars => CountersInv'
    BY CountersStep
<1> QED
    BY <1>1, CountersInit, PTL DEF BoundedSpec

\* With its wrapping counters tetra_burst_sync_in does what BurstSync says, whether it is
\* locked or searching, with any values of the counters, in all calls but those that compare
\* the end of the buffer with a frame start on the other side of the wrap.
THEOREM CountersRefine ==
    ASSUME SP!SmallChunks
    PROVE  BoundedSpec => StepsRefine
<1>1. CountersInv /\ [Calls]_vars => [Sync!Next]_(Sync!vars)
    BY CountersStep
<1> QED
    BY <1>1, CountersHold, PTL DEF BoundedSpec, StepsRefine

\* Those calls are left out because none of them does what BurstSync says: wherever
\* CountersInv holds (and it does always in BoundedSpec) a call of tetra_burst_sync_in is
\* one of BurstSync exactly if it does not compare across the wrap.
THEOREM WrongAcrossTheWrap ==
    ASSUME SP!SmallChunks, CountersInv,
           NEW len \in Lens, NEW ks \in [1 .. Sync!Begun(len) -> Sync!AirKinds],
           SyncIn(Sync!Sent(len, ks))
    PROVE  Sync!SyncIn(Sync!Sent(len, ks)) <=> ~Across(len)
BY CallRefines

\* So the next frame start it counts is where a frame of the transmitter starts, also when
\* the counters of a locked receiver wrap.
THEOREM GridSurvivesWrap ==
    ASSUME SP!SmallChunks
    PROVE  BoundedSpec => []GridIsTrue
<1>1. CountersInv => GridIsTrue
    BY DEF CountersInv, SP!GInv, GridIsTrue, SP!GridIsTrue, Sync!GridIsTrue, SP!OnGrid, Sync!OnGrid
<1> QED
    BY <1>1, CountersHold, PTL
=============================================================================
