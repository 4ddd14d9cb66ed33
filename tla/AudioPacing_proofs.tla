------------------------- MODULE AudioPacing_proofs -------------------------
(***************************************************************************)
(* Proofs about AudioPacing, for every length of chunks and timeslots, and *)
(* any amount of speech in one.                                            *)
(***************************************************************************)
EXTENDS AudioPacing, TLAPS

\* Between calls the ring buffer is empty, so that a timeslot of speech fits into it.
PacingInv ==
    /\ inSyms \in Nat /\ outSyms \in Nat
    /\ ring = 0
    /\ out.lost = 0

LEMMA PacingInit == Init => PacingInv
BY DEF Init, PacingInv

\* The samples due never stand for more bits than there are.
LEMMA RestIsRight ==
    ASSUME NEW bits \in Nat
    PROVE  /\ Required(bits) \in Nat
           /\ Rest(bits, Required(bits)) \in Nat
BY DEF Required, Rest

\* The bits taken for them are to half a bit what they are worth, 4.5 for each.
LEMMA Remainder ==
    ASSUME NEW due \in Nat
    PROVE  36 * due - 8 * ((due * 36) \div 8) \in {0, 4}
OBVIOUS

\* What a call gives out, whatever was in the ring buffer.
LEMMA PaceStep ==
    ASSUME PacingInv, NEW len \in Nat, NEW r \in Nat, NEW v, NEW sk, Pace(len, r, v, 0, sk)
    PROVE  /\ PacingInv'
           /\ LET given == 36 * (out'.speech + out'.silence) - 8 * out'.bits
                  off == given - (Account' - Account)
              IN  off <= 4 /\ (~Decoding(voice') => off >= 0)
<1> DEFINE bits == inSyms + len
           due == Required(bits)
           o == outSyms + r
           silence == IF due > o /\ ~Decoding(v) THEN due - o ELSE 0
<1>1. bits \in Nat /\ o \in Nat
    BY DEF PacingInv
<1>2. due \in Nat /\ Rest(bits, due) \in Nat
    BY <1>1, RestIsRight
<1>3. out' = [speech |-> r, silence |-> silence, lost |-> 0, skipped |-> sk, bits |-> len]
    BY DEF Pace
<1>4. ring' = 0 /\ outSyms' = Carried(o, due) /\ inSyms' = Rest(bits, due) /\ voice' = v
    BY DEF Pace
<1>5. 36 * due - 8 * ((due * 36) \div 8) \in {0, 4}
    BY <1>2, Remainder
<1> HIDE DEF due
<1>6. Carried(o, due) \in Nat
    BY <1>1, <1>2 DEF Carried
<1>7. PacingInv'
    BY <1>2, <1>3, <1>4, <1>6 DEF PacingInv
<1> DEFINE q == (due * 36) \div 8
<1>8. q \in Nat /\ inSyms' = bits - q
    BY <1>2, <1>4 DEF Rest
<1>9. 36 * due - 8 * q \in {0, 4}
    BY <1>5
<1> HIDE DEF q
<1>10. silence \in Nat
    BY <1>1, <1>2
<1>11. out'.speech + out'.silence = r + silence /\ out'.bits = len
    BY <1>3, <1>10
<1>12. /\ o + silence - Carried(o, due) <= due
       /\ ~Decoding(v) => o + silence - Carried(o, due) = due
    BY <1>1, <1>2 DEF Carried
<1>13. inSyms \in Nat /\ outSyms \in Nat
    BY DEF PacingInv
<1>14. 36 * (r + silence) - 8 * len - (Account' - Account)
           = 36 * (o + silence - Carried(o, due)) - 8 * q
    BY <1>4, <1>6, <1>8, <1>10, <1>13 DEF Account
<1> QED
    BY <1>1, <1>2, <1>4, <1>6, <1>7, <1>8, <1>9, <1>10, <1>11, <1>12, <1>14

\* What a burst that is received puts into the empty ring buffer.
LEMMA ReceivedPace ==
    ASSUME PacingInv, NEW len \in Nat, BurstEnds(len, TRUE)
    PROVE  \E r \in Nat, v \in {voice, Mark(voice, air.tn, IsSpeech(air))}, sk \in BOOLEAN :
              /\ Pace(len, r, v, 0, sk)
              /\ r = IF Plays(air) THEN Speech ELSE 0
<1>1. ring = 0 /\ Put(ring) = Speech /\ Speech \in Nat \ {0}
    BY AudioPacingAssumption DEF AudioPacingAssumption, PacingInv, Put
<1>2. CASE Plays(air)
    <2>1. Pace(len, Put(ring), Mark(voice, air.tn, IsSpeech(air)),
               IF Put(ring) = ring THEN Speech ELSE 0, IsSpeech(air) /\ ~Plays(air))
        BY <1>2 DEF BurstEnds
    <2>2. Pace(len, Speech, Mark(voice, air.tn, IsSpeech(air)), 0, IsSpeech(air) /\ ~Plays(air))
        BY <1>1, <2>1
    <2> QED
        BY <1>1, <1>2, <2>2 DEF IsSpeech
<1>3. CASE ~Plays(air)
    <2>1. Pace(len, 0, Mark(voice, air.tn, IsSpeech(air)), 0, IsSpeech(air) /\ ~Plays(air))
        BY <1>1, <1>3 DEF BurstEnds
    <2> QED
        BY <1>3, <2>1 DEF IsSpeech
<1> QED
    BY <1>2, <1>3

\* A call of process loses nothing and keeps the pace: a timeslot of speech goes into an
\* empty ring buffer.
LEMMA ProcessStep ==
    ASSUME PacingInv, Process
    PROVE  /\ PacingInv'
           /\ LET given == 36 * (out'.speech + out'.silence) - 8 * out'.bits
                  off == given - (Account' - Account)
              IN  off <= 4 /\ (~Decoding(voice') => off >= 0)
<1>1. PICK len \in Lens :
          Within(len) \/ Receive(len) \/ Lose(len) \/ \E found \in BOOLEAN : Search(len, found)
    BY DEF Process
<1>2. len \in Nat
    BY AudioPacingAssumption DEF AudioPacingAssumption
<1>3. \E r \in Nat, v \in {voice, Mark(voice, air.tn, IsSpeech(air))}, sk \in BOOLEAN :
          Pace(len, r, v, 0, sk)
    <2>1. ring = 0 /\ Put(ring) = Speech /\ Speech \in Nat \ {0}
        BY AudioPacingAssumption DEF AudioPacingAssumption, PacingInv, Put
    <2>2. CASE Within(len)
        BY <2>1, <2>2 DEF Within
    <2>3. CASE BurstEnds(len, FALSE)
        BY <2>1, <2>3 DEF BurstEnds
    <2>4. CASE BurstEnds(len, TRUE)
        BY <1>2, <2>1, <2>4, ReceivedPace
    <2> QED
        BY <1>1, <2>2, <2>3, <2>4 DEF Receive, Lose, Search
<1> QED
    BY <1>2, <1>3, PaceStep

LEMMA PacingNext == PacingInv /\ [Next]_vars => PacingInv'
<1> SUFFICES ASSUME PacingInv, [Next]_vars PROVE PacingInv'
    OBVIOUS
<1>1. CASE Process
    BY <1>1, ProcessStep
<1>2. CASE CallEnds
    BY <1>2 DEF PacingInv, CallEnds
<1>3. CASE \E tn \in CallSlots : CallBegins(tn)
    BY <1>3 DEF PacingInv, CallBegins
<1>4. CASE UNCHANGED vars
    BY <1>4 DEF PacingInv, vars
<1> QED
    BY <1>1, <1>2, <1>3, <1>4 DEF Next

LEMMA PacingHolds == Spec => []PacingInv
BY PacingInit, PacingNext, PTL DEF Spec

\* In each call to half a bit as much sound is given out as its bits are good for, the
\* counters taken into account, and less only while a timeslot is marked as speech
\* (process): the divisions lose nothing.
THEOREM PaceKept == Spec => PaceIsKept
<1>1. PacingInv /\ [Next]_vars =>
        [Process =>
            LET given == 36 * (out'.speech + out'.silence) - 8 * out'.bits
                off == given - (Account' - Account)
            IN  off <= 4 /\ (~Decoding(voice') => off >= 0)]_vars
    BY ProcessStep
<1> QED
    BY <1>1, PacingHolds, PTL DEF Spec, PaceIsKept

\* The ring buffer never refuses speech (put_voice_data): it is empty at the start of
\* every call, and one call brings at most one timeslot of it.  Which timeslots are played
\* at all is the matter of SpeechStaysWhole.
THEOREM RingHasRoom == Spec => [](ring = 0 /\ out.lost = 0)
<1>1. PacingInv => ring = 0 /\ out.lost = 0
    BY DEF PacingInv
<1> QED
    BY <1>1, PacingHolds, PTL

-----------------------------------------------------------------------------
(* How far sound may be ahead.  In 36ths of a sample, a timeslot of speech  *)
(* is worth Worth, the bits of a frame Due; Gain is what sound gets ahead   *)
(* in each frame with speech, to be consumed in the frame without.          *)

Worth == 36 * Speech
Due == 32 * BitsPerSlot
Gain == Worth - Due

LEMMA GainIsConsumed ==
    /\ Worth \in Nat /\ Due \in Nat /\ Due >= 32 /\ Due = 32 * BitsPerSlot
    /\ Gain \in Nat /\ Worth = Due + Gain
    /\ (MaxFn - 1) * Gain = Due
<1> USE AudioPacingAssumption DEF AudioPacingAssumption
<1>1. Worth \in Nat /\ Due \in Nat /\ Due >= 32 /\ Due = 32 * BitsPerSlot
    BY DEF Worth, Due
<1>2. MaxFn \in Nat /\ MaxFn >= 2 /\ Gain \in Int /\ Worth = Due + Gain
    BY <1>1 DEF Gain
<1>3. (MaxFn - 1) * Worth = MaxFn * Due
    <2>1. (MaxFn - 1) * Worth = (MaxFn - 1) * Speech * 36
        BY <1>2 DEF Worth
    <2>2. MaxFn * Due = MaxFn * 4 * BitsPerSlot * 8
        BY <1>2 DEF Due
    <2> QED
        BY <2>1, <2>2
<1> HIDE AudioPacingAssumption DEF AudioPacingAssumption
<1>4. (MaxFn - 1) * Gain = Due
    <2>1. (MaxFn - 1) * (Due + Gain) = (MaxFn - 1) * Due + (MaxFn - 1) * Gain
        BY <1>1, <1>2
    <2>2. (MaxFn - 1) * Due = MaxFn * Due - Due
        BY <1>1, <1>2
    <2>3. MaxFn * Due \in Int /\ (MaxFn - 1) * Gain \in Int
        BY <1>1, <1>2
    <2> QED
        BY <1>1, <1>2, <1>3, <2>1, <2>2, <2>3
<1>5. Gain >= 0
    <2>1. SUFFICES ASSUME Gain <= -1 PROVE FALSE
        BY <1>2
    <2>2. (MaxFn - 1) * Gain <= 0
        BY <1>2, <2>1
    <2> QED
        BY <1>1, <1>4, <2>2
<1> QED
    BY <1>1, <1>2, <1>4, <1>5

\* What the frames gone by in a multiframe may have brought: f frames of them.
LEMMA Gains ==
    /\ \A f \in Nat : f * Gain \in Nat /\ (f + 1) * Gain = f * Gain + Gain
    /\ \A f \in 0 .. MaxFn - 1 : f * Gain <= Due
<1> USE GainIsConsumed
<1>1. MaxFn \in Nat /\ MaxFn >= 2
    BY AudioPacingAssumption DEF AudioPacingAssumption
<1>2. \A f \in Nat : f * Gain \in Nat /\ (f + 1) * Gain = f * Gain + Gain
    OBVIOUS
<1>3. ASSUME NEW f \in 0 .. MaxFn - 1 PROVE f * Gain <= (MaxFn - 1) * Gain
    <2>1. PICK d \in Nat : MaxFn - 1 = f + d
        <3>1. MaxFn - 1 - f \in Nat /\ MaxFn - 1 = f + (MaxFn - 1 - f)
            BY <1>1
        <3> QED
            BY <3>1
    <2>2. (f + d) * Gain = f * Gain + d * Gain
        BY <1>1
    <2> QED
        BY <1>2, <2>1, <2>2
<1> QED
    BY <1>2, <1>3

\* The speech of the frame at a has been in the air.
Ended(a, c) == c # 0 /\ c < a.tn /\ a.fn # MaxFn

\* Sound is ahead by no more than this at a place in the multiframe: as if all speech had
\* been received, that of the first frame at its end.
Ahead(a, c) ==
    (a.fn - 1) * Gain + (IF Ended(a, c) THEN Worth ELSE 0)
    - 8 * ((a.tn - 1) * BitsPerSlot + a.bit) + Due

\* The places in a multiframe.
Places == [bit : 0 .. BitsPerSlot - 1, tn : 1 .. 4, fn : 1 .. MaxFn]

LagInv ==
    /\ PacingInv /\ inSyms <= 4
    /\ air \in Places /\ call \in 0 .. 4
    /\ Account <= Ahead(air, call)

LEMMA AheadIsNat ==
    ASSUME NEW a \in Places, NEW c \in 0 .. 4
    PROVE  Ahead(a, c) \in Nat
<1> USE AudioPacingAssumption DEF AudioPacingAssumption
<1>1. /\ a.bit \in 0 .. BitsPerSlot - 1 /\ a.tn \in 1 .. 4 /\ a.fn \in 1 .. MaxFn
      /\ a.fn - 1 \in Nat
    BY DEF Places
<1>2. (a.fn - 1) * Gain \in Nat
    BY <1>1, Gains
<1>3. 8 * ((a.tn - 1) * BitsPerSlot + a.bit) \in 0 .. Due
    <2>1. (a.tn - 1) * BitsPerSlot \in {0, BitsPerSlot, 2 * BitsPerSlot, 3 * BitsPerSlot}
        BY <1>1
    <2> QED
        BY <1>1, <2>1, GainIsConsumed
<1>4. (IF Ended(a, c) THEN Worth ELSE 0) \in Nat
    BY GainIsConsumed
<1> DEFINE x == (a.fn - 1) * Gain
           y == IF Ended(a, c) THEN Worth ELSE 0
           z == 8 * ((a.tn - 1) * BitsPerSlot + a.bit)
<1>5. Ahead(a, c) = x + y - z + Due
    BY DEF Ahead
<1> HIDE DEF x, y, z
<1>6. x \in Nat /\ y \in Nat /\ z \in 0 .. Due
    BY <1>2, <1>3, <1>4 DEF x, y, z
<1> QED
    BY <1>5, <1>6, GainIsConsumed

\* The most there is: at the end of the first timeslot of the last frame with speech.
LEMMA AheadIsBounded ==
    ASSUME NEW a \in Places, NEW c \in 0 .. 4
    PROVE  Ahead(a, c) <= 36 * (MaxFn - 1) * Speech - 8 * (4 * (MaxFn - 2) - 3) * BitsPerSlot
<1> USE AudioPacingAssumption DEF AudioPacingAssumption
<1> DEFINE most == 3 * Due - 8 * BitsPerSlot
<1>1. 36 * (MaxFn - 1) * Speech - 8 * (4 * (MaxFn - 2) - 3) * BitsPerSlot = most
    <2>1. 36 * (MaxFn - 1) * Speech = MaxFn * Due
        BY DEF Due
    <2>2. 8 * (4 * (MaxFn - 2) - 3) * BitsPerSlot = MaxFn * Due - 2 * Due - 24 * BitsPerSlot
        BY DEF Due
    <2>3. MaxFn * Due \in Int
        BY GainIsConsumed
    <2>4. 36 * (MaxFn - 1) * Speech - 8 * (4 * (MaxFn - 2) - 3) * BitsPerSlot
              = 2 * Due + 24 * BitsPerSlot
        BY <2>1, <2>2, <2>3, GainIsConsumed
    <2> QED
        BY <2>4, GainIsConsumed
<1> HIDE DEF most
<1>2. /\ a.bit \in 0 .. BitsPerSlot - 1 /\ a.tn \in 1 .. 4 /\ a.fn \in 1 .. MaxFn
      /\ a.fn - 1 \in 0 .. MaxFn - 1 /\ a.fn - 1 \in Nat
    BY DEF Places
<1>3. (a.fn - 1) * Gain \in Nat /\ (a.fn - 1) * Gain <= Due
    BY <1>2, Gains
<1>4. (a.tn - 1) * BitsPerSlot \in Nat /\ (a.tn >= 2 => (a.tn - 1) * BitsPerSlot >= BitsPerSlot)
    BY <1>2
<1> DEFINE x == (a.fn - 1) * Gain
           t == (a.tn - 1) * BitsPerSlot
<1>5. CASE Ended(a, c)
    <2>1. a.tn >= 2 /\ a.fn \in 0 .. MaxFn - 1
        BY <1>2, <1>5 DEF Ended
    <2>2. a.fn * Gain <= Due
        BY <2>1, Gains
    <2>3. (a.fn - 1 + 1) * Gain = x + Gain
        BY <1>2, Gains
    <2>4. a.fn - 1 + 1 = a.fn
        BY <1>2
    <2>5. Ahead(a, c) = x + Worth - 8 * (t + a.bit) + Due
        BY <1>5 DEF Ahead
    <2>6. x \in Nat /\ x + Gain <= Due /\ t \in Nat /\ t >= BitsPerSlot
        BY <1>3, <1>4, <2>1, <2>2, <2>3, <2>4
    <2> HIDE DEF x, t
    <2>7. x + Worth - 8 * (t + a.bit) + Due <= 3 * Due - 8 * BitsPerSlot
        BY <1>2, <2>6, GainIsConsumed
    <2> QED
        BY <1>1, <2>5, <2>7 DEF most
<1>6. CASE ~Ended(a, c)
    <2>1. Ahead(a, c) = x + 0 - 8 * (t + a.bit) + Due
        BY <1>6 DEF Ahead
    <2>2. x \in Nat /\ x <= Due /\ t \in Nat
        BY <1>3, <1>4
    <2> HIDE DEF x, t
    <2>3. x + 0 - 8 * (t + a.bit) + Due <= 3 * Due - 8 * BitsPerSlot
        BY <1>2, <2>2, GainIsConsumed
    <2> QED
        BY <1>1, <2>1, <2>3 DEF most
<1> QED
    BY <1>5, <1>6

\* A call puts sound ahead by what it took out of the ring buffer, less what is due
\* for its bits.
LEMMA AccountStep ==
    ASSUME PacingInv, NEW len \in Nat, NEW r \in Nat, NEW v, NEW sk, Pace(len, r, v, 0, sk)
    PROVE  /\ inSyms' \in 0 .. 4
           /\ Account' <= 0 \/ Account' <= Account + 36 * r - 8 * len
<1> DEFINE bits == inSyms + len
           due == Required(bits)
           o == outSyms + r
<1>1. bits \in Nat /\ o \in Nat /\ inSyms \in Nat /\ outSyms \in Nat
    BY DEF PacingInv
<1>2. due \in Nat /\ Rest(bits, due) \in Nat
    BY <1>1, RestIsRight
<1>3. outSyms' = Carried(o, due) /\ inSyms' = Rest(bits, due)
    BY DEF Pace
<1>4. 36 * due - 8 * ((due * 36) \div 8) \in {0, 4}
    BY <1>2, Remainder
<1>5. 8 * bits <= 36 * due + 35
    BY <1>1 DEF Required
<1> HIDE DEF due
<1> DEFINE q == (due * 36) \div 8
<1>6. q \in Nat /\ inSyms' = bits - q /\ inSyms' \in Nat
    BY <1>2, <1>3 DEF Rest
<1>7. 36 * due - 8 * q \in {0, 4}
    BY <1>4
<1> HIDE DEF q
<1>8. inSyms' \in 0 .. 4
    BY <1>1, <1>2, <1>5, <1>6, <1>7
<1>9. CASE o < due
    <2>1. outSyms' = 0
        BY <1>3, <1>9 DEF Carried
    <2>2. \A n \in 0 .. 4 : 36 * 0 - 8 * n <= 0
        OBVIOUS
    <2>3. Account' <= 0
        BY <1>8, <2>1, <2>2 DEF Account
    <2> QED
        BY <1>8, <2>3
<1>10. CASE ~(o < due)
    <2>1. outSyms' = o - due
        BY <1>3, <1>10 DEF Carried
    <2>2. Account' = 36 * (o - due) - 8 * (bits - q)
        BY <1>6, <2>1 DEF Account
    <2> QED
        BY <1>1, <1>2, <1>6, <1>7, <1>8, <2>2 DEF Account
<1> QED
    BY <1>8, <1>9, <1>10

\* Within a timeslot, what sound may be ahead shrinks with the bits.
LEMMA AheadWithin ==
    ASSUME NEW a \in Places, NEW c \in 0 .. 4, NEW len \in Nat, a.bit + len < BitsPerSlot,
           NEW b, b = [a EXCEPT !.bit = @ + len]
    PROVE  b \in Places /\ Ahead(b, c) = Ahead(a, c) - 8 * len
<1> USE AudioPacingAssumption DEF AudioPacingAssumption
<1>1. b = [bit |-> a.bit + len, tn |-> a.tn, fn |-> a.fn]
    BY DEF Places
<1>2. /\ a.bit \in 0 .. BitsPerSlot - 1 /\ a.tn \in 1 .. 4 /\ a.fn \in 1 .. MaxFn
      /\ a.fn - 1 \in Nat
    BY DEF Places
<1>3. b.bit = a.bit + len /\ b.tn = a.tn /\ b.fn = a.fn
    BY <1>1
<1>4. b \in Places
    BY <1>1, <1>2 DEF Places
<1> DEFINE x == (a.fn - 1) * Gain
           y == IF Ended(a, c) THEN Worth ELSE 0
           t == (a.tn - 1) * BitsPerSlot
<1>5. x \in Nat /\ y \in Nat /\ t \in Nat /\ Due \in Nat
    BY <1>2, Gains, GainIsConsumed
<1>6. Ended(b, c) <=> Ended(a, c)
    BY <1>3 DEF Ended
<1>7. Ahead(a, c) = x + y - 8 * (t + a.bit) + Due
    BY DEF Ahead
<1>8. Ahead(b, c) = x + y - 8 * (t + (a.bit + len)) + Due
    BY <1>3, <1>6 DEF Ahead
<1> HIDE DEF x, y, t
<1> QED
    BY <1>2, <1>4, <1>5, <1>7, <1>8

LEMMA SetBit ==
    ASSUME NEW n \in [bit : {0}, tn : 1 .. 4, fn : 1 .. MaxFn], NEW e
    PROVE  [n EXCEPT !.bit = e] = [bit |-> e, tn |-> n.tn, fn |-> n.fn]
OBVIOUS

LEMMA NextSlotIsPlace ==
    ASSUME NEW a \in Places
    PROVE  NextSlot(a) \in [bit : {0}, tn : 1 .. 4, fn : 1 .. MaxFn]
<1>1. MaxFn \in Nat /\ MaxFn >= 2
    BY AudioPacingAssumption DEF AudioPacingAssumption
<1>2. a.tn \in 1 .. 4 /\ a.fn \in 1 .. MaxFn
    BY DEF Places
<1>3. CASE a.tn < 4
    BY <1>1, <1>2, <1>3 DEF NextSlot
<1>4. CASE ~(a.tn < 4) /\ a.fn = MaxFn
    BY <1>1, <1>2, <1>4 DEF NextSlot
<1>5. CASE ~(a.tn < 4) /\ a.fn # MaxFn
    BY <1>1, <1>2, <1>5 DEF NextSlot
<1> QED
    BY <1>3, <1>4, <1>5

\* With the end of a timeslot it grows by its speech; and by no more, when there is a call.
LEMMA AheadEnds ==
    ASSUME NEW a \in Places, NEW c \in 0 .. 4, NEW len \in Nat,
           len <= BitsPerSlot, a.bit + len >= BitsPerSlot,
           NEW tn, NEW fn,
           IF a.tn < 4 THEN tn = a.tn + 1 /\ fn = a.fn
           ELSE tn = 1 /\ fn = (IF a.fn = MaxFn THEN 1 ELSE a.fn + 1),
           NEW b, b = [bit |-> a.bit + len - BitsPerSlot, tn |-> tn, fn |-> fn]
    PROVE  /\ b \in Places
           /\ Ahead(b, c) >= Ahead(a, c) - 8 * len
                             + (IF c = a.tn /\ a.fn # MaxFn THEN Worth ELSE 0)
           /\ c # 0 => Ahead(b, c) = Ahead(a, c) - 8 * len
                             + (IF c = a.tn /\ a.fn # MaxFn THEN Worth ELSE 0)
<1>1. BitsPerSlot \in Nat \ {0} /\ MaxFn \in Nat /\ MaxFn >= 2
    BY AudioPacingAssumption DEF AudioPacingAssumption
<1>2. /\ a.bit \in 0 .. BitsPerSlot - 1 /\ a.tn \in 1 .. 4 /\ a.fn \in 1 .. MaxFn
      /\ a.fn - 1 \in Nat
    BY <1>1 DEF Places
<1> DEFINE rest == a.bit + len - BitsPerSlot
           x == (a.fn - 1) * Gain
           speech == IF c = a.tn /\ a.fn # MaxFn THEN Worth ELSE 0
<1>3. rest \in 0 .. BitsPerSlot - 1 /\ rest = a.bit + len - BitsPerSlot
    BY <1>1, <1>2
<1>4. x \in Nat /\ Due \in Nat /\ Worth \in Nat /\ Gain \in Nat /\ Worth = Due + Gain
      /\ Due = 32 * BitsPerSlot /\ speech \in Nat
    BY <1>1, <1>2, Gains, GainIsConsumed
<1>8. b = [bit |-> rest, tn |-> tn, fn |-> fn]
    OBVIOUS
<1> HIDE DEF rest
<1>5. CASE a.tn < 4
    <2>1. b = [bit |-> rest, tn |-> a.tn + 1, fn |-> a.fn]
        BY <1>8, <1>5
    <2>2. b.bit = rest /\ b.tn = a.tn + 1 /\ b.fn = a.fn
        BY <2>1
    <2>3. b \in Places
        BY <1>1, <2>1, <1>2, <1>3, <1>5 DEF Places
    <2> DEFINE y == IF Ended(a, c) THEN Worth ELSE 0
               z == IF Ended(b, c) THEN Worth ELSE 0
               t == (a.tn - 1) * BitsPerSlot
    <2>4. z >= y + speech /\ (c # 0 => z = y + speech) /\ y \in Nat /\ z \in Nat
        BY <1>2, <1>4, <2>2 DEF Ended
    <2>5. t \in Nat /\ (a.tn + 1 - 1) * BitsPerSlot = t + BitsPerSlot
        BY <1>1, <1>2
    <2>6. Ahead(a, c) = x + y - 8 * (t + a.bit) + Due
        BY DEF Ahead
    <2>7. Ahead(b, c) = x + z - 8 * (t + BitsPerSlot + rest) + Due
        <3>1. Ahead(b, c) = (b.fn - 1) * Gain + z - 8 * ((b.tn - 1) * BitsPerSlot + b.bit) + Due
            BY DEF Ahead
        <3>2. (b.fn - 1) * Gain = x
            BY <2>2
        <3>3. (b.tn - 1) * BitsPerSlot = (a.tn + 1 - 1) * BitsPerSlot
            BY <1>1, <1>2, <2>2
        <3> HIDE DEF x, z, t
        <3> QED
            BY <2>2, <2>5, <3>1, <3>2, <3>3
    <2> HIDE DEF y, z, t, x, speech
    <2>8. /\ x + z - 8 * (t + BitsPerSlot + rest) + Due
              >= x + y - 8 * (t + a.bit) + Due - 8 * len + speech
          /\ c # 0 =>
              x + z - 8 * (t + BitsPerSlot + rest) + Due
              = x + y - 8 * (t + a.bit) + Due - 8 * len + speech
        BY <1>1, <1>2, <1>3, <1>4, <2>4, <2>5
    <2>9. /\ Ahead(b, c) >= Ahead(a, c) - 8 * len + speech
          /\ c # 0 => Ahead(b, c) = Ahead(a, c) - 8 * len + speech
        <3>2. /\ Ahead(b, c) >= (x + y - 8 * (t + a.bit) + Due) - 8 * len + speech
              /\ c # 0 => Ahead(b, c) = (x + y - 8 * (t + a.bit) + Due) - 8 * len + speech
            BY <1>1, <1>2, <1>3, <1>4, <2>4, <2>5, <2>7, <2>8
        <3> QED
            BY <2>6, <3>2
    <2> QED
        BY <2>3, <2>9 DEF speech
<1>6. CASE a.tn = 4 /\ a.fn < MaxFn
    <2>1. b = [bit |-> rest, tn |-> 1, fn |-> a.fn + 1]
        BY <1>8, <1>1, <1>2, <1>6
    <2>2. b.bit = rest /\ b.tn = 1 /\ b.fn = a.fn + 1 /\ ~Ended(b, c)
        BY <2>1 DEF Ended
    <2>3. b \in Places
        BY <1>1, <2>1, <1>2, <1>3, <1>6 DEF Places
    <2> DEFINE y == IF Ended(a, c) THEN Worth ELSE 0
    <2>4. y + speech <= Worth /\ (c # 0 => y + speech = Worth) /\ y \in Nat
        BY <1>2, <1>4, <1>6 DEF Ended
    <2>5. (a.fn + 1 - 1) * Gain = x + Gain
        <3>1. (a.fn - 1 + 1) * Gain = x + Gain
            BY <1>2, Gains
        <3>2. a.fn + 1 - 1 = a.fn - 1 + 1
            BY <1>2
        <3> QED
            BY <3>1, <3>2
    <2>6. Ahead(a, c) = x + y - 8 * (3 * BitsPerSlot + a.bit) + Due
        BY <1>6 DEF Ahead
    <2>7. Ahead(b, c) = x + Gain + 0 - 8 * (0 * BitsPerSlot + rest) + Due
        <3>1. Ahead(b, c) = (b.fn - 1) * Gain + 0 - 8 * ((b.tn - 1) * BitsPerSlot + b.bit) + Due
            BY <2>2 DEF Ahead
        <3>2. (b.fn - 1) * Gain = (a.fn + 1 - 1) * Gain
            BY <1>2, <1>4, <2>2
        <3>3. (b.tn - 1) * BitsPerSlot = (1 - 1) * BitsPerSlot /\ 1 - 1 = 0
            BY <2>2
        <3> HIDE DEF x
        <3> QED
            BY <2>2, <2>5, <3>1, <3>2, <3>3
    <2> HIDE DEF y, x, speech
    <2>8. /\ x + Gain + 0 - 8 * (0 * BitsPerSlot + rest) + Due
              >= x + y - 8 * (3 * BitsPerSlot + a.bit) + Due - 8 * len + speech
          /\ c # 0 =>
              x + Gain + 0 - 8 * (0 * BitsPerSlot + rest) + Due
              = x + y - 8 * (3 * BitsPerSlot + a.bit) + Due - 8 * len + speech
        BY <1>1, <1>2, <1>3, <1>4, <2>4
    <2>9. /\ Ahead(b, c) >= Ahead(a, c) - 8 * len + speech
          /\ c # 0 => Ahead(b, c) = Ahead(a, c) - 8 * len + speech
        <3>2. /\ Ahead(b, c) >= (x + y - 8 * (3 * BitsPerSlot + a.bit) + Due) - 8 * len + speech
              /\ c # 0 => Ahead(b, c) = (x + y - 8 * (3 * BitsPerSlot + a.bit) + Due) - 8 * len + speech
            BY <1>1, <1>2, <1>3, <1>4, <2>4, <2>7, <2>8
        <3> QED
            BY <2>6, <3>2
    <2> QED
        BY <2>3, <2>9 DEF speech
<1>7. CASE a.tn = 4 /\ a.fn = MaxFn
    <2>1. b = [bit |-> rest, tn |-> 1, fn |-> 1]
        BY <1>8, <1>7
    <2>2. b.bit = rest /\ b.tn = 1 /\ b.fn = 1 /\ ~Ended(b, c)
        BY <2>1 DEF Ended
    <2>3. b \in Places
        BY <1>1, <2>1, <1>2, <1>3 DEF Places
    <2>4. speech = 0 /\ ~Ended(a, c) /\ x = Due
        BY <1>7, GainIsConsumed DEF Ended
    <2>5. (1 - 1) * Gain = 0
        BY <1>4
    <2>6. Ahead(a, c) = x + 0 - 8 * (3 * BitsPerSlot + a.bit) + Due
        BY <1>7, <2>4 DEF Ahead
    <2>7. Ahead(b, c) = 0 + 0 - 8 * (0 * BitsPerSlot + rest) + Due
        BY <2>2, <2>5 DEF Ahead
    <2> HIDE DEF x, speech
    <2>8. 0 + 0 - 8 * (0 * BitsPerSlot + rest) + Due
              = x + 0 - 8 * (3 * BitsPerSlot + a.bit) + Due - 8 * len + speech
        BY <1>1, <1>2, <1>3, <1>4, <2>4
    <2>9. /\ Ahead(b, c) >= Ahead(a, c) - 8 * len + speech
          /\ c # 0 => Ahead(b, c) = Ahead(a, c) - 8 * len + speech
        <3>2. /\ Ahead(b, c) >= (x + 0 - 8 * (3 * BitsPerSlot + a.bit) + Due) - 8 * len + speech
              /\ c # 0 => Ahead(b, c) = (x + 0 - 8 * (3 * BitsPerSlot + a.bit) + Due) - 8 * len + speech
            BY <1>1, <1>2, <1>3, <1>4, <2>4, <2>7, <2>8
        <3> QED
            BY <2>6, <3>2
    <2> QED
        BY <2>3, <2>9 DEF speech
<1>9. a.tn < 4 \/ (a.tn = 4 /\ a.fn < MaxFn) \/ (a.tn = 4 /\ a.fn = MaxFn)
    BY <1>1, <1>2
<1> QED
    BY <1>5, <1>6, <1>7, <1>9

\* The same of the timeslot in the air.
LEMMA BurstMoves ==
    ASSUME air \in Places, call \in 0 .. 4, NEW len \in Nat, len <= BitsPerSlot,
           NEW received, BurstEnds(len, received)
    PROVE  /\ air' \in Places
           /\ Ahead(air', call) >= Ahead(air, call) - 8 * len
                  + (IF IsSpeech(air) THEN 36 * Speech ELSE 0)
           /\ call # 0 => Ahead(air', call) = Ahead(air, call) - 8 * len
                  + (IF IsSpeech(air) THEN 36 * Speech ELSE 0)
<1>1. air' = [NextSlot(air) EXCEPT !.bit = air.bit + len - BitsPerSlot]
      /\ air.bit + len >= BitsPerSlot
    BY DEF BurstEnds
<1>2. air' = [bit |-> air.bit + len - BitsPerSlot,
              tn |-> NextSlot(air).tn, fn |-> NextSlot(air).fn]
    BY <1>1, NextSlotIsPlace, SetBit
<1>3. IF air.tn < 4 THEN NextSlot(air).tn = air.tn + 1 /\ NextSlot(air).fn = air.fn
      ELSE /\ NextSlot(air).tn = 1
           /\ NextSlot(air).fn = (IF air.fn = MaxFn THEN 1 ELSE air.fn + 1)
    BY DEF NextSlot
<1>4. PICK a, c, b, tn, fn : a = air /\ c = call /\ b = air'
                             /\ tn = NextSlot(air).tn /\ fn = NextSlot(air).fn
    OBVIOUS
<1>5. /\ b \in Places
      /\ Ahead(b, c) >= Ahead(a, c) - 8 * len
                        + (IF c = a.tn /\ a.fn # MaxFn THEN Worth ELSE 0)
      /\ c # 0 => Ahead(b, c) = Ahead(a, c) - 8 * len
                        + (IF c = a.tn /\ a.fn # MaxFn THEN Worth ELSE 0)
    BY <1>1, <1>2, <1>3, <1>4, AheadEnds
<1> QED
    BY <1>4, <1>5 DEF IsSpeech, Worth

LEMMA LagInit == Init => LagInv
<1> SUFFICES ASSUME Init PROVE LagInv
    OBVIOUS
<1>1. air \in Places /\ call \in 0 .. 4
    <2>1. PICK n \in 1 .. 4 : air = [bit |-> 0, tn |-> n, fn |-> MaxFn]
        BY DEF Init
    <2> QED
        BY <2>1, AudioPacingAssumption DEF Init, Places, AudioPacingAssumption
<1>2. Ahead(air, call) \in Nat
    BY <1>1, AheadIsNat
<1>3. Account = 0 /\ inSyms = 0
    BY DEF Account, Init
<1> QED
    BY <1>1, <1>2, <1>3, PacingInit DEF LagInv, Places

\* A call of process: what it takes out of the ring buffer is no more than the speech of
\* the timeslot that ends in it.
LEMMA LagProcess == LagInv /\ Process => LagInv'
<1> SUFFICES ASSUME LagInv, Process PROVE LagInv'
    OBVIOUS
<1> USE DEF LagInv
<1>1. PICK len \in Lens :
          Within(len) \/ Receive(len) \/ Lose(len) \/ \E found \in BOOLEAN : Search(len, found)
    BY DEF Process
<1>2. len \in Nat /\ len <= BitsPerSlot /\ BitsPerSlot \in Nat
    BY AudioPacingAssumption DEF AudioPacingAssumption
<1>3. air \in Places /\ call \in 0 .. 4 /\ call' = call
    BY <1>1 DEF Places, Within, Receive, Lose, Search, BurstEnds
<1>4. PICK r \in Nat, v \in {voice, Mark(voice, air.tn, IsSpeech(air))}, sk \in BOOLEAN :
          /\ Pace(len, r, v, 0, sk)
          /\ air' \in Places /\ Ahead(air', call) >= Ahead(air, call) - 8 * len + 36 * r
    <2>1. ring = 0 /\ Speech \in Nat \ {0}
        BY AudioPacingAssumption DEF AudioPacingAssumption, PacingInv
    <2>2. CASE Within(len)
        <3>1. Pace(len, 0, voice, 0, FALSE)
            BY <2>1, <2>2 DEF Within
        <3>2. air' \in Places /\ Ahead(air', call) = Ahead(air, call) - 8 * len
            BY <1>2, <1>3, <2>2, AheadWithin DEF Within
        <3>3. Ahead(air, call) \in Nat
            BY <1>3, AheadIsNat
        <3>4. Ahead(air', call) >= Ahead(air, call) - 8 * len + 36 * 0
            BY <1>2, <3>2, <3>3
        <3> QED
            BY <3>1, <3>2, <3>4
    <2>3. ASSUME NEW received \in BOOLEAN, BurstEnds(len, received)
          PROVE  /\ air' \in Places
                 /\ Ahead(air', call) >= Ahead(air, call) - 8 * len
                        + (IF IsSpeech(air) THEN 36 * Speech ELSE 0)
        BY <1>2, <1>3, <2>3, BurstMoves
    <2>4. Ahead(air, call) \in Nat
        BY <1>3, AheadIsNat
    <2>5. ASSUME NEW received \in BOOLEAN, BurstEnds(len, received)
          PROVE  /\ air' \in Places
                 /\ Ahead(air', call) >= Ahead(air, call) - 8 * len + 36 * 0
                 /\ IsSpeech(air) =>
                       Ahead(air', call) >= Ahead(air, call) - 8 * len + 36 * Speech
        <3>1. air' \in Places /\ Ahead(air', call) \in Nat
            BY <1>3, <2>3, <2>5, AheadIsNat
        <3>2. Ahead(air', call) >= Ahead(air, call) - 8 * len
                        + (IF IsSpeech(air) THEN 36 * Speech ELSE 0)
            BY <2>3, <2>5
        <3> QED
            BY <1>2, <2>1, <2>4, <3>1, <3>2
    <2>6. CASE BurstEnds(len, TRUE)
        <3>1. PICK r \in Nat, v \in {voice, Mark(voice, air.tn, IsSpeech(air))}, sk \in BOOLEAN :
                  /\ Pace(len, r, v, 0, sk)
                  /\ r = IF Plays(air) THEN Speech ELSE 0
            BY <1>2, <2>6, ReceivedPace
        <3>2. Ahead(air', call) >= Ahead(air, call) - 8 * len + 36 * r
            BY <2>5, <2>6, <3>1 DEF Plays
        <3> QED
            BY <2>5, <2>6, <3>1, <3>2
    <2>7. CASE BurstEnds(len, FALSE)
        <3>1. Pace(len, 0, voice, 0, FALSE)
            BY <2>7, <2>1 DEF BurstEnds
        <3> QED
            BY <2>5, <2>7, <3>1
    <2> QED
        BY <1>1, <2>2, <2>6, <2>7 DEF Receive, Lose, Search
<1>5. PacingInv' /\ inSyms' \in 0 .. 4
      /\ (Account' <= 0 \/ Account' <= Account + 36 * r - 8 * len)
    BY <1>2, <1>4, PaceStep, AccountStep
<1>6. Ahead(air, call) \in Nat /\ Ahead(air', call) \in Nat
    BY <1>3, <1>4, AheadIsNat
<1>7. Account \in Int /\ Account' \in Int
    BY <1>5 DEF PacingInv, Account
<1>8. Account' <= Ahead(air', call')
    BY <1>2, <1>3, <1>4, <1>5, <1>6, <1>7
<1> QED
    BY <1>3, <1>4, <1>5, <1>8 DEF Places

LEMMA LagNext == LagInv /\ [Next]_vars => LagInv'
<1> SUFFICES ASSUME LagInv, [Next]_vars PROVE LagInv'
    OBVIOUS
<1> USE DEF LagInv
<1>1. CASE Process
    BY <1>1, LagProcess
<1>2. CASE CallEnds
    <2>1. UNCHANGED <<inSyms, outSyms, ring, out, air>> /\ call' = 0 /\ air.tn = 1
        BY <1>2 DEF CallEnds, AtFrame
    <2>2. Account' = Account /\ PacingInv'
        BY <2>1 DEF Account, PacingInv
    <2>3. Ahead(air, 0) = Ahead(air, call)
        BY <2>1 DEF Ahead, Ended
    <2> QED
        BY <2>1, <2>2, <2>3
<1>3. CASE \E tn \in CallSlots : CallBegins(tn)
    <2>1. PICK tn \in CallSlots : CallBegins(tn)
        BY <1>3
    <2>2. UNCHANGED <<inSyms, outSyms, ring, out, air>> /\ call' = tn /\ air.tn = 1
        BY <2>1 DEF CallBegins, AtFrame
    <2>3. Account' = Account /\ PacingInv'
        BY <2>2 DEF Account, PacingInv
    <2>4. tn \in 0 .. 4 /\ Ahead(air, tn) = Ahead(air, call)
        BY <2>2, AudioPacingAssumption DEF Ahead, Ended, AudioPacingAssumption
    <2> QED
        BY <2>2, <2>3, <2>4
<1>4. CASE UNCHANGED vars
    <2>1. Account' = Account /\ PacingInv' /\ UNCHANGED <<inSyms, air, call>>
        BY <1>4 DEF vars, Account, PacingInv
    <2> QED
        BY <2>1
<1> QED
    BY <1>1, <1>2, <1>3, <1>4 DEF Next

\* Sound is never further ahead than the speech of one multiframe makes it (process):
\* the frame without speech uses up what the others brought too much.
THEOREM LagIsRight == Spec => []LagIsBounded
<1>1. LagInv => LagIsBounded
    <2> SUFFICES ASSUME LagInv PROVE LagIsBounded
        OBVIOUS
    <2>1. air \in Places /\ call \in 0 .. 4 /\ PacingInv /\ inSyms <= 4
          /\ Account <= Ahead(air, call)
        BY DEF LagInv, Places
    <2> DEFINE due == (4 * (MaxFn - 2) - 3) * BitsPerSlot
               most == (MaxFn - 1) * Speech
    <2>2. due \in Int /\ most \in Int /\ MaxFn \in Int /\ Speech \in Int /\ BitsPerSlot \in Int
        BY AudioPacingAssumption DEF AudioPacingAssumption
    <2>3. 36 * (MaxFn - 1) * Speech = 36 * most /\ 8 * (4 * (MaxFn - 2) - 3) * BitsPerSlot = 8 * due
        BY <2>2
    <2>4. Ahead(air, call) <= 36 * most - 8 * due /\ Ahead(air, call) \in Nat
        BY <2>1, <2>3, AheadIsBounded, AheadIsNat
    <2> HIDE DEF due, most
    <2>5. 36 * outSyms - 8 * inSyms <= 36 * most - 8 * due
        BY <2>1, <2>2, <2>4 DEF Account, PacingInv
    <2>6. outSyms <= most - (due * 8) \div 36
        BY <2>1, <2>2, <2>5 DEF PacingInv
    <2> QED
        BY <2>6 DEF LagIsBounded, Required, due, most
<1> QED
    BY <1>1, LagInit, LagNext, PTL DEF Spec

-----------------------------------------------------------------------------
(* Silence in a call.  From the end of its first timeslot in a multiframe   *)
(* on, sound is ahead by Balance, but for what each call of process takes   *)
(* too much, and the bits of the chunk the first speech came with; Balance  *)
(* is never below 0, and silence is only given when nothing is left.        *)

Balance(a, c) == Ahead(a, c) - Due + 8 * c * BitsPerSlot

\* Once speech of a call was played, its timeslot is the active one.
BegunInv ==
    /\ since => begun
    /\ begun => call # 0 /\ activeSlot = call /\ ~out.skipped

LEMMA BegunInit == Init => BegunInv
BY DEF Init, BegunInv

LEMMA BegunNext == LagInv /\ BegunInv /\ [Next]_vars => BegunInv'
<1> SUFFICES ASSUME LagInv, BegunInv, [Next]_vars PROVE BegunInv'
    OBVIOUS
<1>0. (since => begun) /\ (begun => call # 0 /\ activeSlot = call /\ ~out.skipped)
    BY DEF BegunInv
<1> USE <1>0 DEF BegunInv
<1>1. ASSUME NEW len, Within(len) PROVE BegunInv'
    BY <1>1 DEF Within, Pace, chosen
<1>2. ASSUME NEW len, BurstEnds(len, FALSE) PROVE BegunInv'
    <2>1. /\ Pace(len, ring, voice, 0, FALSE) /\ UNCHANGED chosen
          /\ begun' = begun /\ call' = call
        BY <1>2 DEF BurstEnds
    <2>2. since' => since
        BY <1>2 DEF BurstEnds
    <2>3. ~out'.skipped
        BY <2>1 DEF Pace
    <2> QED
        BY <2>1, <2>2, <2>3 DEF chosen
<1>3. ASSUME NEW len, BurstEnds(len, TRUE) PROVE BegunInv'
    <2>1. /\ since' => since \/ Plays(air)
          /\ begun' = (begun \/ Plays(air)) /\ call' = call
          /\ activeSlot' = IF Plays(air) THEN air.tn ELSE activeSlot
          /\ \E r, v, o : Pace(len, r, v, o, IsSpeech(air) /\ ~Plays(air))
        <3>1. since' => since \/ Plays(air)
            BY <1>3 DEF BurstEnds, Plays
        <3>2. /\ begun' = (begun \/ Plays(air)) /\ call' = call
              /\ activeSlot' = IF Plays(air) THEN air.tn ELSE activeSlot
            BY <1>3 DEF BurstEnds
        <3>3. \E r, v, o : Pace(len, r, v, o, IsSpeech(air) /\ ~Plays(air))
            BY <1>3 DEF BurstEnds
        <3> QED
            BY <3>1, <3>2, <3>3
    <2>5. out'.skipped = (IsSpeech(air) /\ ~Plays(air))
        BY <2>1 DEF Pace
    <2>2. IsSpeech(air) /\ begun => Plays(air)
        BY DEF IsSpeech, Plays
    <2>3. Plays(air) => call = air.tn /\ IsSpeech(air)
        BY DEF IsSpeech, Plays
    <2>4. Plays(air) => call # 0
        BY <2>3 DEF LagInv, Places
    <2> QED
        BY <2>1, <2>2, <2>3, <2>4, <2>5
<1>4. CASE CallEnds
    BY <1>4 DEF CallEnds
<1>5. CASE \E tn \in CallSlots : CallBegins(tn)
    BY <1>5 DEF CallBegins
<1>6. CASE UNCHANGED vars
    BY <1>6 DEF vars, chosen
<1> QED
    BY <1>1, <1>2, <1>3, <1>4, <1>5, <1>6 DEF Next, Process, Receive, Lose, Search

SpeechInv ==
    /\ LagInv /\ BegunInv
    /\ quiet \in [samples : Nat, calls : Nat]
    /\ since =>
        /\ call # 0
        /\ \E len \in Lens :
            /\ Account - 36 * quiet.samples + 4 * quiet.calls
                   >= Balance(air, call) - 8 * (len + 4)
            /\ 36 * quiet.samples <= 4 * quiet.calls + 8 * (len + 4)

LEMMA BalanceIsNat ==
    ASSUME NEW a \in Places, NEW c \in 1 .. 4
    PROVE  Balance(a, c) \in Nat
<1>1. BitsPerSlot \in Nat \ {0} /\ MaxFn \in Nat /\ MaxFn >= 2
    BY AudioPacingAssumption DEF AudioPacingAssumption
<1>2. /\ a.bit \in 0 .. BitsPerSlot - 1 /\ a.tn \in 1 .. 4 /\ a.fn \in 1 .. MaxFn
      /\ a.fn - 1 \in Nat
    BY <1>1 DEF Places
<1> DEFINE x == (a.fn - 1) * Gain
           y == IF Ended(a, c) THEN Worth ELSE 0
           t == (a.tn - 1) * BitsPerSlot
           w == c * BitsPerSlot
<1>3. x \in Nat /\ Gain \in Nat /\ Worth \in Nat /\ Worth = Due + Gain /\ Due = 32 * BitsPerSlot
    BY <1>2, Gains, GainIsConsumed
<1>4. Balance(a, c) = (x + y - 8 * (t + a.bit) + Due) - Due + 8 * c * BitsPerSlot
    <2>1. Ahead(a, c) = x + y - 8 * (t + a.bit) + Due
        BY DEF Ahead
    <2> HIDE DEF x, y, t
    <2> QED
        BY <2>1 DEF Balance
<1>5. 8 * c * BitsPerSlot = 8 * w /\ w \in {BitsPerSlot, 2 * BitsPerSlot, 3 * BitsPerSlot, 4 * BitsPerSlot}
    BY <1>1
<1>6. t \in {0, BitsPerSlot, 2 * BitsPerSlot, 3 * BitsPerSlot}
    BY <1>1, <1>2
<1>7. CASE a.tn <= c
    <2>1. t + BitsPerSlot <= w
        BY <1>1, <1>2, <1>7
    <2>2. y \in Nat
        BY <1>3
    <2> HIDE DEF x, y, t, w
    <2> QED
        BY <1>1, <1>2, <1>3, <1>4, <1>5, <1>6, <2>1, <2>2
<1>8. CASE ~(a.tn <= c) /\ a.fn # MaxFn
    <2>1. y = Worth
        BY <1>2, <1>8 DEF Ended
    <2> HIDE DEF x, y, t, w
    <2> QED
        BY <1>1, <1>2, <1>3, <1>4, <1>5, <1>6, <2>1
<1>9. CASE a.fn = MaxFn
    <2>1. y = 0 /\ x = Due
        BY <1>9, GainIsConsumed DEF Ended
    <2> HIDE DEF x, y, t, w
    <2> QED
        BY <1>1, <1>2, <1>3, <1>4, <1>5, <1>6, <2>1
<1> QED
    BY <1>7, <1>8, <1>9

\* At the end of the timeslot of a call in the first frame it is the speech of that one.
LEMMA BalanceStarts ==
    ASSUME NEW a \in Places, a.fn = 1
    PROVE  Balance(a, a.tn) = 8 * (BitsPerSlot - a.bit)
<1>1. BitsPerSlot \in Nat /\ a.tn \in 1 .. 4 /\ a.bit \in 0 .. BitsPerSlot - 1 /\ Due \in Nat
    BY AudioPacingAssumption, GainIsConsumed DEF AudioPacingAssumption, Places
<1>2. (a.fn - 1) * Gain = 0 /\ ~Ended(a, a.tn)
    BY <1>1, GainIsConsumed DEF Ended
<1>3. 8 * a.tn * BitsPerSlot = 8 * ((a.tn - 1) * BitsPerSlot + BitsPerSlot)
      /\ (a.tn - 1) * BitsPerSlot \in Nat
    BY <1>1
<1>4. Ahead(a, a.tn) = 0 + 0 - 8 * ((a.tn - 1) * BitsPerSlot + a.bit) + Due
    BY <1>2 DEF Ahead
<1> DEFINE t == (a.tn - 1) * BitsPerSlot
           u == 8 * a.tn * BitsPerSlot
<1>5. u = 8 * (t + BitsPerSlot) /\ t \in Nat
    BY <1>3
<1>6. Balance(a, a.tn) = (0 + 0 - 8 * (t + a.bit) + Due) - Due + u
    BY <1>4 DEF Balance
<1> HIDE DEF t, u
<1> QED
    BY <1>1, <1>5, <1>6

LEMMA NothingAhead == \A q \in Nat : 36 * 0 - 8 * q <= 0
OBVIOUS

\* What a call of process does to the account: all it gives too little is silence, and
\* there is silence only when nothing is ahead any more.
LEMMA SilenceStep ==
    ASSUME PacingInv, NEW len \in Nat, NEW r \in Nat, NEW v, NEW sk, Pace(len, r, v, 0, sk)
    PROVE  /\ out'.silence \in Nat
           /\ Account \in Int /\ Account' \in Int
           /\ Account' - 36 * out'.silence + 4 >= Account + 36 * r - 8 * len
           /\ out'.silence = 0 \/ Account' <= 0
<1> DEFINE due == Required(inSyms + len)
           o == outSyms + r
           silence == IF due > o /\ ~Decoding(v) THEN due - o ELSE 0
<1>1. due \in Nat /\ o \in Nat /\ inSyms \in Nat /\ outSyms \in Nat
    BY RestIsRight DEF PacingInv
<1>2. PacingInv' /\ out'.silence = silence /\ out'.speech = r /\ out'.bits = len
    BY PaceStep DEF Pace
<1>3. silence \in Nat
    BY <1>1
<1>4. Account \in Int /\ Account' \in Int
    BY <1>2 DEF PacingInv, Account
<1>5. 36 * (out'.speech + out'.silence) - 8 * out'.bits - (Account' - Account) <= 4
    BY PaceStep
<1>6. silence = 0 \/ Account' <= 0
    <2>1. CASE silence # 0
        <3>1. o < due
            BY <1>1, <2>1
        <3>2. outSyms' = Carried(o, due)
            BY DEF Pace
        <3>3. outSyms' = 0 /\ inSyms' \in Nat
            BY <1>2, <3>1, <3>2 DEF Carried, PacingInv
        <3>4. Account' = 36 * outSyms' - 8 * inSyms'
            BY DEF Account
        <3>5. PICK q \in Nat : q = inSyms'
            BY <3>3
        <3>6. Account' = 36 * 0 - 8 * q
            BY <3>3, <3>4, <3>5
        <3> QED
            BY ONLY <3>5, <3>6, NothingAhead, Zenon
    <2> QED
        BY <2>1
<1> HIDE DEF silence, due, o
<1>7. PICK s \in Nat, x \in Int, y \in Int : s = out'.silence /\ x = Account /\ y = Account'
    BY <1>2, <1>3, <1>4
<1>8. 36 * (r + s) - 8 * len - (y - x) <= 4 /\ (s = 0 \/ y <= 0)
    BY <1>2, <1>5, <1>6, <1>7
<1>9. y - 36 * s + 4 >= x + 36 * r - 8 * len
    BY <1>8
<1> QED
    BY <1>7, <1>8, <1>9

\* So silence stays within what the calls of process and the chunk amount to.
LEMMA HushStep ==
    ASSUME PacingInv, quiet \in [samples : Nat, calls : Nat],
           NEW len \in Nat, NEW r \in Nat, NEW v, NEW sk, Pace(len, r, v, 0, sk),
           NEW started \in BOOLEAN, Hush(started), since',
           NEW slack \in Nat, NEW balance \in Int, balance - 8 * len + 36 * r >= 0,
           started => Account >= balance - slack,
           ~started => /\ Account - 36 * quiet.samples + 4 * quiet.calls >= balance - slack
                       /\ 36 * quiet.samples <= 4 * quiet.calls + slack
    PROVE  /\ Account' - 36 * quiet'.samples + 4 * quiet'.calls
                  >= balance - 8 * len + 36 * r - slack
           /\ 36 * quiet'.samples <= 4 * quiet'.calls + slack
<1>1. PICK before \in [samples : Nat, calls : Nat] :
          /\ quiet' = [samples |-> before.samples + out'.silence, calls |-> before.calls + 1]
          /\ Account - 36 * before.samples + 4 * before.calls >= balance - slack
          /\ 36 * before.samples <= 4 * before.calls + slack
    <2>1. NotQuiet \in [samples : Nat, calls : Nat] /\ NotQuiet.samples = 0 /\ NotQuiet.calls = 0
        BY DEF NotQuiet
    <2>2. Account \in Int
        BY SilenceStep
    <2>3. CASE started
        BY <2>1, <2>2, <2>3 DEF Hush
    <2>4. CASE ~started
        BY <2>4 DEF Hush
    <2> QED
        BY <2>3, <2>4
<1>2. PICK b \in Nat, k \in Nat : b = before.samples /\ k = before.calls
    OBVIOUS
<1>3. PICK s \in Nat : s = out'.silence
    BY SilenceStep
<1>4. quiet'.samples = b + s /\ quiet'.calls = k + 1
    BY <1>1, <1>2, <1>3
<1>5. PICK x \in Int, y \in Int : x = Account /\ y = Account'
    BY SilenceStep
<1>6. y - 36 * s + 4 >= x + 36 * r - 8 * len /\ (s = 0 \/ y <= 0)
    BY <1>3, <1>5, SilenceStep
<1>7. x - 36 * b + 4 * k >= balance - slack /\ 36 * b <= 4 * k + slack
    BY <1>1, <1>2, <1>5
<1>8. y - 36 * (b + s) + 4 * (k + 1) >= balance - 8 * len + 36 * r - slack
    BY <1>6, <1>7
<1>9. 36 * (b + s) <= 4 * (k + 1) + slack
    BY <1>6, <1>7, <1>8
<1> QED
    BY <1>4, <1>5, <1>8, <1>9

LEMMA SpeechInit == Init => SpeechInv
BY LagInit, BegunInit DEF Init, SpeechInv, NotQuiet

\* A call of process that brings the samples r.
PlayStep(len, r, v, started) ==
    /\ (\E sk \in BOOLEAN : Pace(len, r, v, 0, sk)) /\ Hush(started) /\ call' = call
    /\ since' => /\ call # 0 /\ air' \in Places
                 /\ Balance(air', call) = Balance(air, call) - 8 * len + 36 * r
                 /\ started => /\ air.fn = 1 /\ call = air.tn
                               /\ air.bit + len >= BitsPerSlot
                 /\ ~started => since

LEMMA SpeechProcess == SpeechInv /\ Process => SpeechInv'
<1> SUFFICES ASSUME SpeechInv, Process PROVE SpeechInv'
    OBVIOUS
<1> USE DEF SpeechInv
<1>1. PICK len \in Lens :
          Within(len) \/ Receive(len) \/ Lose(len) \/ \E found \in BOOLEAN : Search(len, found)
    BY DEF Process
<1>2. len \in Nat /\ len <= BitsPerSlot /\ BitsPerSlot \in Nat \ {0}
    BY AudioPacingAssumption DEF AudioPacingAssumption
<1>3. LagInv' /\ BegunInv' /\ PacingInv /\ air \in Places /\ call \in 0 .. 4 /\ inSyms <= 4
      /\ Account >= -32 /\ Account \in Int
    BY LagProcess, BegunNext DEF LagInv, PacingInv, Account, Next
<1>4. ring = 0 /\ Put(ring) = Speech /\ Speech \in Nat \ {0}
    BY <1>3, AudioPacingAssumption DEF AudioPacingAssumption, PacingInv, Put
<1>5. \E r \in Nat : \E v : \E started \in BOOLEAN : PlayStep(len, r, v, started)
    <2>1. CASE Within(len)
        <3>1. air.bit + len < BitsPerSlot /\ air' = [air EXCEPT !.bit = @ + len]
              /\ Pace(len, 0, voice, 0, FALSE) /\ Hush(FALSE) /\ call' = call /\ since' = since
            BY <1>4, <2>1 DEF Within
        <3>2. air' \in Places /\ Ahead(air', call) = Ahead(air, call) - 8 * len
            BY <1>2, <1>3, <3>1, AheadWithin
        <3>3. Ahead(air, call) \in Nat /\ Due \in Nat
            BY <1>3, AheadIsNat, GainIsConsumed
        <3>4. Balance(air', call) = Balance(air, call) - 8 * len + 36 * 0
            BY <1>2, <1>3, <3>2, <3>3 DEF Balance
        <3>5. since' => since /\ call # 0
            BY <3>1
        <3>6. PlayStep(len, 0, voice, FALSE)
            BY <3>1, <3>2, <3>4, <3>5 DEF PlayStep
        <3> QED
            BY <3>6
    <2>2. ASSUME NEW received \in BOOLEAN, BurstEnds(len, received), call # 0
          PROVE  /\ air' \in Places
                 /\ Balance(air', call) = Balance(air, call) - 8 * len
                        + 36 * (IF IsSpeech(air) THEN Speech ELSE 0)
        <3>1. /\ air' \in Places
              /\ Ahead(air', call) = Ahead(air, call) - 8 * len
                        + (IF IsSpeech(air) THEN 36 * Speech ELSE 0)
            BY <1>2, <1>3, <2>2, BurstMoves
        <3>2. Ahead(air, call) \in Nat /\ Due \in Nat
            BY <1>3, AheadIsNat, GainIsConsumed
        <3> QED
            BY <1>2, <1>3, <1>4, <3>1, <3>2 DEF Balance
    <2>3. CASE BurstEnds(len, FALSE)
        <3>1. /\ Pace(len, 0, voice, 0, FALSE) /\ Hush(Plays(air) /\ air.fn = 1)
              /\ call' = call
              /\ since' => ~IsSpeech(air) /\ ~Plays(air) /\ since
            BY <1>4, <2>3 DEF BurstEnds, Plays
        <3>2. CASE since'
            <4>1. Hush(FALSE) /\ since /\ call # 0 /\ ~IsSpeech(air)
                BY <3>1, <3>2 DEF Hush
            <4>2. /\ air' \in Places
                  /\ Balance(air', call) = Balance(air, call) - 8 * len + 36 * 0
                BY <2>2, <2>3, <4>1
            <4>3. PlayStep(len, 0, voice, FALSE)
                BY <3>1, <4>1, <4>2 DEF PlayStep
            <4> QED
                BY <4>3
        <3>3. CASE ~since'
            <4>1. Hush(FALSE)
                BY <3>1, <3>3 DEF Hush
            <4>2. PlayStep(len, 0, voice, FALSE)
                BY <3>1, <3>3, <4>1 DEF PlayStep
            <4> QED
                BY <4>2
        <3> QED
            BY <3>2, <3>3
    <2>4. CASE BurstEnds(len, TRUE) /\ Plays(air)
        <3>0. \E v \in {voice, Mark(voice, air.tn, IsSpeech(air))} : \E sk \in BOOLEAN :
                  Pace(len, Speech, v, 0, sk)
            <4>1. PICK r \in Nat, v \in {voice, Mark(voice, air.tn, IsSpeech(air))},
                       sk \in BOOLEAN :
                      Pace(len, r, v, 0, sk) /\ r = IF Plays(air) THEN Speech ELSE 0
                BY <1>2, <1>3, <2>4, ReceivedPace
            <4>2. r = Speech
                BY <4>1, <2>4
            <4> QED
                BY <4>1, <4>2
        <3>1. PICK v : \E sk \in BOOLEAN : Pace(len, Speech, v, 0, sk)
            BY <3>0
        <3>2. IsSpeech(air) /\ call = air.tn
            BY <2>4 DEF Plays, IsSpeech
        <3>3. /\ Hush(air.fn = 1) /\ call' = call /\ (since' <=> since \/ air.fn = 1)
              /\ air.bit + len >= BitsPerSlot
            BY <2>4, <3>2 DEF BurstEnds, Hush
        <3>4. call # 0
            BY <1>3, <3>2 DEF Places
        <3>5. /\ air' \in Places
              /\ Balance(air', call) = Balance(air, call) - 8 * len + 36 * Speech
            BY <2>2, <2>4, <3>2, <3>4
        <3>6. air.fn # 1 /\ since' => since
            BY <3>3
        <3>7. PlayStep(len, Speech, v, air.fn = 1)
            BY <3>1, <3>2, <3>3, <3>4, <3>5, <3>6 DEF PlayStep
        <3>8. (air.fn = 1) \in BOOLEAN /\ Speech \in Nat
            BY <1>4
        <3> QED
            BY <3>7, <3>8
    <2>5. CASE BurstEnds(len, TRUE) /\ ~Plays(air)
        <3>0. \E v \in {voice, Mark(voice, air.tn, IsSpeech(air))} : \E sk \in BOOLEAN :
                  Pace(len, 0, v, 0, sk)
            <4>1. PICK r \in Nat, v \in {voice, Mark(voice, air.tn, IsSpeech(air))},
                       sk \in BOOLEAN :
                      Pace(len, r, v, 0, sk) /\ r = IF Plays(air) THEN Speech ELSE 0
                BY <1>2, <1>3, <2>5, ReceivedPace
            <4>2. r = 0
                BY <4>1, <2>5
            <4> QED
                BY <4>1, <4>2
        <3>1. PICK v : \E sk \in BOOLEAN : Pace(len, 0, v, 0, sk)
            BY <3>0
        <3>2. call' = call /\ Hush(FALSE) /\ (since' => since)
            BY <2>5 DEF BurstEnds, Hush
        <3>3. since => ~IsSpeech(air) /\ call # 0
            BY <2>5 DEF BegunInv, Plays, IsSpeech
        <3>4. since => /\ air' \in Places
                       /\ Balance(air', call) = Balance(air, call) - 8 * len + 36 * 0
            BY <2>2, <2>5, <3>3
        <3>5. PlayStep(len, 0, v, FALSE)
            BY <3>1, <3>2, <3>3, <3>4 DEF PlayStep
        <3> QED
            BY <3>5
    <2> QED
        BY <1>1, <2>1, <2>3, <2>4, <2>5 DEF Receive, Lose, Search
<1>6. PICK r \in Nat : \E v : \E started \in BOOLEAN : PlayStep(len, r, v, started)
    BY <1>5
<1>7. PICK v : \E started \in BOOLEAN : PlayStep(len, r, v, started)
    BY <1>6
<1>8. PICK started \in BOOLEAN :
          /\ (\E sk \in BOOLEAN : Pace(len, r, v, 0, sk)) /\ Hush(started) /\ call' = call
          /\ since' => /\ call # 0 /\ air' \in Places
                       /\ Balance(air', call) = Balance(air, call) - 8 * len + 36 * r
                       /\ started => /\ air.fn = 1 /\ call = air.tn
                                     /\ air.bit + len >= BitsPerSlot
                       /\ ~started => since
    BY <1>7 DEF PlayStep
<1>9. quiet' \in [samples : Nat, calls : Nat]
    <2>1. out'.silence \in Nat
        BY <1>2, <1>3, <1>8, SilenceStep
    <2> QED
        BY <1>8, <2>1 DEF Hush, NotQuiet
<1>10. ASSUME since'
      PROVE  \E first \in Lens :
                 /\ Account' - 36 * quiet'.samples + 4 * quiet'.calls
                        >= Balance(air', call') - 8 * (first + 4)
                 /\ 36 * quiet'.samples <= 4 * quiet'.calls + 8 * (first + 4)
    <2>1. PICK first \in Lens :
              /\ started => Account >= Balance(air, call) - 8 * (first + 4)
              /\ ~started =>
                    /\ Account - 36 * quiet.samples + 4 * quiet.calls
                           >= Balance(air, call) - 8 * (first + 4)
                    /\ 36 * quiet.samples <= 4 * quiet.calls + 8 * (first + 4)
        <3>1. CASE started
            <4>1. Balance(air, call) = 8 * (BitsPerSlot - air.bit) /\ air.bit + len >= BitsPerSlot
                BY <1>3, <1>8, <1>10, <3>1, BalanceStarts
            <4>2. air.bit \in Nat
                BY <1>3 DEF Places
            <4>3. Account >= Balance(air, call) - 8 * (len + 4)
                BY <1>2, <1>3, <4>1, <4>2
            <4> QED
                BY <3>1, <4>3
        <3>2. CASE ~started
            BY <1>8, <1>10, <3>2
        <3> QED
            BY <3>1, <3>2
    <2>2. first \in Nat
        BY AudioPacingAssumption DEF AudioPacingAssumption
    <2>3. Balance(air, call) \in Nat /\ Balance(air', call) \in Nat
        BY <1>3, <1>8, <1>10, BalanceIsNat
    <2>4. PICK slack \in Nat : slack = 8 * (first + 4)
        BY <2>2
    <2>5. PICK balance \in Int : balance = Balance(air, call)
        BY <2>3
    <2>6. balance - 8 * len + 36 * r >= 0
        BY <1>8, <1>10, <2>3, <2>5
    <2>7. /\ Account' - 36 * quiet'.samples + 4 * quiet'.calls
                 >= balance - 8 * len + 36 * r - slack
          /\ 36 * quiet'.samples <= 4 * quiet'.calls + slack
        BY <1>2, <1>3, <1>8, <1>10, <2>1, <2>4, <2>5, <2>6, HushStep
    <2>8. Balance(air', call') = balance - 8 * len + 36 * r
        BY <1>8, <1>10, <2>5
    <2>9. /\ Account' - 36 * quiet'.samples + 4 * quiet'.calls
                 >= Balance(air', call') - 8 * (first + 4)
          /\ 36 * quiet'.samples <= 4 * quiet'.calls + 8 * (first + 4)
        BY <1>2, <2>2, <2>4, <2>7, <2>8
    <2> QED
        BY <2>9
<1> QED
    BY <1>3, <1>8, <1>9, <1>10

LEMMA SpeechNext == SpeechInv /\ [Next]_vars => SpeechInv'
<1> SUFFICES ASSUME SpeechInv, [Next]_vars PROVE SpeechInv'
    OBVIOUS
<1> USE DEF SpeechInv
<1>1. LagInv' /\ BegunInv'
    BY LagNext, BegunNext
<1>2. CASE Process
    BY <1>2, SpeechProcess
<1>3. CASE CallEnds
    BY <1>1, <1>3 DEF CallEnds, NotQuiet
<1>4. CASE \E tn \in CallSlots : CallBegins(tn)
    BY <1>1, <1>4 DEF CallBegins
<1>5. CASE UNCHANGED vars
    <2>1. UNCHANGED <<inSyms, outSyms, quiet, since, call, air>>
        BY <1>5 DEF vars
    <2>2. Account' = Account
        BY <2>1 DEF Account
    <2> QED
        BY <1>1, <2>1, <2>2
<1> QED
    BY <1>2, <1>3, <1>4, <1>5 DEF Next

\* What is played fits into the ring buffer (put_voice_data); from the first speech of a
\* call that is played on, all that is received of it is (tp_sap_udata_ind); and a call
\* played from the first frame of a multiframe on is not broken by silence (process),
\* whatever the lengths of the chunks: what it is ahead lasts until its next speech but for
\* the rounding of each call and the bits of one chunk.
THEOREM SpeechStaysWhole == Spec => []SpeechIsUnbroken
<1>1. SpeechInv => SpeechIsUnbroken
    BY DEF SpeechInv, BegunInv, LagInv, PacingInv, SpeechIsUnbroken
<1> QED
    BY <1>1, SpeechInit, SpeechNext, PTL DEF Spec
=============================================================================
