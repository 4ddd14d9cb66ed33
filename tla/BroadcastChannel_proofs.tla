---------------------- MODULE BroadcastChannel_proofs ----------------------
(***************************************************************************)
(* What is proved of the channel coding and of the broadcast channel that  *)
(* is received with it: the metrics of the Viterbi decoder fit into 16     *)
(* bits whatever is received; a code word without errors is decoded to     *)
(* what was encoded, and whatever the errors are, no code word is closer   *)
(* to what was received than the path that is traced; the CRC tells bursts *)
(* of errors of up to 16 bits; a block that arrives as it was sent passes; *)
(* the blocks of a burst are cut out where they were put, whichever way    *)
(* its symbols are turned; and if nothing passes but what was sent, the    *)
(* receiver is right about the time, the cell and the network broadcast    *)
(* channel.                                                                *)
(*                                                                         *)
(* A loop of the code is proved about by what its turns make, in a row:    *)
(* such a row exists, the operators of ChannelCoding come to its last      *)
(* element, and what holds of all of them is shown by induction.           *)
(***************************************************************************)
EXTENDS BroadcastChannel, SequenceTheorems, WellFoundedInduction, TLAPS

Bit == {0, 1}
-----------------------------------------------------------------------------
(* The operators of ChannelCoding, element by element: what the encoder,   *)
(* the puncturing, the trellis and its metrics make.                       *)

\* A sequence made of a function by SubSeq is the function.
LEMMA BitsAre ==
    ASSUME NEW S, NEW n \in Nat, NEW f \in [1 .. n -> S]
    PROVE  Bits(f, n) = f
BY DEF Bits
\* The same for a function whose range is not known.
LEMMA BitsOf ==
    ASSUME NEW n \in Nat, NEW f, f = [i \in 1 .. n |-> f[i]]
    PROVE  Bits(f, n) = f
<1> DEFINE S == {f[i] : i \in 1 .. n}
<1>1. f \in [1 .. n -> S]
    OBVIOUS
<1> HIDE DEF S
<1> QED BY <1>1, BitsAre
\* The sum of two bits without its carry is a bit.
LEMMA Xors == ASSUME NEW x \in Int, NEW y \in Int PROVE Xor(x, y) \in Bit
BY DEF Xor, Bit
\* The bits of the encoder: none before the first, and zeros after the last.
B(in, n, i) == IF i \in 1 .. n THEN in[i] ELSE 0
Code(a, b, c, d, e) == <<Xor(a + b, e), Xor(a + c, d + e), Xor(a + b, c + e), Xor(a + b, d + e)>>
CodeAt(in, n, i) == Code(B(in, n, i), B(in, n, i - 1), B(in, n, i - 2), B(in, n, i - 3), B(in, n, i - 4))

\* The encoder makes four bits of a bit and the four before it.
LEMMA CodeType ==
    ASSUME NEW a \in Bit, NEW b \in Bit, NEW c \in Bit, NEW d \in Bit, NEW e \in Bit
    PROVE  Code(a, b, c, d, e) \in [1 .. 4 -> Bit]
<1>1. Xor(a + b, e) \in Bit /\ Xor(a + c, d + e) \in Bit /\ Xor(a + b, c + e) \in Bit
      /\ Xor(a + b, d + e) \in Bit
    BY Xors DEF Bit
<1> QED BY <1>1 DEF Code

\* conv_enc_in_bit, bit by bit: symbol c of step i.
LEMMA ConvEncIs ==
    ASSUME NEW n \in Nat, NEW in \in [1 .. n -> Bit]
    PROVE  /\ ConvEnc(in) \in [1 .. 4 * n -> Bit]
           /\ \A i \in 1 .. n, c \in 1 .. 4 : ConvEnc(in)[4 * (i - 1) + c] = CodeAt(in, n, i)[c]
<1> DEFINE enc == [k \in 1 .. 4 * n |-> CodeAt(in, n, (k + 3) \div 4)[((k + 3) % 4) + 1]]
           b(i) == IF i > 0 THEN in[i] ELSE 0
<1>1. ASSUME NEW i \in 1 .. n PROVE CodeAt(in, n, i) \in [1 .. 4 -> Bit]
  <2>1. \A j \in Int : B(in, n, j) \in Bit
        BY DEF B, Bit
  <2>   QED  BY <2>1, CodeType DEF CodeAt
<1>2. ASSUME NEW k \in 1 .. 4 * n PROVE (k + 3) \div 4 \in 1 .. n /\ ((k + 3) % 4) + 1 \in 1 .. 4
    OBVIOUS
<1>3. enc \in [1 .. 4 * n -> Bit]
    BY <1>1, <1>2
<1>4. ASSUME NEW k \in 1 .. 4 * n
      PROVE  CodeAt(in, n, (k + 3) \div 4)[((k + 3) % 4) + 1]
             = LET i == (k + 3) \div 4
               IN <<Xor(b(i) + b(i - 1), b(i - 4)), Xor(b(i) + b(i - 2), b(i - 3) + b(i - 4)),
                  Xor(b(i) + b(i - 1), b(i - 2) + b(i - 4)), Xor(b(i) + b(i - 1), b(i - 3) + b(i - 4))>>[((k + 3) % 4) + 1]
  <2> DEFINE i == (k + 3) \div 4
  <2>1. i \in 1 .. n
        BY <1>2
  <2>   HIDE DEF i
  <2>2. \A j \in {i, i - 1, i - 2, i - 3, i - 4} : b(j) = B(in, n, j)
        BY <2>1 DEF B
  <2>   QED  BY <2>2 DEF CodeAt, Code, i
<1>5. ConvEnc(in) = enc
  <2>1. Len(in) = n
        OBVIOUS
  <2> DEFINE g(i) == <<Xor(b(i) + b(i - 1), b(i - 4)), Xor(b(i) + b(i - 2), b(i - 3) + b(i - 4)),
                       Xor(b(i) + b(i - 1), b(i - 2) + b(i - 4)), Xor(b(i) + b(i - 1), b(i - 3) + b(i - 4))>>
             raw == [k \in 1 .. 4 * n |-> g((k + 3) \div 4)[((k + 3) % 4) + 1]]
  <2>2. ConvEnc(in) = Bits(raw, 4 * n)
        BY <2>1, Zenon DEF ConvEnc
  <2>3. raw = enc
        BY <1>4
  <2>4. 4 * n \in Nat
        OBVIOUS
  <2>   HIDE DEF enc, raw
  <2>5. Bits(enc, 4 * n) = enc
        BY <2>4, <1>3, BitsAre
  <2>   QED  BY <2>2, <2>3, <2>5
<1>6. ASSUME NEW i \in 1 .. n, NEW c \in 1 .. 4
      PROVE  enc[4 * (i - 1) + c] = CodeAt(in, n, i)[c]
  <2>1. 4 * (i - 1) + c \in 1 .. 4 * n /\ ((4 * (i - 1) + c) + 3) \div 4 = i
        /\ (((4 * (i - 1) + c) + 3) % 4) + 1 = c
        OBVIOUS
  <2>   QED  BY <2>1
<1> QED BY <1>3, <1>5, <1>6

\* The symbols of a step that are not punctured, and where they are.
Known(i, c) == c = 1 \/ (c = 2 /\ i % 2 = 1)
PlaceOf(i, c) == 3 * ((i - 1) \div 2) + (IF i % 2 = 1 THEN c ELSE 3)

\* They are within the code words.
LEMMA PlacesOf ==
    ASSUME NEW n \in Nat, NEW k \in Nat, 2 * k = 3 * n, NEW i \in 1 .. n, NEW c \in 1 .. 4
    PROVE  4 * (i - 1) + c \in 1 .. 4 * n /\ (Known(i, c) => PlaceOf(i, c) \in 1 .. k)
BY DEF Known, PlaceOf

\* tetra_rcpc_depunct, symbol by symbol.
LEMMA DepuncturedIs ==
    ASSUME NEW n \in Nat, NEW in
    PROVE  \A i \in 1 .. n, c \in 1 .. 4 :
             Depunctured(in, 4 * n)[4 * (i - 1) + c] = IF Known(i, c) THEN in[PlaceOf(i, c)] ELSE Erased
<1> DEFINE at(m) == ((m - 1) % 8) + 1
           j(m) == 3 * ((m - 1) \div 8)
           raw == [m \in 1 .. 4 * n |-> CASE at(m) = 1 -> in[j(m) + 1]
                                          [] at(m) = 2 -> in[j(m) + 2]
                                          [] at(m) = 5 -> in[j(m) + 3]
                                          [] OTHER -> Erased]
<1>1. ASSUME NEW i \in 1 .. n, NEW c \in 1 .. 4, NEW m, m = 4 * (i - 1) + c
      PROVE  /\ Known(i, c) <=> at(m) \in {1, 2, 5}
             /\ i % 2 = 1 => at(m) = c /\ j(m) = 3 * ((i - 1) \div 2)
             /\ i % 2 # 1 => at(m) = c + 4 /\ j(m) = 3 * ((i - 1) \div 2)
    BY <1>1 DEF Known
<1>2. ASSUME NEW i \in 1 .. n, NEW c \in 1 .. 4
      PROVE  raw[4 * (i - 1) + c] = IF Known(i, c) THEN in[PlaceOf(i, c)] ELSE Erased
  <2>1. PICK m \in 1 .. 4 * n : m = 4 * (i - 1) + c
        OBVIOUS
  <2>2. /\ Known(i, c) <=> at(m) \in {1, 2, 5}
        /\ i % 2 = 1 => at(m) = c /\ j(m) = 3 * ((i - 1) \div 2)
        /\ i % 2 # 1 => at(m) = c + 4 /\ j(m) = 3 * ((i - 1) \div 2)
        BY <1>1, <2>1, Zenon
  <2>3. raw[m] = CASE at(m) = 1 -> in[j(m) + 1]
                   [] at(m) = 2 -> in[j(m) + 2]
                   [] at(m) = 5 -> in[j(m) + 3]
                   [] OTHER -> Erased
        OBVIOUS
  <2>   HIDE DEF at, j, raw
  <2>4. CASE i % 2 = 1
    <3>1. CASE c = 1
      <4>1. at(m) = 1 /\ j(m) = 3 * ((i - 1) \div 2) /\ Known(i, c)
            BY <2>2, <2>4, <3>1 DEF Known
      <4>2. raw[m] = in[j(m) + 1]
            BY <2>3, <4>1
      <4>3. PlaceOf(i, c) = j(m) + 1
            BY <2>4, <3>1, <4>1 DEF PlaceOf
      <4>   QED  BY <2>1, <4>1, <4>2, <4>3
    <3>2. CASE c = 2
      <4>1. at(m) = 2 /\ j(m) = 3 * ((i - 1) \div 2) /\ Known(i, c)
            BY <2>2, <2>4, <3>2 DEF Known
      <4>2. raw[m] = in[j(m) + 2]
            BY <2>3, <4>1
      <4>3. PlaceOf(i, c) = j(m) + 2
            BY <2>4, <3>2, <4>1 DEF PlaceOf
      <4>   QED  BY <2>1, <4>1, <4>2, <4>3
    <3>3. CASE c \in {3, 4}
      <4>1. at(m) \notin {1, 2, 5} /\ ~Known(i, c)
            BY <2>2, <2>4, <3>3
      <4>2. raw[m] = Erased
            BY <2>3, <4>1
      <4>   QED  BY <2>1, <4>1, <4>2
    <3>   QED  BY <3>1, <3>2, <3>3
  <2>5. CASE i % 2 # 1
    <3>1. CASE c = 1
          BY <2>1, <2>2, <2>3, <2>5, <3>1 DEF Known, PlaceOf
    <3>2. CASE c # 1
          BY <2>1, <2>2, <2>3, <2>5, <3>2 DEF Known, PlaceOf
    <3>   QED  BY <3>1, <3>2
  <2>   QED  BY <2>4, <2>5
<1>3. Depunctured(in, 4 * n) = raw
  <2>1. Depunctured(in, 4 * n) = Bits(raw, 4 * n)
        BY Zenon DEF Depunctured
  <2>2. 4 * n \in Nat
        OBVIOUS
  <2>3. raw = [m \in 1 .. 4 * n |-> raw[m]]
        OBVIOUS
  <2>   HIDE DEF raw
  <2>4. Bits(raw, 4 * n) = raw
        BY <2>2, <2>3, BitsOf
  <2>   QED  BY <2>1, <2>4
<1> HIDE DEF raw
<1> QED BY <1>2, <1>3

\* get_punctured_rate, symbol by symbol.
LEMMA PuncturedIs ==
    ASSUME NEW n \in Nat, NEW k \in Nat, 2 * k = 3 * n, NEW mother \in [1 .. 4 * n -> Bit]
    PROVE  /\ Punctured(mother, k) \in [1 .. k -> Bit]
           /\ \A i \in 1 .. n, c \in 1 .. 4 :
                 Known(i, c) => Punctured(mother, k)[PlaceOf(i, c)] = mother[4 * (i - 1) + c]
<1> DEFINE from(j) == (8 * ((j - 1) \div 3)) + P_rate2_3[((j - 1) % 3) + 1]
           raw == [j \in 1 .. k |-> mother[from(j)]]
<1>1. ASSUME NEW j \in 1 .. k PROVE from(j) \in 1 .. 4 * n
  <2>1. CASE (j - 1) % 3 = 0
        BY <2>1 DEF P_rate2_3
  <2>2. CASE (j - 1) % 3 = 1
        BY <2>2 DEF P_rate2_3
  <2>3. CASE (j - 1) % 3 = 2
        BY <2>3 DEF P_rate2_3
  <2>   QED  BY <2>1, <2>2, <2>3
<1>2. ASSUME NEW i \in 1 .. n, NEW c \in 1 .. 4, Known(i, c)
      PROVE  PlaceOf(i, c) \in 1 .. k /\ from(PlaceOf(i, c)) = 4 * (i - 1) + c
  <2>1. PlaceOf(i, c) \in 1 .. k
        BY PlacesOf, <1>2
  <2>2. CASE i % 2 = 1
    <3>1. (PlaceOf(i, c) - 1) % 3 = c - 1 /\ (PlaceOf(i, c) - 1) \div 3 = (i - 1) \div 2
          BY <1>2, <2>2 DEF Known, PlaceOf
    <3>2. P_rate2_3[((PlaceOf(i, c) - 1) % 3) + 1] = c
          BY <1>2, <2>2, <3>1 DEF Known, P_rate2_3
    <3>3. 8 * ((i - 1) \div 2) = 4 * (i - 1)
          BY <2>2
    <3>   QED  BY <2>1, <3>1, <3>2, <3>3
  <2>3. CASE i % 2 # 1
    <3>1. (PlaceOf(i, c) - 1) % 3 = 2 /\ (PlaceOf(i, c) - 1) \div 3 = (i - 1) \div 2
          BY <1>2, <2>3 DEF Known, PlaceOf
    <3>2. P_rate2_3[((PlaceOf(i, c) - 1) % 3) + 1] = 5 /\ c = 1
          BY <1>2, <2>3, <3>1 DEF Known, P_rate2_3
    <3>3. 8 * ((i - 1) \div 2) + 5 = 4 * (i - 1) + 1
          BY <2>3
    <3>   QED  BY <2>1, <3>1, <3>2, <3>3
  <2>   QED  BY <2>2, <2>3
<1>3. raw \in [1 .. k -> Bit]
  <2>   HIDE DEF from
  <2>   QED  BY <1>1
<1>4. Punctured(mother, k) = raw
  <2>1. Punctured(mother, k) = Bits(raw, k)
        BY Zenon DEF Punctured
  <2>   HIDE DEF raw
  <2>   QED  BY <2>1, <1>3, BitsAre
<1> HIDE DEF from
<1> QED BY <1>2, <1>3, <1>4

\* The symbols of step i.
LEMMA SoftAre ==
    ASSUME NEW n \in Nat, NEW mother
    PROVE  \A i \in 1 .. n + 4, c \in 1 .. 4 :
             SoftBits(mother, n)[4 * (i - 1) + c] = IF i <= n THEN Soft(mother[4 * (i - 1) + c]) ELSE 0
<1> DEFINE len == 4 * (n + 4)
           raw == [k \in 1 .. len |-> IF k <= 4 * n THEN Soft(mother[k]) ELSE 0]
<1>1. raw \in [1 .. len -> {-127, 0, 127}]
    BY DEF Soft, INT8_MAX
<1>2. SoftBits(mother, n) = raw
  <2>1. N * TrellisLength(n) = len /\ N = 4 /\ len \in Nat
        BY DEF N, TrellisLength, K
  <2>2. SoftBits(mother, n) = Bits(raw, len)
        BY <2>1 DEF SoftBits
  <2>   HIDE DEF raw, len
  <2>   QED  BY <2>1, <2>2, <1>1, BitsAre
<1>3. ASSUME NEW i \in 1 .. n + 4, NEW c \in 1 .. 4
      PROVE  4 * (i - 1) + c \in 1 .. len /\ (4 * (i - 1) + c <= 4 * n <=> i <= n)
    OBVIOUS
<1> QED BY <1>2, <1>3

OutputTable ==
    <<<<1, 1, 1, 1>>, <<1, -1, 1, -1>>, <<1, -1, -1, 1>>, <<1, 1, -1, -1>>,
      <<-1, 1, -1, -1>>, <<-1, -1, -1, 1>>, <<-1, -1, 1, -1>>, <<-1, 1, 1, 1>>>>

\* gen_state_info makes this table.
LEMMA OutputsAre == Outputs = OutputTable
<1> DEFINE out(state) == BitSwap(NextOutput[BitSwap(LShift(state, 0)) + 1])
<1>1. \A v \in 0 .. 15 : /\ BitOf(v, 0) = v % 2 /\ BitOf(v, 1) = (v \div 2) % 2
                         /\ BitOf(v, 2) = (v \div 4) % 2 /\ BitOf(v, 3) = (v \div 8) % 2
    BY DEF BitOf
<1>2. ASSUME NEW s \in 1 .. 8
      PROVE  Bits([i \in 1 .. N |-> 1 - 2 * BitOf(out(s - 1), i - 1)], N) = OutputTable[s]
  <2> DEFINE o == out(s - 1)
  <2>1. o \in 0 .. 15 /\ <<1 - 2 * (o % 2), 1 - 2 * ((o \div 2) % 2), 1 - 2 * ((o \div 4) % 2), 1 - 2 * ((o \div 8) % 2)>>
              = OutputTable[s]
    <3>1. \A v \in 0 .. 15 : BitSwap(v) = 8 * (v % 2) + 4 * ((v \div 2) % 2) + 2 * ((v \div 4) % 2) + ((v \div 8) % 2)
          BY <1>1 DEF BitSwap
    <3>2. LShift(s - 1, 0) = 2 * (s - 1) /\ LShift(s - 1, 0) \in 0 .. 15
          BY DEF LShift
    <3>3. s \in {1, 2, 3, 4, 5, 6, 7, 8}
          OBVIOUS
    <3>4. NextOutput[BitSwap(LShift(s - 1, 0)) + 1] = <<0, 5, 6, 3, 11, 14, 13, 8>>[s]
          BY <3>1, <3>2, <3>3 DEF NextOutput
    <3>5. o = BitSwap(<<0, 5, 6, 3, 11, 14, 13, 8>>[s])
          BY <3>4
    <3>   QED  BY <3>1, <3>3, <3>5 DEF OutputTable
  <2>   HIDE DEF o
  <2>2. \A i \in 1 .. 4 : BitOf(o, i - 1) \in Bit
        BY <1>1, <2>1 DEF Bit
  <2>3. [i \in 1 .. 4 |-> 1 - 2 * BitOf(o, i - 1)] \in [1 .. 4 -> {-1, 1}]
        BY <2>2 DEF Bit
  <2>4. [i \in 1 .. 4 |-> 1 - 2 * BitOf(o, i - 1)] = OutputTable[s]
        BY <2>1, <1>1 DEF OutputTable
  <2>   QED  BY <2>3, <2>4, BitsAre DEF N, o
<1>3. [s \in 1 .. 8 |-> OutputTable[s]] = OutputTable
    BY DEF OutputTable
<1>4. OutputTable \in [1 .. 8 -> [1 .. 4 -> {-1, 1}]]
    BY DEF OutputTable
<1>5. Outputs = Bits([s \in 1 .. 8 |-> OutputTable[s]], 8)
    BY <1>2, Zenon DEF Outputs
<1> QED BY <1>3, <1>4, <1>5, BitsAre

\* A row of the trellis: with each state its metric and the way to it.
Row == [1 .. 16 -> Int \X Bit]
States == 0 .. 15

\* What the way w into state s adds to the metric.
Gain(metric, s, w) == IF (s < 8) = (w = 0) THEN metric[(s % 8) + 1] ELSE -metric[(s % 8) + 1]

\* The states before a state, by vstate_lshift.
LEMMA StatesBefore ==
    ASSUME NEW s \in States
    PROVE  /\ LShift(s, 0) \in States /\ LShift(s, 1) = LShift(s, 0) + 1 /\ LShift(s, 1) \in States
           /\ LShift(s, 0) = IF s < 8 THEN 2 * s ELSE 2 * s - 16
BY DEF LShift, States

\* gen_path_metrics, state by state.
LEMMA StepIs ==
    ASSUME NEW sums \in Row, NEW metric \in [1 .. 8 -> Int]
    PROVE  /\ Step(sums, metric) \in Row
           /\ \A s \in States :
                Step(sums, metric)[s + 1] = Survivor(sums[LShift(s, 0) + 1][1] + Gain(metric, s, 0),
                                                     sums[LShift(s, 1) + 1][1] + Gain(metric, s, 1))
<1> DEFINE new(t) == IF t <= 8 THEN Survivor(sums[2 * t - 1][1] + metric[t], sums[2 * t][1] - metric[t])
                     ELSE Survivor(sums[2 * t - 17][1] - metric[t - 8], sums[2 * t - 16][1] + metric[t - 8])
           raw == [t \in 1 .. 16 |-> new(t)]
<1>1. ASSUME NEW s \in States
      PROVE  new(s + 1) = Survivor(sums[LShift(s, 0) + 1][1] + Gain(metric, s, 0),
                                   sums[LShift(s, 1) + 1][1] + Gain(metric, s, 1))
  <2>1. CASE s < 8
    <3>1. s \in 0 .. 7 /\ s % 8 = s /\ LShift(s, 0) + 1 = 2 * (s + 1) - 1 /\ LShift(s, 1) + 1 = 2 * (s + 1)
          BY <2>1, StatesBefore DEF States
    <3>2. Gain(metric, s, 0) = metric[s + 1] /\ Gain(metric, s, 1) = -metric[s + 1]
          BY <2>1, <3>1 DEF Gain
    <3>3. sums[2 * (s + 1)][1] \in Int /\ metric[s + 1] \in Int
          BY <3>1 DEF Row
    <3>4. sums[2 * (s + 1)][1] - metric[s + 1] = sums[2 * (s + 1)][1] + -metric[s + 1]
          BY <3>3
    <3>   QED  BY <3>1, <3>2, <3>4
  <2>2. CASE s >= 8
    <3>1. s \in 8 .. 15 /\ s % 8 = s - 8 /\ LShift(s, 0) + 1 = 2 * (s + 1) - 17 /\ LShift(s, 1) + 1 = 2 * (s + 1) - 16
          BY <2>2, StatesBefore DEF States
    <3>2. Gain(metric, s, 0) = -metric[s - 7] /\ Gain(metric, s, 1) = metric[s - 7] /\ s + 1 - 8 = s - 7
          BY <2>2, <3>1 DEF Gain
    <3>3. sums[2 * (s + 1) - 17][1] \in Int /\ metric[s - 7] \in Int
          BY <3>1 DEF Row
    <3>4. sums[2 * (s + 1) - 17][1] - metric[s - 7] = sums[2 * (s + 1) - 17][1] + -metric[s - 7]
          BY <3>3
    <3>   QED  BY <3>1, <3>2, <3>4
  <2>   QED  BY <2>1, <2>2 DEF States
<1>2. ASSUME NEW t \in 1 .. 16 PROVE new(t) \in Int \X Bit
  <2>1. CASE t <= 8
    <3>1. sums[2 * t - 1][1] + metric[t] \in Int /\ sums[2 * t][1] - metric[t] \in Int
          BY <2>1 DEF Row
    <3>   QED  BY <2>1, <3>1 DEF Survivor, Bit
  <2>2. CASE t > 8
    <3>1. sums[2 * t - 17][1] - metric[t - 8] \in Int /\ sums[2 * t - 16][1] + metric[t - 8] \in Int
          BY <2>2 DEF Row
    <3>   QED  BY <2>2, <3>1 DEF Survivor, Bit
  <2>   QED  BY <2>1, <2>2
<1>3. Step(sums, metric) = Bits(raw, 16)
    BY Zenon DEF Step
<1> HIDE DEF new
<1>4. raw \in Row
    BY <1>2 DEF Row
<1>5. \A s \in States : raw[s + 1] = new(s + 1)
    BY DEF States
<1> HIDE DEF raw
<1>6. Bits(raw, 16) = raw
    BY <1>4, BitsAre DEF Row
<1> QED BY <1>1, <1>3, <1>4, <1>5, <1>6

\* The symbols of a step: two at most that are not 0.
TwoKnown(soft, len) ==
    /\ \A i \in 1 .. len : \A c \in 1 .. 2 : soft[4 * (i - 1) + c] \in {-127, 0, 127}
    /\ \A i \in 1 .. len : \A c \in 3 .. 4 : soft[4 * (i - 1) + c] = 0

\* The metrics of the ways for two symbols.
MetricOf(x, y) == [s \in 1 .. 8 |-> x * OutputTable[s][1] + y * OutputTable[s][2]]

\* gen_branch_metrics_n4, if only two symbols of a step are known.
LEMMA MetricsAre ==
    ASSUME NEW soft, NEW len \in Nat, TwoKnown(soft, len), NEW i \in 1 .. len
    PROVE  Metrics(Outputs, soft, N * (i - 1)) = MetricOf(soft[4 * (i - 1) + 1], soft[4 * (i - 1) + 2])
<1>1. PICK x \in Int, y \in Int : x = soft[4 * (i - 1) + 1] /\ y = soft[4 * (i - 1) + 2]
    BY DEF TwoKnown
<1>2. soft[4 * (i - 1) + 3] = 0 /\ soft[4 * (i - 1) + 4] = 0
    BY DEF TwoKnown
<1>3. \A s \in 1 .. 8 : \A c \in 1 .. 4 : OutputTable[s][c] \in {-1, 1}
    BY DEF OutputTable
<1>4. MetricOf(x, y) \in [1 .. 8 -> Int]
    BY <1>3 DEF MetricOf
<1> DEFINE raw == [s \in 1 .. 8 |-> soft[N * (i - 1) + 1] * OutputTable[s][1] + soft[N * (i - 1) + 2] * OutputTable[s][2]
                          + soft[N * (i - 1) + 3] * OutputTable[s][3] + soft[N * (i - 1) + 4] * OutputTable[s][4]]
<1>5. ASSUME NEW s \in 1 .. 8
      PROVE  soft[N * (i - 1) + 1] * OutputTable[s][1] + soft[N * (i - 1) + 2] * OutputTable[s][2]
               + soft[N * (i - 1) + 3] * OutputTable[s][3] + soft[N * (i - 1) + 4] * OutputTable[s][4]
             = x * OutputTable[s][1] + y * OutputTable[s][2]
  <2>1. N = 4
        BY DEF N
  <2>2. 0 * OutputTable[s][3] = 0 /\ 0 * OutputTable[s][4] = 0 /\ x * OutputTable[s][1] + y * OutputTable[s][2] \in Int
        BY <1>3
  <2>   QED  BY <1>1, <1>2, <2>1, <2>2
<1>6. raw = MetricOf(x, y)
    BY <1>5 DEF MetricOf
<1>7. Metrics(Outputs, soft, N * (i - 1)) = Bits(raw, 8)
    BY OutputsAre, Zenon DEF Metrics
<1> QED BY <1>1, <1>4, <1>6, <1>7, BitsAre

\* What a way adds is small, and the other way into a state adds as much less.
LEMMA MetricBounds ==
    ASSUME NEW x \in {-127, 0, 127}, NEW y \in {-127, 0, 127}
    PROVE  /\ MetricOf(x, y) \in [1 .. 8 -> Int]
           /\ \A s \in States, w \in Bit : /\ Gain(MetricOf(x, y), s, w) \in -254 .. 254
                                           /\ Gain(MetricOf(x, y), s, 1 - w) = -Gain(MetricOf(x, y), s, w)
<1>1. \A s \in 1 .. 8 : \A c \in 1 .. 4 : OutputTable[s][c] \in {-1, 1}
    BY DEF OutputTable
<1>2. \A s \in 1 .. 8 : x * OutputTable[s][1] + y * OutputTable[s][2] \in -254 .. 254
    BY <1>1
<1>3. MetricOf(x, y) = [s \in 1 .. 8 |-> x * OutputTable[s][1] + y * OutputTable[s][2]]
    BY DEF MetricOf
<1>4. ASSUME NEW s \in States, NEW w \in Bit
      PROVE  /\ Gain(MetricOf(x, y), s, w) \in -254 .. 254
             /\ Gain(MetricOf(x, y), s, 1 - w) = -Gain(MetricOf(x, y), s, w)
  <2>1. PICK t \in 1 .. 8 : t = (s % 8) + 1
        BY DEF States
  <2>  DEFINE m == x * OutputTable[t][1] + y * OutputTable[t][2]
  <2>2. m \in -254 .. 254
        BY <1>1
  <2>0. m = MetricOf(x, y)[t]
        BY <1>1, <1>3
  <2>  HIDE DEF m
  <2>3. -m \in -254 .. 254 /\ m = -(-m)
        BY <2>2
  <2>4. w = 0 \/ w = 1
        BY DEF Bit
  <2>   QED  BY <2>0, <2>1, <2>2, <2>3, <2>4 DEF Gain
<1>5. \A s \in 1 .. 8 : x * OutputTable[s][1] + y * OutputTable[s][2] \in Int
    BY <1>1
<1>6. MetricOf(x, y) \in [1 .. 8 -> Int]
    BY <1>3, <1>5
<1> QED BY <1>4, <1>6

-----------------------------------------------------------------------------
(* One step of the trellis, and the rows that all steps make.              *)

\* Induction over the numbers, for a set of them.
LEMMA NatSet ==
    ASSUME NEW S, 0 \in S, \A n \in Nat : n \in S => n + 1 \in S
    PROVE  Nat \subseteq S
<1> DEFINE T == Nat \ S
           R == OpToRel(<, Nat)
<1> SUFFICES ASSUME T # {} PROVE FALSE
    OBVIOUS
<1>1. PICK x \in T : \A y \in T : <<y, x>> \notin R
  <2>1. IsWellFoundedOn(R, Nat)
        BY NatLessThanWellFounded
  <2>   HIDE DEF R
  <2>   QED  BY <2>1, WFMin
<1>2. x \in Nat /\ x - 1 \in Nat /\ x - 1 \notin S
    OBVIOUS
<1>3. <<x - 1, x>> \in R
    BY <1>2 DEF OpToRel
<1> QED BY <1>1, <1>2, <1>3
\* The metric of a state in a row, and the way to it.
Sum(row, s) == row[s + 1][1]
Way(row, s) == row[s + 1][2]

\* A row has a metric and a way for each state.
LEMMA RowType ==
    ASSUME NEW row \in Row, NEW s \in States
    PROVE  Sum(row, s) \in Int /\ Way(row, s) \in Bit /\ row[s + 1] = <<Sum(row, s), Way(row, s)>>
BY DEF Row, States, Sum, Way

\* A step takes for each state the better of the ways to it.
LEMMA StepTakesTheBest ==
    ASSUME NEW row \in Row, NEW x \in {-127, 0, 127}, NEW y \in {-127, 0, 127}, NEW s \in States,
           NEW g, g = MetricOf(x, y), NEW new, new = Step(row, g)
    PROVE  /\ new \in Row
           /\ \A w \in Bit : Sum(new, s) >= Sum(row, LShift(s, w)) + Gain(g, s, w)
           /\ Sum(new, s) = Sum(row, LShift(s, Way(new, s))) + Gain(g, s, Way(new, s))
           /\ Sum(row, LShift(s, 0)) + Gain(g, s, 0) >= Sum(row, LShift(s, 1)) + Gain(g, s, 1)
                <=> Way(new, s) = 0
<1>1. g \in [1 .. 8 -> Int]
    BY MetricBounds
<1>2. new \in Row /\ new[s + 1] = Survivor(row[LShift(s, 0) + 1][1] + Gain(g, s, 0),
                                           row[LShift(s, 1) + 1][1] + Gain(g, s, 1))
    BY <1>1, StepIs
<1>3. PICK a \in Int, b \in Int : a = Sum(row, LShift(s, 0)) + Gain(g, s, 0)
                                  /\ b = Sum(row, LShift(s, 1)) + Gain(g, s, 1)
  <2>1. Sum(row, LShift(s, 0)) \in Int /\ Sum(row, LShift(s, 1)) \in Int
        BY StatesBefore, RowType
  <2>2. Gain(g, s, 0) \in Int /\ Gain(g, s, 1) \in Int
    <3>1. \A w \in Bit : Gain(g, s, w) \in -254 .. 254
          BY MetricBounds
    <3>2. 0 \in Bit /\ 1 \in Bit
          BY DEF Bit
    <3>   QED  BY <3>1, <3>2
  <2>   QED  BY <2>1, <2>2
<1>4. new[s + 1] = Survivor(a, b)
    BY <1>2, <1>3 DEF Sum
<1>5. CASE a >= b
  <2>1. Sum(new, s) = a /\ Way(new, s) = 0
        BY <1>4, <1>5 DEF Sum, Way, Survivor
  <2>   QED  BY <1>2, <1>3, <1>5, <2>1 DEF Bit
<1>6. CASE ~(a >= b)
  <2>1. Sum(new, s) = b /\ Way(new, s) = 1
        BY <1>4, <1>6 DEF Sum, Way, Survivor
  <2>   QED  BY <1>2, <1>3, <1>6, <2>1 DEF Bit
<1> QED BY <1>5, <1>6

\* Some state has the least metric.
LEMMA SomeSumIsLeast ==
    ASSUME NEW row \in Row
    PROVE  \E t \in States : \A s \in States : Sum(row, t) <= Sum(row, s)
<1> DEFINE S == {n \in Nat : n \in States => \E t \in States : \A s \in 0 .. n : Sum(row, t) <= Sum(row, s)}
<1>1. \A s \in States : Sum(row, s) \in Int
    BY RowType
<1>2. 0 \in S
    BY <1>1 DEF States
<1>3. ASSUME NEW n \in Nat, n \in S PROVE n + 1 \in S
  <2> SUFFICES ASSUME n + 1 \in States
               PROVE  \E t \in States : \A s \in 0 .. n + 1 : Sum(row, t) <= Sum(row, s)
      OBVIOUS
  <2>1. PICK t \in States : \A s \in 0 .. n : Sum(row, t) <= Sum(row, s)
        BY <1>3 DEF States
  <2>2. CASE Sum(row, t) <= Sum(row, n + 1)
    <3>1. \A s \in 0 .. n + 1 : Sum(row, t) <= Sum(row, s)
          BY <2>1, <2>2
    <3>   QED  BY <3>1
  <2>3. CASE ~(Sum(row, t) <= Sum(row, n + 1))
    <3>1. ASSUME NEW s \in 0 .. n + 1 PROVE Sum(row, n + 1) <= Sum(row, s)
      <4>1. s \in States
            BY DEF States
      <4>2. Sum(row, s) \in Int /\ Sum(row, t) \in Int /\ Sum(row, n + 1) \in Int
            BY <1>1, <4>1
      <4>3. CASE s \in 0 .. n
            BY <2>1, <2>3, <4>2, <4>3
      <4>4. CASE s = n + 1
            BY <4>2, <4>4
      <4>   QED  BY <4>3, <4>4
    <3>   QED  BY <3>1
  <2>   QED  BY <2>2, <2>3
<1> HIDE DEF S
<1>4. 15 \in S
    BY <1>2, <1>3, NatSet
<1> QED BY <1>4 DEF S, States

\* The normalisation takes the same from all metrics.
LEMMA KeptIs ==
    ASSUME NEW row \in Row, NEW i \in Nat
    PROVE  /\ Kept(row, i) \in Row
           /\ \E d \in Int : /\ \A s \in States : /\ Sum(Kept(row, i), s) = Sum(row, s) - d
                                                  /\ Way(Kept(row, i), s) = Way(row, s)
                             /\ IF Normalises(i) THEN /\ \A s \in States : Sum(row, s) >= d
                                                      /\ \E s \in States : Sum(row, s) = d
                                ELSE d = 0
<1>1. CASE ~Normalises(i)
  <2>1. Kept(row, i) = row
        BY <1>1 DEF Kept
  <2>2. \A s \in States : Sum(row, s) = Sum(row, s) - 0
        BY RowType
  <2>   QED  BY <1>1, <2>1, <2>2
<1>2. CASE Normalises(i)
  <2>1. PICK t \in States : \A s \in States : Sum(row, t) <= Sum(row, s)
        BY SomeSumIsLeast
  <2> DEFINE d == Least(MetricsOf(row))
  <2>2. MetricsOf(row) = {Sum(row, s) : s \in States}
    <3>1. \A m \in 1 .. 16 : m - 1 \in States /\ (m - 1) + 1 = m
          BY DEF States
    <3>2. \A s \in States : s + 1 \in 1 .. 16
          BY DEF States
    <3>   QED  BY <3>1, <3>2 DEF MetricsOf, Sum
  <2>3. d \in MetricsOf(row) /\ \A m \in MetricsOf(row) : d <= m
    <3>1. \E m \in MetricsOf(row) : \A k \in MetricsOf(row) : m <= k
          BY <2>1, <2>2
    <3>   QED  BY <3>1 DEF Least
  <2> HIDE DEF d
  <2>4. d \in Int /\ (\E s \in States : Sum(row, s) = d) /\ \A s \in States : Sum(row, s) >= d
        BY <2>2, <2>3, RowType
  <2> DEFINE raw == [m \in 1 .. 16 |-> <<row[m][1] - d, row[m][2]>>]
  <2>5. raw \in Row
    <3>1. \A m \in 1 .. 16 : row[m][1] - d \in Int /\ row[m][2] \in Bit
          BY <2>4 DEF Row
    <3>   QED  BY <3>1 DEF Row
  <2>6. Kept(row, i) = raw
    <3>1. Kept(row, i) = Bits(raw, 16)
          BY <1>2, Zenon DEF Kept, Normalised, d
    <3>   HIDE DEF raw
    <3>   QED  BY <2>5, <3>1, BitsAre DEF Row
  <2>7. ASSUME NEW s \in States PROVE Sum(raw, s) = Sum(row, s) - d /\ Way(raw, s) = Way(row, s)
    <3>1. s + 1 \in 1 .. 16
          BY DEF States
    <3>   QED  BY <3>1 DEF Sum, Way
  <2>   HIDE DEF raw
  <2>   QED  BY <1>2, <2>4, <2>5, <2>6, <2>7
<1> QED BY <1>1, <1>2

\* The rows that forward_traverse makes of soft bits: before the first step, and after each.
StepOf(sums, soft, i) == Step(sums[i], Metrics(Outputs, soft, N * (i - 1)))
Traversed(sums, soft, len) ==
    /\ sums[1] = FreshSums
    /\ \A i \in 1 .. len : sums[i + 1] = Kept(StepOf(sums, soft, i), i)

\* What vdec_init and osmo_conv_decode_reset start with.
LEMMA FreshSumsAre ==
    /\ FreshSums \in Row
    /\ \A s \in States : Sum(FreshSums, s) = IF s = 0 THEN 2540 ELSE 0
<1> DEFINE raw == [s \in 1 .. 16 |-> <<IF s = 1 THEN INT8_MAX * N * K ELSE 0, 0>>]
<1>1. INT8_MAX * N * K = 2540
    BY DEF INT8_MAX, N, K
<1>2. raw \in Row
    BY <1>1 DEF Row, Bit
<1>3. FreshSums = raw
  <2>1. FreshSums = Bits(raw, 16)
        BY Zenon DEF FreshSums
  <2>   HIDE DEF raw
  <2>   QED  BY <2>1, <1>2, BitsAre DEF Row
<1>4. \A s \in States : raw[s + 1][1] = IF s = 0 THEN 2540 ELSE 0
    BY <1>1 DEF States
<1> QED BY <1>2, <1>3, <1>4 DEF Sum

\* What a step makes of the rows.
Symbols(soft, i) == MetricOf(soft[4 * (i - 1) + 1], soft[4 * (i - 1) + 2])

\* It is a step with the metrics of two symbols.
LEMMA StepOfIs ==
    ASSUME NEW soft, NEW len \in Nat, TwoKnown(soft, len), NEW i \in 1 .. len, NEW sums
    PROVE  /\ StepOf(sums, soft, i) = Step(sums[i], Symbols(soft, i))
           /\ \E x \in {-127, 0, 127}, y \in {-127, 0, 127} : Symbols(soft, i) = MetricOf(x, y)
<1>1. soft[4 * (i - 1) + 1] \in {-127, 0, 127} /\ soft[4 * (i - 1) + 2] \in {-127, 0, 127}
    BY DEF TwoKnown
<1> QED BY <1>1, MetricsAre DEF StepOf, Symbols

\* All rows that forward_traverse makes have their type.
LEMMA RowsAreTyped ==
    ASSUME NEW soft, NEW len \in Nat, TwoKnown(soft, len), NEW sums, Traversed(sums, soft, len)
    PROVE  /\ \A i \in 1 .. len + 1 : sums[i] \in Row
           /\ \A i \in 1 .. len : StepOf(sums, soft, i) \in Row
<1> DEFINE S == {n \in Nat : n <= len => sums[n + 1] \in Row}
<1>1. ASSUME NEW i \in 1 .. len, sums[i] \in Row PROVE StepOf(sums, soft, i) \in Row
  <2>1. PICK x \in {-127, 0, 127}, y \in {-127, 0, 127} :
          StepOf(sums, soft, i) = Step(sums[i], MetricOf(x, y))
        BY StepOfIs
  <2>2. MetricOf(x, y) \in [1 .. 8 -> Int]
        BY MetricBounds
  <2>   QED  BY <1>1, <2>1, <2>2, StepIs
<1>2. 0 \in S
    BY FreshSumsAre DEF Traversed
<1>3. ASSUME NEW n \in Nat, n \in S PROVE n + 1 \in S
  <2> SUFFICES ASSUME n + 1 <= len PROVE sums[(n + 1) + 1] \in Row
      OBVIOUS
  <2>1. n + 1 \in 1 .. len /\ sums[n + 1] \in Row
        BY <1>3
  <2>2. sums[(n + 1) + 1] = Kept(StepOf(sums, soft, n + 1), n + 1)
        BY <2>1 DEF Traversed
  <2>3. StepOf(sums, soft, n + 1) \in Row
        BY <1>1, <2>1
  <2>   QED  BY <2>2, <2>3, KeptIs
<1>4. \A n \in Nat : n \in S
  <2>   HIDE DEF S
  <2>   QED  BY <1>2, <1>3, NatSet
<1>5. ASSUME NEW i \in 1 .. len + 1 PROVE sums[i] \in Row
  <2>1. i - 1 \in Nat /\ i - 1 <= len /\ (i - 1) + 1 = i
        OBVIOUS
  <2>   QED  BY <2>1, <1>4
<1> QED BY <1>1, <1>5

-----------------------------------------------------------------------------
(* The metrics stay within 16 bits.                                        *)

\* How far the metrics of two states can be apart: states that share their ways are closest.
Apart(s, t) == CASE s % 8 = t % 8 -> 2540
                 [] s % 8 # t % 8 /\ s % 4 = t % 4 -> 3048
                 [] s % 4 # t % 4 /\ s % 2 = t % 2 -> 3556
                 [] OTHER -> 4064
Close(row) == \A s, t \in States : Sum(row, s) - Sum(row, t) <= Apart(s, t)

\* States that are the same in their lower bits.
LEMMA Moduli ==
    ASSUME NEW s \in States, NEW t \in States
    PROVE  (s % 8 = t % 8 => s % 4 = t % 4) /\ (s % 4 = t % 4 => s % 2 = t % 2)
<1>1. \A u \in States : u % 2 = (u % 4) % 2 /\ u % 4 = (u % 8) % 4
    BY DEF States
<1> QED BY <1>1

\* The lower bits of the state before are those of the state, and the one shifted out.
LEMMA Halves ==
    ASSUME NEW w \in Bit
    PROVE  \A s \in States : /\ LShift(s, w) % 2 = w
                             /\ LShift(s, w) % 4 = 2 * (s % 2) + w
                             /\ LShift(s, w) % 8 = 2 * (s % 4) + w
<1>1. CASE w = 0
    BY <1>1 DEF LShift, States
<1>2. CASE w = 1
    BY <1>2 DEF LShift, States
<1> QED BY <1>1, <1>2 DEF Bit

\* The states before are a bit closer.
LEMMA StatesBeforeAreCloser ==
    ASSUME NEW s \in States, NEW t \in States, NEW w \in Bit
    PROVE  IF s % 8 = t % 8 THEN LShift(s, w) = LShift(t, w) /\ Apart(s, t) = 2540
           ELSE Apart(LShift(s, w), LShift(t, w)) + 508 <= Apart(s, t)
<1>1. w = 0 \/ w = 1
    BY DEF Bit
<1>2. CASE s % 8 = t % 8
    BY <1>1, <1>2 DEF LShift, Apart, States
<1>3. CASE s % 8 # t % 8
  <2> DEFINE a == LShift(s, w)
             b == LShift(t, w)
  <2>1. a % 2 = b % 2 /\ (s % 2 = t % 2 => a % 4 = b % 4) /\ (s % 4 = t % 4 => a % 8 = b % 8)
        BY Halves
  <2>3. a \in States /\ b \in States
        BY <1>1, StatesBefore
  <2>   HIDE DEF a, b
  <2>4. CASE s % 4 = t % 4
    <3>1. Apart(a, b) = 2540 /\ Apart(s, t) = 3048
          BY <1>3, <2>1, <2>3, <2>4, Moduli DEF Apart
    <3>   QED  BY <1>3, <3>1 DEF a, b
  <2>5. CASE s % 4 # t % 4 /\ s % 2 = t % 2
    <3>1. Apart(a, b) \in {2540, 3048} /\ Apart(s, t) = 3556
          BY <1>3, <2>1, <2>3, <2>5, Moduli DEF Apart
    <3>   QED  BY <1>3, <3>1 DEF a, b
  <2>6. CASE s % 4 # t % 4 /\ s % 2 # t % 2
    <3>1. Apart(a, b) \in {2540, 3048, 3556} /\ Apart(s, t) = 4064
          BY <1>3, <2>1, <2>6, Moduli, <2>3 DEF Apart
    <3>   QED  BY <1>3, <3>1 DEF a, b
  <2>   QED  BY <2>4, <2>5, <2>6
<1> QED BY <1>2, <1>3

\* So a step keeps the metrics of any two states as close as Apart says.
LEMMA StepKeepsClose ==
    ASSUME NEW row \in Row, Close(row), NEW x \in {-127, 0, 127}, NEW y \in {-127, 0, 127}
    PROVE  Close(Step(row, MetricOf(x, y)))
<1> DEFINE g == MetricOf(x, y)
           new == Step(row, g)
<1> SUFFICES ASSUME NEW s \in States, NEW t \in States PROVE Sum(new, s) - Sum(new, t) <= Apart(s, t)
    BY DEF Close
<1>1. PICK w \in Bit : Sum(new, s) = Sum(row, LShift(s, w)) + Gain(g, s, w)
  <2>1. Way(new, s) \in Bit
        BY StepTakesTheBest, RowType
  <2>   QED  BY <2>1, StepTakesTheBest
<1>2. Sum(new, t) >= Sum(row, LShift(t, w)) + Gain(g, t, w)
    BY StepTakesTheBest
<1>3. LShift(s, w) \in States /\ LShift(t, w) \in States
    BY StatesBefore DEF Bit
<1>4. Gain(g, s, w) \in -254 .. 254 /\ Gain(g, t, w) \in -254 .. 254
    BY MetricBounds
<1>5. Sum(row, LShift(s, w)) \in Int /\ Sum(row, LShift(t, w)) \in Int
    BY <1>3, RowType
<1>6. new \in Row
    BY StepTakesTheBest
<1>7. Sum(new, s) \in Int /\ Sum(new, t) \in Int
    BY <1>6, RowType
<1>  HIDE DEF new, g
<1>8. CASE s % 8 = t % 8
  <2>1. LShift(s, w) = LShift(t, w) /\ Apart(s, t) = 2540
        BY <1>8, StatesBeforeAreCloser
  <2>   QED  BY <2>1, <1>1, <1>2, <1>4, <1>5, <1>7
<1>9. CASE s % 8 # t % 8
  <2>1. Apart(LShift(s, w), LShift(t, w)) + 508 <= Apart(s, t)
        BY <1>9, StatesBeforeAreCloser
  <2>2. Sum(row, LShift(s, w)) - Sum(row, LShift(t, w)) <= Apart(LShift(s, w), LShift(t, w))
        BY <1>3 DEF Close
  <2>3. Apart(LShift(s, w), LShift(t, w)) \in Int /\ Apart(s, t) \in Int
        BY DEF Apart
  <2>   QED  BY <2>1, <2>2, <2>3, <1>1, <1>2, <1>4, <1>5, <1>7
<1> QED BY <1>8, <1>9

\* The steps since the last normalisation, before step i.
Age(i) == (i + 57) % 59

\* The normalisation is done once in 59 steps, first in step 1, after which the age is 0.
LEMMA Ages ==
    ASSUME NEW i \in Nat, i >= 1
    PROVE  /\ Age(i) \in 0 .. 58
           /\ Age(i + 1) = IF Normalises(i) THEN 0 ELSE Age(i) + 1
<1>1. Interval = 59
  <2>1. N * INT8_MAX = 508 /\ INT16_MAX = 32767 /\ K = 5
        BY DEF N, INT8_MAX, INT16_MAX, K
  <2>2. 32767 \div 508 = 64
        OBVIOUS
  <2>   QED  BY <2>1, <2>2 DEF Interval
<1>2. Normalises(i) <=> (i - 1) % 59 = 0
    BY <1>1 DEF Normalises
<1>3. Age(i) \in 0 .. 58
    BY DEF Age
<1>4. (i - 1) % 59 = 0 => Age(i + 1) = 0
    BY DEF Age
<1>5. (i - 1) % 59 # 0 => Age(i + 1) = Age(i) + 1
    BY DEF Age
<1> QED BY <1>2, <1>3, <1>4, <1>5

\* A row whose metrics are close, and no further from the normalised ones than age steps.
Near(row, age) ==
    /\ Close(row)
    /\ \A s \in States : -254 * age <= Sum(row, s) /\ Sum(row, s) <= 4064 + 254 * age

\* A step takes the metrics at most 254 away.
LEMMA StepIsNear ==
    ASSUME NEW row \in Row, NEW age \in Nat, Near(row, age),
           NEW x \in {-127, 0, 127}, NEW y \in {-127, 0, 127}
    PROVE  Near(Step(row, MetricOf(x, y)), age + 1)
<1> DEFINE g == MetricOf(x, y)
           new == Step(row, g)
<1>1. Close(new)
    BY StepKeepsClose DEF Near
<1>2. ASSUME NEW s \in States
      PROVE  -254 * (age + 1) <= Sum(new, s) /\ Sum(new, s) <= 4064 + 254 * (age + 1)
  <2>1. PICK w \in Bit : Sum(new, s) = Sum(row, LShift(s, w)) + Gain(g, s, w)
    <3>1. Way(new, s) \in Bit
          BY StepTakesTheBest, RowType
    <3>   QED  BY <3>1, StepTakesTheBest
  <2>2. LShift(s, w) \in States
        BY StatesBefore DEF Bit
  <2>3. PICK a \in Int : a = Sum(row, LShift(s, w)) /\ -254 * age <= a /\ a <= 4064 + 254 * age
        BY <2>2, RowType DEF Near
  <2>4. PICK b \in -254 .. 254 : b = Gain(g, s, w)
        BY MetricBounds
  <2>   HIDE DEF new, g
  <2>   QED  BY <2>1, <2>3, <2>4
<1> QED BY <1>1, <1>2 DEF Near

\* The normalisation puts the least metric to 0, and the others stay close to it.
LEMMA KeptIsNear ==
    ASSUME NEW row \in Row, NEW i \in Nat, i >= 1, Near(row, Age(i) + 1)
    PROVE  Near(Kept(row, i), Age(i + 1))
<1>1. PICK d \in Int : /\ \A s \in States : Sum(Kept(row, i), s) = Sum(row, s) - d
                       /\ IF Normalises(i) THEN /\ \A s \in States : Sum(row, s) >= d
                                                /\ \E s \in States : Sum(row, s) = d
                          ELSE d = 0
    BY KeptIs
<1>2. \A s \in States : Sum(row, s) \in Int
    BY RowType
<1>3. Close(Kept(row, i))
  <2>1. \A s, t \in States : Sum(Kept(row, i), s) - Sum(Kept(row, i), t) = Sum(row, s) - Sum(row, t)
        BY <1>1, <1>2
  <2>   QED  BY <2>1 DEF Close, Near
<1>4. CASE Normalises(i)
  <2>1. Age(i + 1) = 0
        BY <1>4, Ages
  <2>2. PICK t \in States : Sum(row, t) = d
        BY <1>1, <1>4
  <2>3. ASSUME NEW s \in States PROVE 0 <= Sum(Kept(row, i), s) /\ Sum(Kept(row, i), s) <= 4064
    <3>1. Sum(row, s) - Sum(row, t) <= Apart(s, t) /\ Apart(s, t) \in {2540, 3048, 3556, 4064}
          BY DEF Near, Close, Apart
    <3>   QED  BY <3>1, <1>1, <1>2, <1>4, <2>2
  <2>   QED  BY <1>3, <2>1, <2>3 DEF Near
<1>5. CASE ~Normalises(i)
  <2>1. Age(i + 1) = Age(i) + 1 /\ d = 0
        BY <1>1, <1>5, Ages
  <2>2. \A s \in States : Sum(Kept(row, i), s) = Sum(row, s)
        BY <1>1, <1>2, <2>1
  <2>   QED  BY <1>3, <2>1, <2>2 DEF Near
<1> QED BY <1>4, <1>5

\* So all rows are as near as the steps since the last normalisation allow.
LEMMA RowsAreNear ==
    ASSUME NEW soft, NEW len \in Nat, TwoKnown(soft, len), NEW sums, Traversed(sums, soft, len)
    PROVE  \A i \in 1 .. len : Near(sums[i], Age(i)) /\ Near(StepOf(sums, soft, i), Age(i) + 1)
<1> DEFINE S == {n \in Nat : n < len => Near(sums[n + 1], Age(n + 1))}
<1>1. ASSUME NEW i \in 1 .. len, Near(sums[i], Age(i))
      PROVE  Near(StepOf(sums, soft, i), Age(i) + 1)
  <2>1. PICK x \in {-127, 0, 127}, y \in {-127, 0, 127} :
          StepOf(sums, soft, i) = Step(sums[i], MetricOf(x, y))
        BY StepOfIs
  <2>2. sums[i] \in Row /\ Age(i) \in Nat
        BY RowsAreTyped, Ages
  <2>   QED  BY <1>1, <2>1, <2>2, StepIsNear
<1>2. 0 \in S
  <2>1. Age(1) = 58
        BY DEF Age
  <2>2. Close(FreshSums)
    <3>1. \A s, t \in States : Apart(s, t) \in {2540, 3048, 3556, 4064}
          BY DEF Apart
    <3>   QED  BY <3>1, FreshSumsAre DEF Close
  <2>3. \A s \in States : Sum(FreshSums, s) \in {0, 2540}
        BY FreshSumsAre
  <2>   QED  BY <2>1, <2>2, <2>3 DEF Near, Traversed
<1>3. ASSUME NEW n \in Nat, n \in S PROVE n + 1 \in S
  <2> SUFFICES ASSUME n + 1 < len PROVE Near(sums[(n + 1) + 1], Age((n + 1) + 1))
      OBVIOUS
  <2>1. n + 1 \in 1 .. len /\ Near(sums[n + 1], Age(n + 1))
        BY <1>3
  <2>2. sums[(n + 1) + 1] = Kept(StepOf(sums, soft, n + 1), n + 1)
        BY <2>1 DEF Traversed
  <2>3. StepOf(sums, soft, n + 1) \in Row
        BY <2>1, RowsAreTyped
  <2>   QED  BY <1>1, <2>1, <2>2, <2>3, KeptIsNear
<1>4. \A n \in Nat : n \in S
  <2>   HIDE DEF S
  <2>   QED  BY <1>2, <1>3, NatSet
<1>5. ASSUME NEW i \in 1 .. len PROVE Near(sums[i], Age(i))
  <2>1. i - 1 \in Nat /\ i - 1 < len /\ (i - 1) + 1 = i
        OBVIOUS
  <2>   QED  BY <2>1, <1>4
<1> QED BY <1>1, <1>5

\* What the decoder makes of a block leaves two symbols of each step that are not 0.
LEMMA TwoAreKnown ==
    ASSUME NEW n \in Nat, NEW in, NEW soft, soft = SoftBits(Depunctured(in, N * n), n)
    PROVE  TwoKnown(soft, TrellisLength(n)) /\ TrellisLength(n) = n + 4
<1> DEFINE mother == Depunctured(in, 4 * n)
<1>1. soft = SoftBits(mother, n) /\ TrellisLength(n) = n + 4
    BY DEF N, K, TrellisLength
<1>4. \A i \in 1 .. n, c \in 1 .. 4 : ~Known(i, c) => mother[4 * (i - 1) + c] = Erased
    BY DepuncturedIs
<1> HIDE DEF mother
<1>5. \A i \in 1 .. n + 4, c \in 1 .. 4 :
        SoftBits(mother, n)[4 * (i - 1) + c] = IF i <= n THEN Soft(mother[4 * (i - 1) + c]) ELSE 0
    BY SoftAre, Zenon
<1>3. ASSUME NEW i \in 1 .. n + 4, NEW c \in 1 .. 4
      PROVE  /\ soft[4 * (i - 1) + c] \in {-127, 0, 127}
             /\ c \in 3 .. 4 => soft[4 * (i - 1) + c] = 0
  <2>1. soft[4 * (i - 1) + c] = IF i <= n THEN Soft(mother[4 * (i - 1) + c]) ELSE 0
        BY <1>1, <1>5
  <2>2. ASSUME i <= n, c \in 3 .. 4 PROVE mother[4 * (i - 1) + c] = Erased
    <3>1. i \in 1 .. n /\ ~Known(i, c)
          BY <2>2 DEF Known
    <3>   QED  BY <3>1, <2>2, <1>4
  <2>3. \A v : Soft(v) \in {-127, 0, 127}
        BY DEF Soft, INT8_MAX
  <2>4. Soft(Erased) = 0
        BY DEF Soft, Erased
  <2>   QED  BY <2>1, <2>2, <2>3, <2>4
<1> QED BY <1>1, <1>3 DEF TwoKnown

\* What a step makes of them fits into 16 bits.
LEMMA StepFits ==
    ASSUME NEW soft, NEW len \in Nat, TwoKnown(soft, len), NEW sums, Traversed(sums, soft, len),
           NEW i \in 1 .. len, NEW s \in 1 .. 16
    PROVE  /\ StepOf(sums, soft, i)[s][1] \in Int
           /\ -INT16_MAX <= StepOf(sums, soft, i)[s][1] /\ StepOf(sums, soft, i)[s][1] <= INT16_MAX
<1>2. StepOf(sums, soft, i) \in Row /\ Near(StepOf(sums, soft, i), Age(i) + 1)
    BY RowsAreTyped, RowsAreNear
<1>3. i \in Nat /\ i >= 1
    OBVIOUS
<1>4. Age(i) \in 0 .. 58
    BY <1>3, Ages
<1>5. s - 1 \in States /\ (s - 1) + 1 = s
    BY DEF States
<1>6. Sum(StepOf(sums, soft, i), s - 1) \in Int
    BY <1>2, <1>5, RowType
<1>7. PICK v \in Int : v = StepOf(sums, soft, i)[s][1] /\ v = Sum(StepOf(sums, soft, i), s - 1)
    BY <1>5, <1>6 DEF Sum
<1>8. -254 * (Age(i) + 1) <= v /\ v <= 4064 + 254 * (Age(i) + 1)
    BY <1>2, <1>5, <1>7 DEF Near
<1>9. PICK a \in 0 .. 58 : a = Age(i)
    BY <1>4
<1>10. -254 * (a + 1) <= v /\ v <= 4064 + 254 * (a + 1)
    BY <1>8, <1>9
<1>11. -32767 <= v /\ v <= 32767
    BY <1>10
<1> QED BY <1>7, <1>11 DEF INT16_MAX

\* Whatever is received of a block, with whatever errors.
THEOREM MetricsNeverOverflow ==
    ASSUME NEW n \in Nat, NEW in, NEW soft, soft = SoftBits(Depunctured(in, N * n), n),
           NEW sums, Traversed(sums, soft, TrellisLength(n)),
           NEW i \in 1 .. TrellisLength(n), NEW s \in 1 .. 16
    PROVE  -INT16_MAX <= StepOf(sums, soft, i)[s][1] /\ StepOf(sums, soft, i)[s][1] <= INT16_MAX
<1>1. TwoKnown(soft, TrellisLength(n)) /\ TrellisLength(n) \in Nat
    BY TwoAreKnown
<1> QED BY <1>1, StepFits

-----------------------------------------------------------------------------
(* A code word without errors: the way of the encoder gains all there is,  *)
(* and so its state stays the best one.                                    *)

\* What a symbol can add to a metric, if it is known.
Weight(known) == IF known THEN INT8_MAX ELSE 0

\* The state of the decoder is four bits of the encoder, the latest one its highest.
LEMMA StateOfBits ==
    ASSUME NEW a \in Bit, NEW b \in Bit, NEW c \in Bit, NEW d \in Bit, NEW e \in Bit
    PROVE  LET s == 8 * a + 4 * b + 2 * c + d
           IN  /\ s \in States
               /\ LShift(s, e) = 8 * b + 4 * c + 2 * d + e
               /\ BitInto(s) = a
               /\ s < 8 <=> a = 0
               /\ (s % 8) + 1 = 4 * b + 2 * c + d + 1
<1> DEFINE s == 8 * a + 4 * b + 2 * c + d
<1>1. a \in {0, 1} /\ b \in {0, 1} /\ c \in {0, 1} /\ d \in {0, 1} /\ e \in {0, 1}
    BY DEF Bit
<1>2. s \in 0 .. 15 /\ (s < 8 <=> a = 0)
    BY <1>1
<1>3. s \div 8 = a /\ s % 8 = 4 * b + 2 * c + d
    BY <1>1
<1>4. (2 * s) % 16 = 8 * b + 4 * c + 2 * d
    BY <1>1
<1> QED BY <1>1, <1>2, <1>3, <1>4 DEF States, LShift, BitInto

\* No way gains more than the symbols weigh.
LEMMA GainIsLimited ==
    ASSUME NEW u \in {0, 127}, NEW v \in {0, 127}, NEW x \in {u, -u}, NEW y \in {v, -v}
    PROVE  /\ x \in {-127, 0, 127} /\ y \in {-127, 0, 127}
           /\ \A s \in States, w \in Bit : /\ Gain(MetricOf(x, y), s, w) \in Int
                                           /\ Gain(MetricOf(x, y), s, w) <= u + v
<1>1. ASSUME NEW s \in States, NEW w \in Bit
      PROVE  Gain(MetricOf(x, y), s, w) \in Int /\ Gain(MetricOf(x, y), s, w) <= u + v
  <2>1. PICK t \in 1 .. 8 : t = (s % 8) + 1
        BY DEF States
  <2>2. OutputTable[t][1] \in {-1, 1} /\ OutputTable[t][2] \in {-1, 1}
        BY DEF OutputTable
  <2>3. PICK m \in Int : m = x * OutputTable[t][1] + y * OutputTable[t][2] /\ m <= u + v /\ -(u + v) <= m
        BY <2>2
  <2>4. MetricOf(x, y)[t] = m
        BY <2>3 DEF MetricOf
  <2>5. Gain(MetricOf(x, y), s, w) \in {m, -m}
        BY <2>1, <2>4 DEF Gain
  <2>   QED  BY <2>3, <2>5
<1>2. x \in {-127, 0, 127} /\ y \in {-127, 0, 127}
    OBVIOUS
<1> QED BY <1>1, <1>2

\* The way the encoder went gains all of it.
LEMMA TrueWayGainsMost ==
    ASSUME NEW k1 \in BOOLEAN, NEW k2 \in BOOLEAN,
           NEW a \in Bit, NEW b \in Bit, NEW c \in Bit, NEW d \in Bit, NEW e \in Bit,
           NEW x, x = IF k1 THEN Soft(Code(a, b, c, d, e)[1]) ELSE 0,
           NEW y, y = IF k2 THEN Soft(Code(a, b, c, d, e)[2]) ELSE 0,
           NEW s, s = 8 * a + 4 * b + 2 * c + d
    PROVE  /\ x \in {Weight(k1), -Weight(k1)} /\ y \in {Weight(k2), -Weight(k2)}
           /\ Gain(MetricOf(x, y), s, e) = Weight(k1) + Weight(k2)
           /\ Gain(MetricOf(x, y), s, 1 - e) = -(Weight(k1) + Weight(k2))
<1>1. a \in {0, 1} /\ b \in {0, 1} /\ c \in {0, 1} /\ d \in {0, 1} /\ e \in {0, 1}
    BY DEF Bit
<1>2. PICK u \in {0, 127}, v \in {0, 127} : u = Weight(k1) /\ v = Weight(k2) /\ (~k1 => u = 0) /\ (~k2 => v = 0)
                                            /\ (k1 => u = 127) /\ (k2 => v = 127)
    BY DEF Weight, INT8_MAX
<1>3. x = IF (a + b + e) % 2 = 0 THEN u ELSE -u
  <2>1. Code(a, b, c, d, e)[1] = (a + b + e) % 2
        BY <1>1 DEF Code, Xor
  <2>2. (a + b + e) % 2 \in {0, 1} /\ Soft(0) = 127 /\ Soft(1) = -127
        BY <1>1 DEF Soft, INT8_MAX, Erased
  <2>   QED  BY <1>2, <2>1, <2>2
<1>4. y = IF (a + c + d + e) % 2 = 0 THEN v ELSE -v
  <2>1. Code(a, b, c, d, e)[2] = (a + c + d + e) % 2
    <3>1. Code(a, b, c, d, e)[2] = ((a + c) + (d + e)) % 2
          BY DEF Code, Xor
    <3>   QED  BY <1>1, <3>1
  <2>2. (a + c + d + e) % 2 \in {0, 1} /\ Soft(0) = 127 /\ Soft(1) = -127
        BY <1>1 DEF Soft, INT8_MAX, Erased
  <2>   QED  BY <1>2, <2>1, <2>2
<1>5. PICK t \in 1 .. 8 : t = 4 * b + 2 * c + d + 1
    BY <1>1
<1>6. OutputTable[t][1] = (IF b = 0 THEN 1 ELSE -1) /\ OutputTable[t][2] = (IF c = d THEN 1 ELSE -1)
    BY <1>1, <1>5 DEF OutputTable
<1>7. PICK m \in Int : m = (IF b = 0 THEN x ELSE -x) + (IF c = d THEN y ELSE -y)
    BY <1>3, <1>4
<1>8. MetricOf(x, y)[t] = m
  <2>1. x \in Int /\ y \in Int
        BY <1>3, <1>4
  <2>2. MetricOf(x, y)[t] = x * OutputTable[t][1] + y * OutputTable[t][2]
        BY DEF MetricOf
  <2>   QED  BY <1>6, <1>7, <2>1, <2>2
<1>9. (s % 8) + 1 = t /\ (s < 8 <=> a = 0)
    BY StateOfBits, <1>5
<1>10. Gain(MetricOf(x, y), s, e) = (IF a = e THEN m ELSE -m)
       /\ Gain(MetricOf(x, y), s, 1 - e) = (IF a = e THEN -m ELSE m)
    BY <1>1, <1>8, <1>9 DEF Gain
<1>11. m = IF a = e THEN u + v ELSE -(u + v)
    BY <1>1, <1>3, <1>4, <1>7
<1> QED BY <1>2, <1>3, <1>4, <1>7, <1>10, <1>11

\* The state of the encoder after bit i, and what is received of its code without errors.
StateAfter(in, n, i) == 8 * B(in, n, i) + 4 * B(in, n, i - 1) + 2 * B(in, n, i - 2) + B(in, n, i - 3)
CleanSoft(in, n, k) == SoftBits(Depunctured(Punctured(ConvEnc(in), k), N * n), n)
Arriving(n, i, c) == i <= n /\ Known(i, c)

\* The bits of the encoder are bits.
LEMMA BIsBit ==
    ASSUME NEW n \in Nat, NEW in \in [1 .. n -> Bit], NEW i \in Int
    PROVE  B(in, n, i) \in Bit
BY DEF B, Bit

\* They are the symbols of the code, where they were not punctured and before the end.
LEMMA CleanSymbols ==
    ASSUME NEW n \in Nat, NEW k \in Nat, 2 * k = 3 * n, NEW in \in [1 .. n -> Bit]
    PROVE  \A i \in 1 .. n + 4, c \in {1, 2} :
             CleanSoft(in, n, k)[4 * (i - 1) + c] = IF Arriving(n, i, c) THEN Soft(CodeAt(in, n, i)[c]) ELSE 0
<1> DEFINE code == ConvEnc(in)
           punct == Punctured(code, k)
           mother == Depunctured(punct, 4 * n)
<1>1. code \in [1 .. 4 * n -> Bit] /\ \A i \in 1 .. n, c \in 1 .. 4 : code[4 * (i - 1) + c] = CodeAt(in, n, i)[c]
    BY ConvEncIs
<1> HIDE DEF code
<1>2. /\ punct \in [1 .. k -> Bit]
      /\ \A i \in 1 .. n, c \in 1 .. 4 : Known(i, c) => punct[PlaceOf(i, c)] = code[4 * (i - 1) + c]
    BY <1>1, PuncturedIs
<1> HIDE DEF punct
<1>3. \A i \in 1 .. n, c \in 1 .. 4 :
        mother[4 * (i - 1) + c] = IF Known(i, c) THEN punct[PlaceOf(i, c)] ELSE Erased
    BY DepuncturedIs
<1>4. CleanSoft(in, n, k) = SoftBits(mother, n)
    BY DEF CleanSoft, N, code, punct
<1> HIDE DEF mother
<1>5. \A i \in 1 .. n + 4, c \in 1 .. 4 :
        SoftBits(mother, n)[4 * (i - 1) + c] = IF i <= n THEN Soft(mother[4 * (i - 1) + c]) ELSE 0
    BY SoftAre, Zenon
<1>6. Soft(Erased) = 0
    BY DEF Soft, Erased
<1>7. ASSUME NEW i \in 1 .. n + 4, NEW c \in {1, 2}
      PROVE  SoftBits(mother, n)[4 * (i - 1) + c] = IF Arriving(n, i, c) THEN Soft(CodeAt(in, n, i)[c]) ELSE 0
  <2>0. c \in 1 .. 4
        OBVIOUS
  <2>1. SoftBits(mother, n)[4 * (i - 1) + c] = IF i <= n THEN Soft(mother[4 * (i - 1) + c]) ELSE 0
        BY <1>5, <2>0
  <2>2. CASE ~(i <= n)
        BY <2>1, <2>2 DEF Arriving
  <2>3. CASE i <= n
    <3>1. i \in 1 .. n
          BY <2>3
    <3>2. mother[4 * (i - 1) + c] = IF Known(i, c) THEN CodeAt(in, n, i)[c] ELSE Erased
      <4>1. mother[4 * (i - 1) + c] = IF Known(i, c) THEN punct[PlaceOf(i, c)] ELSE Erased
            BY <1>3, <2>0, <3>1, Zenon
      <4>2. Known(i, c) => punct[PlaceOf(i, c)] = code[4 * (i - 1) + c]
            BY <1>2, <2>0, <3>1, Zenon
      <4>3. code[4 * (i - 1) + c] = CodeAt(in, n, i)[c]
            BY <1>1, <2>0, <3>1, Zenon
      <4>   QED  BY <4>1, <4>2, <4>3, Zenon
    <3>   QED  BY <1>6, <2>1, <2>3, <3>2 DEF Arriving
  <2>   QED  BY <2>2, <2>3
<1> QED BY <1>4, <1>7

\* In each step the way of the encoder gains all there is, and the other one as much less.
LEMMA CleanStep ==
    ASSUME NEW n \in Nat, NEW k \in Nat, 2 * k = 3 * n, NEW in \in [1 .. n -> Bit], NEW i \in 1 .. n + 4
    PROVE  LET g == Symbols(CleanSoft(in, n, k), i)
               u == Weight(Arriving(n, i, 1)) + Weight(Arriving(n, i, 2))
               t == StateAfter(in, n, i)
               e == B(in, n, i - 4)
           IN  /\ u \in Nat /\ (i <= n => u > 0)
               /\ \E x \in {-127, 0, 127}, y \in {-127, 0, 127} : g = MetricOf(x, y)
               /\ Gain(g, t, e) = u /\ Gain(g, t, 1 - e) = -u
               /\ \A s \in States, w \in Bit : Gain(g, s, w) \in Int /\ Gain(g, s, w) <= u
               /\ t \in States /\ e \in Bit /\ LShift(t, e) = StateAfter(in, n, i - 1)
<1> DEFINE soft == CleanSoft(in, n, k)
           x == soft[4 * (i - 1) + 1]
           y == soft[4 * (i - 1) + 2]
           a == B(in, n, i)
           b == B(in, n, i - 1)
           c == B(in, n, i - 2)
           d == B(in, n, i - 3)
           e == B(in, n, i - 4)
           t == 8 * a + 4 * b + 2 * c + d
           k1 == Arriving(n, i, 1)
           k2 == Arriving(n, i, 2)
<1>1. a \in Bit /\ b \in Bit /\ c \in Bit /\ d \in Bit /\ e \in Bit
    BY BIsBit
<1>2. /\ x = IF k1 THEN Soft(Code(a, b, c, d, e)[1]) ELSE 0
      /\ y = IF k2 THEN Soft(Code(a, b, c, d, e)[2]) ELSE 0
  <2>1. CodeAt(in, n, i) = Code(a, b, c, d, e)
        BY DEF CodeAt
  <2>2. \A j \in {1, 2} : soft[4 * (i - 1) + j] = IF Arriving(n, i, j) THEN Soft(CodeAt(in, n, i)[j]) ELSE 0
        BY CleanSymbols
  <2>   HIDE DEF soft, a, b, c, d, e
  <2>   QED  BY <2>1, <2>2
<1>3. k1 \in BOOLEAN /\ k2 \in BOOLEAN /\ (i <= n => k1)
    BY DEF Arriving, Known
<1>4. StateAfter(in, n, i) = t /\ StateAfter(in, n, i - 1) = 8 * b + 4 * c + 2 * d + e
      /\ Symbols(soft, i) = MetricOf(x, y)
    BY DEF StateAfter, Symbols
<1> HIDE DEF soft, x, y, a, b, c, d, e, k1, k2
<1>5. t \in States /\ LShift(t, e) = 8 * b + 4 * c + 2 * d + e
    BY <1>1, StateOfBits
<1>6. /\ x \in {Weight(k1), -Weight(k1)} /\ y \in {Weight(k2), -Weight(k2)}
      /\ Gain(MetricOf(x, y), t, e) = Weight(k1) + Weight(k2)
      /\ Gain(MetricOf(x, y), t, 1 - e) = -(Weight(k1) + Weight(k2))
    BY <1>1, <1>2, <1>3, TrueWayGainsMost
<1>7. /\ x \in {-127, 0, 127} /\ y \in {-127, 0, 127}
      /\ \A s \in States, w \in Bit : /\ Gain(MetricOf(x, y), s, w) \in Int
                                      /\ Gain(MetricOf(x, y), s, w) <= Weight(k1) + Weight(k2)
  <2>1. PICK u \in {0, 127}, v \in {0, 127} : u = Weight(k1) /\ v = Weight(k2)
        BY DEF Weight, INT8_MAX
  <2>2. x \in {u, -u} /\ y \in {v, -v}
        BY <1>6, <2>1
  <2>   QED  BY <2>1, <2>2, GainIsLimited
<1>8. Weight(k1) + Weight(k2) \in Nat /\ (i <= n => Weight(k1) + Weight(k2) > 0)
    BY <1>3 DEF Weight, INT8_MAX
<1> HIDE DEF t
<1> QED BY <1>1, <1>4, <1>5, <1>6, <1>7, <1>8 DEF soft, e, k1, k2

\* The last four bits are those that flush the encoder.
Flushed(in, n) == \A i \in 1 .. n : i > n - 4 => in[i] = 0
Best(row, t) == \A s \in States : Sum(row, t) >= Sum(row, s)

\* The state of the encoder has the greatest metric in each step, and its way is the true
\* one.
LEMMA TrueStateStaysBest ==
    ASSUME NEW n \in Nat, NEW k \in Nat, 2 * k = 3 * n, NEW in \in [1 .. n -> Bit], Flushed(in, n),
           NEW i \in 1 .. n + 4, NEW row \in Row, Best(row, StateAfter(in, n, i - 1)),
           NEW new, new = Step(row, Symbols(CleanSoft(in, n, k), i))
    PROVE  /\ Best(new, StateAfter(in, n, i))
           /\ Way(new, StateAfter(in, n, i)) = B(in, n, i - 4)
<1> DEFINE g == Symbols(CleanSoft(in, n, k), i)
           u == Weight(Arriving(n, i, 1)) + Weight(Arriving(n, i, 2))
           t == StateAfter(in, n, i)
           e == B(in, n, i - 4)
           p == StateAfter(in, n, i - 1)
<1>1. /\ u \in Nat /\ (i <= n => u > 0)
      /\ \E x \in {-127, 0, 127}, y \in {-127, 0, 127} : g = MetricOf(x, y)
      /\ Gain(g, t, e) = u /\ Gain(g, t, 1 - e) = -u
      /\ \A s \in States, w \in Bit : Gain(g, s, w) \in Int /\ Gain(g, s, w) <= u
      /\ t \in States /\ e \in Bit /\ LShift(t, e) = p
    BY CleanStep
<1>2. e = 1 => i <= n
    BY DEF B, Flushed
<1>3. new = Step(row, g) /\ Best(row, p)
    OBVIOUS
<1> HIDE DEF g, u, t, e, p
<1>4. /\ new \in Row
      /\ \A s \in States :
           /\ \A w \in Bit : Sum(new, s) >= Sum(row, LShift(s, w)) + Gain(g, s, w)
           /\ Sum(new, s) = Sum(row, LShift(s, Way(new, s))) + Gain(g, s, Way(new, s))
           /\ Sum(row, LShift(s, 0)) + Gain(g, s, 0) >= Sum(row, LShift(s, 1)) + Gain(g, s, 1)
                <=> Way(new, s) = 0
    BY <1>1, <1>3, StepTakesTheBest
<1>5. \A s \in States, w \in Bit : LShift(s, w) \in States
    BY StatesBefore DEF Bit
<1>6. \A s \in States : Sum(row, s) \in Int /\ Sum(new, s) \in Int /\ Way(new, s) \in Bit
    BY <1>4, RowType
<1>7. p \in States
    BY <1>1, <1>5
<1>8. ASSUME NEW s \in States PROVE Sum(new, t) >= Sum(new, s)
  <2>1. Sum(new, t) >= Sum(row, p) + u
        BY <1>1, <1>4
  <2>2. PICK w \in Bit : w = Way(new, s)
        BY <1>6
  <2>3. LShift(s, w) \in States /\ Gain(g, s, w) \in Int /\ Gain(g, s, w) <= u
        BY <1>1, <1>5
  <2>4. Sum(row, LShift(s, w)) <= Sum(row, p)
        BY <1>3, <2>3, <1>6, <1>7 DEF Best
  <2>5. Sum(new, s) = Sum(row, LShift(s, w)) + Gain(g, s, w)
        BY <1>4, <2>2
  <2>6. Sum(row, p) \in Int /\ Sum(row, LShift(s, w)) \in Int /\ Sum(new, s) \in Int /\ Sum(new, t) \in Int /\ u \in Int
        BY <1>1, <1>6, <1>7, <2>3
  <2>   QED  BY <2>1, <2>3, <2>4, <2>5, <2>6
<1>9. Way(new, t) = e
  <2>1. CASE e = 0
    <3>1. Gain(g, t, 0) = u /\ Gain(g, t, 1) = -u /\ LShift(t, 0) = p /\ LShift(t, 1) \in States
          BY <1>1, <1>5, <2>1 DEF Bit
    <3>2. Sum(row, LShift(t, 1)) <= Sum(row, p)
          BY <1>3, <1>6, <1>7, <3>1 DEF Best
    <3>3. Sum(row, p) + u >= Sum(row, LShift(t, 1)) + -u
      <4>1. Sum(row, p) \in Int /\ Sum(row, LShift(t, 1)) \in Int /\ u \in Nat
            BY <1>1, <1>6, <1>7, <3>1
      <4>   QED  BY <3>2, <4>1
    <3>   QED  BY <1>1, <1>4, <2>1, <3>1, <3>3
  <2>2. CASE e = 1
    <3>1. Gain(g, t, 1) = u /\ Gain(g, t, 0) = -u /\ LShift(t, 1) = p /\ LShift(t, 0) \in States
          BY <1>1, <1>5, <2>2 DEF Bit
    <3>2. Sum(row, LShift(t, 0)) <= Sum(row, p) /\ u > 0
          BY <1>1, <1>2, <1>3, <1>6, <1>7, <2>2, <3>1 DEF Best
    <3>3. ~(Sum(row, LShift(t, 0)) + -u >= Sum(row, p) + u)
      <4>1. Sum(row, p) \in Int /\ Sum(row, LShift(t, 0)) \in Int /\ u \in Nat
            BY <1>1, <1>6, <1>7, <3>1
      <4>   QED  BY <3>2, <4>1
    <3>   QED  BY <1>1, <1>4, <1>6, <2>2, <3>1, <3>3 DEF Bit
  <2>   QED  BY <1>1, <2>1, <2>2 DEF Bit
<1> QED BY <1>8, <1>9 DEF Best, t, e

\* The survivors followed back from state 0, as _traceback does.
Traced(path, sums, len) ==
    /\ path[len] = 0
    /\ \A i \in 1 .. len : path[i - 1] = Before(sums[i + 1], path[i])

\* So in all rows the way to the state of the encoder is the true one.
LEMMA CleanRows ==
    ASSUME NEW n \in Nat, NEW k \in Nat, 2 * k = 3 * n, NEW in \in [1 .. n -> Bit], Flushed(in, n),
           NEW sums, Traversed(sums, CleanSoft(in, n, k), n + 4)
    PROVE  \A i \in 1 .. n + 4 : Way(sums[i + 1], StateAfter(in, n, i)) = B(in, n, i - 4)
<1> DEFINE soft == CleanSoft(in, n, k)
           S == {i \in Nat : i <= n + 4 => Best(sums[i + 1], StateAfter(in, n, i))}
<1>1. TwoKnown(soft, n + 4)
    BY TwoAreKnown DEF CleanSoft
<1>2. ASSUME NEW i \in 1 .. n + 4, Best(sums[i], StateAfter(in, n, i - 1))
      PROVE  /\ Best(sums[i + 1], StateAfter(in, n, i))
             /\ Way(sums[i + 1], StateAfter(in, n, i)) = B(in, n, i - 4)
  <2> DEFINE new == StepOf(sums, soft, i)
             t == StateAfter(in, n, i)
  <2>1. sums[i] \in Row /\ new \in Row
        BY <1>1, RowsAreTyped
  <2>2. new = Step(sums[i], Symbols(soft, i))
        BY <1>1, StepOfIs
  <2>   HIDE DEF new
  <2>3. Best(new, t) /\ Way(new, t) = B(in, n, i - 4)
        BY <1>2, <2>1, <2>2, TrueStateStaysBest
  <2>4. t \in States
        BY CleanStep
  <2>5. sums[i + 1] = Kept(new, i)
        BY DEF Traversed, new
  <2>6. PICK d \in Int : \A s \in States : /\ Sum(Kept(new, i), s) = Sum(new, s) - d
                                           /\ Way(Kept(new, i), s) = Way(new, s)
    <3>1. i \in Nat
          OBVIOUS
    <3>   QED  BY <2>1, <3>1, KeptIs
  <2>7. \A s \in States : Sum(new, s) \in Int
        BY <2>1, RowType
  <2>   HIDE DEF t
  <2>8. Best(sums[i + 1], t)
        BY <2>3, <2>4, <2>5, <2>6, <2>7 DEF Best
  <2>   QED  BY <2>3, <2>4, <2>5, <2>6, <2>8 DEF t
<1>3. 0 \in S
  <2>1. StateAfter(in, n, 0) = 0
        BY DEF StateAfter, B
  <2>2. 0 \in States
        BY DEF States
  <2>   QED  BY <2>1, <2>2, FreshSumsAre DEF Best, Traversed
<1>4. ASSUME NEW j \in Nat, j \in S PROVE j + 1 \in S
  <2> SUFFICES ASSUME j + 1 <= n + 4 PROVE Best(sums[(j + 1) + 1], StateAfter(in, n, j + 1))
      OBVIOUS
  <2>1. j + 1 \in 1 .. n + 4 /\ (j + 1) - 1 = j /\ Best(sums[j + 1], StateAfter(in, n, j))
        BY <1>4
  <2>   QED  BY <1>2, <2>1
<1>5. \A j \in Nat : j \in S
  <2>   HIDE DEF S
  <2>   QED  BY <1>3, <1>4, NatSet
<1>6. ASSUME NEW i \in 1 .. n + 4 PROVE Way(sums[i + 1], StateAfter(in, n, i)) = B(in, n, i - 4)
  <2>1. i - 1 \in Nat /\ i - 1 <= n + 4 /\ (i - 1) + 1 = i
        OBVIOUS
  <2>2. Best(sums[i], StateAfter(in, n, i - 1))
        BY <1>5, <2>1
  <2>   QED  BY <1>2, <2>2
<1> QED BY <1>6

\* A code word that was received as it was sent is decoded to the bits that were encoded.
LEMMA CleanCodeIsTraced ==
    ASSUME NEW n \in Nat, NEW k \in Nat, 2 * k = 3 * n, NEW in \in [1 .. n -> Bit], Flushed(in, n),
           NEW sums, Traversed(sums, CleanSoft(in, n, k), TrellisLength(n)),
           NEW path, Traced(path, sums, TrellisLength(n))
    PROVE  \A i \in 1 .. n : BitInto(path[i]) = in[i]
<1>1. TrellisLength(n) = n + 4
    BY DEF TrellisLength, K
<1> DEFINE S == {j \in Nat : j <= n + 4 => path[(n + 4) - j] = StateAfter(in, n, (n + 4) - j)}
<1>2. 0 \in S
  <2>1. StateAfter(in, n, n + 4) = 0
        BY DEF StateAfter, B
  <2>   QED  BY <1>1, <2>1 DEF Traced
<1>3. ASSUME NEW j \in Nat, j \in S PROVE j + 1 \in S
  <2> SUFFICES ASSUME j + 1 <= n + 4
               PROVE  path[(n + 4) - (j + 1)] = StateAfter(in, n, (n + 4) - (j + 1))
      OBVIOUS
  <2>1. PICK i \in 1 .. n + 4 : i = (n + 4) - j /\ i - 1 = (n + 4) - (j + 1)
        OBVIOUS
  <2>2. path[i] = StateAfter(in, n, i)
        BY <1>3, <2>1
  <2>3. path[i - 1] = LShift(path[i], Way(sums[i + 1], path[i]))
        BY <1>1 DEF Traced, Before, Way
  <2>4. Way(sums[i + 1], path[i]) = B(in, n, i - 4)
        BY <1>1, <2>2, CleanRows
  <2>5. LShift(StateAfter(in, n, i), B(in, n, i - 4)) = StateAfter(in, n, i - 1)
        BY CleanStep
  <2>   QED  BY <2>1, <2>2, <2>3, <2>4, <2>5
<1>4. \A j \in Nat : j \in S
  <2>   HIDE DEF S
  <2>   QED  BY <1>2, <1>3, NatSet
<1>5. ASSUME NEW i \in 1 .. n PROVE BitInto(path[i]) = in[i]
  <2>1. (n + 4) - i \in Nat /\ (n + 4) - i <= n + 4 /\ (n + 4) - ((n + 4) - i) = i
        OBVIOUS
  <2>2. path[i] = StateAfter(in, n, i)
        BY <1>4, <2>1
  <2>3. B(in, n, i) \in Bit /\ B(in, n, i - 1) \in Bit /\ B(in, n, i - 2) \in Bit /\ B(in, n, i - 3) \in Bit
        BY BIsBit
  <2>4. 0 \in Bit
        BY DEF Bit
  <2>5. BitInto(StateAfter(in, n, i)) = B(in, n, i)
        BY <2>3, <2>4, StateOfBits DEF StateAfter
  <2>   QED  BY <2>2, <2>5 DEF B
<1> QED BY <1>5

-----------------------------------------------------------------------------
(* The CRC.                                                                *)

Register == [1 .. 16 -> Bit]
\* The registers of crc16_itut_bits: what it starts with, and after each bit.
Registers(regs, in, n) ==
    /\ regs[1] = CrcInit
    /\ \A i \in 1 .. n : regs[i + 1] = CrcBit(regs[i], in[i])

\* crc16_itut_bits, register bit by register bit.
LEMMA CrcBitIs ==
    ASSUME NEW r \in Register, NEW b \in Bit
    PROVE  /\ CrcBit(r, b) \in Register
           /\ \A i \in 1 .. 16 : CrcBit(r, b)[i] = Xor(IF i < 16 THEN r[i + 1] ELSE 0, Xor(r[1], b) * GEN_POLY[i])
<1> DEFINE carry == Xor(r[1], b)
           raw == [i \in 1 .. 16 |-> Xor(IF i < 16 THEN r[i + 1] ELSE 0, carry * GEN_POLY[i])]
<1>1. carry \in Bit
    BY DEF Xor, Bit, Register
<1>2. \A i \in 1 .. 16 : GEN_POLY[i] \in Bit
    BY DEF GEN_POLY, Bit
<1>3. raw \in Register
  <2>   HIDE DEF carry
  <2>1. ASSUME NEW i \in 1 .. 16 PROVE Xor(IF i < 16 THEN r[i + 1] ELSE 0, carry * GEN_POLY[i]) \in Bit
    <3>1. carry * GEN_POLY[i] \in Bit
          BY <1>1, <1>2 DEF Bit
    <3>2. (IF i < 16 THEN r[i + 1] ELSE 0) \in Bit
          BY DEF Register, Bit
    <3>   QED  BY <3>1, <3>2, Xors DEF Bit
  <2>   QED  BY <2>1 DEF Register
<1>4. CrcBit(r, b) = Bits(raw, 16)
    BY Zenon DEF CrcBit
<1>5. \A i \in 1 .. 16 : raw[i] = Xor(IF i < 16 THEN r[i + 1] ELSE 0, carry * GEN_POLY[i])
    BY Zenon
<1> HIDE DEF raw
<1>6. Bits(raw, 16) = raw
    BY <1>3, BitsAre DEF Register
<1> QED BY <1>3, <1>4, <1>5, <1>6

\* It starts with a register of bits.
LEMMA CrcInitIs == CrcInit \in Register
<1> DEFINE raw == [i \in 1 .. 16 |-> BitOf(65535, 16 - i)]
<1>1. raw \in [1 .. 16 -> Bit]
    BY DEF BitOf, Bit
<1>2. CrcInit = Bits(raw, 16)
    BY DEF CrcInit, ToBits
<1> HIDE DEF raw
<1> QED BY <1>1, <1>2, BitsAre DEF Register

\* The registers are bits throughout.
LEMMA RegistersAreTyped ==
    ASSUME NEW n \in Nat, NEW in, \A i \in 1 .. n : in[i] \in Bit, NEW regs, Registers(regs, in, n)
    PROVE  \A i \in 1 .. n + 1 : regs[i] \in Register
<1> DEFINE S == {j \in Nat : j <= n => regs[j + 1] \in Register}
<1>1. 0 \in S
    BY CrcInitIs DEF Registers
<1>2. ASSUME NEW j \in Nat, j \in S PROVE j + 1 \in S
  <2> SUFFICES ASSUME j + 1 <= n PROVE regs[(j + 1) + 1] \in Register
      OBVIOUS
  <2>1. j + 1 \in 1 .. n /\ regs[j + 1] \in Register
        BY <1>2
  <2>2. regs[(j + 1) + 1] = CrcBit(regs[j + 1], in[j + 1]) /\ in[j + 1] \in Bit
        BY <2>1 DEF Registers
  <2>   QED  BY <2>1, <2>2, CrcBitIs
<1>3. \A j \in Nat : j \in S
  <2>   HIDE DEF S
  <2>   QED  BY <1>1, <1>2, NatSet
<1>4. ASSUME NEW i \in 1 .. n + 1 PROVE regs[i] \in Register
  <2>1. i - 1 \in Nat /\ i - 1 <= n /\ (i - 1) + 1 = i
        OBVIOUS
  <2>   QED  BY <2>1, <1>3
<1> QED BY <1>4

\* What the inverted CRC leaves in a register of zeros, bit by bit.
Residues ==
    <<<<0, 0, 0, 0, 0, 0, 0, 0, 0, 0, 0, 0, 0, 0, 0, 0>>,
      <<0, 0, 0, 1, 0, 0, 0, 0, 0, 0, 1, 0, 0, 0, 0, 1>>,
      <<0, 0, 1, 1, 0, 0, 0, 0, 0, 1, 1, 0, 0, 0, 1, 1>>,
      <<0, 1, 1, 1, 0, 0, 0, 0, 1, 1, 1, 0, 0, 1, 1, 1>>,
      <<1, 1, 1, 1, 0, 0, 0, 1, 1, 1, 1, 0, 1, 1, 1, 1>>,
      <<1, 1, 1, 0, 0, 0, 1, 1, 1, 1, 0, 1, 1, 1, 1, 0>>,
      <<1, 1, 0, 0, 0, 1, 1, 1, 1, 0, 1, 1, 1, 1, 0, 0>>,
      <<1, 0, 0, 0, 1, 1, 1, 1, 0, 1, 1, 1, 1, 0, 0, 0>>,
      <<0, 0, 0, 1, 1, 1, 1, 0, 1, 1, 1, 1, 0, 0, 0, 0>>,
      <<0, 0, 1, 0, 1, 1, 0, 1, 1, 1, 0, 0, 0, 0, 0, 1>>,
      <<0, 1, 0, 0, 1, 0, 1, 1, 1, 0, 1, 0, 0, 0, 1, 1>>,
      <<1, 0, 0, 0, 0, 1, 1, 1, 0, 1, 1, 0, 0, 1, 1, 1>>,
      <<0, 0, 0, 0, 1, 1, 1, 0, 1, 1, 0, 0, 1, 1, 1, 0>>,
      <<0, 0, 0, 0, 1, 1, 0, 1, 1, 0, 1, 1, 1, 1, 0, 1>>,
      <<0, 0, 0, 0, 1, 0, 1, 1, 0, 1, 0, 1, 1, 0, 1, 1>>,
      <<0, 0, 0, 0, 0, 1, 1, 0, 1, 0, 0, 1, 0, 1, 1, 1>>,
      <<0, 0, 0, 1, 1, 1, 0, 1, 0, 0, 0, 0, 1, 1, 1, 1>>>>
Rest(crc, j, i) == IF i + j <= 16 THEN crc[i + j] ELSE 0

\* With each bit of the inverted CRC the residue is the next one.
LEMMA NextResidue ==
    ASSUME NEW j \in 0 .. 15
    PROVE  \A i \in 1 .. 16 : Residues[j + 2][i] = Xor(IF i < 16 THEN Residues[j + 1][i + 1] ELSE 0,
                                                       (1 - Residues[j + 1][1]) * GEN_POLY[i])
<1> USE DEF Xor
<1>1. CASE j = 0
    BY <1>1 DEF Residues, GEN_POLY
<1>2. CASE j = 1
    BY <1>2 DEF Residues, GEN_POLY
<1>3. CASE j = 2
    BY <1>3 DEF Residues, GEN_POLY
<1>4. CASE j = 3
    BY <1>4 DEF Residues, GEN_POLY
<1>5. CASE j = 4
    BY <1>5 DEF Residues, GEN_POLY
<1>6. CASE j = 5
    BY <1>6 DEF Residues, GEN_POLY
<1>7. CASE j = 6
    BY <1>7 DEF Residues, GEN_POLY
<1>8. CASE j = 7
    BY <1>8 DEF Residues, GEN_POLY
<1>9. CASE j = 8
    BY <1>9 DEF Residues, GEN_POLY
<1>10. CASE j = 9
    BY <1>10 DEF Residues, GEN_POLY
<1>11. CASE j = 10
    BY <1>11 DEF Residues, GEN_POLY
<1>12. CASE j = 11
    BY <1>12 DEF Residues, GEN_POLY
<1>13. CASE j = 12
    BY <1>13 DEF Residues, GEN_POLY
<1>14. CASE j = 13
    BY <1>14 DEF Residues, GEN_POLY
<1>15. CASE j = 14
    BY <1>15 DEF Residues, GEN_POLY
<1>16. CASE j = 15
    BY <1>16 DEF Residues, GEN_POLY
<1> QED BY <1>1, <1>2, <1>3, <1>4, <1>5, <1>6, <1>7, <1>8, <1>9, <1>10, <1>11, <1>12, <1>13,
           <1>14, <1>15, <1>16

\* The inverted CRC at the end of what it was computed of leaves TETRA_CRC_OK.
LEMMA CrcOfCrc ==
    ASSUME NEW n \in Nat, NEW in, \A i \in 1 .. n + 16 : in[i] \in Bit,
           NEW regs, Registers(regs, in, n + 16), \A i \in 1 .. 16 : in[n + i] = 1 - regs[n + 1][i]
    PROVE  regs[n + 17] = TETRA_CRC_OK
<1> DEFINE crc == regs[n + 1]
           S == {j \in Nat : j <= 16 => \A i \in 1 .. 16 : regs[n + 1 + j][i] = Xor(Rest(crc, j, i), Residues[j + 1][i])}
<1>1. \A j \in 0 .. 16 : regs[n + 1 + j] \in Register
    BY RegistersAreTyped
<1>2. crc \in Register /\ \A i \in 1 .. 16 : crc[i] \in Bit
    BY RegistersAreTyped DEF Register
<1>3. 0 \in S
  <2>1. \A i \in 1 .. 16 : Residues[1][i] = 0
        BY DEF Residues
  <2>2. \A i \in 1 .. 16 : Xor(Rest(crc, 0, i), 0) = crc[i]
        BY <1>2 DEF Rest, Xor, Bit
  <2>   QED  BY <2>1, <2>2
<1>4. ASSUME NEW j \in Nat, j \in S PROVE j + 1 \in S
  <2> SUFFICES ASSUME j + 1 <= 16, NEW i \in 1 .. 16
               PROVE  regs[n + 1 + (j + 1)][i] = Xor(Rest(crc, j + 1, i), Residues[(j + 1) + 1][i])
      OBVIOUS
  <2> DEFINE r == regs[n + 1 + j]
             z == Residues[j + 1]
             b == 1 - crc[j + 1]
  <2>1. j \in 0 .. 15 /\ r \in Register
        BY <1>1
  <2>2. \A m \in 1 .. 16 : r[m] = Xor(Rest(crc, j, m), z[m])
        BY <1>4
  <2>3. \A m \in 1 .. 16 : z[m] \in Bit
        BY <2>1 DEF Residues, Bit
  <2>4. crc[j + 1] \in Bit /\ b \in Bit /\ Rest(crc, j, 1) = crc[j + 1]
        BY <1>2, <2>1 DEF Bit, Rest
  <2>5. regs[n + 1 + (j + 1)] = CrcBit(r, b)
    <3>1. n + 1 + j \in 1 .. n + 16 /\ j + 1 \in 1 .. 16 /\ n + (j + 1) = n + 1 + j
          BY <2>1
    <3>2. regs[(n + 1 + j) + 1] = CrcBit(r, in[n + 1 + j])
          BY <3>1 DEF Registers
    <3>3. in[n + 1 + j] = b
          BY <3>1
    <3>4. n + 1 + (j + 1) = (n + 1 + j) + 1
          OBVIOUS
    <3>   QED  BY <3>2, <3>3, <3>4
  <2>   HIDE DEF r, z, b
  <2>6. Xor(r[1], b) = 1 - z[1]
    <3>1. r[1] = Xor(crc[j + 1], z[1]) /\ z[1] \in Bit
          BY <2>2, <2>3, <2>4
    <3>   QED  BY <3>1, <2>4 DEF Xor, Bit, b
  <2>7. CrcBit(r, b)[i] = Xor(IF i < 16 THEN r[i + 1] ELSE 0, (1 - z[1]) * GEN_POLY[i])
        BY <2>1, <2>4, <2>6, CrcBitIs, Zenon
  <2>8. Residues[j + 2][i] = Xor(IF i < 16 THEN z[i + 1] ELSE 0, (1 - z[1]) * GEN_POLY[i])
        BY <2>1, NextResidue DEF z
  <2>9. PICK v \in Bit : v = (1 - z[1]) * GEN_POLY[i]
    <3>1. GEN_POLY[i] \in Bit /\ z[1] \in Bit
          BY <2>3 DEF GEN_POLY, Bit
    <3>   QED  BY <3>1 DEF Bit
  <2>10. CASE i = 16
    <3>1. Rest(crc, j + 1, i) = 0
          BY <2>1, <2>10 DEF Rest
    <3>2. CrcBit(r, b)[i] = Xor(0, v) /\ Residues[j + 2][i] = Xor(0, v)
          BY <2>7, <2>8, <2>9, <2>10
    <3>   QED  BY <2>5, <3>1, <3>2, (j + 1) + 1 = j + 2 DEF Xor, Bit
  <2>11. CASE i < 16
    <3>1. Rest(crc, j + 1, i) = Rest(crc, j, i + 1) /\ Rest(crc, j, i + 1) \in Bit
          BY <1>2, <2>1, <2>11 DEF Rest, Bit
    <3>2. r[i + 1] = Xor(Rest(crc, j, i + 1), z[i + 1]) /\ z[i + 1] \in Bit
          BY <2>2, <2>3, <2>11
    <3>3. CrcBit(r, b)[i] = Xor(r[i + 1], v) /\ Residues[j + 2][i] = Xor(z[i + 1], v)
          BY <2>7, <2>8, <2>9, <2>11
    <3>4. \A p, q, w \in Bit : Xor(Xor(p, q), w) = Xor(p, Xor(q, w))
          BY DEF Xor, Bit
    <3>5. CrcBit(r, b)[i] = Xor(Rest(crc, j + 1, i), Residues[j + 2][i])
      <4>1. PICK p \in Bit, q \in Bit : p = Rest(crc, j + 1, i) /\ q = z[i + 1]
            BY <3>1, <3>2
      <4>2. CrcBit(r, b)[i] = Xor(Xor(p, q), v) /\ Residues[j + 2][i] = Xor(q, v)
            BY <3>1, <3>2, <3>3, <4>1
      <4>3. Xor(Xor(p, q), v) = Xor(p, Xor(q, v))
            BY <2>9, <3>4
      <4>   QED  BY <4>1, <4>2, <4>3
    <3>   QED  BY <2>5, <3>5, (j + 1) + 1 = j + 2
  <2>   QED  BY <2>10, <2>11
<1>5. 16 \in S
  <2>   HIDE DEF S
  <2>   QED  BY <1>3, <1>4, NatSet
<1>6. \A i \in 1 .. 16 : regs[n + 17][i] = TETRA_CRC_OK[i]
  <2>1. n + 1 + 16 = n + 17
        OBVIOUS
  <2>2. \A i \in 1 .. 16 : Rest(crc, 16, i) = 0
        BY DEF Rest
  <2>3. \A i \in 1 .. 16 : Residues[17][i] = TETRA_CRC_OK[i] /\ Xor(0, Residues[17][i]) = Residues[17][i]
        BY DEF Residues, TETRA_CRC_OK, Xor
  <2>4. \A i \in 1 .. 16 : regs[n + 1 + 16][i] = Xor(Rest(crc, 16, i), Residues[16 + 1][i])
        BY <1>5
  <2>5. 16 + 1 = 17
        OBVIOUS
  <2>   QED  BY <2>1, <2>2, <2>3, <2>4, <2>5
<1>7. regs[n + 17] \in Register
    BY <1>1, n + 1 + 16 = n + 17
<1>8. TETRA_CRC_OK \in Register
    BY DEF TETRA_CRC_OK, Register, Bit
<1> QED BY <1>6, <1>7, <1>8 DEF Register

\* Where the registers agree after a bit, they agreed a place further on before it.
LEMMA CrcBitBack ==
    ASSUME NEW r \in Register, NEW r2 \in Register, NEW b \in Bit, NEW b2 \in Bit, NEW j \in 0 .. 15,
           \A i \in j + 1 .. 16 : CrcBit(r, b)[i] = CrcBit(r2, b2)[i]
    PROVE  /\ Xor(r[1], b) = Xor(r2[1], b2)
           /\ \A i \in j + 2 .. 16 : r[i] = r2[i]
<1>1. Xor(r[1], b) \in Bit /\ Xor(r2[1], b2) \in Bit
    BY DEF Xor, Register, Bit
<1>2. /\ \A i \in 1 .. 16 : CrcBit(r, b)[i] = Xor(IF i < 16 THEN r[i + 1] ELSE 0, Xor(r[1], b) * GEN_POLY[i])
      /\ \A i \in 1 .. 16 : CrcBit(r2, b2)[i] = Xor(IF i < 16 THEN r2[i + 1] ELSE 0, Xor(r2[1], b2) * GEN_POLY[i])
    BY CrcBitIs
<1>3. PICK c \in Bit, c2 \in Bit : c = Xor(r[1], b) /\ c2 = Xor(r2[1], b2)
    BY <1>1
<1>4. c = c2
  <2>1. CrcBit(r, b)[16] = Xor(0, c * GEN_POLY[16]) /\ CrcBit(r2, b2)[16] = Xor(0, c2 * GEN_POLY[16])
        BY <1>2, <1>3
  <2>2. GEN_POLY[16] = 1 /\ c * 1 = c /\ c2 * 1 = c2 /\ Xor(0, c) = c /\ Xor(0, c2) = c2
        BY DEF GEN_POLY, Xor, Bit
  <2>   QED  BY <2>1, <2>2
<1>5. ASSUME NEW i \in j + 2 .. 16 PROVE r[i] = r2[i]
  <2>1. i - 1 \in 1 .. 16 /\ i - 1 \in j + 1 .. 16 /\ i - 1 < 16 /\ (i - 1) + 1 = i
        OBVIOUS
  <2>2. PICK v \in Bit : v = c * GEN_POLY[i - 1]
    <3>1. GEN_POLY[i - 1] \in Bit
          BY <2>1 DEF GEN_POLY, Bit
    <3>   QED  BY <3>1 DEF Bit
  <2>3. CrcBit(r, b)[i - 1] = Xor(r[i], v) /\ CrcBit(r2, b2)[i - 1] = Xor(r2[i], v)
        BY <1>2, <1>3, <1>4, <2>1, <2>2
  <2>4. r[i] \in Bit /\ r2[i] \in Bit /\ Xor(r[i], v) = Xor(r2[i], v)
        BY <2>1, <2>3 DEF Register
  <2>   QED  BY <2>4 DEF Xor, Bit
<1> QED BY <1>3, <1>4, <1>5

\* From the same bit, different registers stay different.
LEMMA CrcBitIsInjective ==
    ASSUME NEW r \in Register, NEW r2 \in Register, NEW b \in Bit, CrcBit(r, b) = CrcBit(r2, b)
    PROVE  r = r2
<1>1. Xor(r[1], b) = Xor(r2[1], b) /\ \A i \in 0 + 2 .. 16 : r[i] = r2[i]
    BY CrcBitBack
<1>2. r[1] = r2[1]
    BY <1>1 DEF Xor, Register, Bit
<1>3. \A i \in 1 .. 16 : r[i] = r2[i]
    BY <1>1, <1>2
<1> QED BY <1>3 DEF Register

\* Two inputs that differ in a burst of up to 16 bits have different CRCs.
LEMMA BurstsLeaveOthers ==
    ASSUME NEW n \in Nat, NEW in \in [1 .. n -> Bit], NEW in2 \in [1 .. n -> Bit],
           NEW regs, Registers(regs, in, n), NEW regs2, Registers(regs2, in2, n),
           NEW f \in 1 .. n, in[f] # in2[f],
           \A i \in 1 .. n : in[i] # in2[i] => i \in f .. f + 15
    PROVE  regs[n + 1] # regs2[n + 1]
<1>1. \A i \in 1 .. n + 1 : regs[i] \in Register /\ regs2[i] \in Register
    BY RegistersAreTyped
<1>2. \A i \in 1 .. n : regs[i + 1] = CrcBit(regs[i], in[i]) /\ regs2[i + 1] = CrcBit(regs2[i], in2[i])
    BY DEF Registers
<1>3. regs[f] = regs2[f]
  <2> DEFINE S == {j \in Nat : j < f => regs[j + 1] = regs2[j + 1]}
  <2>1. 0 \in S
        BY DEF Registers
  <2>2. ASSUME NEW j \in Nat, j \in S PROVE j + 1 \in S
    <3> SUFFICES ASSUME j + 1 < f PROVE regs[(j + 1) + 1] = regs2[(j + 1) + 1]
        OBVIOUS
    <3>1. j + 1 \in 1 .. n /\ j + 1 \notin f .. f + 15 /\ regs[j + 1] = regs2[j + 1]
          BY <2>2
    <3>2. in[j + 1] = in2[j + 1]
          BY <3>1
    <3>   QED  BY <1>2, <3>1, <3>2
  <2>3. \A j \in Nat : j \in S
    <3>   HIDE DEF S
    <3>   QED  BY <2>1, <2>2, NatSet
  <2>4. f - 1 \in Nat /\ f - 1 < f /\ (f - 1) + 1 = f
        OBVIOUS
  <2>   QED  BY <2>3, <2>4
<1> SUFFICES ASSUME regs[n + 1] = regs2[n + 1] PROVE FALSE
    OBVIOUS
<1>4. PICK top \in f + 1 .. n + 1 : top <= f + 16 /\ regs[top] = regs2[top]
  <2>1. CASE n + 1 <= f + 16
        BY <2>1
  <2>2. CASE f + 16 <= n
    <3> DEFINE S == {j \in Nat : j <= n - f - 15 => regs[(n + 1) - j] = regs2[(n + 1) - j]}
    <3>1. 0 \in S
          OBVIOUS
    <3>2. ASSUME NEW j \in Nat, j \in S PROVE j + 1 \in S
      <4> SUFFICES ASSUME j + 1 <= n - f - 15 PROVE regs[(n + 1) - (j + 1)] = regs2[(n + 1) - (j + 1)]
          OBVIOUS
      <4>1. PICK i \in 1 .. n : i = n - j /\ i + 1 = (n + 1) - j /\ i = (n + 1) - (j + 1) /\ i > f + 15
            OBVIOUS
      <4>2. in[i] = in2[i] /\ in[i] \in Bit
            BY <4>1
      <4>3. CrcBit(regs[i], in[i]) = CrcBit(regs2[i], in[i])
            BY <1>2, <3>2, <4>1, <4>2
      <4>4. regs[i] \in Register /\ regs2[i] \in Register
            BY <1>1
      <4>   QED  BY <4>1, <4>2, <4>3, <4>4, CrcBitIsInjective
    <3>3. \A j \in Nat : j \in S
      <4>   HIDE DEF S
      <4>   QED  BY <3>1, <3>2, NatSet
    <3>4. n - f - 15 \in Nat /\ (n + 1) - (n - f - 15) = f + 16
          BY <2>2
    <3>5. regs[f + 16] = regs2[f + 16]
      <4>1. n - f - 15 \in S
            BY <3>3, <3>4
      <4>2. regs[(n + 1) - (n - f - 15)] = regs2[(n + 1) - (n - f - 15)]
            BY <3>4, <4>1
      <4>   QED  BY <3>4, <4>2
    <3>   QED  BY <2>2, <3>5
  <2>   QED  BY <2>1, <2>2
<1> DEFINE S == {j \in Nat : j <= top - (f + 1) => \A i \in j + 1 .. 16 : regs[top - j][i] = regs2[top - j][i]}
<1>5. 0 \in S
    BY <1>4
<1>6. ASSUME NEW j \in Nat, j \in S PROVE j + 1 \in S
  <2> SUFFICES ASSUME j + 1 <= top - (f + 1)
               PROVE  \A i \in (j + 1) + 1 .. 16 : regs[top - (j + 1)][i] = regs2[top - (j + 1)][i]
      OBVIOUS
  <2>1. PICK m \in 1 .. n : m = top - (j + 1) /\ m + 1 = top - j
        BY <1>4
  <2>2. j \in 0 .. 15 /\ j + 2 = (j + 1) + 1
        BY <1>4
  <2>3. \A i \in j + 1 .. 16 : CrcBit(regs[m], in[m])[i] = CrcBit(regs2[m], in2[m])[i]
    <3>1. \A i \in j + 1 .. 16 : regs[m + 1][i] = regs2[m + 1][i]
          BY <1>6, <2>1
    <3>   QED  BY <1>2, <2>1, <3>1
  <2>4. regs[m] \in Register /\ regs2[m] \in Register /\ in[m] \in Bit /\ in2[m] \in Bit
        BY <1>1
  <2>5. \A i \in j + 2 .. 16 : regs[m][i] = regs2[m][i]
        BY <2>2, <2>3, <2>4, CrcBitBack, Zenon
  <2>   QED  BY <2>1, <2>2, <2>5
<1>7. \A j \in Nat : j \in S
  <2>   HIDE DEF S
  <2>   QED  BY <1>5, <1>6, NatSet
<1>8. PICK j \in 0 .. 15 : j = top - (f + 1) /\ top - j = f + 1
    BY <1>4
<1>9. \A i \in j + 1 .. 16 : CrcBit(regs[f], in[f])[i] = CrcBit(regs2[f], in2[f])[i]
  <2>1. j \in S
        BY <1>7
  <2>2. \A i \in j + 1 .. 16 : regs[f + 1][i] = regs2[f + 1][i]
    <3>1. \A i \in j + 1 .. 16 : regs[top - j][i] = regs2[top - j][i]
          BY <1>8, <2>1
    <3>   HIDE DEF S
    <3>   QED  BY <1>8, <3>1
  <2>   QED  BY <1>2, <2>2
<1>10. regs[f] \in Register /\ regs2[f] \in Register /\ in[f] \in Bit /\ in2[f] \in Bit
    BY <1>1
<1>11. Xor(regs[f][1], in[f]) = Xor(regs2[f][1], in2[f])
  <2> HIDE DEF S
  <2>1. PICK r \in Register, r2 \in Register, b \in Bit, b2 \in Bit :
          r = regs[f] /\ r2 = regs2[f] /\ b = in[f] /\ b2 = in2[f]
        BY <1>10
  <2>2. \A i \in j + 1 .. 16 : CrcBit(r, b)[i] = CrcBit(r2, b2)[i]
        BY <1>9, <2>1
  <2>3. Xor(r[1], b) = Xor(r2[1], b2)
        BY <2>2, CrcBitBack
  <2> QED  BY <2>1, <2>3
<1> QED BY <1>3, <1>10, <1>11 DEF Xor, Register, Bit

-----------------------------------------------------------------------------
(* Scrambling, interleaving, and a block without errors.                   *)

\* tetra_scramb_bits, bit by bit.
LEMMA ScrambleType ==
    ASSUME NEW n \in Nat, NEW stream \in [1 .. n -> Bit], NEW in \in [1 .. n -> Bit]
    PROVE  /\ Scramble(stream, in) \in [1 .. n -> Bit]
           /\ \A i \in 1 .. n : Scramble(stream, in)[i] = Xor(in[i], stream[i])
<1>1. Len(in) = n
    OBVIOUS
<1>2. [i \in 1 .. n |-> Xor(in[i], stream[i])] \in [1 .. n -> Bit]
    BY DEF Xor, Bit
<1>3. Scramble(stream, in) = [i \in 1 .. n |-> Xor(in[i], stream[i])]
    BY <1>1, <1>2, BitsAre DEF Scramble
<1> QED BY <1>2, <1>3

\* Done twice, it leaves what was there.
LEMMA ScrambleIsUndone ==
    ASSUME NEW n \in Nat, NEW stream \in [1 .. n -> Bit], NEW in \in [1 .. n -> Bit]
    PROVE  Scramble(stream, Scramble(stream, in)) = in
<1> DEFINE s == Scramble(stream, in)
<1>1. s \in [1 .. n -> Bit] /\ \A i \in 1 .. n : s[i] = Xor(in[i], stream[i])
    BY ScrambleType
<1>2. Scramble(stream, s) \in [1 .. n -> Bit] /\ \A i \in 1 .. n : Scramble(stream, s)[i] = Xor(s[i], stream[i])
    BY <1>1, ScrambleType
<1>3. ASSUME NEW i \in 1 .. n PROVE Scramble(stream, s)[i] = in[i]
  <2>1. in[i] \in Bit /\ stream[i] \in Bit
        OBVIOUS
  <2>   QED  BY <1>1, <1>2, <2>1 DEF Xor, Bit
<1> QED BY <1>2, <1>3

\* Interleaving
Multipliers == {<<120, 11>>, <<216, 101>>, <<432, 103>>}

\* block_interl_func takes each place once: its multipliers have no factor in common with
\* the sizes.
LEMMA IndexIsBijective ==
    ASSUME NEW k \in Nat, NEW a \in Nat, <<k, a>> \in Multipliers
    PROVE  /\ \A i \in 1 .. k : InterleaveIndex(k, a, i) \in 1 .. k
           /\ \A i, j \in 1 .. k : InterleaveIndex(k, a, i) = InterleaveIndex(k, a, j) => i = j
<1>1. CASE k = 120 /\ a = 11
    BY <1>1 DEF InterleaveIndex
<1>2. CASE k = 216 /\ a = 101
    BY <1>2 DEF InterleaveIndex
<1>3. CASE k = 432 /\ a = 103
    BY <1>3 DEF InterleaveIndex
<1> QED BY <1>1, <1>2, <1>3 DEF Multipliers

\* And it takes all of them.
LEMMA IndexIsOnto ==
    ASSUME NEW k \in Nat, NEW a \in Nat, <<k, a>> \in Multipliers, NEW p \in 1 .. k
    PROVE  \E i \in 1 .. k : InterleaveIndex(k, a, i) = p
<1> USE DEF InterleaveIndex
<1>1. CASE k = 120 /\ a = 11
  <2>1. ((11 * (p - 1) - 1) % 120) + 1 \in 1 .. k
        BY <1>1
  <2>   QED  BY <1>1, <2>1
<1>2. CASE k = 216 /\ a = 101
  <2>1. ((77 * (p - 1) - 1) % 216) + 1 \in 1 .. k
        BY <1>2
  <2>   QED  BY <1>2, <2>1
<1>3. CASE k = 432 /\ a = 103
  <2>1. ((151 * (p - 1) - 1) % 432) + 1 \in 1 .. k
        BY <1>3
  <2>   QED  BY <1>3, <2>1
<1> QED BY <1>1, <1>2, <1>3 DEF Multipliers

\* block_deinterleave undoes block_interleave.
LEMMA InterleavingIsUndone ==
    ASSUME NEW k \in Nat, NEW a \in Nat, <<k, a>> \in Multipliers, NEW in \in [1 .. k -> Bit]
    PROVE  /\ Interleave(k, a, in) \in [1 .. k -> Bit]
           /\ Deinterleave(k, a, Interleave(k, a, in)) = in
<1> DEFINE from == [p \in 1 .. k |-> CHOOSE i \in 1 .. k : InterleaveIndex(k, a, i) = p]
           out == Interleave(k, a, in)
<1>1. ASSUME NEW p \in 1 .. k
      PROVE  from[p] \in 1 .. k /\ InterleaveIndex(k, a, from[p]) = p
  <2>1. \E i \in 1 .. k : InterleaveIndex(k, a, i) = p
        BY IndexIsOnto
  <2>2. from[p] = CHOOSE i \in 1 .. k : InterleaveIndex(k, a, i) = p
        OBVIOUS
  <2>   QED  BY <2>1, <2>2, Zenon
<1>2. [p \in 1 .. k |-> in[from[p]]] \in [1 .. k -> Bit]
  <2>   HIDE DEF from
  <2>   QED  BY <1>1
<1>3. out = [p \in 1 .. k |-> in[from[p]]]
    BY <1>2, BitsAre DEF Interleave
<1>4. ASSUME NEW i \in 1 .. k
      PROVE  InterleaveIndex(k, a, i) \in 1 .. k /\ out[InterleaveIndex(k, a, i)] = in[i]
  <2>1. InterleaveIndex(k, a, i) \in 1 .. k
        BY IndexIsBijective
  <2>2. from[InterleaveIndex(k, a, i)] = i
        BY <1>1, <2>1, IndexIsBijective
  <2>   HIDE DEF from
  <2>   QED  BY <1>3, <2>1, <2>2
<1> HIDE DEF out, from
<1>5. [i \in 1 .. k |-> out[InterleaveIndex(k, a, i)]] = [i \in 1 .. k |-> in[i]]
    BY <1>4
<1>6. [i \in 1 .. k |-> in[i]] = in
    OBVIOUS
<1>7. Deinterleave(k, a, out) = in
    BY <1>5, <1>6, BitsAre DEF Deinterleave
<1> QED BY <1>2, <1>3, <1>7 DEF out

-----------------------------------------------------------------------------
\* A function on 1 .. n is a sequence.
LEMMA FunctionIsSequence ==
    ASSUME NEW S, NEW n \in Nat, NEW s \in [1 .. n -> S]
    PROVE  s \in Seq(S) /\ Len(s) = n
OBVIOUS
\* Two sequences of bits in one.
LEMMA ConcatIs ==
    ASSUME NEW n \in Nat, NEW s \in [1 .. n -> Bit], NEW m \in Nat, NEW t \in [1 .. m -> Bit]
    PROVE  /\ s \o t \in [1 .. n + m -> Bit]
           /\ \A i \in 1 .. n : (s \o t)[i] = s[i]
           /\ \A i \in 1 .. m : (s \o t)[n + i] = t[i]
<1>1. s \in Seq(Bit) /\ Len(s) = n /\ t \in Seq(Bit) /\ Len(t) = m
    BY FunctionIsSequence
<1>2. s \o t \in Seq(Bit) /\ Len(s \o t) = n + m
    BY <1>1
<1>3. \A i \in 1 .. n + m : (s \o t)[i] = IF i <= n THEN s[i] ELSE t[i - n]
    BY <1>1
<1>4. s \o t \in [1 .. n + m -> Bit]
  <2>1. s \o t \in [1 .. Len(s \o t) -> Bit]
        BY <1>2, LenProperties
  <2>   QED  BY <1>2, <2>1
<1>5. \A i \in 1 .. n : (s \o t)[i] = s[i]
    BY <1>3
<1>6. ASSUME NEW i \in 1 .. m PROVE (s \o t)[n + i] = t[i]
  <2>1. n + i \in 1 .. n + m /\ ~(n + i <= n) /\ (n + i) - n = i
        OBVIOUS
  <2>   QED  BY <1>3, <2>1
<1> QED BY <1>4, <1>5, <1>6

\* What the base station makes of type-1 bits: they, the inverted CRC, and four zeros.
LEMMA Type2Is ==
    ASSUME NEW n \in Nat, NEW type1 \in [1 .. n -> Bit], NEW crc \in Register
    PROVE  /\ Type2(type1, crc) \in [1 .. n + 20 -> Bit]
           /\ \A i \in 1 .. n : Type2(type1, crc)[i] = type1[i]
           /\ \A i \in 1 .. 16 : Type2(type1, crc)[n + i] = 1 - crc[i]
           /\ Flushed(Type2(type1, crc), n + 20)
<1> DEFINE inv == [i \in 1 .. 16 |-> 1 - crc[i]]
           zeros == <<0, 0, 0, 0>>
           front == type1 \o inv
           out == front \o zeros
<1>1. inv \in [1 .. 16 -> Bit]
  <2>1. \A i \in 1 .. 16 : crc[i] \in Bit
        BY DEF Register
  <2>2. ASSUME NEW i \in 1 .. 16 PROVE 1 - crc[i] \in Bit
    <3>1. crc[i] = 0 \/ crc[i] = 1
          BY <2>1 DEF Bit
    <3>   QED  BY <3>1 DEF Bit
  <2>   QED  BY <2>2
<1>2. Type2(type1, crc) = out
  <2>1. Bits(inv, 16) = inv
        BY <1>1, BitsAre
  <2>   QED  BY <2>1 DEF Type2
<1>3. \A i \in 1 .. 16 : inv[i] = 1 - crc[i]
    OBVIOUS
<1> HIDE DEF inv
<1>4. /\ front \in [1 .. n + 16 -> Bit]
      /\ \A i \in 1 .. n : front[i] = type1[i]
      /\ \A i \in 1 .. 16 : front[n + i] = inv[i]
  <2>1. 16 \in Nat
        OBVIOUS
  <2>   QED  BY <1>1, <2>1, ConcatIs, Zenon
<1>5. zeros \in [1 .. 4 -> Bit] /\ \A i \in 1 .. 4 : zeros[i] = 0
    BY DEF Bit
<1> HIDE DEF front, zeros
<1>6. /\ out \in [1 .. (n + 16) + 4 -> Bit]
      /\ \A i \in 1 .. n + 16 : out[i] = front[i]
      /\ \A i \in 1 .. 4 : out[(n + 16) + i] = zeros[i]
  <2>1. n + 16 \in Nat /\ 4 \in Nat
        OBVIOUS
  <2>   QED  BY <1>4, <1>5, <2>1, ConcatIs, Zenon
<1> HIDE DEF out
<1>7. out \in [1 .. n + 20 -> Bit]
    BY <1>6, (n + 16) + 4 = n + 20
<1>8. \A i \in 1 .. n : out[i] = type1[i]
    BY <1>4, <1>6
<1>9. ASSUME NEW i \in 1 .. 16 PROVE out[n + i] = 1 - crc[i]
  <2>1. n + i \in 1 .. n + 16
        OBVIOUS
  <2>   QED  BY <1>3, <1>4, <1>6, <2>1
<1>10. Flushed(out, n + 20)
  <2>1. ASSUME NEW i \in 1 .. n + 20, i > (n + 20) - 4 PROVE out[i] = 0
    <3>1. PICK m \in 1 .. 4 : i = (n + 16) + m
      <4>1. i - (n + 16) \in 1 .. 4 /\ i = (n + 16) + (i - (n + 16))
            BY <2>1
      <4>   QED  BY <4>1
    <3>   QED  BY <1>5, <1>6, <3>1
  <2>   QED  BY <2>1 DEF Flushed
<1> QED BY <1>2, <1>7, <1>8, <1>9, <1>10

\* Of a block without errors, the decoder gets the code words of its type-2 bits.
LEMMA ReceivedIsClean ==
    ASSUME NEW p, NEW n \in Nat, NEW k \in Nat, NEW a \in Nat, p.type345 = k, p.type2 = n, p.a = a,
           <<k, a>> \in Multipliers, 2 * k = 3 * n,
           NEW in \in [1 .. n -> Bit], NEW stream \in [1 .. k -> Bit]
    PROVE  SoftBits(Received(p, Type5(p, in, stream), stream), n) = CleanSoft(in, n, k)
<1> DEFINE punct == Punctured(ConvEnc(in), k)
           inter == Interleave(k, a, punct)
<1>1. punct \in [1 .. k -> Bit]
  <2>1. ConvEnc(in) \in [1 .. 4 * n -> Bit]
        BY ConvEncIs
  <2>   QED  BY <2>1, PuncturedIs
<1>2. inter \in [1 .. k -> Bit] /\ Deinterleave(k, a, inter) = punct
  <2>   HIDE DEF punct
  <2>   QED  BY <1>1, InterleavingIsUndone
<1>3. Scramble(stream, Scramble(stream, inter)) = inter
  <2>   HIDE DEF inter
  <2>   QED  BY <1>2, ScrambleIsUndone
<1>4. Received(p, Type5(p, in, stream), stream) = Depunctured(punct, N * n)
    BY <1>2, <1>3 DEF Received, Type5
<1> QED BY <1>4 DEF CleanSoft

\* What DecodeBlock makes of bits: the rows, the survivors and the registers of its loops.
Decoding(p, in, stream, sums, path, regs, out) ==
    /\ Traversed(sums, SoftBits(Received(p, in, stream), p.type2), TrellisLength(p.type2))
    /\ Traced(path, sums, TrellisLength(p.type2))
    /\ \A i \in 1 .. p.type2 : out[i] = BitInto(path[i])
    /\ Registers(regs, out, p.type1 + 16)

\* It has got what was sent, and the CRC is right.
AsSent(p, type1, regs, out) ==
    /\ \A i \in 1 .. p.type1 : out[i] = type1[i]
    /\ regs[p.type1 + 17] = TETRA_CRC_OK

\* Whatever the loops have gone through: if the block arrives as it was sent, it is right.
LEMMA UndisturbedBlockIsDecoded ==
    ASSUME NEW type \in DOMAIN BlkParam, NEW p, p = BlkParam[type],
           NEW type1 \in [1 .. p.type1 -> Bit], NEW stream \in [1 .. p.type345 -> Bit],
           NEW sent, Registers(sent, type1, p.type1), NEW crc, crc = sent[p.type1 + 1],
           NEW sums, NEW path, NEW regs, NEW out,
           Decoding(p, Type5(p, Type2(type1, crc), stream), stream, sums, path, regs, out)
    PROVE  AsSent(p, type1, regs, out)
<1>1. PICK n1 \in Nat, n \in Nat, k \in Nat, a \in Nat :
        /\ p.type1 = n1 /\ p.type2 = n /\ p.type345 = k /\ p.a = a
        /\ <<k, a>> \in Multipliers /\ 2 * k = 3 * n /\ n = n1 + 20
    BY DEF BlkParam, Multipliers
<1> DEFINE in == Type2(type1, crc)
<1>2. type1 \in [1 .. n1 -> Bit] /\ stream \in [1 .. k -> Bit] /\ Registers(sent, type1, n1)
    BY <1>1
<1>3. \A i \in 1 .. n1 + 1 : sent[i] \in Register
    BY <1>2, RegistersAreTyped
<1>4. /\ in \in [1 .. n -> Bit] /\ Flushed(in, n)
      /\ \A i \in 1 .. n1 : in[i] = type1[i]
      /\ \A i \in 1 .. 16 : in[n1 + i] = 1 - crc[i]
  <2>1. crc \in Register
        BY <1>1, <1>3
  <2>2. /\ in \in [1 .. n1 + 20 -> Bit] /\ Flushed(in, n1 + 20)
        /\ \A i \in 1 .. n1 : in[i] = type1[i]
        /\ \A i \in 1 .. 16 : in[n1 + i] = 1 - crc[i]
        BY <1>2, <2>1, Type2Is
  <2>   HIDE DEF in
  <2>   QED  BY <1>1, <2>2
<1>5. /\ Traversed(sums, SoftBits(Received(p, Type5(p, in, stream), stream), n), TrellisLength(n))
      /\ Traced(path, sums, TrellisLength(n))
      /\ \A i \in 1 .. n : out[i] = BitInto(path[i])
      /\ Registers(regs, out, n1 + 16)
    BY <1>1 DEF Decoding
<1> HIDE DEF in
<1>6. Traversed(sums, CleanSoft(in, n, k), TrellisLength(n))
  <2>1. SoftBits(Received(p, Type5(p, in, stream), stream), n) = CleanSoft(in, n, k)
    <3>1. p.type345 = k /\ p.type2 = n /\ p.a = a /\ <<k, a>> \in Multipliers /\ 2 * k = 3 * n
          BY <1>1
    <3>2. in \in [1 .. n -> Bit] /\ stream \in [1 .. k -> Bit]
          BY <1>2, <1>4
    <3>   QED  BY <3>1, <3>2, ReceivedIsClean
  <2>   QED  BY <1>5, <2>1
<1>7. \A i \in 1 .. n : out[i] = in[i]
  <2>1. \A i \in 1 .. n : BitInto(path[i]) = in[i]
    <3>1. 2 * k = 3 * n /\ in \in [1 .. n -> Bit] /\ Flushed(in, n)
          BY <1>1, <1>4
    <3>2. Traversed(sums, CleanSoft(in, n, k), TrellisLength(n)) /\ Traced(path, sums, TrellisLength(n))
          BY <1>5, <1>6
    <3>   QED  BY <3>1, <3>2, CleanCodeIsTraced
  <2>   QED  BY <1>5, <2>1
<1>8. \A i \in 1 .. n1 + 16 : i \in 1 .. n /\ out[i] = in[i] /\ in[i] \in Bit
  <2>1. \A i \in 1 .. n1 + 16 : i \in 1 .. n
        BY <1>1
  <2>   QED  BY <1>4, <1>7, <2>1
\* The receiver computes the registers of the sender first, and then those of the CRC.
<1>9. regs[n1 + 1] = sent[n1 + 1]
  <2> DEFINE S == {j \in Nat : j <= n1 => regs[j + 1] = sent[j + 1]}
  <2>1. 0 \in S
        BY <1>2, <1>5 DEF Registers
  <2>2. ASSUME NEW j \in Nat, j \in S PROVE j + 1 \in S
    <3> SUFFICES ASSUME j + 1 <= n1 PROVE regs[(j + 1) + 1] = sent[(j + 1) + 1]
        OBVIOUS
    <3>1. j + 1 \in 1 .. n1 /\ j + 1 \in 1 .. n1 + 16 /\ regs[j + 1] = sent[j + 1]
          BY <2>2
    <3>2. out[j + 1] = type1[j + 1]
          BY <1>4, <1>8, <3>1
    <3>   QED  BY <1>2, <1>5, <3>1, <3>2 DEF Registers
  <2>3. \A j \in Nat : j \in S
    <3>   HIDE DEF S
    <3>   QED  BY <2>1, <2>2, NatSet
  <2>   QED  BY <2>3
<1>10. \A i \in 1 .. 16 : out[n1 + i] = 1 - regs[n1 + 1][i]
  <2>1. \A i \in 1 .. 16 : n1 + i \in 1 .. n1 + 16
        OBVIOUS
  <2>2. crc = regs[n1 + 1]
        BY <1>1, <1>9
  <2>   QED  BY <1>4, <1>8, <2>1, <2>2
<1>11. regs[n1 + 17] = TETRA_CRC_OK
    BY <1>5, <1>8, <1>10, CrcOfCrc
<1>12. \A i \in 1 .. n1 : out[i] = type1[i]
  <2>1. \A i \in 1 .. n1 : i \in 1 .. n1 + 16
        OBVIOUS
  <2>   QED  BY <1>4, <1>8, <2>1
<1> QED BY <1>1, <1>11, <1>12 DEF AsSent

-----------------------------------------------------------------------------
(* No path through the trellis scores more than the one that is traced.    *)

\* What the symbols of step i say for the way from state s to state t, and what those of all
\* steps say for a path through the trellis.
For(soft, i, s, t) == Gain(Metrics(Outputs, soft, N * (i - 1)), t, s % 2)
Scored(path, score, soft, len) ==
    /\ score[0] = Sum(FreshSums, path[0])
    /\ \A i \in 1 .. len : score[i] = score[i - 1] + For(soft, i, path[i - 1], path[i])
Path(path, len) ==
    /\ path \in [0 .. len -> States]
    /\ \A i \in 1 .. len : path[i - 1] = LShift(path[i], path[i - 1] % 2)

\* It is a number.
LEMMA ForType ==
    ASSUME NEW soft, NEW len \in Nat, TwoKnown(soft, len), NEW i \in 1 .. len, NEW s \in States, NEW t \in States
    PROVE  s % 2 \in Bit /\ For(soft, i, s, t) \in Int /\ For(soft, i, s, t) = Gain(Symbols(soft, i), t, s % 2)
<1>1. s % 2 \in Bit
    BY DEF States, Bit
<1>2. Metrics(Outputs, soft, N * (i - 1)) = Symbols(soft, i)
    BY MetricsAre DEF Symbols
<1>3. PICK x \in {-127, 0, 127}, y \in {-127, 0, 127} : Symbols(soft, i) = MetricOf(x, y)
    BY StepOfIs
<1>4. \A w \in Bit : Gain(MetricOf(x, y), t, w) \in -254 .. 254
    BY MetricBounds
<1>5. Gain(MetricOf(x, y), t, s % 2) \in Int
    BY <1>1, <1>4
<1> QED BY <1>1, <1>2, <1>3, <1>5 DEF For

\* The survivors that are traced are a path through the trellis.
LEMMA TracedIsPath ==
    ASSUME NEW soft, NEW len \in Nat, TwoKnown(soft, len), NEW sums, Traversed(sums, soft, len),
           NEW path, Traced(path, sums, len)
    PROVE  /\ \A i \in 0 .. len : path[i] \in States
           /\ \A i \in 1 .. len : /\ path[i - 1] = LShift(path[i], Way(sums[i + 1], path[i]))
                                  /\ path[i - 1] % 2 = Way(sums[i + 1], path[i])
<1> DEFINE S == {j \in Nat : j <= len => path[len - j] \in States}
<1>1. ASSUME NEW i \in 1 .. len, path[i] \in States
      PROVE  /\ path[i - 1] = LShift(path[i], Way(sums[i + 1], path[i]))
             /\ path[i - 1] \in States /\ path[i - 1] % 2 = Way(sums[i + 1], path[i])
  <2>1. path[i - 1] = LShift(path[i], Way(sums[i + 1], path[i]))
        BY DEF Traced, Before, Way
  <2>2. Way(sums[i + 1], path[i]) \in Bit
    <3>1. sums[i + 1] \in Row
          BY RowsAreTyped
    <3>   QED  BY <1>1, <3>1, RowType
  <2>3. \A w \in Bit : LShift(path[i], w) \in States /\ LShift(path[i], w) % 2 = w
    <3>1. \A w \in Bit : LShift(path[i], w) \in States
          BY <1>1, StatesBefore DEF Bit
    <3>2. \A w \in Bit : LShift(path[i], w) % 2 = w
          BY <1>1, Halves
    <3>   QED  BY <3>1, <3>2
  <2>   QED  BY <2>1, <2>2, <2>3
<1>2. 0 \in S
    BY DEF Traced, States
<1>3. ASSUME NEW j \in Nat, j \in S PROVE j + 1 \in S
  <2> SUFFICES ASSUME j + 1 <= len PROVE path[len - (j + 1)] \in States
      OBVIOUS
  <2>1. PICK i \in 1 .. len : i = len - j /\ i - 1 = len - (j + 1)
        OBVIOUS
  <2>2. path[i] \in States
        BY <1>3, <2>1
  <2>   QED  BY <1>1, <2>1, <2>2
<1>4. \A j \in Nat : j \in S
  <2>   HIDE DEF S
  <2>   QED  BY <1>2, <1>3, NatSet
<1>5. ASSUME NEW i \in 0 .. len PROVE path[i] \in States
  <2>1. len - i \in Nat /\ len - i <= len /\ len - (len - i) = i
        OBVIOUS
  <2>   QED  BY <1>4, <2>1
<1>6. \A i \in 1 .. len : i \in 0 .. len
    OBVIOUS
<1> QED BY <1>1, <1>5, <1>6

\* No path that ends where the traced one does scores more than it.
LEMMA TracedScoresMost ==
    ASSUME NEW soft, NEW len \in Nat, TwoKnown(soft, len), NEW sums, Traversed(sums, soft, len),
           NEW path, Traced(path, sums, len), NEW score, Scored(path, score, soft, len),
           NEW rival, Path(rival, len), rival[len] = 0, NEW other, Scored(rival, other, soft, len)
    PROVE  score[len] \in Int /\ other[len] \in Int /\ other[len] <= score[len]
<1> DEFINE Ahead(i) == /\ score[i] \in Int /\ other[i] \in Int
                       /\ other[i] - Sum(sums[i + 1], rival[i]) <= score[i] - Sum(sums[i + 1], path[i])
           S == {i \in Nat : i <= len => Ahead(i)}
<1>1. /\ \A i \in 0 .. len : path[i] \in States /\ rival[i] \in States
      /\ \A i \in 1 .. len : /\ path[i - 1] = LShift(path[i], Way(sums[i + 1], path[i]))
                             /\ path[i - 1] % 2 = Way(sums[i + 1], path[i])
                             /\ rival[i - 1] = LShift(rival[i], rival[i - 1] % 2)
    BY TracedIsPath DEF Path
<1>2. \A i \in 1 .. len + 1 : sums[i] \in Row
    BY RowsAreTyped
<1>3. 0 \in S
  <2>1. sums[1] = FreshSums
        BY DEF Traversed
  <2>2. Sum(FreshSums, path[0]) \in Int /\ Sum(FreshSums, rival[0]) \in Int
        BY <1>1, FreshSumsAre
  <2>   QED  BY <2>1, <2>2 DEF Scored
<1>4. ASSUME NEW i \in 1 .. len, Ahead(i - 1) PROVE Ahead(i)
  <2> DEFINE new == StepOf(sums, soft, i)
             g == Symbols(soft, i)
  <2>1. PICK t \in States, s \in States, q \in States, r \in States :
           t = path[i] /\ s = path[i - 1] /\ q = rival[i] /\ r = rival[i - 1]
    <3>1. i \in 0 .. len /\ i - 1 \in 0 .. len
          OBVIOUS
    <3>   QED  BY <1>1, <3>1
  <2>2. PICK x \in {-127, 0, 127}, y \in {-127, 0, 127} : new = Step(sums[i], MetricOf(x, y)) /\ g = MetricOf(x, y)
        BY StepOfIs
  <2>3. sums[i] \in Row /\ sums[i + 1] \in Row /\ new \in Row /\ sums[i + 1] = Kept(new, i)
        BY RowsAreTyped DEF Traversed
  <2>   HIDE DEF new, g
  <2>4. PICK d \in Int : \A u \in States : /\ Sum(sums[i + 1], u) = Sum(new, u) - d
                                           /\ Way(sums[i + 1], u) = Way(new, u)
    <3>1. i \in Nat
          OBVIOUS
    <3>   QED  BY <2>3, <3>1, KeptIs
  <2>5. PICK a \in Int, b \in Int : a = For(soft, i, s, t) /\ b = For(soft, i, r, q)
                                    /\ a = Gain(g, t, s % 2) /\ b = Gain(g, q, r % 2)
        BY ForType DEF g
  <2>6. score[i] = score[i - 1] + a /\ other[i] = other[i - 1] + b
    <3>1. /\ score[i] = score[i - 1] + For(soft, i, path[i - 1], path[i])
          /\ other[i] = other[i - 1] + For(soft, i, rival[i - 1], rival[i])
          BY DEF Scored
    <3>   QED  BY <2>1, <2>5, <3>1
  <2>7. Sum(new, t) = Sum(sums[i], s) + a
    <3>1. s = LShift(t, Way(new, t)) /\ s % 2 = Way(new, t)
          BY <1>1, <2>1, <2>4
    <3>2. Sum(new, t) = Sum(sums[i], LShift(t, Way(new, t))) + Gain(g, t, Way(new, t))
          BY <2>2, <2>3, StepTakesTheBest
    <3>   QED  BY <2>5, <3>1, <3>2
  <2>8. Sum(new, q) >= Sum(sums[i], r) + b
    <3>1. r = LShift(q, r % 2) /\ r % 2 \in Bit
          BY <1>1, <2>1, ForType
    <3>2. \A w \in Bit : Sum(new, q) >= Sum(sums[i], LShift(q, w)) + Gain(g, q, w)
          BY <2>2, <2>3, StepTakesTheBest
    <3>   QED  BY <2>5, <3>1, <3>2
  <2>9. /\ Sum(sums[i], s) \in Int /\ Sum(sums[i], r) \in Int /\ Sum(new, t) \in Int /\ Sum(new, q) \in Int
        BY <2>3, RowType
  <2>10. /\ score[i - 1] \in Int /\ other[i - 1] \in Int
         /\ other[i - 1] - Sum(sums[i], r) <= score[i - 1] - Sum(sums[i], s)
    <3>1. (i - 1) + 1 = i
          OBVIOUS
    <3>   QED  BY <1>4, <2>1, <3>1
  <2>11. Sum(sums[i + 1], t) = Sum(new, t) - d /\ Sum(sums[i + 1], q) = Sum(new, q) - d
        BY <2>4
  <2>12. /\ score[i] \in Int /\ other[i] \in Int
         /\ other[i] - Sum(sums[i + 1], q) <= score[i] - Sum(sums[i + 1], t)
        BY <2>6, <2>7, <2>8, <2>9, <2>10, <2>11
  <2>   QED  BY <2>1, <2>12
<1>5. ASSUME NEW i \in Nat, i \in S PROVE i + 1 \in S
  <2> SUFFICES ASSUME i + 1 <= len PROVE Ahead(i + 1)
      OBVIOUS
  <2>1. i + 1 \in 1 .. len /\ (i + 1) - 1 = i /\ Ahead(i)
        BY <1>5
  <2>   HIDE DEF Ahead
  <2>2. Ahead((i + 1) - 1)
        BY <2>1
  <2>   QED  BY <1>4, <2>1, <2>2
<1>6. len \in S
  <2>   HIDE DEF S
  <2>   QED  BY <1>3, <1>5, NatSet
<1>7. path[len] = 0 /\ rival[len] = 0
    BY DEF Traced
<1>8. Sum(sums[len + 1], 0) \in Int
  <2>1. sums[len + 1] \in Row /\ 0 \in States
        BY <1>2 DEF States
  <2>   QED  BY <2>1, RowType
<1> QED BY <1>6, <1>7, <1>8

-----------------------------------------------------------------------------
(* The score of a code word: each symbol that agrees with it adds to it,   *)
(* and each that does not takes as much away.                              *)
Sign(bit) == 1 - 2 * bit
Agreement(soft, word, n, i) ==
    soft[4 * (i - 1) + 1] * Sign(CodeAt(word, n, i)[1]) + soft[4 * (i - 1) + 2] * Sign(CodeAt(word, n, i)[2])
      + soft[4 * (i - 1) + 3] * Sign(CodeAt(word, n, i)[3]) + soft[4 * (i - 1) + 4] * Sign(CodeAt(word, n, i)[4])
Agrees(score, soft, word, n, len) ==
    /\ score[0] = INT8_MAX * N * K
    /\ \A i \in 1 .. len : score[i] = score[i - 1] + Agreement(soft, word, n, i)

Signed(v, bit) == IF bit = 0 THEN v ELSE -v
OfCode(x, y, code) == Signed(x, code[1]) + Signed(y, code[2])
Number(a, b, c, d) == 8 * a + 4 * b + 2 * c + d

\* What a way adds is what the symbols say for the code of its bits.
LEMMA GainOfCode ==
    ASSUME NEW x \in {-127, 0, 127}, NEW y \in {-127, 0, 127},
           NEW a \in Bit, NEW b \in Bit, NEW c \in Bit, NEW d \in Bit, NEW e \in Bit
    PROVE  Gain(MetricOf(x, y), Number(a, b, c, d), e) = OfCode(x, y, Code(a, b, c, d, e))
<1> DEFINE p == (a + b + e) % 2
           q == (a + c + d + e) % 2
           s == Number(a, b, c, d)
<1>1. a \in {0, 1} /\ b \in {0, 1} /\ c \in {0, 1} /\ d \in {0, 1} /\ e \in {0, 1}
    BY DEF Bit
<1>2. Code(a, b, c, d, e)[1] = p /\ Code(a, b, c, d, e)[2] = q
  <2>1. Code(a, b, c, d, e)[1] = ((a + b) + e) % 2 /\ Code(a, b, c, d, e)[2] = ((a + c) + (d + e)) % 2
        BY DEF Code, Xor
  <2>   QED  BY <1>1, <2>1
<1>3. p \in {0, 1} /\ q \in {0, 1}
    BY <1>1
<1>4. PICK t \in 1 .. 8 : t = 4 * b + 2 * c + d + 1
    BY <1>1
<1>5. OutputTable[t][1] = (IF b = 0 THEN 1 ELSE -1) /\ OutputTable[t][2] = (IF c = d THEN 1 ELSE -1)
    BY <1>1, <1>4 DEF OutputTable
<1>6. PICK m \in Int : m = (IF b = 0 THEN x ELSE -x) + (IF c = d THEN y ELSE -y)
    OBVIOUS
<1>7. MetricOf(x, y)[t] = m
  <2>1. MetricOf(x, y)[t] = x * OutputTable[t][1] + y * OutputTable[t][2]
        BY DEF MetricOf
  <2>   QED  BY <1>5, <1>6, <2>1
<1>8. (s % 8) + 1 = t /\ (s < 8 <=> a = 0)
    BY StateOfBits, <1>1, <1>4 DEF Bit, Number
<1> HIDE DEF s
<1>9. Gain(MetricOf(x, y), s, e) = IF a = e THEN m ELSE -m
    BY <1>1, <1>7, <1>8 DEF Gain
<1>10. (IF a = e THEN m ELSE -m) = (IF p = 0 THEN x ELSE -x) + (IF q = 0 THEN y ELSE -y)
    BY <1>1, <1>6
<1> HIDE DEF p, q
<1> QED BY <1>2, <1>9, <1>10 DEF s, Signed, OfCode

\* The path of a word through the trellis, and its score.
LEMMA WordIsPath ==
    ASSUME NEW n \in Nat, NEW word \in [1 .. n -> Bit], NEW soft, TwoKnown(soft, n + 4),
           NEW rival, rival = [i \in 0 .. n + 4 |-> StateAfter(word, n, i)],
           NEW score, Agrees(score, soft, word, n, n + 4)
    PROVE  Path(rival, n + 4) /\ rival[n + 4] = 0 /\ Scored(rival, score, soft, n + 4)
<1>1. ASSUME NEW i \in Int
      PROVE  /\ StateAfter(word, n, i) \in States
             /\ StateAfter(word, n, i - 1) = LShift(StateAfter(word, n, i), B(word, n, i - 4))
             /\ StateAfter(word, n, i - 1) % 2 = B(word, n, i - 4)
  <2>1. PICK a \in Bit, b \in Bit, c \in Bit, d \in Bit, e \in Bit :
          /\ a = B(word, n, i) /\ b = B(word, n, i - 1) /\ c = B(word, n, i - 2) /\ d = B(word, n, i - 3)
          /\ e = B(word, n, i - 4)
        BY BIsBit
  <2>2. StateAfter(word, n, i) = 8 * a + 4 * b + 2 * c + d
        BY <2>1 DEF StateAfter
  <2>3. StateAfter(word, n, i - 1) = 8 * b + 4 * c + 2 * d + e
        BY <2>1 DEF StateAfter
  <2>4. StateAfter(word, n, i) \in States /\ LShift(StateAfter(word, n, i), e) = StateAfter(word, n, i - 1)
        BY <2>2, <2>3, StateOfBits
  <2>5. LShift(StateAfter(word, n, i), e) % 2 = e
        BY <2>4, Halves
  <2>   QED  BY <2>1, <2>4, <2>5
<1>2. Path(rival, n + 4)
  <2>1. \A i \in 0 .. n + 4 : StateAfter(word, n, i) \in States
        BY <1>1
  <2>2. ASSUME NEW i \in 1 .. n + 4 PROVE rival[i - 1] = LShift(rival[i], rival[i - 1] % 2)
    <3>1. rival[i] = StateAfter(word, n, i) /\ rival[i - 1] = StateAfter(word, n, i - 1)
          OBVIOUS
    <3>   QED  BY <1>1, <3>1
  <2>   QED  BY <2>1, <2>2 DEF Path
<1>3. rival[n + 4] = 0
    BY DEF StateAfter, B
<1>4. Sum(FreshSums, rival[0]) = score[0]
  <2>1. rival[0] = 0
        BY DEF StateAfter, B
  <2>2. INT8_MAX * N * K = 2540 /\ 0 \in States
        BY DEF INT8_MAX, N, K, States
  <2>   QED  BY <2>1, <2>2, FreshSumsAre DEF Agrees
<1>5. ASSUME NEW i \in 1 .. n + 4 PROVE For(soft, i, rival[i - 1], rival[i]) = Agreement(soft, word, n, i)
  <2> DEFINE a == B(word, n, i)
             b == B(word, n, i - 1)
             c == B(word, n, i - 2)
             d == B(word, n, i - 3)
             e == B(word, n, i - 4)
             p == Code(a, b, c, d, e)[1]
             q == Code(a, b, c, d, e)[2]
             x == soft[4 * (i - 1) + 1]
             y == soft[4 * (i - 1) + 2]
             t == StateAfter(word, n, i)
             u == StateAfter(word, n, i - 1)
  <2>1. a \in Bit /\ b \in Bit /\ c \in Bit /\ d \in Bit /\ e \in Bit
        BY BIsBit
  <2>2. rival[i] = t /\ rival[i - 1] = u /\ t = 8 * a + 4 * b + 2 * c + d
        BY DEF StateAfter
  <2>3. t \in States /\ u \in States /\ u % 2 = e
    <3>1. i \in Int /\ i - 1 \in Int
          OBVIOUS
    <3>2. StateAfter(word, n, i) \in States /\ StateAfter(word, n, i - 1) % 2 = B(word, n, i - 4)
          BY <1>1, <3>1
    <3>3. StateAfter(word, n, i - 1) \in States
          BY <1>1, <3>1
    <3>   QED  BY <3>2, <3>3
  <2>4. x \in {-127, 0, 127} /\ y \in {-127, 0, 127} /\ soft[4 * (i - 1) + 3] = 0 /\ soft[4 * (i - 1) + 4] = 0
        BY DEF TwoKnown
  <2>5. CodeAt(word, n, i) = Code(a, b, c, d, e)
        BY DEF CodeAt
  <2>6. Symbols(soft, i) = MetricOf(x, y)
        BY DEF Symbols
  <2>   HIDE DEF a, b, c, d, e, x, y, t, u
  <2>7. p \in Bit /\ q \in Bit /\ Code(a, b, c, d, e)[3] \in Bit /\ Code(a, b, c, d, e)[4] \in Bit
    <3>1. Code(a, b, c, d, e) \in [1 .. 4 -> Bit]
          BY <2>1, CodeType
    <3>   QED  BY <3>1
  <2>8. For(soft, i, rival[i - 1], rival[i]) = Gain(MetricOf(x, y), t, e)
    <3>1. For(soft, i, u, t) = Gain(Symbols(soft, i), t, u % 2)
          BY <2>3, ForType
    <3>   QED  BY <2>2, <2>3, <2>6, <3>1
  <2>9. Agreement(soft, word, n, i) = x * Sign(p) + y * Sign(q) + 0 * Sign(Code(a, b, c, d, e)[3]) + 0 * Sign(Code(a, b, c, d, e)[4])
        BY <2>4, <2>5 DEF Agreement, x, y
  <2>10. x * Sign(p) + y * Sign(q) + 0 * Sign(Code(a, b, c, d, e)[3]) + 0 * Sign(Code(a, b, c, d, e)[4])
         = (IF p = 0 THEN x ELSE -x) + (IF q = 0 THEN y ELSE -y)
    <3>   HIDE DEF p, q
    <3>1. /\ Sign(Code(a, b, c, d, e)[3]) \in Int /\ Sign(Code(a, b, c, d, e)[4]) \in Int
          BY <2>7 DEF Sign, Bit
    <3>2. x * Sign(p) = (IF p = 0 THEN x ELSE -x) /\ y * Sign(q) = (IF q = 0 THEN y ELSE -y)
          BY <2>4, <2>7 DEF Sign, Bit
    <3>   QED  BY <2>4, <3>1, <3>2
  <2>11. Gain(MetricOf(x, y), t, e) = (IF p = 0 THEN x ELSE -x) + (IF q = 0 THEN y ELSE -y)
    <3>1. Gain(MetricOf(x, y), Number(a, b, c, d), e) = OfCode(x, y, Code(a, b, c, d, e))
          BY <2>1, <2>4, GainOfCode
    <3>2. t = Number(a, b, c, d)
          BY <2>2 DEF Number
    <3>   QED  BY <3>1, <3>2 DEF Signed, OfCode
  <2>   QED  BY <2>8, <2>9, <2>10, <2>11
<1>6. Scored(rival, score, soft, n + 4)
    BY <1>4, <1>5 DEF Scored, Agrees
<1> QED BY <1>2, <1>3, <1>6

\* Whatever is received: no word agrees with it more than the path that is traced.
THEOREM NoWordScoresMore ==
    ASSUME NEW n \in Nat, NEW in, NEW soft, soft = SoftBits(Depunctured(in, N * n), n),
           NEW sums, Traversed(sums, soft, TrellisLength(n)),
           NEW path, Traced(path, sums, TrellisLength(n)),
           NEW score, Scored(path, score, soft, TrellisLength(n)),
           NEW word \in [1 .. n -> Bit], NEW other, Agrees(other, soft, word, n, TrellisLength(n))
    PROVE  other[TrellisLength(n)] <= score[TrellisLength(n)]
<1>1. TwoKnown(soft, n + 4) /\ TrellisLength(n) = n + 4
    BY TwoAreKnown
<1> DEFINE rival == [i \in 0 .. n + 4 |-> StateAfter(word, n, i)]
<1>2. Path(rival, n + 4) /\ rival[n + 4] = 0 /\ Scored(rival, other, soft, n + 4)
    BY <1>1, WordIsPath
<1>3. n + 4 \in Nat
    OBVIOUS
<1> HIDE DEF rival
<1> QED BY <1>1, <1>2, <1>3, TracedScoresMost

\* A chain of n steps, from v.
Chain(g, v, step, n) == g[0] = v /\ \A i \in 1 .. n : g[i] = step[<<g[i - 1], i>>]

\* There is one on a set, from each of its elements.
LEMMA ChainExists ==
    ASSUME NEW S, NEW v \in S, NEW step \in [S \X Nat -> S], NEW n \in Nat
    PROVE  \E g \in [0 .. n -> S] : Chain(g, v, step, n)
<1> USE DEF Chain
<1> DEFINE Chains(m) == \E g \in [0 .. m -> S] : Chain(g, v, step, m)
           T == {m \in Nat : Chains(m)}
<1>1. 0 \in T
  <2>1. [i \in 0 .. 0 |-> v] \in [0 .. 0 -> S] /\ Chain([i \in 0 .. 0 |-> v], v, step, 0)
        OBVIOUS
  <2>   QED  BY <2>1
<1>2. ASSUME NEW m \in Nat, m \in T PROVE m + 1 \in T
  <2> SUFFICES Chains(m + 1)
      OBVIOUS
  <2>1. PICK g \in [0 .. m -> S] : Chain(g, v, step, m)
    <3>1. Chains(m)
          BY <1>2
    <3>   QED  BY <3>1
  <2> DEFINE w == step[<<g[m], m + 1>>]
             h == [i \in 0 .. m + 1 |-> IF i = m + 1 THEN w ELSE g[i]]
  <2>2. w \in S
        OBVIOUS
  <2>3. h \in [0 .. m + 1 -> S]
        BY <2>2
  <2>4. Chain(h, v, step, m + 1)
    <3>1. h[0] = v
          BY <2>1
    <3>2. ASSUME NEW i \in 1 .. m + 1 PROVE h[i] = step[<<h[i - 1], i>>]
      <4>1. h[i - 1] = g[i - 1] /\ h[i] = IF i = m + 1 THEN w ELSE g[i]
            OBVIOUS
      <4>   HIDE DEF h
      <4>2. CASE i = m + 1
            BY <4>1, <4>2
      <4>3. CASE i \in 1 .. m
        <5>1. g[i] = step[<<g[i - 1], i>>] /\ h[i] = g[i]
              BY <2>1, <4>1, <4>3
        <5>   QED  BY <4>1, <5>1
      <4>   QED  BY <4>2, <4>3
    <3>   QED  BY <3>1, <3>2
  <2>   QED  BY <2>3, <2>4
<1>3. n \in T
  <2>   HIDE DEF T
  <2>   QED  BY <1>1, <1>2, NatSet
<1> QED BY <1>3

-----------------------------------------------------------------------------
(* What the loops come to.  Each is the last link of the chain of what its *)
(* turns make.                                                             *)

\* So many sixteens, and the rest.
LEMMA Sixteens ==
    ASSUME NEW n \in Nat
    PROVE  n \div 16 \in Nat /\ n % 16 \in Nat /\ 16 * (n \div 16) + (n % 16) = n
OBVIOUS

\* The turns of crc16_ccitt_bits after the first `done`, n of them.
CrcTurn(in, crc, i) == CrcBit(crc, in[i])
CrcFrom(in, v, done, n) == Turns(LAMBDA crc, i : CrcTurn(in, crc, i), v, done, n)

\* What is made one by one, by the n turns after the first `done`.
CrcMade(in, g, done, n) == \A i \in done + 1 .. done + n : g[i] = CrcTurn(in, g[i - 1], i)

\* They make just that.
LEMMA CrcTurns ==
    ASSUME NEW in, NEW done \in Nat, NEW n \in Nat, NEW g, CrcMade(in, g, done, n)
    PROVE  CrcFrom(in, g[done], done, n) = g[done + n]
<1> DEFINE Turn(f, i) == Strict(LAMBDA x : CrcTurn(in, x, done + i), f[i - 1])
           Made(f) == f = [i \in 0 .. n |-> IF i = 0 THEN g[done] ELSE Turn(f, i)]
           made == CHOOSE f : Made(f)
           S == {i \in Nat : i <= n => made[i] = g[done + i]}
<1>1. \A f, i : Turn(f, i) = CrcTurn(in, f[i - 1], done + i)
    BY DEF Strict
<1>2. \A i \in 1 .. n : g[done + i] = CrcTurn(in, g[done + (i - 1)], done + i)
  <2>1. \A i \in 1 .. n : done + i \in done + 1 .. done + n /\ (done + i) - 1 = done + (i - 1)
        OBVIOUS
  <2>   QED  BY <2>1 DEF CrcMade
<1>3. Made([i \in 0 .. n |-> g[done + i]])
  <2> DEFINE h == [i \in 0 .. n |-> g[done + i]]
  <2> HIDE DEF Turn
  <2>1. \A i \in 0 .. n : h[i] = IF i = 0 THEN g[done] ELSE Turn(h, i)
    <3>1. h[0] = g[done]
          OBVIOUS
    <3>2. ASSUME NEW i \in 1 .. n PROVE h[i] = Turn(h, i)
      <4>1. h[i] = g[done + i] /\ h[i - 1] = g[done + (i - 1)]
            OBVIOUS
      <4>   HIDE DEF h
      <4>   QED  BY <1>1, <1>2, <4>1
    <3>   HIDE DEF h
    <3>   QED  BY <3>1, <3>2
  <2>   QED  BY <2>1
<1>4. Made(made)
  <2> HIDE DEF Made
  <2>   QED  BY <1>3
<1>5. made[n] = g[done + n]
  <2> HIDE DEF made, Turn
  <2>1. \A i \in 0 .. n : made[i] = IF i = 0 THEN g[done] ELSE Turn(made, i)
        BY <1>4
  <2>2. 0 \in S
        BY <2>1
  <2>3. ASSUME NEW i \in Nat, i \in S PROVE i + 1 \in S
    <3> SUFFICES ASSUME i + 1 <= n PROVE made[i + 1] = g[done + (i + 1)]
        OBVIOUS
    <3>1. i + 1 \in 1 .. n /\ (i + 1) - 1 = i /\ made[i] = g[done + i]
          BY <2>3
    <3>2. made[i + 1] = Turn(made, i + 1)
          BY <2>1, <3>1
    <3>   QED  BY <1>1, <1>2, <3>1, <3>2
  <2>4. n \in S
    <3> HIDE DEF S
    <3>   QED  BY <2>2, <2>3, NatSet
  <2>   QED  BY <2>4
<1>6. CrcFrom(in, g[done], done, n) = made[n]
    BY DEF Turns, CrcFrom, CrcTurn
<1> QED BY <1>5, <1>6

\* So crc16_ccitt_bits makes the last of them.
LEMMA CrcIs ==
    ASSUME NEW in, NEW n \in Nat, NEW g, g[0] = CrcInit,
           \A i \in 1 .. n : g[i] = CrcTurn(in, g[i - 1], i)
    PROVE  Crc(in, n) = g[n]
<1> DEFINE m == n \div 16
           Sixteen(x, j) == CrcFrom(in, x, 16 * (j - 1), 16)
           Turn(f, j) == Strict(LAMBDA x : Sixteen(x, 0 + j), f[j - 1])
           Made(f) == f = [j \in 0 .. m |-> IF j = 0 THEN CrcInit ELSE Turn(f, j)]
           made == CHOOSE f : Made(f)
           Last(x) == CrcFrom(in, x, 16 * m, n % 16)
           S == {j \in Nat : j <= m => made[j] = g[16 * j]}
<1>1. Crc(in, n) = Strict(LAMBDA x : Last(x), made[m])
    BY DEF Crc, Loop, Turns, CrcFrom, CrcTurn
<1>2. m \in Nat /\ n % 16 \in Nat /\ 16 * m + (n % 16) = n
    BY Sixteens
<1>3. \A j \in 1 .. m : Sixteen(g[16 * (j - 1)], 0 + j) = g[16 * j]
  <2> SUFFICES ASSUME NEW j \in 1 .. m PROVE Sixteen(g[16 * (j - 1)], 0 + j) = g[16 * j]
      OBVIOUS
  <2>1. PICK d \in Nat : d = 16 * (j - 1) /\ d + 16 = 16 * j /\ d + 16 <= n
        BY <1>2
  <2>2. CrcMade(in, g, d, 16)
        BY <2>1 DEF CrcMade
  <2>3. CrcFrom(in, g[d], d, 16) = g[d + 16]
        BY <2>2, CrcTurns
  <2>4. 0 + j = j
        OBVIOUS
  <2>   QED  BY <2>1, <2>3, <2>4
<1>4. Last(g[16 * m]) = g[n]
  <2>1. PICK d \in Nat, r \in Nat : d = 16 * m /\ r = n % 16 /\ d + r = n
        BY <1>2
  <2>2. CrcMade(in, g, d, r)
        BY <2>1 DEF CrcMade
  <2>3. CrcFrom(in, g[d], d, r) = g[d + r]
        BY <2>2, CrcTurns
  <2>   QED  BY <2>1, <2>3
<1> HIDE DEF m, Sixteen, Last
<1>5. (\A f, j : Turn(f, j) = Sixteen(f[j - 1], 0 + j)) /\ \A x : Strict(LAMBDA y : Last(y), x) = Last(x)
    BY DEF Strict
<1>6. Made([j \in 0 .. m |-> g[16 * j]])
  <2> DEFINE h == [j \in 0 .. m |-> g[16 * j]]
  <2> HIDE DEF Turn
  <2>1. \A j \in 0 .. m : h[j] = IF j = 0 THEN CrcInit ELSE Turn(h, j)
    <3>1. h[0] = CrcInit
          BY <1>2
    <3>2. ASSUME NEW j \in 1 .. m PROVE h[j] = Turn(h, j)
      <4>1. h[j] = g[16 * j] /\ h[j - 1] = g[16 * (j - 1)]
        <5>1. j \in 0 .. m /\ j - 1 \in 0 .. m
              BY <1>2
        <5>   QED  BY <5>1
      <4>   HIDE DEF h
      <4>   QED  BY <1>3, <1>5, <4>1
    <3>   HIDE DEF h
    <3>   QED  BY <1>2, <3>1, <3>2
  <2>   QED  BY <2>1
<1>7. Made(made)
  <2> HIDE DEF Made
  <2>   QED  BY <1>6
<1>8. made[m] = g[16 * m]
  <2> HIDE DEF made, Turn
  <2>1. \A j \in 0 .. m : made[j] = IF j = 0 THEN CrcInit ELSE Turn(made, j)
        BY <1>7
  <2>2. 0 \in S
        BY <1>2, <2>1
  <2>3. ASSUME NEW j \in Nat, j \in S PROVE j + 1 \in S
    <3> SUFFICES ASSUME j + 1 <= m PROVE made[j + 1] = g[16 * (j + 1)]
        OBVIOUS
    <3>1. j + 1 \in 1 .. m /\ j + 1 \in 0 .. m /\ (j + 1) - 1 = j /\ made[j] = g[16 * j]
          BY <1>2, <2>3
    <3>2. made[j + 1] = Turn(made, j + 1)
          BY <2>1, <3>1
    <3>   QED  BY <1>3, <1>5, <3>1, <3>2
  <2>4. m \in S
    <3> HIDE DEF S
    <3>   QED  BY <1>2, <2>2, <2>3, NatSet
  <2>   QED  BY <2>4
<1> QED BY <1>1, <1>4, <1>5, <1>8

\* The turns of forward_traverse after the first `done`, n of them.
ForwardTurn(soft, len, before, i) == Traverse(Outputs, soft, len, before, i)
ForwardFrom(soft, len, v, done, n) == Turns(LAMBDA before, i : ForwardTurn(soft, len, before, i), v, done, n)

\* What is made one by one, by the n turns after the first `done`.
ForwardMade(soft, len, g, done, n) == \A i \in done + 1 .. done + n : g[i] = ForwardTurn(soft, len, g[i - 1], i)

\* They make just that.
LEMMA ForwardTurns ==
    ASSUME NEW soft, NEW len, NEW done \in Nat, NEW n \in Nat, NEW g, ForwardMade(soft, len, g, done, n)
    PROVE  ForwardFrom(soft, len, g[done], done, n) = g[done + n]
<1> DEFINE Turn(f, i) == Strict(LAMBDA x : ForwardTurn(soft, len, x, done + i), f[i - 1])
           Made(f) == f = [i \in 0 .. n |-> IF i = 0 THEN g[done] ELSE Turn(f, i)]
           made == CHOOSE f : Made(f)
           S == {i \in Nat : i <= n => made[i] = g[done + i]}
<1>1. \A f, i : Turn(f, i) = ForwardTurn(soft, len, f[i - 1], done + i)
    BY DEF Strict
<1>2. \A i \in 1 .. n : g[done + i] = ForwardTurn(soft, len, g[done + (i - 1)], done + i)
  <2>1. \A i \in 1 .. n : done + i \in done + 1 .. done + n /\ (done + i) - 1 = done + (i - 1)
        OBVIOUS
  <2>   QED  BY <2>1 DEF ForwardMade
<1>3. Made([i \in 0 .. n |-> g[done + i]])
  <2> DEFINE h == [i \in 0 .. n |-> g[done + i]]
  <2> HIDE DEF Turn
  <2>1. \A i \in 0 .. n : h[i] = IF i = 0 THEN g[done] ELSE Turn(h, i)
    <3>1. h[0] = g[done]
          OBVIOUS
    <3>2. ASSUME NEW i \in 1 .. n PROVE h[i] = Turn(h, i)
      <4>1. h[i] = g[done + i] /\ h[i - 1] = g[done + (i - 1)]
            OBVIOUS
      <4>   HIDE DEF h
      <4>   QED  BY <1>1, <1>2, <4>1
    <3>   HIDE DEF h
    <3>   QED  BY <3>1, <3>2
  <2>   QED  BY <2>1
<1>4. Made(made)
  <2> HIDE DEF Made
  <2>   QED  BY <1>3
<1>5. made[n] = g[done + n]
  <2> HIDE DEF made, Turn
  <2>1. \A i \in 0 .. n : made[i] = IF i = 0 THEN g[done] ELSE Turn(made, i)
        BY <1>4
  <2>2. 0 \in S
        BY <2>1
  <2>3. ASSUME NEW i \in Nat, i \in S PROVE i + 1 \in S
    <3> SUFFICES ASSUME i + 1 <= n PROVE made[i + 1] = g[done + (i + 1)]
        OBVIOUS
    <3>1. i + 1 \in 1 .. n /\ (i + 1) - 1 = i /\ made[i] = g[done + i]
          BY <2>3
    <3>2. made[i + 1] = Turn(made, i + 1)
          BY <2>1, <3>1
    <3>   QED  BY <1>1, <1>2, <3>1, <3>2
  <2>4. n \in S
    <3> HIDE DEF S
    <3>   QED  BY <2>2, <2>3, NatSet
  <2>   QED  BY <2>4
<1>6. ForwardFrom(soft, len, g[done], done, n) = made[n]
    BY DEF Turns, ForwardFrom, ForwardTurn
<1> QED BY <1>5, <1>6

\* So forward_traverse makes the last of them.
LEMMA ForwardIs ==
    ASSUME NEW soft, NEW n \in Nat, NEW g, g[0] = [steps |-> <<FreshSums>>, max |-> 0],
           \A i \in 1 .. n : g[i] = ForwardTurn(soft, n, g[i - 1], i)
    PROVE  Forward(soft, n) = g[n]
<1> DEFINE m == n \div 16
           Sixteen(x, j) == ForwardFrom(soft, n, x, 16 * (j - 1), 16)
           Turn(f, j) == Strict(LAMBDA x : Sixteen(x, 0 + j), f[j - 1])
           Made(f) == f = [j \in 0 .. m |-> IF j = 0 THEN [steps |-> <<FreshSums>>, max |-> 0] ELSE Turn(f, j)]
           made == CHOOSE f : Made(f)
           Last(x) == ForwardFrom(soft, n, x, 16 * m, n % 16)
           S == {j \in Nat : j <= m => made[j] = g[16 * j]}
<1>1. Forward(soft, n) = Strict(LAMBDA x : Last(x), made[m])
    BY DEF Forward, Loop, Turns, ForwardFrom, ForwardTurn
<1>2. m \in Nat /\ n % 16 \in Nat /\ 16 * m + (n % 16) = n
    BY Sixteens
<1>3. \A j \in 1 .. m : Sixteen(g[16 * (j - 1)], 0 + j) = g[16 * j]
  <2> SUFFICES ASSUME NEW j \in 1 .. m PROVE Sixteen(g[16 * (j - 1)], 0 + j) = g[16 * j]
      OBVIOUS
  <2>1. PICK d \in Nat : d = 16 * (j - 1) /\ d + 16 = 16 * j /\ d + 16 <= n
        BY <1>2
  <2>2. ForwardMade(soft, n, g, d, 16)
        BY <2>1 DEF ForwardMade
  <2>3. ForwardFrom(soft, n, g[d], d, 16) = g[d + 16]
        BY <2>2, ForwardTurns
  <2>4. 0 + j = j
        OBVIOUS
  <2>   QED  BY <2>1, <2>3, <2>4
<1>4. Last(g[16 * m]) = g[n]
  <2>1. PICK d \in Nat, r \in Nat : d = 16 * m /\ r = n % 16 /\ d + r = n
        BY <1>2
  <2>2. ForwardMade(soft, n, g, d, r)
        BY <2>1 DEF ForwardMade
  <2>3. ForwardFrom(soft, n, g[d], d, r) = g[d + r]
        BY <2>2, ForwardTurns
  <2>   QED  BY <2>1, <2>3
<1> HIDE DEF m, Sixteen, Last
<1>5. (\A f, j : Turn(f, j) = Sixteen(f[j - 1], 0 + j)) /\ \A x : Strict(LAMBDA y : Last(y), x) = Last(x)
    BY DEF Strict
<1>6. Made([j \in 0 .. m |-> g[16 * j]])
  <2> DEFINE h == [j \in 0 .. m |-> g[16 * j]]
  <2> HIDE DEF Turn
  <2>1. \A j \in 0 .. m : h[j] = IF j = 0 THEN [steps |-> <<FreshSums>>, max |-> 0] ELSE Turn(h, j)
    <3>1. h[0] = [steps |-> <<FreshSums>>, max |-> 0]
          BY <1>2
    <3>2. ASSUME NEW j \in 1 .. m PROVE h[j] = Turn(h, j)
      <4>1. h[j] = g[16 * j] /\ h[j - 1] = g[16 * (j - 1)]
        <5>1. j \in 0 .. m /\ j - 1 \in 0 .. m
              BY <1>2
        <5>   QED  BY <5>1
      <4>   HIDE DEF h
      <4>   QED  BY <1>3, <1>5, <4>1
    <3>   HIDE DEF h
    <3>   QED  BY <1>2, <3>1, <3>2
  <2>   QED  BY <2>1
<1>7. Made(made)
  <2> HIDE DEF Made
  <2>   QED  BY <1>6
<1>8. made[m] = g[16 * m]
  <2> HIDE DEF made, Turn
  <2>1. \A j \in 0 .. m : made[j] = IF j = 0 THEN [steps |-> <<FreshSums>>, max |-> 0] ELSE Turn(made, j)
        BY <1>7
  <2>2. 0 \in S
        BY <1>2, <2>1
  <2>3. ASSUME NEW j \in Nat, j \in S PROVE j + 1 \in S
    <3> SUFFICES ASSUME j + 1 <= m PROVE made[j + 1] = g[16 * (j + 1)]
        OBVIOUS
    <3>1. j + 1 \in 1 .. m /\ j + 1 \in 0 .. m /\ (j + 1) - 1 = j /\ made[j] = g[16 * j]
          BY <1>2, <2>3
    <3>2. made[j + 1] = Turn(made, j + 1)
          BY <2>1, <3>1
    <3>   QED  BY <1>3, <1>5, <3>1, <3>2
  <2>4. m \in S
    <3> HIDE DEF S
    <3>   QED  BY <1>2, <2>2, <2>3, NatSet
  <2>   QED  BY <2>4
<1> QED BY <1>1, <1>4, <1>5, <1>8

\* The turns of _traceback after the first `done`, n of them.
BackTurn(steps, len, after, i) ==
    [state |-> Before(steps[len + 2 - i], after.state), bits |-> <<BitInto(after.state)>> \o after.bits]
BackFrom(steps, len, v, done, n) == Turns(LAMBDA after, i : BackTurn(steps, len, after, i), v, done, n)

\* What is made one by one, by the n turns after the first `done`.
BackMade(steps, len, g, done, n) == \A i \in done + 1 .. done + n : g[i] = BackTurn(steps, len, g[i - 1], i)

\* They make just that.
LEMMA BackTurns ==
    ASSUME NEW steps, NEW len, NEW done \in Nat, NEW n \in Nat, NEW g, BackMade(steps, len, g, done, n)
    PROVE  BackFrom(steps, len, g[done], done, n) = g[done + n]
<1> DEFINE Turn(f, i) == Strict(LAMBDA x : BackTurn(steps, len, x, done + i), f[i - 1])
           Made(f) == f = [i \in 0 .. n |-> IF i = 0 THEN g[done] ELSE Turn(f, i)]
           made == CHOOSE f : Made(f)
           S == {i \in Nat : i <= n => made[i] = g[done + i]}
<1>1. \A f, i : Turn(f, i) = BackTurn(steps, len, f[i - 1], done + i)
    BY DEF Strict
<1>2. \A i \in 1 .. n : g[done + i] = BackTurn(steps, len, g[done + (i - 1)], done + i)
  <2>1. \A i \in 1 .. n : done + i \in done + 1 .. done + n /\ (done + i) - 1 = done + (i - 1)
        OBVIOUS
  <2>   QED  BY <2>1 DEF BackMade
<1>3. Made([i \in 0 .. n |-> g[done + i]])
  <2> DEFINE h == [i \in 0 .. n |-> g[done + i]]
  <2> HIDE DEF Turn
  <2>1. \A i \in 0 .. n : h[i] = IF i = 0 THEN g[done] ELSE Turn(h, i)
    <3>1. h[0] = g[done]
          OBVIOUS
    <3>2. ASSUME NEW i \in 1 .. n PROVE h[i] = Turn(h, i)
      <4>1. h[i] = g[done + i] /\ h[i - 1] = g[done + (i - 1)]
            OBVIOUS
      <4>   HIDE DEF h
      <4>   QED  BY <1>1, <1>2, <4>1
    <3>   HIDE DEF h
    <3>   QED  BY <3>1, <3>2
  <2>   QED  BY <2>1
<1>4. Made(made)
  <2> HIDE DEF Made
  <2>   QED  BY <1>3
<1>5. made[n] = g[done + n]
  <2> HIDE DEF made, Turn
  <2>1. \A i \in 0 .. n : made[i] = IF i = 0 THEN g[done] ELSE Turn(made, i)
        BY <1>4
  <2>2. 0 \in S
        BY <2>1
  <2>3. ASSUME NEW i \in Nat, i \in S PROVE i + 1 \in S
    <3> SUFFICES ASSUME i + 1 <= n PROVE made[i + 1] = g[done + (i + 1)]
        OBVIOUS
    <3>1. i + 1 \in 1 .. n /\ (i + 1) - 1 = i /\ made[i] = g[done + i]
          BY <2>3
    <3>2. made[i + 1] = Turn(made, i + 1)
          BY <2>1, <3>1
    <3>   QED  BY <1>1, <1>2, <3>1, <3>2
  <2>4. n \in S
    <3> HIDE DEF S
    <3>   QED  BY <2>2, <2>3, NatSet
  <2>   QED  BY <2>4
<1>6. BackFrom(steps, len, g[done], done, n) = made[n]
    BY DEF Turns, BackFrom, BackTurn
<1> QED BY <1>5, <1>6

\* So _traceback makes the last of them.
LEMMA BackIs ==
    ASSUME NEW steps, NEW n \in Nat, NEW g, g[0] = [state |-> 0, bits |-> <<>>],
           \A i \in 1 .. n : g[i] = BackTurn(steps, n, g[i - 1], i)
    PROVE  Traceback(steps, n) = g[n].bits
<1> DEFINE m == n \div 16
           Sixteen(x, j) == BackFrom(steps, n, x, 16 * (j - 1), 16)
           Turn(f, j) == Strict(LAMBDA x : Sixteen(x, 0 + j), f[j - 1])
           Made(f) == f = [j \in 0 .. m |-> IF j = 0 THEN [state |-> 0, bits |-> <<>>] ELSE Turn(f, j)]
           made == CHOOSE f : Made(f)
           Last(x) == BackFrom(steps, n, x, 16 * m, n % 16)
           S == {j \in Nat : j <= m => made[j] = g[16 * j]}
<1>1. Traceback(steps, n) = Strict(LAMBDA x : Last(x), made[m]).bits
    BY DEF Traceback, Loop, Turns, BackFrom, BackTurn
<1>2. m \in Nat /\ n % 16 \in Nat /\ 16 * m + (n % 16) = n
    BY Sixteens
<1>3. \A j \in 1 .. m : Sixteen(g[16 * (j - 1)], 0 + j) = g[16 * j]
  <2> SUFFICES ASSUME NEW j \in 1 .. m PROVE Sixteen(g[16 * (j - 1)], 0 + j) = g[16 * j]
      OBVIOUS
  <2>1. PICK d \in Nat : d = 16 * (j - 1) /\ d + 16 = 16 * j /\ d + 16 <= n
        BY <1>2
  <2>2. BackMade(steps, n, g, d, 16)
        BY <2>1 DEF BackMade
  <2>3. BackFrom(steps, n, g[d], d, 16) = g[d + 16]
        BY <2>2, BackTurns
  <2>4. 0 + j = j
        OBVIOUS
  <2>   QED  BY <2>1, <2>3, <2>4
<1>4. Last(g[16 * m]) = g[n]
  <2>1. PICK d \in Nat, r \in Nat : d = 16 * m /\ r = n % 16 /\ d + r = n
        BY <1>2
  <2>2. BackMade(steps, n, g, d, r)
        BY <2>1 DEF BackMade
  <2>3. BackFrom(steps, n, g[d], d, r) = g[d + r]
        BY <2>2, BackTurns
  <2>   QED  BY <2>1, <2>3
<1> HIDE DEF m, Sixteen, Last
<1>5. (\A f, j : Turn(f, j) = Sixteen(f[j - 1], 0 + j)) /\ \A x : Strict(LAMBDA y : Last(y), x) = Last(x)
    BY DEF Strict
<1>6. Made([j \in 0 .. m |-> g[16 * j]])
  <2> DEFINE h == [j \in 0 .. m |-> g[16 * j]]
  <2> HIDE DEF Turn
  <2>1. \A j \in 0 .. m : h[j] = IF j = 0 THEN [state |-> 0, bits |-> <<>>] ELSE Turn(h, j)
    <3>1. h[0] = [state |-> 0, bits |-> <<>>]
          BY <1>2
    <3>2. ASSUME NEW j \in 1 .. m PROVE h[j] = Turn(h, j)
      <4>1. h[j] = g[16 * j] /\ h[j - 1] = g[16 * (j - 1)]
        <5>1. j \in 0 .. m /\ j - 1 \in 0 .. m
              BY <1>2
        <5>   QED  BY <5>1
      <4>   HIDE DEF h
      <4>   QED  BY <1>3, <1>5, <4>1
    <3>   HIDE DEF h
    <3>   QED  BY <1>2, <3>1, <3>2
  <2>   QED  BY <2>1
<1>7. Made(made)
  <2> HIDE DEF Made
  <2>   QED  BY <1>6
<1>8. made[m] = g[16 * m]
  <2> HIDE DEF made, Turn
  <2>1. \A j \in 0 .. m : made[j] = IF j = 0 THEN [state |-> 0, bits |-> <<>>] ELSE Turn(made, j)
        BY <1>7
  <2>2. 0 \in S
        BY <1>2, <2>1
  <2>3. ASSUME NEW j \in Nat, j \in S PROVE j + 1 \in S
    <3> SUFFICES ASSUME j + 1 <= m PROVE made[j + 1] = g[16 * (j + 1)]
        OBVIOUS
    <3>1. j + 1 \in 1 .. m /\ j + 1 \in 0 .. m /\ (j + 1) - 1 = j /\ made[j] = g[16 * j]
          BY <1>2, <2>3
    <3>2. made[j + 1] = Turn(made, j + 1)
          BY <2>1, <3>1
    <3>   QED  BY <1>3, <1>5, <3>1, <3>2
  <2>4. m \in S
    <3> HIDE DEF S
    <3>   QED  BY <1>2, <2>2, <2>3, NatSet
  <2>   QED  BY <2>4
<1> QED BY <1>1, <1>4, <1>5, <1>8

\* Some metric is the greatest.
LEMMA GreatestIs ==
    ASSUME NEW row \in Row, NEW m \in Int
    PROVE  Greatest({m} \cup MetricsOf(row)) \in {m} \cup MetricsOf(row)
<1> DEFINE neg == [s \in 1 .. 16 |-> <<-row[s][1], row[s][2]>>]
           all == {m} \cup MetricsOf(row)
<1>1. neg \in Row
  <2>1. \A s \in 1 .. 16 : row[s][1] \in Int /\ row[s][2] \in Bit
        BY DEF Row
  <2>2. \A s \in 1 .. 16 : -row[s][1] \in Int
        BY <2>1
  <2>   QED  BY <2>1, <2>2 DEF Row
<1>2. \A s \in States : s + 1 \in 1 .. 16 /\ Sum(neg, s) = -Sum(row, s)
    BY DEF States, Sum
<1> HIDE DEF neg
<1>3. PICK t \in States : \A s \in States : Sum(neg, t) <= Sum(neg, s)
    BY <1>1, SomeSumIsLeast
<1>4. \A s \in States : Sum(row, s) \in Int
    BY RowType
<1>5. \A v \in MetricsOf(row) : v \in Int /\ v <= Sum(row, t)
  <2>1. ASSUME NEW k \in 1 .. 16 PROVE row[k][1] \in Int /\ row[k][1] <= Sum(row, t)
    <3>1. k - 1 \in States /\ (k - 1) + 1 = k
          BY DEF States
    <3>2. Sum(row, k - 1) \in Int /\ Sum(row, t) \in Int /\ Sum(neg, t) <= Sum(neg, k - 1)
          BY <1>3, <1>4, <3>1
    <3>3. Sum(neg, t) = -Sum(row, t) /\ Sum(neg, k - 1) = -Sum(row, k - 1)
          BY <1>2, <3>1
    <3>4. Sum(row, k - 1) <= Sum(row, t)
          BY <3>2, <3>3
    <3>   QED  BY <3>1, <3>2, <3>4 DEF Sum
  <2>   QED  BY <2>1 DEF MetricsOf
<1>6. Sum(row, t) \in MetricsOf(row)
    BY <1>2 DEF MetricsOf, Sum
<1>7. \E g \in all : \A v \in all : v <= g
  <2>1. CASE m <= Sum(row, t)
        BY <1>5, <1>6, <2>1
  <2>2. CASE ~(m <= Sum(row, t))
    <3>1. \A v \in all : v <= m
          BY <1>4, <1>5, <2>2
    <3>   QED  BY <3>1
  <2>   QED  BY <2>1, <2>2
<1> HIDE DEF all
<1>8. Greatest(all) \in all
    BY <1>7 DEF Greatest
<1> QED BY <1>8 DEF all

\* One more of them.
LEMMA AppendIs ==
    ASSUME NEW h, NEW m \in Nat
    PROVE  Append([k \in 1 .. m |-> h[k]], h[m + 1]) = [k \in 1 .. m + 1 |-> h[k]]
<1> DEFINE S == {h[k] : k \in 1 .. m + 1}
           f == [k \in 1 .. m |-> h[k]]
<1>1. f \in Seq(S) /\ Len(f) = m /\ h[m + 1] \in S
    OBVIOUS
<1>2. \A k \in 1 .. m : f[k] = h[k]
    OBVIOUS
<1> HIDE DEF f, S
<1>3. Append(f, h[m + 1]) = [k \in 1 .. m + 1 |-> IF k = m + 1 THEN h[m + 1] ELSE f[k]]
    BY <1>1
<1>4. \A k \in 1 .. m + 1 : (IF k = m + 1 THEN h[m + 1] ELSE f[k]) = h[k]
    BY <1>2
<1> QED BY <1>3, <1>4 DEF f

\* There are rows for all soft bits.
LEMMA RowsExist ==
    ASSUME NEW soft, NEW len \in Nat, TwoKnown(soft, len)
    PROVE  \E sums : Traversed(sums, soft, len)
<1> DEFINE of(row, i) == Kept(Step(row, Metrics(Outputs, soft, N * (i - 1))), i)
           step == [p \in Row \X Nat |-> IF p[2] \in 1 .. len THEN of(p[1], p[2]) ELSE p[1]]
<1>1. ASSUME NEW row \in Row, NEW i \in 1 .. len PROVE of(row, i) \in Row
  <2> DEFINE one == [j \in {i} |-> row]
  <2>1. PICK x \in {-127, 0, 127}, y \in {-127, 0, 127} : StepOf(one, soft, i) = Step(one[i], MetricOf(x, y))
        BY StepOfIs
  <2>2. MetricOf(x, y) \in [1 .. 8 -> Int] /\ one[i] = row
        BY MetricBounds
  <2>3. StepOf(one, soft, i) \in Row
        BY <2>1, <2>2, StepIs
  <2>4. StepOf(one, soft, i) = Step(row, Metrics(Outputs, soft, N * (i - 1)))
        BY <2>2 DEF StepOf
  <2>5. i \in Nat
        OBVIOUS
  <2>   HIDE DEF one
  <2>   QED  BY <2>3, <2>4, <2>5, KeptIs
<1>2. step \in [Row \X Nat -> Row]
  <2>   HIDE DEF of
  <2>   QED  BY <1>1
<1>3. \A row \in Row, i \in 1 .. len : step[<<row, i>>] = of(row, i)
  <2>   HIDE DEF of
  <2>   QED  OBVIOUS
<1> HIDE DEF step, of
<1>4. PICK g \in [0 .. len -> Row] : Chain(g, FreshSums, step, len)
  <2>1. FreshSums \in Row
        BY FreshSumsAre
  <2>   QED  BY <1>2, <2>1, ChainExists
<1> DEFINE sums == [k \in 1 .. len + 1 |-> g[k - 1]]
<1>5. sums[1] = FreshSums
    BY <1>4 DEF Chain
<1>6. ASSUME NEW i \in 1 .. len PROVE sums[i + 1] = Kept(StepOf(sums, soft, i), i)
  <2>1. sums[i + 1] = g[i] /\ sums[i] = g[i - 1] /\ g[i - 1] \in Row
        OBVIOUS
  <2>2. g[i] = of(g[i - 1], i)
        BY <1>3, <1>4, <2>1 DEF Chain
  <2>   HIDE DEF sums
  <2>   QED  BY <2>1, <2>2 DEF of, StepOf
<1> HIDE DEF sums
<1> QED BY <1>5, <1>6 DEF Traversed

\* The greatest metrics that forward_traverse has met.
MaxOf(max, sums, soft, len) ==
    /\ max[0] = 0
    /\ \A i \in 1 .. len : max[i] = IF Normalises(i) \/ i = len
                                    THEN Greatest({max[i - 1]} \cup MetricsOf(StepOf(sums, soft, i)))
                                    ELSE max[i - 1]

\* There are such numbers, and all of them fit into 16 bits.
LEMMA MaxExists ==
    ASSUME NEW soft, NEW len \in Nat, TwoKnown(soft, len), NEW sums, Traversed(sums, soft, len)
    PROVE  \E max \in [0 .. len -> {m \in Int : m <= INT16_MAX}] : MaxOf(max, sums, soft, len)
<1> DEFINE S == {m \in Int : m <= INT16_MAX}
           of(m, i) == IF Normalises(i) \/ i = len
                       THEN Greatest({m} \cup MetricsOf(StepOf(sums, soft, i))) ELSE m
           step == [p \in S \X Nat |-> IF p[2] \in 1 .. len THEN of(p[1], p[2]) ELSE p[1]]
<1>1. ASSUME NEW m \in S, NEW i \in 1 .. len PROVE of(m, i) \in S
  <2>1. StepOf(sums, soft, i) \in Row
        BY RowsAreTyped
  <2>2. Greatest({m} \cup MetricsOf(StepOf(sums, soft, i))) \in {m} \cup MetricsOf(StepOf(sums, soft, i))
        BY <2>1, GreatestIs
  <2>3. \A v \in MetricsOf(StepOf(sums, soft, i)) : v \in S
    <3>1. \A s \in 1 .. 16 : StepOf(sums, soft, i)[s][1] \in Int /\ StepOf(sums, soft, i)[s][1] <= INT16_MAX
          BY StepFits
    <3>   QED  BY <3>1 DEF MetricsOf
  <2>   HIDE DEF S
  <2>   QED  BY <2>2, <2>3
<1>2. 0 \in S
    BY DEF INT16_MAX
<1> HIDE DEF S
<1>3. step \in [S \X Nat -> S]
  <2>   HIDE DEF of
  <2>   QED  BY <1>1
<1>4. \A m \in S, i \in 1 .. len : step[<<m, i>>] = of(m, i)
  <2>   HIDE DEF of
  <2>   QED  OBVIOUS
<1> HIDE DEF step, of
<1>5. PICK g \in [0 .. len -> S] : Chain(g, 0, step, len)
    BY <1>2, <1>3, ChainExists
<1>6. ASSUME NEW i \in 1 .. len PROVE g[i] = of(g[i - 1], i)
  <2>1. g[i - 1] \in S
        OBVIOUS
  <2>   QED  BY <1>4, <1>5, <2>1 DEF Chain
<1> QED BY <1>5, <1>6 DEF Chain, MaxOf, S, of

\* What forward_traverse makes: the rows, and no metric that does not fit into 16 bits.
LEMMA ForwardMakes ==
    ASSUME NEW soft, NEW len \in Nat, TwoKnown(soft, len), NEW sums, Traversed(sums, soft, len)
    PROVE  /\ Forward(soft, len).steps = [k \in 1 .. len + 1 |-> sums[k]]
           /\ Forward(soft, len).max <= INT16_MAX
<1>1. PICK max \in [0 .. len -> {m \in Int : m <= INT16_MAX}] : MaxOf(max, sums, soft, len)
    BY MaxExists
<1> DEFINE upto(i) == [k \in 1 .. i + 1 |-> sums[k]]
           g == [i \in 0 .. len |-> [steps |-> upto(i), max |-> max[i]]]
<1>2. g[0] = [steps |-> <<FreshSums>>, max |-> 0]
  <2>1. upto(0) = <<FreshSums>>
        BY DEF Traversed
  <2>   QED  BY <1>1, <2>1 DEF MaxOf
<1>3. ASSUME NEW i \in 1 .. len PROVE g[i] = ForwardTurn(soft, len, g[i - 1], i)
  <2> DEFINE before == [steps |-> upto(i - 1), max |-> max[i - 1]]
             new == StepOf(sums, soft, i)
             after == [steps |-> Append(before.steps, Kept(new, i)),
                       max |-> IF Normalises(i) \/ i = len THEN Greatest({before.max} \cup MetricsOf(new))
                               ELSE before.max]
  <2>1. g[i - 1] = before /\ g[i] = [steps |-> upto(i), max |-> max[i]]
    <3>1. i \in 0 .. len /\ i - 1 \in 0 .. len
          OBVIOUS
    <3>   HIDE DEF upto
    <3>   QED  BY <3>1
  <2>2. Step(before.steps[i], Metrics(Outputs, soft, N * (i - 1))) = new
    <3>1. before.steps[i] = sums[i]
          OBVIOUS
    <3>   HIDE DEF before
    <3>   QED  BY <3>1 DEF StepOf
  <2>3. upto(i) = Append(upto(i - 1), Kept(new, i))
    <3>1. sums[i + 1] = Kept(new, i)
          BY DEF Traversed
    <3>2. Append([k \in 1 .. i |-> sums[k]], sums[i + 1]) = [k \in 1 .. i + 1 |-> sums[k]]
          BY AppendIs
    <3>3. upto(i - 1) = [k \in 1 .. i |-> sums[k]]
          OBVIOUS
    <3>   HIDE DEF new
    <3>   QED  BY <3>1, <3>2, <3>3
  <2>4. before.steps = upto(i - 1) /\ before.max = max[i - 1]
        OBVIOUS
  <2>   HIDE DEF before, new, g, upto
  <2>5. Traverse(Outputs, soft, len, before, i) = after
    <3>1. Traverse(Outputs, soft, len, before, i)
          = Reached(before, Step(before.steps[i], Metrics(Outputs, soft, N * (i - 1))), i, len)
          BY DEF Traverse, Strict
    <3>   QED  BY <2>2, <3>1 DEF Reached, after
  <2>6. after = [steps |-> upto(i), max |-> max[i]]
        BY <1>1, <2>3, <2>4 DEF MaxOf, new
  <2>   HIDE DEF after
  <2>   QED  BY <2>1, <2>5, <2>6 DEF ForwardTurn
<1>4. g[len].steps = upto(len) /\ g[len].max = max[len] /\ max[len] <= INT16_MAX
    OBVIOUS
<1> HIDE DEF g
<1>5. Forward(soft, len) = g[len]
    BY <1>2, <1>3, ForwardIs
<1> QED BY <1>4, <1>5

\* Two sequences in one.
Joins(u, s, n, t, m) ==
    /\ u = [k \in 1 .. n + m |-> u[k]]
    /\ \A i \in 1 .. n : u[i] = s[i]
    /\ \A i \in 1 .. m : u[n + i] = t[i]

\* Two sequences in one, whatever they hold.
LEMMA ConcatJoins ==
    ASSUME NEW S, NEW n \in Nat, NEW s \in [1 .. n -> S], NEW m \in Nat, NEW t \in [1 .. m -> S]
    PROVE  Joins(s \o t, s, n, t, m)
<1>1. s \in Seq(S) /\ Len(s) = n /\ t \in Seq(S) /\ Len(t) = m
    BY FunctionIsSequence
<1>2. s \o t \in Seq(S) /\ Len(s \o t) = n + m
    BY <1>1
<1>3. \A i \in 1 .. n + m : (s \o t)[i] = IF i <= n THEN s[i] ELSE t[i - n]
    BY <1>1
<1>4. s \o t \in [1 .. n + m -> S]
  <2>1. s \o t \in [1 .. Len(s \o t) -> S]
        BY <1>2, LenProperties
  <2>   QED  BY <1>2, <2>1
<1>5. \A i \in 1 .. n : (s \o t)[i] = s[i]
    BY <1>3
<1>6. ASSUME NEW i \in 1 .. m PROVE (s \o t)[n + i] = t[i]
  <2>1. n + i \in 1 .. n + m /\ ~(n + i <= n) /\ (n + i) - n = i
        OBVIOUS
  <2>   QED  BY <1>3, <2>1
<1> QED BY <1>4, <1>5, <1>6 DEF Joins

\* One more before them.
LEMMA PrependIs ==
    ASSUME NEW h, NEW m \in Nat
    PROVE  <<h[1]>> \o [k \in 1 .. m |-> h[k + 1]] = [k \in 1 .. m + 1 |-> h[k]]
<1> DEFINE S == {h[k] : k \in 1 .. m + 1}
           one == <<h[1]>>
           f == [k \in 1 .. m |-> h[k + 1]]
<1>1. f \in [1 .. m -> S] /\ one \in [1 .. 1 -> S]
    OBVIOUS
<1>2. one[1] = h[1] /\ \A k \in 1 .. m : f[k] = h[k + 1]
    OBVIOUS
<1> HIDE DEF f, one, S
<1>3. Joins(one \o f, one, 1, f, m)
    BY <1>1, 1 \in Nat, ConcatJoins
<1>4. ASSUME NEW k \in 1 .. m + 1 PROVE (one \o f)[k] = h[k]
  <2> DEFINE u == one \o f
  <2>1. 1 \in 1 .. 1 /\ u[1] = one[1] /\ \A i \in 1 .. m : u[1 + i] = f[i]
        BY <1>3 DEF Joins
  <2>   HIDE DEF u
  <2>2. CASE k = 1
        BY <1>2, <2>1, <2>2 DEF u
  <2>3. CASE k \in 2 .. m + 1
    <3>1. PICK i \in 1 .. m : 1 + i = k /\ i + 1 = k
      <4>1. k - 1 \in 1 .. m /\ 1 + (k - 1) = k /\ (k - 1) + 1 = k
            BY <2>3
      <4>   QED  BY <4>1
    <3>2. u[1 + i] = f[i] /\ f[i] = h[i + 1]
          BY <1>2, <2>1
    <3>   QED  BY <3>1, <3>2 DEF u
  <2>4. k = 1 \/ k \in 2 .. m + 1
        OBVIOUS
  <2>   QED  BY <2>2, <2>3, <2>4
<1>5. one \o f = [k \in 1 .. m + 1 |-> h[k]]
  <2>1. one \o f = [k \in 1 .. m + 1 |-> (one \o f)[k]]
        BY <1>3, 1 + m = m + 1 DEF Joins
  <2>   QED  BY <1>4, <2>1
<1> QED BY <1>5 DEF one, f

\* Survivors can be followed back from state 0.
LEMMA PathExists ==
    ASSUME NEW sums, NEW len \in Nat, \A i \in 1 .. len + 1 : sums[i] \in Row
    PROVE  \E path \in [0 .. len -> States] : Traced(path, sums, len)
<1> DEFINE of(t, i) == Before(sums[len + 2 - i], t)
           step == [p \in States \X Nat |-> IF p[2] \in 1 .. len THEN of(p[1], p[2]) ELSE p[1]]
<1>1. ASSUME NEW t \in States, NEW i \in 1 .. len PROVE of(t, i) \in States
  <2>1. PICK j \in 1 .. len + 1 : j = len + 2 - i
        OBVIOUS
  <2>2. sums[j] \in Row
        OBVIOUS
  <2>3. Way(sums[j], t) \in Bit
        BY <2>2, RowType
  <2>4. of(t, i) = LShift(t, Way(sums[j], t))
        BY <2>1 DEF Before, Way
  <2>   QED  BY <2>3, <2>4, StatesBefore DEF Bit
<1>2. 0 \in States
    BY DEF States
<1>3. step \in [States \X Nat -> States]
  <2>   HIDE DEF of
  <2>   QED  BY <1>1
<1>4. \A t \in States, i \in 1 .. len : step[<<t, i>>] = of(t, i)
  <2>   HIDE DEF of
  <2>   QED  OBVIOUS
<1> HIDE DEF step, of
<1>5. PICK g \in [0 .. len -> States] : Chain(g, 0, step, len)
    BY <1>2, <1>3, ChainExists
<1> DEFINE path == [i \in 0 .. len |-> g[len - i]]
<1>6. path[len] = 0
  <2>1. len \in 0 .. len /\ len - len = 0
        OBVIOUS
  <2>   QED  BY <1>5, <2>1 DEF Chain
<1>7. ASSUME NEW i \in 1 .. len PROVE path[i - 1] = Before(sums[i + 1], path[i])
  <2>1. PICK j \in 1 .. len : j = len - (i - 1) /\ j - 1 = len - i /\ len + 2 - j = i + 1
        OBVIOUS
  <2>2. path[i - 1] = g[j] /\ path[i] = g[j - 1] /\ g[j - 1] \in States
        BY <2>1
  <2>3. g[j] = of(g[j - 1], j)
        BY <1>4, <1>5, <2>2 DEF Chain
  <2>   HIDE DEF path
  <2>   QED  BY <2>1, <2>2, <2>3 DEF of
<1>8. path \in [0 .. len -> States]
    OBVIOUS
<1> HIDE DEF path
<1> QED BY <1>6, <1>7, <1>8 DEF Traced

\* What _traceback makes: the bits that led into the states of the path.
BitsInto(path, n) == [k \in 1 .. n |-> BitInto(path[k])]

\* They are what _traceback makes.
LEMMA TracebackMakes ==
    ASSUME NEW sums, NEW len \in Nat, NEW path, Traced(path, sums, len)
    PROVE  Traceback(sums, len) = BitsInto(path, len)
<1> DEFINE ending(i) == [k \in 1 .. i |-> BitInto(path[(len - i) + k])]
           g == [i \in 0 .. len |-> [state |-> path[len - i], bits |-> ending(i)]]
<1>1. g[0] = [state |-> 0, bits |-> <<>>]
  <2>1. path[len - 0] = 0
        BY len - 0 = len DEF Traced
  <2>2. ending(0) = <<>>
        OBVIOUS
  <2>   QED  BY <2>1, <2>2
<1>2. ASSUME NEW i \in 1 .. len PROVE g[i] = BackTurn(sums, len, g[i - 1], i)
  <2>1. PICK j \in 1 .. len : j = (len - i) + 1 /\ j = len - (i - 1) /\ j - 1 = len - i /\ j + 1 = len + 2 - i
        OBVIOUS
  <2> DEFINE h == [k \in 1 .. i |-> BitInto(path[(len - i) + k])]
  <2>2. ending(i) = <<BitInto(path[j])>> \o ending(i - 1)
    <3>1. <<h[1]>> \o [k \in 1 .. i - 1 |-> h[k + 1]] = [k \in 1 .. (i - 1) + 1 |-> h[k]]
      <4>1. i - 1 \in Nat
            OBVIOUS
      <4>   HIDE DEF h
      <4>   QED  BY <4>1, PrependIs
    <3>2. h[1] = BitInto(path[j])
          BY <2>1
    <3>3. [k \in 1 .. i - 1 |-> h[k + 1]] = ending(i - 1)
      <4>1. ASSUME NEW k \in 1 .. i - 1 PROVE h[k + 1] = BitInto(path[(len - (i - 1)) + k])
        <5>1. k + 1 \in 1 .. i /\ (len - i) + (k + 1) = (len - (i - 1)) + k
              OBVIOUS
        <5>   QED  BY <5>1
      <4>   HIDE DEF h
      <4>   QED  BY <4>1
    <3>4. [k \in 1 .. (i - 1) + 1 |-> h[k]] = ending(i)
      <4>1. (i - 1) + 1 = i
            OBVIOUS
      <4>   QED  BY <4>1
    <3>   HIDE DEF h, ending
    <3>   QED  BY <3>1, <3>2, <3>3, <3>4
  <2>3. g[i] = [state |-> path[j - 1], bits |-> ending(i)] /\ g[i - 1] = [state |-> path[j], bits |-> ending(i - 1)]
    <3>1. i \in 0 .. len /\ i - 1 \in 0 .. len
          OBVIOUS
    <3>   HIDE DEF ending
    <3>   QED  BY <2>1, <3>1
  <2>4. path[j - 1] = Before(sums[len + 2 - i], path[j])
        BY <2>1 DEF Traced
  <2>   HIDE DEF g, ending, h
  <2>   QED  BY <2>2, <2>3, <2>4 DEF BackTurn
<1>3. g[len].bits = ending(len)
    OBVIOUS
<1>4. ending(len) = [k \in 1 .. len |-> BitInto(path[k])]
  <2>1. \A k \in 1 .. len : (len - len) + k = k
        OBVIOUS
  <2>   QED  BY <2>1
<1> HIDE DEF g, ending
<1>5. Traceback(sums, len) = g[len].bits
    BY <1>1, <1>2, BackIs
<1> QED BY <1>3, <1>4, <1>5 DEF BitsInto

\* The registers of a CRC, and what crc16_ccitt_bits makes of them.
LEMMA RegistersExist ==
    ASSUME NEW n \in Nat, NEW in, \A i \in 1 .. n : in[i] \in Bit
    PROVE  \E regs : Registers(regs, in, n)
<1> DEFINE of(r, i) == CrcBit(r, in[i])
           step == [p \in Register \X Nat |-> IF p[2] \in 1 .. n THEN of(p[1], p[2]) ELSE p[1]]
<1>1. ASSUME NEW r \in Register, NEW i \in 1 .. n PROVE of(r, i) \in Register
    BY CrcBitIs
<1> HIDE DEF of
<1>2. step \in [Register \X Nat -> Register]
    BY <1>1
<1>3. \A r \in Register, i \in 1 .. n : step[<<r, i>>] = of(r, i)
    OBVIOUS
<1> HIDE DEF step
<1>4. PICK g \in [0 .. n -> Register] : Chain(g, CrcInit, step, n)
    BY <1>2, CrcInitIs, ChainExists
<1> DEFINE regs == [k \in 1 .. n + 1 |-> g[k - 1]]
<1>5. regs[1] = CrcInit
    BY <1>4 DEF Chain
<1>6. ASSUME NEW i \in 1 .. n PROVE regs[i + 1] = CrcBit(regs[i], in[i])
  <2>1. regs[i + 1] = g[i] /\ regs[i] = g[i - 1] /\ g[i - 1] \in Register
        OBVIOUS
  <2>2. g[i] = of(g[i - 1], i)
        BY <1>3, <1>4, <2>1 DEF Chain
  <2>   HIDE DEF regs
  <2>   QED  BY <2>1, <2>2 DEF of
<1> HIDE DEF regs
<1> QED BY <1>5, <1>6 DEF Registers

\* It makes the last of the registers.
LEMMA CrcMakes ==
    ASSUME NEW n \in Nat, NEW in, NEW regs, Registers(regs, in, n)
    PROVE  Crc(in, n) = regs[n + 1]
<1> DEFINE g == [i \in 0 .. n |-> regs[i + 1]]
<1>1. g[0] = CrcInit
    BY DEF Registers
<1>2. ASSUME NEW i \in 1 .. n PROVE g[i] = CrcTurn(in, g[i - 1], i)
  <2>1. g[i] = regs[i + 1] /\ g[i - 1] = regs[i]
        OBVIOUS
  <2>   HIDE DEF g
  <2>   QED  BY <2>1 DEF Registers, CrcTurn
<1>3. g[n] = regs[n + 1]
    OBVIOUS
<1> HIDE DEF g
<1>4. Crc(in, n) = g[n]
    BY <1>1, <1>2, CrcIs
<1> QED BY <1>3, <1>4

\* osmo_conv_decode, of its two passes.
LEMMA ConvDecodeIs ==
    ASSUME NEW mother, NEW n \in Nat, NEW forward, forward = Forward(SoftBits(mother, n), TrellisLength(n))
    PROVE  ConvDecode(mother, n) = [bits |-> SubSeq(Traceback(forward.steps, TrellisLength(n)), 1, n), max |-> forward.max]
BY DEF ConvDecode, Strict

\* tp_sap_udata_ind, of the decoder and the CRC.
LEMMA DecodeBlockIs ==
    ASSUME NEW type, NEW in, NEW stream, NEW p, p = BlkParam[type],
           NEW type2, type2 = ConvDecode(Received(p, in, stream), p.type2)
    PROVE  DecodeBlock(type, in, stream) = [crc_ok |-> Crc(type2.bits, p.type1 + 16) = TETRA_CRC_OK,
                                            bits |-> SubSeq(type2.bits, 1, p.type1), max |-> type2.max]
BY DEF DecodeBlock, Strict

\* The first elements of a sequence.
LEMMA PrefixIs ==
    ASSUME NEW S, NEW m \in Nat, NEW n \in Nat, n <= m, NEW f \in [1 .. m -> S]
    PROVE  SubSeq(f, 1, n) = [k \in 1 .. n |-> f[k]]
OBVIOUS

\* What osmo_conv_decode makes of the soft bits of some rows.
LEMMA DecodedBitsAre ==
    ASSUME NEW mother, NEW n \in Nat, NEW soft, soft = SoftBits(mother, n), TwoKnown(soft, TrellisLength(n)),
           NEW sums, Traversed(sums, soft, TrellisLength(n)),
           NEW path \in [0 .. TrellisLength(n) -> States], Traced(path, sums, TrellisLength(n))
    PROVE  /\ ConvDecode(mother, n).bits = [k \in 1 .. n |-> BitInto(path[k])]
           /\ ConvDecode(mother, n).max <= INT16_MAX
<1> DEFINE len == TrellisLength(n)
           forward == Forward(soft, len)
           rows == [k \in 1 .. len + 1 |-> sums[k]]
           into == BitsInto(path, len)
<1>1. len \in Nat /\ n <= len
    BY DEF TrellisLength, K
<1> HIDE DEF len
<1>2. forward.steps = rows /\ forward.max <= INT16_MAX
    BY <1>1, ForwardMakes DEF len
<1>3. Traceback(rows, len) = into
  <2>1. Traced(path, rows, len)
    <3>1. \A i \in 1 .. len : i + 1 \in 1 .. len + 1
          BY <1>1
    <3>   QED  BY <3>1 DEF Traced, len
  <2>   HIDE DEF rows
  <2>   QED  BY <1>1, <2>1, TracebackMakes
<1>4. ConvDecode(mother, n) = [bits |-> SubSeq(Traceback(forward.steps, len), 1, n), max |-> forward.max]
    BY ConvDecodeIs DEF len
<1>5. SubSeq(into, 1, n) = [k \in 1 .. n |-> BitInto(path[k])]
  <2> DEFINE S == {BitInto(t) : t \in States}
  <2>1. into \in [1 .. len -> S]
    <3>1. \A k \in 1 .. len : path[k] \in States
          BY <1>1 DEF len
    <3>   QED  BY <3>1 DEF BitsInto
  <2>2. \A k \in 1 .. n : k \in 1 .. len /\ into[k] = BitInto(path[k])
        BY <1>1 DEF BitsInto
  <2>   HIDE DEF S, into
  <2>3. SubSeq(into, 1, n) = [k \in 1 .. n |-> into[k]]
        BY <1>1, <2>1, PrefixIs
  <2>   QED  BY <2>2, <2>3
<1> HIDE DEF forward, rows, into
<1> QED BY <1>2, <1>3, <1>4, <1>5

\* What DecodeBlock makes of whatever is received.
DecodedAs(result, p, in, stream, sums, path, regs, out) ==
    /\ Decoding(p, in, stream, sums, path, regs, out)
    /\ result.bits = [k \in 1 .. p.type1 |-> out[k]]
    /\ result.crc_ok = (regs[p.type1 + 17] = TETRA_CRC_OK)

\* There is always one, and its metrics fit.
LEMMA DecodingIs ==
    ASSUME NEW type \in DOMAIN BlkParam, NEW p, p = BlkParam[type], NEW in, NEW stream,
           NEW result, result = DecodeBlock(type, in, stream)
    PROVE  /\ result.max <= INT16_MAX
           /\ \E sums, path, regs, out : DecodedAs(result, p, in, stream, sums, path, regs, out)
<1>1. PICK n1 \in Nat, n \in Nat : p.type1 = n1 /\ p.type2 = n /\ n = n1 + 20
    BY DEF BlkParam
<1> DEFINE mother == Received(p, in, stream)
           soft == SoftBits(mother, n)
           len == TrellisLength(n)
           type2 == ConvDecode(mother, n)
<1>2. TwoKnown(soft, len) /\ len \in Nat /\ n <= len
  <2>1. mother = Depunctured(Deinterleave(p.type345, p.a, Scramble(stream, in)), N * n)
        BY <1>1 DEF Received
  <2>   QED  BY <2>1, TwoAreKnown
<1> HIDE DEF mother, soft, len
<1>3. PICK sums : Traversed(sums, soft, len)
    BY <1>2, RowsExist
<1>4. PICK path \in [0 .. len -> States] : Traced(path, sums, len)
  <2>1. \A i \in 1 .. len + 1 : sums[i] \in Row
        BY <1>2, <1>3, RowsAreTyped
  <2>   QED  BY <1>2, <2>1, PathExists
<1> DEFINE out == [k \in 1 .. n |-> BitInto(path[k])]
<1>5. type2.bits = out /\ type2.max <= INT16_MAX
    BY <1>2, <1>3, <1>4, DecodedBitsAre DEF soft, len
<1>6. out \in [1 .. n -> Bit]
  <2>1. ASSUME NEW k \in 1 .. n PROVE BitInto(path[k]) \in Bit
    <3>1. path[k] \in States
          BY <1>2
    <3>   QED  BY <3>1 DEF BitInto, States, Bit
  <2>   QED  BY <2>1
<1>7. \A k \in 1 .. n : out[k] = BitInto(path[k])
    OBVIOUS
<1> HIDE DEF out, type2
<1>8. n1 + 16 \in Nat /\ \A k \in 1 .. n1 + 16 : out[k] \in Bit
    BY <1>1, <1>6
<1>9. PICK regs : Registers(regs, out, n1 + 16)
    BY <1>8, RegistersExist
<1>10. Crc(out, n1 + 16) = regs[n1 + 17]
  <2>1. Crc(out, n1 + 16) = regs[(n1 + 16) + 1]
        BY <1>8, <1>9, CrcMakes
  <2>   QED  BY <2>1, (n1 + 16) + 1 = n1 + 17
<1>11. Decoding(p, in, stream, sums, path, regs, out)
    BY <1>1, <1>3, <1>4, <1>7, <1>9 DEF Decoding, soft, len, mother
<1>12. result = [crc_ok |-> Crc(type2.bits, n1 + 16) = TETRA_CRC_OK,
                 bits |-> SubSeq(type2.bits, 1, n1), max |-> type2.max]
    BY <1>1, DecodeBlockIs DEF type2, mother
<1>13. SubSeq(out, 1, n1) = [k \in 1 .. n1 |-> out[k]]
  <2>1. n1 <= n
        BY <1>1
  <2>   QED  BY <1>6, <2>1, PrefixIs
<1>14. /\ result.max <= INT16_MAX
       /\ result.bits = [k \in 1 .. n1 |-> out[k]]
       /\ result.crc_ok = (regs[n1 + 17] = TETRA_CRC_OK)
    BY <1>5, <1>10, <1>12, <1>13
<1> QED BY <1>1, <1>11, <1>14 DEF DecodedAs

-----------------------------------------------------------------------------
\* A code word that was received as it was sent is decoded to the bits that were encoded.
THEOREM CleanCodeIsDecoded ==
    ASSUME NEW n \in Nat, NEW k \in Nat, 2 * k = 3 * n, NEW in \in [1 .. n -> Bit], Flushed(in, n)
    PROVE  ConvDecode(Depunctured(Punctured(ConvEnc(in), k), N * n), n).bits = in
<1> DEFINE mother == Depunctured(Punctured(ConvEnc(in), k), N * n)
           soft == SoftBits(mother, n)
           len == TrellisLength(n)
<1>1. TwoKnown(soft, len) /\ len \in Nat /\ n <= len /\ soft = CleanSoft(in, n, k)
    BY TwoAreKnown DEF CleanSoft
<1> HIDE DEF mother, soft, len
<1>2. PICK sums : Traversed(sums, soft, len)
    BY <1>1, RowsExist
<1>3. PICK path \in [0 .. len -> States] : Traced(path, sums, len)
  <2>1. \A i \in 1 .. len + 1 : sums[i] \in Row
        BY <1>1, <1>2, RowsAreTyped
  <2>   QED  BY <1>1, <2>1, PathExists
<1>4. ConvDecode(mother, n).bits = [i \in 1 .. n |-> BitInto(path[i])]
    BY <1>1, <1>2, <1>3, DecodedBitsAre DEF soft, len
<1>5. \A i \in 1 .. n : BitInto(path[i]) = in[i]
    BY <1>1, <1>2, <1>3, CleanCodeIsTraced DEF len
<1> QED BY <1>4, <1>5 DEF mother

\* Two inputs that differ in a burst of up to 16 bits have different CRCs.
THEOREM CrcTellsBursts ==
    ASSUME NEW n \in Nat, NEW in \in [1 .. n -> Bit], NEW in2 \in [1 .. n -> Bit],
           NEW f \in 1 .. n, in[f] # in2[f], \A i \in 1 .. n : in[i] # in2[i] => i \in f .. f + 15
    PROVE  Crc(in, n) # Crc(in2, n)
<1>1. PICK regs, regs2 : Registers(regs, in, n) /\ Registers(regs2, in2, n)
    BY RegistersExist
<1>2. Crc(in, n) = regs[n + 1] /\ Crc(in2, n) = regs2[n + 1]
    BY <1>1, CrcMakes
<1>3. regs[n + 1] # regs2[n + 1]
    BY <1>1, BurstsLeaveOthers
<1> QED BY <1>2, <1>3

\* A block that arrives as it was sent passes its CRC, and its bits are those that were sent.
THEOREM UndisturbedBlockPasses ==
    ASSUME NEW type \in DOMAIN BlkParam, NEW type1 \in [1 .. BlkParam[type].type1 -> Bit],
           NEW stream \in [1 .. BlkParam[type].type345 -> Bit]
    PROVE  /\ DecodeBlock(type, EncodeBlock(type, type1, stream), stream).crc_ok
           /\ DecodeBlock(type, EncodeBlock(type, type1, stream), stream).bits = type1
<1> DEFINE p == BlkParam[type]
           in == EncodeBlock(type, type1, stream)
           result == DecodeBlock(type, in, stream)
<1>0. p = BlkParam[type]
    OBVIOUS
<1>1. p.type1 \in Nat
    BY DEF BlkParam
<1> HIDE DEF p
<1>2. type1 \in [1 .. p.type1 -> Bit] /\ stream \in [1 .. p.type345 -> Bit] /\ \A i \in 1 .. p.type1 : type1[i] \in Bit
    BY DEF p
<1>3. PICK sent : Registers(sent, type1, p.type1)
    BY <1>1, <1>2, RegistersExist
<1>4. in = Type5(p, Type2(type1, sent[p.type1 + 1]), stream)
  <2>1. Crc(type1, p.type1) = sent[p.type1 + 1]
        BY <1>1, <1>3, CrcMakes
  <2>   QED  BY <2>1 DEF EncodeBlock, p
<1> HIDE DEF in
<1>5. PICK sums, path, regs, out : DecodedAs(result, p, in, stream, sums, path, regs, out)
    BY <1>0, DecodingIs
<1>6. AsSent(p, type1, regs, out)
  <2>1. Decoding(p, Type5(p, Type2(type1, sent[p.type1 + 1]), stream), stream, sums, path, regs, out)
        BY <1>4, <1>5 DEF DecodedAs
  <2>   QED  BY <1>0, <1>2, <1>3, <2>1, UndisturbedBlockIsDecoded
<1>7. result.bits = type1
  <2>1. [k \in 1 .. p.type1 |-> out[k]] = [k \in 1 .. p.type1 |-> type1[k]]
        BY <1>6 DEF AsSent
  <2>2. [k \in 1 .. p.type1 |-> type1[k]] = type1
        BY <1>2
  <2>   HIDE DEF result
  <2>   QED  BY <1>5, <2>1, <2>2 DEF DecodedAs
<1> QED BY <1>5, <1>6, <1>7 DEF AsSent, DecodedAs, in

\* The blocks of a burst.
LEMMA BlocksAre ==
    ASSUME NEW burst, NEW type
    PROVE  /\ Len(BlocksOf(burst, type)) \in 0 .. 3
           /\ \A i \in 1 .. Len(BlocksOf(burst, type)) :
                 BlocksOf(burst, type)[i].type \in {"BBK"} \cup DOMAIN BlkParam
BY DEF BlocksOf, BlkParam

\* What was heard, with metrics that fit into 16 bits.
Fitting(h) == \E n \in Nat : h = [i \in 1 .. n |-> h[i]] /\ \A i \in 1 .. n : h[i].max <= INT16_MAX

\* At the start of a slot nothing was heard.
LEMMA NothingFits == Fitting(<<>>)
<1>1. <<>> = [i \in 1 .. 0 |-> <<>>[i]]
    OBVIOUS
<1> QED BY <1>1 DEF Fitting

\* A block more is the last one.
LEMMA AppendedIs ==
    ASSUME NEW n \in Nat, NEW h, h = [i \in 1 .. n |-> h[i]], NEW x, NEW g, g = Append(h, x)
    PROVE  /\ g = [i \in 1 .. n + 1 |-> g[i]]
           /\ \A i \in 1 .. n : g[i] = h[i]
           /\ g[n + 1] = x
<1> DEFINE more == [i \in 1 .. n + 1 |-> IF i = n + 1 THEN x ELSE h[i]]
<1>1. more[n + 1] = x /\ \A i \in 1 .. n : more[i] = h[i]
    OBVIOUS
<1>2. more = [i \in 1 .. n + 1 |-> more[i]]
    OBVIOUS
<1> HIDE DEF more
<1>3. Append([i \in 1 .. n |-> more[i]], more[n + 1]) = [i \in 1 .. n + 1 |-> more[i]]
    BY AppendIs
<1>4. [i \in 1 .. n |-> more[i]] = h
    BY <1>1
<1>5. g = more
    BY <1>1, <1>2, <1>3, <1>4
<1> QED BY <1>1, <1>2, <1>5

\* One block more.
LEMMA AppendFits ==
    ASSUME NEW h, Fitting(h), NEW r, r.max <= INT16_MAX
    PROVE  Fitting(Append(h, r))
<1>1. PICK n \in Nat : h = [i \in 1 .. n |-> h[i]] /\ \A i \in 1 .. n : h[i].max <= INT16_MAX
    BY DEF Fitting
<1>2. PICK g : g = Append(h, r)
    OBVIOUS
<1>3. g = [i \in 1 .. n + 1 |-> g[i]] /\ (\A i \in 1 .. n : g[i] = h[i]) /\ g[n + 1] = r
    BY <1>1, <1>2, AppendedIs
<1>4. \A i \in 1 .. n + 1 : g[i].max <= INT16_MAX
  <2>1. \A i \in 1 .. n + 1 : i = n + 1 \/ i \in 1 .. n
        OBVIOUS
  <2>   QED  BY <1>1, <1>3, <2>1
<1>5. n + 1 \in Nat
    OBVIOUS
<1> QED BY <1>2, <1>3, <1>4, <1>5 DEF Fitting

\* tp_sap_udata_ind, whatever block it gets.
LEMMA UdataIndFits ==
    ASSUME NEW r, Fitting(r.heard), NEW blk, blk.type \in {"BBK"} \cup DOMAIN BlkParam, NEW sent
    PROVE  Fitting(UdataInd(r, blk, sent).heard)
<1> DEFINE code == IF blk.type = "SB1" THEN SCRAMB_INIT ELSE r.tcd.scramb_init
           stream == ScramblingBits(code, Len(blk.bits))
           decoded == IF blk.type = "BBK"
                      THEN [crc_ok |-> TRUE, max |-> 0, bits |-> RM3014Decode(Scramble(stream, blk.bits))]
                      ELSE DecodeBlock(blk.type, blk.bits, stream)
           ind == [type |-> blk.type, blk_num |-> blk.blk_num, scrambling_code |-> code,
                   bnch |-> blk.type = "SB2" /\ IsBnch(r.time), crc_ok |-> decoded.crc_ok,
                   intact |-> decoded.bits = sent, max |-> decoded.max]
<1>1. UdataInd(r, blk, sent).heard = Append(r.heard, ind)
  <2>1. UdataInd(r, blk, sent) = Decoded(r, blk, sent, code, decoded)
        BY DEF UdataInd, Strict
  <2>   HIDE DEF code, decoded
  <2>   QED  BY <2>1 DEF Decoded
<1>2. decoded.max <= INT16_MAX
  <2> HIDE DEF stream
  <2>1. CASE blk.type = "BBK"
        BY <2>1 DEF INT16_MAX
  <2>2. CASE blk.type # "BBK"
    <3>1. blk.type \in DOMAIN BlkParam /\ decoded = DecodeBlock(blk.type, blk.bits, stream)
          BY <2>2
    <3>   HIDE DEF decoded
    <3>   QED  BY <3>1, DecodingIs
  <2>   QED  BY <2>1, <2>2
<1>3. ind.max <= INT16_MAX
  <2>   HIDE DEF decoded, code
  <2>   QED  BY <1>2
<1> HIDE DEF ind
<1> QED BY <1>1, <1>3, AppendFits

\* g[i] is what the first i blocks of a burst make of the state of the receiver.
Takes(g, blocks, cell, n) ==
    /\ g[0] = [tcd |-> tcd, time |-> time, heard |-> <<>>]
    /\ \A i \in 1 .. n : g[i] = UdataInd(g[i - 1], blocks[i], Sent(cell, tm, blocks[i].type))

\* All of them have been taken in the end.
LEMMA TakenIs ==
    ASSUME NEW blocks, NEW cell, NEW n, n \in 0 .. 3, n = Len(blocks)
    PROVE  \E g : Taken(blocks, cell) = g[n] /\ Takes(g, blocks, cell, n)
<1> DEFINE v == [tcd |-> tcd, time |-> time, heard |-> <<>>]
           Turn(r, i) == UdataInd(r, blocks[i], Sent(cell, tm, blocks[i].type))
           turn(f, i) == Strict(LAMBDA x : Turn(x, 0 + i), f[i - 1])
           Made(f) == f = [i \in 0 .. n |-> IF i = 0 THEN v ELSE turn(f, i)]
           made == CHOOSE f : Made(f)
           r1 == Turn(v, 1)
           r2 == Turn(r1, 2)
           r3 == Turn(r2, 3)
           h == [i \in 0 .. n |-> IF i = 0 THEN v ELSE IF i = 1 THEN r1 ELSE IF i = 2 THEN r2 ELSE r3]
<1>1. Taken(blocks, cell) = made[n]
    BY DEF Taken, Turns
<1> HIDE DEF v, Turn
<1>2. \A f, i : turn(f, i) = Turn(f[i - 1], 0 + i)
    BY DEF Strict
<1>3. Made(h)
  <2>1. ASSUME NEW i \in 1 .. n PROVE h[i] = turn(h, i)
    <3>1. i \in {1, 2, 3} /\ i \in 0 .. n /\ i - 1 \in 0 .. n /\ 0 + i = i
          OBVIOUS
    <3>2. h[i] = Turn(h[i - 1], i)
      <4>   HIDE DEF r1, r2, r3
      <4>1. CASE i = 1
        <5>1. h[0] = v /\ h[1] = r1
              BY <3>1, <4>1
        <5>   HIDE DEF h
        <5>   QED  BY <4>1, <5>1 DEF r1
      <4>2. CASE i = 2
        <5>1. h[1] = r1 /\ h[2] = r2
              BY <3>1, <4>2
        <5>   HIDE DEF h
        <5>   QED  BY <4>2, <5>1 DEF r2
      <4>3. CASE i = 3
        <5>1. h[2] = r2 /\ h[3] = r3
              BY <3>1, <4>3
        <5>   HIDE DEF h
        <5>   QED  BY <4>3, <5>1 DEF r3
      <4>   QED  BY <3>1, <4>1, <4>2, <4>3
    <3>   HIDE DEF h, turn
    <3>   QED  BY <1>2, <3>1, <3>2
  <2>   HIDE DEF turn, r1, r2, r3
  <2>2. h = [i \in 0 .. n |-> h[i]] /\ h[0] = v
        OBVIOUS
  <2>   HIDE DEF h
  <2>   QED  BY <2>1, <2>2
<1>4. Made(made)
  <2> HIDE DEF Made
  <2>   QED  BY <1>3
<1> HIDE DEF h, turn, r1, r2, r3
<1>5. \A i \in 0 .. n : made[i] = IF i = 0 THEN v ELSE turn(made, i)
  <2> HIDE DEF made
  <2>   QED  BY <1>4
<1> HIDE DEF Made, made
<1>6. \A i \in 1 .. n : made[i] = Turn(made[i - 1], i)
  <2> SUFFICES ASSUME NEW i \in 1 .. n PROVE made[i] = Turn(made[i - 1], i)
      OBVIOUS
  <2>1. i \in 0 .. n /\ i # 0 /\ 0 + i = i
        OBVIOUS
  <2>   QED  BY <1>2, <1>5, <2>1
<1>7. made[0] = v
    BY <1>5
<1>8. Takes(made, blocks, cell, n)
    BY <1>6, <1>7 DEF v, Turn, Takes
<1> QED BY <1>1, <1>8

\* The blocks of a burst, one after the other.
LEMMA AllFit ==
    ASSUME NEW blocks, NEW cell, Len(blocks) \in 0 .. 3,
           \A i \in 1 .. Len(blocks) : blocks[i].type \in {"BBK"} \cup DOMAIN BlkParam
    PROVE  Fitting(Taken(blocks, cell).heard)
<1>1. PICK n \in 0 .. 3 : n = Len(blocks)
    OBVIOUS
<1>2. PICK g : Taken(blocks, cell) = g[n] /\ Takes(g, blocks, cell, n)
  <2>1. n \in 0 .. 3 /\ n = Len(blocks)
        BY <1>1
  <2>   QED  BY ONLY <2>1, TakenIs
<1> DEFINE S == {i \in Nat : i <= n => Fitting(g[i].heard)}
<1>3. 0 \in S
    BY <1>2, NothingFits DEF Takes
<1>4. ASSUME NEW i \in Nat, i \in S PROVE i + 1 \in S
  <2> SUFFICES ASSUME i + 1 <= n PROVE Fitting(g[i + 1].heard)
      OBVIOUS
  <2>1. PICK j \in 1 .. n : j = i + 1 /\ j - 1 = i
        OBVIOUS
  <2>2. Fitting(g[i].heard)
        BY <1>4
  <2>3. PICK blk : blk = blocks[j] /\ blk.type \in {"BBK"} \cup DOMAIN BlkParam
        BY <1>1, <2>1
  <2>4. g[j] = UdataInd(g[i], blk, Sent(cell, tm, blk.type))
        BY <1>2, <2>1, <2>3 DEF Takes
  <2>5. Fitting(UdataInd(g[i], blk, Sent(cell, tm, blk.type)).heard)
        BY ONLY <2>2, <2>3, UdataIndFits
  <2>   QED  BY <2>1, <2>4, <2>5
<1>5. n \in S
  <2>   HIDE DEF S
  <2>   QED  BY <1>3, <1>4, NatSet
<1> QED BY <1>2, <1>5

\* A burst, whichever it is and whatever became of it.
LEMMA ReceiveFits ==
    ASSUME NEW cell, NEW hit, NEW sent, Receive(cell, hit, sent)
    PROVE  Fitting(heard')
<1>1. PICK burst : heard' = Taken(Found(burst), cell).heard
    BY DEF Receive
<1>2. /\ Len(Found(burst)) \in 0 .. 3
      /\ \A i \in 1 .. Len(Found(burst)) : Found(burst)[i].type \in {"BBK"} \cup DOMAIN BlkParam
    BY BlocksAre DEF Found
<1> QED BY <1>1, <1>2, AllFit

\* The metrics of the Viterbi decoder fit into the 16 bits they are kept in, whatever the
\* bits of the block are.
THEOREM MetricsAlwaysFit == Spec => []MetricsFit
<1> DEFINE IInv == Fitting(heard)
<1>1. Init => IInv
    BY NothingFits DEF Init
<1>2. IInv /\ [Next]_vars => IInv'
  <2> SUFFICES ASSUME IInv, [Next]_vars PROVE Fitting(heard')
      OBVIOUS
  <2>1. CASE NextSlot
        BY <2>1, NothingFits DEF NextSlot
  <2>2. CASE ReceiveBurst
    <3>1. PICK cell, hit, sent : Receive(cell, hit, sent)
          BY <2>2 DEF ReceiveBurst
    <3>   QED  BY <3>1, ReceiveFits
  <2>3. CASE UNCHANGED vars
        BY <2>3 DEF vars
  <2>   QED  BY <2>1, <2>2, <2>3 DEF Next
<1>3. IInv => MetricsFit
  <2> SUFFICES ASSUME IInv, NEW i \in 1 .. Len(heard) PROVE heard[i].max <= INT16_MAX
      BY DEF MetricsFit, Heard
  <2>1. PICK n \in Nat : heard = [k \in 1 .. n |-> heard[k]] /\ \A k \in 1 .. n : heard[k].max <= INT16_MAX
        BY DEF Fitting
  <2>2. Len(heard) = n
        BY <2>1
  <2>   QED  BY <2>1, <2>2
<1> QED BY <1>1, <1>2, <1>3, PTL DEF Spec

-----------------------------------------------------------------------------
(* A number, from its bits and back.                                       *)

\* The turns of bits_to_uint after the first `done`, n of them.
UintTurn(bits, off, v, i) == 2 * v + bits[off + i]
UintFrom(bits, off, v, done, n) == Turns(LAMBDA x, i : UintTurn(bits, off, x, i), v, done, n)

\* What is made one by one, by the n turns after the first `done`.
UintMade(bits, off, g, done, n) == \A i \in done + 1 .. done + n : g[i] = UintTurn(bits, off, g[i - 1], i)

\* They make just that.
LEMMA UintTurns ==
    ASSUME NEW bits, NEW off, NEW done \in Nat, NEW n \in Nat, NEW g, UintMade(bits, off, g, done, n)
    PROVE  UintFrom(bits, off, g[done], done, n) = g[done + n]
<1> DEFINE Turn(f, i) == Strict(LAMBDA x : UintTurn(bits, off, x, done + i), f[i - 1])
           Made(f) == f = [i \in 0 .. n |-> IF i = 0 THEN g[done] ELSE Turn(f, i)]
           made == CHOOSE f : Made(f)
           S == {i \in Nat : i <= n => made[i] = g[done + i]}
<1>1. \A f, i : Turn(f, i) = UintTurn(bits, off, f[i - 1], done + i)
    BY DEF Strict
<1>2. \A i \in 1 .. n : g[done + i] = UintTurn(bits, off, g[done + (i - 1)], done + i)
  <2>1. \A i \in 1 .. n : done + i \in done + 1 .. done + n /\ (done + i) - 1 = done + (i - 1)
        OBVIOUS
  <2>   QED  BY <2>1 DEF UintMade
<1>3. Made([i \in 0 .. n |-> g[done + i]])
  <2> DEFINE h == [i \in 0 .. n |-> g[done + i]]
  <2> HIDE DEF Turn
  <2>1. \A i \in 0 .. n : h[i] = IF i = 0 THEN g[done] ELSE Turn(h, i)
    <3>1. h[0] = g[done]
          OBVIOUS
    <3>2. ASSUME NEW i \in 1 .. n PROVE h[i] = Turn(h, i)
      <4>1. h[i] = g[done + i] /\ h[i - 1] = g[done + (i - 1)]
            OBVIOUS
      <4>   HIDE DEF h
      <4>   QED  BY <1>1, <1>2, <4>1
    <3>   HIDE DEF h
    <3>   QED  BY <3>1, <3>2
  <2>   QED  BY <2>1
<1>4. Made(made)
  <2> HIDE DEF Made
  <2>   QED  BY <1>3
<1>5. made[n] = g[done + n]
  <2> HIDE DEF made, Turn
  <2>1. \A i \in 0 .. n : made[i] = IF i = 0 THEN g[done] ELSE Turn(made, i)
        BY <1>4
  <2>2. 0 \in S
        BY <2>1
  <2>3. ASSUME NEW i \in Nat, i \in S PROVE i + 1 \in S
    <3> SUFFICES ASSUME i + 1 <= n PROVE made[i + 1] = g[done + (i + 1)]
        OBVIOUS
    <3>1. i + 1 \in 1 .. n /\ (i + 1) - 1 = i /\ made[i] = g[done + i]
          BY <2>3
    <3>2. made[i + 1] = Turn(made, i + 1)
          BY <2>1, <3>1
    <3>   QED  BY <1>1, <1>2, <3>1, <3>2
  <2>4. n \in S
    <3> HIDE DEF S
    <3>   QED  BY <2>2, <2>3, NatSet
  <2>   QED  BY <2>4
<1>6. UintFrom(bits, off, g[done], done, n) = made[n]
    BY DEF Turns, UintFrom, UintTurn
<1> QED BY <1>5, <1>6

\* So bits_to_uint makes the last of them.
LEMMA UintIs ==
    ASSUME NEW bits, NEW off, NEW n \in Nat, NEW g, g[0] = 0,
           \A i \in 1 .. n : g[i] = UintTurn(bits, off, g[i - 1], i)
    PROVE  Uint(bits, off, n) = g[n]
<1> DEFINE m == n \div 16
           Sixteen(x, j) == UintFrom(bits, off, x, 16 * (j - 1), 16)
           Turn(f, j) == Strict(LAMBDA x : Sixteen(x, 0 + j), f[j - 1])
           Made(f) == f = [j \in 0 .. m |-> IF j = 0 THEN 0 ELSE Turn(f, j)]
           made == CHOOSE f : Made(f)
           Last(x) == UintFrom(bits, off, x, 16 * m, n % 16)
           S == {j \in Nat : j <= m => made[j] = g[16 * j]}
<1>1. Uint(bits, off, n) = Strict(LAMBDA x : Last(x), made[m])
    BY DEF Uint, Loop, Turns, UintFrom, UintTurn
<1>2. m \in Nat /\ n % 16 \in Nat /\ 16 * m + (n % 16) = n
    BY Sixteens
<1>3. \A j \in 1 .. m : Sixteen(g[16 * (j - 1)], 0 + j) = g[16 * j]
  <2> SUFFICES ASSUME NEW j \in 1 .. m PROVE Sixteen(g[16 * (j - 1)], 0 + j) = g[16 * j]
      OBVIOUS
  <2>1. PICK d \in Nat : d = 16 * (j - 1) /\ d + 16 = 16 * j /\ d + 16 <= n
        BY <1>2
  <2>2. UintMade(bits, off, g, d, 16)
        BY <2>1 DEF UintMade
  <2>3. UintFrom(bits, off, g[d], d, 16) = g[d + 16]
        BY <2>2, UintTurns
  <2>4. 0 + j = j
        OBVIOUS
  <2>   QED  BY <2>1, <2>3, <2>4
<1>4. Last(g[16 * m]) = g[n]
  <2>1. PICK d \in Nat, r \in Nat : d = 16 * m /\ r = n % 16 /\ d + r = n
        BY <1>2
  <2>2. UintMade(bits, off, g, d, r)
        BY <2>1 DEF UintMade
  <2>3. UintFrom(bits, off, g[d], d, r) = g[d + r]
        BY <2>2, UintTurns
  <2>   QED  BY <2>1, <2>3
<1> HIDE DEF m, Sixteen, Last
<1>5. (\A f, j : Turn(f, j) = Sixteen(f[j - 1], 0 + j)) /\ \A x : Strict(LAMBDA y : Last(y), x) = Last(x)
    BY DEF Strict
<1>6. Made([j \in 0 .. m |-> g[16 * j]])
  <2> DEFINE h == [j \in 0 .. m |-> g[16 * j]]
  <2> HIDE DEF Turn
  <2>1. \A j \in 0 .. m : h[j] = IF j = 0 THEN 0 ELSE Turn(h, j)
    <3>1. h[0] = 0
          BY <1>2
    <3>2. ASSUME NEW j \in 1 .. m PROVE h[j] = Turn(h, j)
      <4>1. h[j] = g[16 * j] /\ h[j - 1] = g[16 * (j - 1)]
        <5>1. j \in 0 .. m /\ j - 1 \in 0 .. m
              BY <1>2
        <5>   QED  BY <5>1
      <4>   HIDE DEF h
      <4>   QED  BY <1>3, <1>5, <4>1
    <3>   HIDE DEF h
    <3>   QED  BY <1>2, <3>1, <3>2
  <2>   QED  BY <2>1
<1>7. Made(made)
  <2> HIDE DEF Made
  <2>   QED  BY <1>6
<1>8. made[m] = g[16 * m]
  <2> HIDE DEF made, Turn
  <2>1. \A j \in 0 .. m : made[j] = IF j = 0 THEN 0 ELSE Turn(made, j)
        BY <1>7
  <2>2. 0 \in S
        BY <1>2, <2>1
  <2>3. ASSUME NEW j \in Nat, j \in S PROVE j + 1 \in S
    <3> SUFFICES ASSUME j + 1 <= m PROVE made[j + 1] = g[16 * (j + 1)]
        OBVIOUS
    <3>1. j + 1 \in 1 .. m /\ j + 1 \in 0 .. m /\ (j + 1) - 1 = j /\ made[j] = g[16 * j]
          BY <1>2, <2>3
    <3>2. made[j + 1] = Turn(made, j + 1)
          BY <2>1, <3>1
    <3>   QED  BY <1>3, <1>5, <3>1, <3>2
  <2>4. m \in S
    <3> HIDE DEF S
    <3>   QED  BY <1>2, <2>2, <2>3, NatSet
  <2>   QED  BY <2>4
<1> QED BY <1>1, <1>4, <1>5, <1>8

-----------------------------------------------------------------------------
(* The fields of a SYNC PDU.                                               *)

\* A bit of a number is what is left when its first half is taken away.
LEMMA Halving ==
    ASSUME NEW v \in Nat, NEW k \in 0 .. 13
    PROVE  v \div 2^k = 2 * (v \div 2^(k + 1)) + BitOf(v, k) /\ BitOf(v, k) \in Bit
<1>1. \A d \in {1, 2, 4, 8, 16, 32, 64, 128, 256, 512, 1024, 2048, 4096, 8192} :
        v \div d = 2 * (v \div (2 * d)) + ((v \div d) % 2)
    OBVIOUS
<1>2. 2^k \in {1, 2, 4, 8, 16, 32, 64, 128, 256, 512, 1024, 2048, 4096, 8192} /\ 2^(k + 1) = 2 * 2^k
  <2> DEFINE P(j) == 2^j \in {1, 2, 4, 8, 16, 32, 64, 128, 256, 512, 1024, 2048, 4096, 8192} /\ 2^(j + 1) = 2 * 2^j
  <2>1. /\ P(0) /\ P(1) /\ P(2) /\ P(3) /\ P(4) /\ P(5) /\ P(6) /\ P(7)
        /\ P(8) /\ P(9) /\ P(10) /\ P(11) /\ P(12) /\ P(13)
        OBVIOUS
  <2>2. \/ k = 0 \/ k = 1 \/ k = 2 \/ k = 3 \/ k = 4 \/ k = 5 \/ k = 6 \/ k = 7
        \/ k = 8 \/ k = 9 \/ k = 10 \/ k = 11 \/ k = 12 \/ k = 13
        OBVIOUS
  <2>3. P(k)
    <3>   HIDE DEF P
    <3>   QED  BY <2>1, <2>2
  <2>   QED  BY <2>3
<1>3. (v \div 2^k) % 2 \in Bit
  <2>1. v \div 2^k \in Nat
        BY <1>2
  <2>   QED  BY <2>1 DEF Bit
<1> QED BY <1>1, <1>2, <1>3 DEF BitOf

\* bits_to_uint gets a number back from its bits.
LEMMA UintOfBits ==
    ASSUME NEW len \in 1 .. 14, NEW v \in Nat, v < 2^len, NEW bits, NEW off,
           \A i \in 1 .. len : bits[off + i] = BitOf(v, len - i)
    PROVE  Uint(bits, off, len) = v
<1> DEFINE g == [i \in 0 .. len |-> v \div 2^(len - i)]
<1>1. g[0] = 0
  <2>1. 2^len \in Nat \ {0}
        OBVIOUS
  <2>2. v \div 2^len = 0
        BY <2>1
  <2>   QED  BY <2>2
<1>2. g[len] = v
  <2>1. len - len = 0 /\ 2^0 = 1 /\ v \div 1 = v
        OBVIOUS
  <2>   QED  BY <2>1
<1>3. \A i \in 1 .. len : g[i] = UintTurn(bits, off, g[i - 1], i)
  <2> SUFFICES ASSUME NEW i \in 1 .. len PROVE g[i] = UintTurn(bits, off, g[i - 1], i)
      OBVIOUS
  <2>1. PICK k \in 0 .. 13 : k = len - i /\ len - (i - 1) = k + 1
        OBVIOUS
  <2>2. g[i] = v \div 2^k /\ g[i - 1] = v \div 2^(k + 1)
        BY <2>1
  <2>3. v \div 2^k = 2 * (v \div 2^(k + 1)) + BitOf(v, k)
        BY Halving
  <2>4. bits[off + i] = BitOf(v, k)
        BY <2>1
  <2>   HIDE DEF g
  <2>   QED  BY <2>2, <2>3, <2>4 DEF UintTurn
<1> HIDE DEF g
<1>4. len \in Nat
    OBVIOUS
<1> QED BY <1>1, <1>2, <1>3, <1>4, UintIs

\* The bits t are in the first n bits, after the first off.
Holds(bits, n, off, t, m) ==
    /\ bits \in [1 .. n -> Bit] /\ off + m <= n
    /\ \A i \in 1 .. m : bits[off + i] = t[i]

\* What is put in front of others is where it was, and the others come after it.
LEMMA ConcatHolds ==
    ASSUME NEW n \in Nat, NEW s \in [1 .. n -> Bit], NEW m \in Nat, NEW t \in [1 .. m -> Bit],
           NEW u, u = s \o t, NEW l \in Nat, l = n + m
    PROVE  /\ u \in [1 .. l -> Bit]
           /\ Holds(u, l, n, t, m)
           /\ \A off \in Nat, k \in Nat : \A x : Holds(s, n, off, x, k) => Holds(u, l, off, x, k)
<1>1. /\ u \in [1 .. l -> Bit]
      /\ \A i \in 1 .. n : u[i] = s[i]
      /\ \A i \in 1 .. m : u[n + i] = t[i]
    BY ConcatIs
<1>2. ASSUME NEW off \in Nat, NEW k \in Nat, NEW x, Holds(s, n, off, x, k) PROVE Holds(u, l, off, x, k)
  <2>1. off + k <= n /\ off + k <= l
        BY <1>2 DEF Holds
  <2>2. \A i \in 1 .. k : off + i \in 1 .. n
        BY <2>1
  <2>   QED  BY <1>1, <1>2, <2>1, <2>2 DEF Holds
<1>3. Holds(u, l, n, t, m)
    BY <1>1 DEF Holds
<1> QED BY <1>1, <1>2, <1>3

\* The bits of a number.
LEMMA ToBitsAre ==
    ASSUME NEW v \in Nat, NEW len \in 1 .. 14
    PROVE  /\ ToBits(v, len) \in [1 .. len -> Bit]
           /\ \A i \in 1 .. len : ToBits(v, len)[i] = BitOf(v, len - i)
<1> DEFINE f == [i \in 1 .. len |-> BitOf(v, len - i)]
<1>1. \A i \in 1 .. len : BitOf(v, len - i) \in Bit
  <2> SUFFICES ASSUME NEW i \in 1 .. len PROVE BitOf(v, len - i) \in Bit
      OBVIOUS
  <2>1. len - i \in 0 .. 13
        OBVIOUS
  <2>   QED  BY <2>1, Halving
<1>2. f \in [1 .. len -> Bit] /\ \A i \in 1 .. len : f[i] = BitOf(v, len - i)
    BY <1>1
<1>3. ToBits(v, len) = Bits(f, len)
    BY DEF ToBits
<1> HIDE DEF f
<1>4. Bits(f, len) = f
  <2>1. len \in Nat
        OBVIOUS
  <2>   QED  BY <1>2, <2>1, BitsAre
<1> QED BY <1>2, <1>3, <1>4

\* bits_to_uint reads a field.
LEMMA FieldIsRead ==
    ASSUME NEW len \in 1 .. 14, NEW v \in Nat, v < 2^len, NEW bits, NEW n, NEW off,
           Holds(bits, n, off, ToBits(v, len), len)
    PROVE  Uint(bits, off, len) = v
<1>1. \A i \in 1 .. len : bits[off + i] = BitOf(v, len - i)
    BY ToBitsAre DEF Holds
<1> QED BY <1>1, UintOfBits

-----------------------------------------------------------------------------
(* The time of the air, and the time of the receiver.                      *)

\* Division with remainder.
LEMMA DivisionIs ==
    ASSUME NEW a \in Nat \ {0}, NEW q \in Nat, NEW r \in 0 .. a - 1, NEW x, x = a * q + r
    PROVE  x \div a = q /\ x % a = r
<1> DEFINE p == x \div a
           s == x % a
<1>1. x \in Nat /\ a * q \in Nat
    OBVIOUS
<1>2. p \in Int /\ s \in 0 .. a - 1 /\ x = a * p + s
    BY <1>1
<1> HIDE DEF p, s
<1>3. p <= q
  <2> SUFFICES ASSUME q + 1 <= p PROVE FALSE
      BY <1>2
  <2>1. a * (q + 1) <= a * p
        BY <1>2
  <2>2. a * (q + 1) = a * q + a
        OBVIOUS
  <2>   QED  BY <1>1, <1>2, <2>1, <2>2
<1>4. q <= p
  <2> SUFFICES ASSUME p + 1 <= q PROVE FALSE
      BY <1>2
  <2>1. a * (p + 1) <= a * q
        BY <1>2
  <2>2. a * (p + 1) = a * p + a
        BY <1>2
  <2>3. a * p \in Int
        BY <1>2
  <2>   QED  BY <1>1, <1>2, <2>1, <2>2, <2>3
<1>5. p = q
    BY <1>2, <1>3, <1>4
<1>6. s = r
    BY <1>1, <1>2, <1>5
<1> QED BY <1>5, <1>6 DEF p, s

\* Slots, frames and multiframes that have passed before slot x.
Passed(x, tn, fn, mn) == x = 4 * (MaxFn * mn + fn) + tn

\* TimeAt counts them.
LEMMA TimeAtIs ==
    ASSUME NEW tn \in 0 .. 3, NEW fn \in 0 .. MaxFn - 1, NEW mn \in 0 .. MaxMn - 1, NEW x, Passed(x, tn, fn, mn)
    PROVE  /\ TimeAt(x).tn = tn + 1 /\ TimeAt(x).fn = fn + 1 /\ TimeAt(x).mn = mn + 1
           /\ x \in Nat /\ x + 1 <= 4 * MaxFn * MaxMn
           /\ x + 1 = 4 * MaxFn * MaxMn <=> tn = 3 /\ fn = MaxFn - 1 /\ mn = MaxMn - 1
<1>1. PICK m \in Nat \ {0}, n \in Nat \ {0} : m = MaxFn /\ n = MaxMn
    BY TetraTdmaAssumption, BroadcastAssumption DEF TetraTdmaAssumption, BroadcastAssumption
<1>2. PICK y \in Nat : y = m * mn + fn /\ x = 4 * y + tn /\ x \in Nat
    BY <1>1 DEF Passed
<1>3. x % 4 = tn /\ x \div 4 = y
    BY <1>2
<1>4. y % m = fn /\ y \div m = mn
  <2>1. m \in Nat \ {0} /\ mn \in Nat /\ fn \in 0 .. m - 1 /\ y = m * mn + fn
        BY <1>1, <1>2
  <2>   QED  BY ONLY <2>1, DivisionIs
<1>5. x \div (4 * m) = mn
  <2>1. PICK a \in Nat \ {0}, r \in Nat : r \in 0 .. a - 1 /\ a = 4 * m /\ r = 4 * fn + tn
    <3>1. 4 * m \in Nat \ {0} /\ 4 * fn + tn \in 0 .. 4 * m - 1
          BY <1>1
    <3>   QED  BY <3>1
  <2>2. a * mn = 4 * (m * mn)
        BY <1>1, <2>1
  <2>3. x = a * mn + r
    <3>1. m * mn \in Nat
          BY <1>1
    <3>   QED  BY <1>2, <2>1, <2>2, <3>1
  <2>4. a \in Nat \ {0} /\ mn \in Nat /\ r \in 0 .. a - 1
        BY <2>1
  <2>5. x \div a = mn
        BY ONLY <2>3, <2>4, DivisionIs
  <2>   QED  BY <2>1, <2>5
<1>6. fn % m = fn /\ mn % n = mn
    BY <1>1
<1>7. m * mn + m <= m * n /\ (m * mn + m = m * n <=> mn = n - 1)
  <2>1. m * mn + m = m * (mn + 1) /\ mn + 1 \in 1 .. n
        BY <1>1
  <2>2. \A i \in 1 .. n : m * i <= m * n /\ (m * i = m * n <=> i = n)
        OBVIOUS
  <2>   QED  BY <1>1, <2>1, <2>2
<1>8. 4 * m * n = 4 * (m * n) /\ m * mn \in Nat /\ m * n \in Nat
    BY <1>1
<1>9. x + 1 <= 4 * m * n /\ (x + 1 = 4 * m * n <=> tn = 3 /\ fn = m - 1 /\ mn = n - 1)
    BY <1>1, <1>2, <1>7, <1>8
<1> QED BY <1>1, <1>2, <1>3, <1>4, <1>5, <1>6, <1>9 DEF TimeAt

\* A carry leaves 1 in the field it comes from and adds 1 to the next one.
LEMMA CarryByOne ==
    ASSUME NEW m \in Nat, m >= 2
    PROVE  (m + 1) % m = 1 /\ (m + 1) \div m = 1
<1>1. m + 1 = m * 1 + 1 OBVIOUS
<1>2. QED BY <1>1, SMTT(30)

At(tn, fn, mn) == [hn |-> 0, sn |-> 0, tn |-> tn, fn |-> fn, mn |-> mn]

\* The three carries, on a time whose fields are known.
LEMMA Carries ==
    ASSUME NEW tn \in Nat, NEW fn \in Nat, NEW mn \in Nat
    PROVE  /\ NormalizeMn(At(tn, fn, mn)) = At(tn, fn, IF mn > MaxMn THEN mn % MaxMn ELSE mn)
           /\ NormalizeFn(At(tn, fn, mn)) =
                 NormalizeMn(IF fn > MaxFn THEN At(tn, fn % MaxFn, mn + fn \div MaxFn)
                                           ELSE At(tn, fn, mn))
           /\ NormalizeTn(At(tn, fn, mn)) =
                 NormalizeFn(IF tn > 4 THEN At(tn % 4, fn + tn \div 4, mn)
                                       ELSE At(tn, fn, mn))
           /\ AddTn(At(tn, fn, mn), 1) = NormalizeTn(At(tn + 1, fn, mn))
<1>1. NormalizeMn(At(tn, fn, mn)) = At(tn, fn, IF mn > MaxMn THEN mn % MaxMn ELSE mn)
      BY Zenon DEF NormalizeMn, At
<1>2. NormalizeFn(At(tn, fn, mn)) =
         NormalizeMn(IF fn > MaxFn THEN At(tn, fn % MaxFn, mn + fn \div MaxFn)
                                   ELSE At(tn, fn, mn))
  <2>1. At(tn, fn, mn).fn = fn BY DEF At
  <2>2. [At(tn, fn, mn) EXCEPT !.mn = At(tn, fn, mn).mn + At(tn, fn, mn).fn \div MaxFn]
        = At(tn, fn, mn + fn \div MaxFn)
        BY DEF At
  <2>3. [At(tn, fn, mn + fn \div MaxFn) EXCEPT
            !.fn = At(tn, fn, mn + fn \div MaxFn).fn % MaxFn]
        = At(tn, fn % MaxFn, mn + fn \div MaxFn)
        BY DEF At
  <2>4. QED BY <2>1, <2>2, <2>3, Zenon DEF NormalizeFn
<1>3. NormalizeTn(At(tn, fn, mn)) =
         NormalizeFn(IF tn > 4 THEN At(tn % 4, fn + tn \div 4, mn) ELSE At(tn, fn, mn))
  <2>1. At(tn, fn, mn).tn = tn BY DEF At
  <2>2. [At(tn, fn, mn) EXCEPT !.fn = At(tn, fn, mn).fn + At(tn, fn, mn).tn \div 4]
        = At(tn, fn + tn \div 4, mn)
        BY DEF At
  <2>3. [At(tn, fn + tn \div 4, mn) EXCEPT !.tn = At(tn, fn + tn \div 4, mn).tn % 4]
        = At(tn % 4, fn + tn \div 4, mn)
        BY DEF At
  <2>4. QED BY <2>1, <2>2, <2>3, Zenon DEF NormalizeTn
<1>4. AddTn(At(tn, fn, mn), 1) = NormalizeTn(At(tn + 1, fn, mn))
  <2>1. [At(tn, fn, mn) EXCEPT !.tn = At(tn, fn, mn).tn + 1] = At(tn + 1, fn, mn) BY DEF At
  <2>2. QED BY <2>1, Zenon DEF AddTn
<1>5. QED BY <1>1, <1>2, <1>3, <1>4

\* One slot later, for a time in the widest range: every carry written out.
LEMMA Tick ==
    ASSUME NEW tn \in 0 .. 4, NEW fn \in 0 .. MaxFn, NEW mn \in 0 .. MaxMn
    PROVE  AddTn(At(tn, fn, mn), 1) =
             IF tn < 4 THEN At(tn + 1, fn, mn)
             ELSE IF fn < MaxFn THEN At(1, fn + 1, mn)
             ELSE IF mn < MaxMn THEN At(1, 1, mn + 1)
             ELSE At(1, 1, 1)
<1>0. MaxFn \in Nat /\ MaxFn >= 2 /\ MaxMn \in Nat /\ MaxMn >= 2
      BY TetraTdmaAssumption, BroadcastAssumption DEF TetraTdmaAssumption, BroadcastAssumption
<1> USE <1>0
<1>1. (MaxFn + 1) % MaxFn = 1 /\ (MaxFn + 1) \div MaxFn = 1 BY CarryByOne
<1>2. (MaxMn + 1) % MaxMn = 1 /\ (MaxMn + 1) \div MaxMn = 1 BY CarryByOne
<1>3. AddTn(At(tn, fn, mn), 1) = NormalizeTn(At(tn + 1, fn, mn)) BY Carries
<1>4. \A m \in 0 .. MaxMn + 1 :
        NormalizeMn(At(1, 1, m)) = At(1, 1, IF m > MaxMn THEN 1 ELSE m)
      BY <1>2, Carries
<1>5. CASE tn < 4
  <2>1. NormalizeTn(At(tn + 1, fn, mn)) = NormalizeFn(At(tn + 1, fn, mn)) BY <1>5, Carries
  <2>2. NormalizeFn(At(tn + 1, fn, mn)) = NormalizeMn(At(tn + 1, fn, mn)) BY <1>5, Carries
  <2>3. NormalizeMn(At(tn + 1, fn, mn)) = At(tn + 1, fn, mn) BY <1>5, Carries
  <2>4. QED BY <1>3, <1>5, <2>1, <2>2, <2>3
<1>6. CASE tn = 4
  <2>1. NormalizeTn(At(5, fn, mn)) = NormalizeFn(At(1, fn + 1, mn)) BY Carries
  <2>2. CASE fn < MaxFn
    <3>1. NormalizeFn(At(1, fn + 1, mn)) = NormalizeMn(At(1, fn + 1, mn)) BY <2>2, Carries
    <3>2. NormalizeMn(At(1, fn + 1, mn)) = At(1, fn + 1, mn) BY <2>2, Carries
    <3>3. QED BY <1>3, <1>6, <2>1, <2>2, <3>1, <3>2
  <2>3. CASE fn = MaxFn
    <3>1. NormalizeFn(At(1, MaxFn + 1, mn)) = NormalizeMn(At(1, 1, mn + 1)) BY <1>1, Carries
    <3>2. NormalizeMn(At(1, 1, mn + 1)) = At(1, 1, IF mn + 1 > MaxMn THEN 1 ELSE mn + 1)
          BY <1>4
    <3>3. QED BY <1>3, <1>6, <2>1, <2>3, <3>1, <3>2
  <2>4. QED BY <2>2, <2>3
<1>7. QED BY <1>5, <1>6

\* The time of a slot.
RightTime(t, x) ==
    t = At(TimeAt(x).tn, TimeAt(x).fn, TimeAt(x).mn)

\* The slots that have passed before a slot of the hyperframe.
Slot(x) == \E tn \in 0 .. 3, fn \in 0 .. MaxFn - 1, mn \in 0 .. MaxMn - 1 : Passed(x, tn, fn, mn)

\* A hyperframe begins with slot 0, and the slot after its last one is its first.
LEMMA SlotsCarry ==
    ASSUME NEW tn \in 0 .. 3, NEW fn \in 0 .. MaxFn - 1, NEW mn \in 0 .. MaxMn - 1, NEW x, Passed(x, tn, fn, mn),
           NEW y, y = (x + 1) % (4 * MaxFn * MaxMn)
    PROVE  IF tn < 3 THEN Passed(y, tn + 1, fn, mn)
           ELSE IF fn < MaxFn - 1 THEN Passed(y, 0, fn + 1, mn)
           ELSE IF mn < MaxMn - 1 THEN Passed(y, 0, 0, mn + 1)
           ELSE Passed(y, 0, 0, 0)
<1>1. PICK m \in Nat \ {0}, n \in Nat \ {0} : m = MaxFn /\ n = MaxMn
    BY TetraTdmaAssumption, BroadcastAssumption DEF TetraTdmaAssumption, BroadcastAssumption
<1>2. PICK all \in Nat : all = 4 * m * n
    BY <1>1
<1>3. x \in Nat /\ x + 1 <= all /\ (x + 1 = all <=> tn = 3 /\ fn = m - 1 /\ mn = n - 1)
    BY <1>1, <1>2, TimeAtIs
<1>4. IF x + 1 = all THEN y = 0 ELSE y = x + 1
    BY <1>1, <1>2, <1>3
<1>5. x = 4 * (m * mn + fn) + tn /\ m * mn \in Nat /\ m * (mn + 1) = m * mn + m /\ m * 0 = 0
    BY <1>1 DEF Passed
<1>6. CASE x + 1 = all
    BY <1>1, <1>3, <1>4, <1>5, <1>6 DEF Passed
<1>7. CASE x + 1 # all
  <2>1. CASE tn < 3
        BY <1>1, <1>3, <1>4, <1>5, <1>7, <2>1 DEF Passed
  <2>2. CASE tn = 3 /\ fn < m - 1
        BY <1>1, <1>3, <1>4, <1>5, <1>7, <2>2 DEF Passed
  <2>3. CASE tn = 3 /\ fn = m - 1
    <3>1. mn < n - 1
          BY <1>1, <1>3, <1>7, <2>3
    <3>   QED  BY <1>1, <1>3, <1>4, <1>5, <1>7, <2>3, <3>1 DEF Passed
  <2>   QED  BY <1>1, <2>1, <2>2, <2>3
<1> QED BY <1>6, <1>7

\* tetra_tdma_time_add_tn keeps the right time right.
LEMMA TimeGoesOn ==
    ASSUME NEW x, Slot(x), NEW y, y = (x + 1) % (4 * MaxFn * MaxMn)
    PROVE  Slot(y) /\ \A t : RightTime(t, x) => RightTime(AddTn(t, 1), y)
<1>1. PICK tn \in 0 .. 3, fn \in 0 .. MaxFn - 1, mn \in 0 .. MaxMn - 1 : Passed(x, tn, fn, mn)
    BY DEF Slot
<1>2. PICK m \in Nat, n \in Nat : m = MaxFn /\ n = MaxMn /\ m >= 2 /\ n >= 2
    BY TetraTdmaAssumption, BroadcastAssumption DEF TetraTdmaAssumption, BroadcastAssumption
<1>3. \A t : RightTime(t, x) <=> t = At(tn + 1, fn + 1, mn + 1)
    BY <1>1, TimeAtIs DEF RightTime
<1>4. ASSUME NEW a \in 0 .. 3, NEW b \in 0 .. m - 1, NEW c \in 0 .. n - 1, Passed(y, a, b, c),
             AddTn(At(tn + 1, fn + 1, mn + 1), 1) = At(a + 1, b + 1, c + 1)
      PROVE  Slot(y) /\ \A t : RightTime(t, x) => RightTime(AddTn(t, 1), y)
  <2>1. Slot(y)
        BY <1>2, <1>4 DEF Slot
  <2>2. TimeAt(y).tn = a + 1 /\ TimeAt(y).fn = b + 1 /\ TimeAt(y).mn = c + 1
        BY <1>2, <1>4, TimeAtIs
  <2>   QED  BY <1>3, <1>4, <2>1, <2>2 DEF RightTime
<1>5. PICK p \in 0 .. 4, q \in 0 .. MaxFn, r \in 0 .. MaxMn : p = tn + 1 /\ q = fn + 1 /\ r = mn + 1
    BY <1>2
<1>6. AddTn(At(p, q, r), 1) = IF p < 4 THEN At(p + 1, q, r)
                              ELSE IF q < MaxFn THEN At(1, q + 1, r)
                              ELSE IF r < MaxMn THEN At(1, 1, r + 1)
                              ELSE At(1, 1, 1)
    BY Tick
<1>7. IF tn < 3 THEN Passed(y, tn + 1, fn, mn)
      ELSE IF fn < MaxFn - 1 THEN Passed(y, 0, fn + 1, mn)
      ELSE IF mn < MaxMn - 1 THEN Passed(y, 0, 0, mn + 1)
      ELSE Passed(y, 0, 0, 0)
    BY <1>1, SlotsCarry
<1>8. CASE tn < 3
  <2>1. tn + 1 \in 0 .. 3 /\ fn \in 0 .. m - 1 /\ mn \in 0 .. n - 1 /\ Passed(y, tn + 1, fn, mn)
        BY <1>2, <1>7, <1>8
  <2>2. AddTn(At(tn + 1, fn + 1, mn + 1), 1) = At((tn + 1) + 1, fn + 1, mn + 1)
        BY <1>5, <1>6, <1>8
  <2>   QED  BY ONLY <1>4, <2>1, <2>2
<1>9. CASE tn = 3 /\ fn < m - 1
  <2>1. 0 \in 0 .. 3 /\ fn + 1 \in 0 .. m - 1 /\ mn \in 0 .. n - 1 /\ Passed(y, 0, fn + 1, mn)
        BY <1>2, <1>7, <1>9
  <2>2. AddTn(At(tn + 1, fn + 1, mn + 1), 1) = At(0 + 1, (fn + 1) + 1, mn + 1)
        BY <1>2, <1>5, <1>6, <1>9
  <2>   QED  BY ONLY <1>4, <2>1, <2>2
<1>10. CASE tn = 3 /\ fn = m - 1 /\ mn < n - 1
  <2>1. 0 \in 0 .. 3 /\ 0 \in 0 .. m - 1 /\ mn + 1 \in 0 .. n - 1 /\ Passed(y, 0, 0, mn + 1)
        BY <1>2, <1>7, <1>10
  <2>2. AddTn(At(tn + 1, fn + 1, mn + 1), 1) = At(0 + 1, 0 + 1, (mn + 1) + 1)
        BY <1>2, <1>5, <1>6, <1>10
  <2>   QED  BY ONLY <1>4, <2>1, <2>2
<1>11. CASE tn = 3 /\ fn = m - 1 /\ mn = n - 1
  <2>1. 0 \in 0 .. 3 /\ 0 \in 0 .. m - 1 /\ 0 \in 0 .. n - 1 /\ Passed(y, 0, 0, 0)
        BY <1>2, <1>7, <1>11
  <2>2. AddTn(At(tn + 1, fn + 1, mn + 1), 1) = At(0 + 1, 0 + 1, 0 + 1)
        BY <1>2, <1>5, <1>6, <1>11
  <2>   QED  BY ONLY <1>4, <2>1, <2>2
<1> QED
  <2>1. \/ tn < 3
        \/ tn = 3 /\ fn < m - 1
        \/ tn = 3 /\ fn = m - 1 /\ mn < n - 1
        \/ tn = 3 /\ fn = m - 1 /\ mn = n - 1
        BY <1>2
  <2>   QED  BY <1>8, <1>9, <1>10, <1>11, <2>1

-----------------------------------------------------------------------------
(* What the receiver takes from a SYNC PDU.                                *)

\* A field of some width, with the numbers it is for.
Field(v, len) == len \in 1 .. 14 /\ v \in Nat /\ v < 2^len

\* A field put behind others is where these end.
LEMMA FieldFollows ==
    ASSUME NEW n \in Nat, NEW s \in [1 .. n -> Bit], NEW v, NEW len, Field(v, len),
           NEW u, u = s \o ToBits(v, len), NEW l \in Nat, l = n + len
    PROVE  /\ u \in [1 .. l -> Bit]
           /\ Holds(u, l, n, ToBits(v, len), len)
           /\ \A off \in Nat, k \in Nat : \A x : Holds(s, n, off, x, k) => Holds(u, l, off, x, k)
<1>1. PICK t : t = ToBits(v, len)
    OBVIOUS
<1>2. len \in Nat /\ t \in [1 .. len -> Bit] /\ u = s \o t
  <2>1. len \in 1 .. 14 /\ v \in Nat /\ len \in Nat
        BY DEF Field
  <2>2. ToBits(v, len) \in [1 .. len -> Bit]
        BY ONLY <2>1, ToBitsAre
  <2>3. u = s \o t
        BY <1>1
  <2>   QED  BY ONLY <1>1, <2>1, <2>2, <2>3
<1>3. /\ u \in [1 .. l -> Bit]
      /\ Holds(u, l, n, t, len)
      /\ \A off \in Nat, k \in Nat : \A x : Holds(s, n, off, x, k) => Holds(u, l, off, x, k)
  <2>1. n \in Nat /\ s \in [1 .. n -> Bit] /\ len \in Nat /\ t \in [1 .. len -> Bit] /\ u = s \o t /\ l \in Nat /\ l = n + len
        BY <1>2
  <2>   QED  BY ONLY <2>1, ConcatHolds
<1> QED BY <1>1, <1>3

\* A field of which the bits are at some place is read there.
LEMMA HeldFieldIsRead ==
    ASSUME NEW v, NEW len, Field(v, len), NEW bits, NEW n, NEW off, Holds(bits, n, off, ToBits(v, len), len)
    PROVE  Uint(bits, off, len) = v
  BY FieldIsRead DEF Field

\* The fields of a SYNC PDU, read by bits_to_uint.
LEMMA SyncPduIs ==
    ASSUME NEW cell, NEW t, Field(cell.mcc, 10), Field(cell.mnc, 14), Field(cell.cc, 6),
           Field(t.tn - 1, 2), Field(t.fn, 5), Field(t.mn, 6),
           NEW bits, bits = SyncPdu(cell, t)
    PROVE  /\ Uint(bits, 31, 10) = cell.mcc /\ Uint(bits, 41, 14) = cell.mnc /\ Uint(bits, 4, 6) = cell.cc
           /\ Uint(bits, 10, 2) = t.tn - 1 /\ Uint(bits, 12, 5) = t.fn /\ Uint(bits, 17, 6) = t.mn
<1>1. PICK v1, v2, v3, v4, v5, v6, v7, v8, v9 :
        /\ v1 = 1
        /\ v2 = cell.cc
        /\ v3 = t.tn - 1
        /\ v4 = t.fn
        /\ v5 = t.mn
        /\ v6 = 129
        /\ v7 = cell.mcc
        /\ v8 = cell.mnc
        /\ v9 = 9
    OBVIOUS
<1>2. PICK l1, l2, l3, l4, l5, l6, l7, l8, l9 :
        /\ l1 = 4
        /\ l2 = 6
        /\ l3 = 2
        /\ l4 = 5
        /\ l5 = 6
        /\ l6 = 8
        /\ l7 = 10
        /\ l8 = 14
        /\ l9 = 5
    OBVIOUS
<1>3. PICK n1, n2, n3, n4, n5, n6, n7, n8, n9 :
        /\ n1 = 4
        /\ n2 = 10
        /\ n3 = 12
        /\ n4 = 17
        /\ n5 = 23
        /\ n6 = 31
        /\ n7 = 41
        /\ n8 = 55
        /\ n9 = 60
        /\ n1 \in Nat /\ n2 \in Nat /\ n3 \in Nat /\ n4 \in Nat /\ n5 \in Nat /\ n6 \in Nat
        /\ n7 \in Nat /\ n8 \in Nat /\ n9 \in Nat
    OBVIOUS
<1>4. /\ Field(v1, l1) /\ Field(v2, l2) /\ Field(v3, l3) /\ Field(v4, l4) /\ Field(v5, l5) /\ Field(v6, l6)
      /\ Field(v7, l7) /\ Field(v8, l8) /\ Field(v9, l9)
  <2>1. /\ Field(cell.mcc, 10) /\ Field(cell.mnc, 14) /\ Field(cell.cc, 6)
        /\ Field(t.tn - 1, 2) /\ Field(t.fn, 5) /\ Field(t.mn, 6)
        OBVIOUS
  <2>2. Field(1, 4) /\ Field(129, 8) /\ Field(9, 5)
    <3>1. 2^4 = 16 /\ 2^8 = 256 /\ 2^5 = 32
          OBVIOUS
    <3>   QED  BY ONLY <3>1 DEF Field
  <2>   QED  BY ONLY <1>1, <1>2, <2>1, <2>2
<1>5. /\ l1 = n1 /\ n2 = n1 + l2 /\ n3 = n2 + l3 /\ n4 = n3 + l4 /\ n5 = n4 + l5 /\ n6 = n5 + l6
      /\ n7 = n6 + l7 /\ n8 = n7 + l8 /\ n9 = n8 + l9
    BY ONLY <1>2, <1>3
<1> DEFINE u1 == ToBits(v1, l1)
<1>6. u1 = ToBits(v1, l1)
    OBVIOUS
<1> HIDE DEF u1
<1>7. u1 \in [1 .. n1 -> Bit]
  <2>1. v1 \in Nat /\ l1 \in 1 .. 14
        BY ONLY <1>4 DEF Field
  <2>2. ToBits(v1, l1) \in [1 .. l1 -> Bit]
        BY ONLY <2>1, ToBitsAre
  <2>   QED  BY ONLY <1>5, <1>6, <2>2
<1> DEFINE u2 == u1 \o ToBits(v2, l2)
<1>8. u2 = u1 \o ToBits(v2, l2)
    OBVIOUS
<1> HIDE DEF u2
<1>9. /\ u2 \in [1 .. n2 -> Bit]
      /\ Holds(u2, n2, n1, ToBits(v2, l2), l2)
  <2>1. /\ n1 \in Nat /\ u1 \in [1 .. n1 -> Bit] /\ Field(v2, l2)
        /\ u2 = u1 \o ToBits(v2, l2) /\ n2 \in Nat /\ n2 = n1 + l2
        BY ONLY <1>3, <1>4, <1>5, <1>7, <1>8
  <2>2. /\ u2 \in [1 .. n2 -> Bit] /\ Holds(u2, n2, n1, ToBits(v2, l2), l2)
        /\ \A off \in Nat, k \in Nat : \A x : Holds(u1, n1, off, x, k) => Holds(u2, n2, off, x, k)
        BY ONLY <2>1, FieldFollows
  <2>3. n1 \in Nat /\ l2 \in Nat
        BY ONLY <1>3, <1>4 DEF Field
  <2>   QED  BY ONLY <2>2, <2>3, <1>7
<1> DEFINE u3 == u2 \o ToBits(v3, l3)
<1>10. u3 = u2 \o ToBits(v3, l3)
    OBVIOUS
<1> HIDE DEF u3
<1>11. /\ u3 \in [1 .. n3 -> Bit]
       /\ Holds(u3, n3, n1, ToBits(v2, l2), l2)
       /\ Holds(u3, n3, n2, ToBits(v3, l3), l3)
  <2>1. /\ n2 \in Nat /\ u2 \in [1 .. n2 -> Bit] /\ Field(v3, l3)
        /\ u3 = u2 \o ToBits(v3, l3) /\ n3 \in Nat /\ n3 = n2 + l3
        BY ONLY <1>3, <1>4, <1>5, <1>9, <1>10
  <2>2. /\ u3 \in [1 .. n3 -> Bit] /\ Holds(u3, n3, n2, ToBits(v3, l3), l3)
        /\ \A off \in Nat, k \in Nat : \A x : Holds(u2, n2, off, x, k) => Holds(u3, n3, off, x, k)
        BY ONLY <2>1, FieldFollows
  <2>3. n1 \in Nat /\ n2 \in Nat /\ l2 \in Nat /\ l3 \in Nat
        BY ONLY <1>3, <1>4 DEF Field
  <2>   QED  BY ONLY <2>2, <2>3, <1>9
<1> DEFINE u4 == u3 \o ToBits(v4, l4)
<1>12. u4 = u3 \o ToBits(v4, l4)
    OBVIOUS
<1> HIDE DEF u4
<1>13. /\ u4 \in [1 .. n4 -> Bit]
       /\ Holds(u4, n4, n1, ToBits(v2, l2), l2)
       /\ Holds(u4, n4, n2, ToBits(v3, l3), l3)
       /\ Holds(u4, n4, n3, ToBits(v4, l4), l4)
  <2>1. /\ n3 \in Nat /\ u3 \in [1 .. n3 -> Bit] /\ Field(v4, l4)
        /\ u4 = u3 \o ToBits(v4, l4) /\ n4 \in Nat /\ n4 = n3 + l4
        BY ONLY <1>3, <1>4, <1>5, <1>11, <1>12
  <2>2. /\ u4 \in [1 .. n4 -> Bit] /\ Holds(u4, n4, n3, ToBits(v4, l4), l4)
        /\ \A off \in Nat, k \in Nat : \A x : Holds(u3, n3, off, x, k) => Holds(u4, n4, off, x, k)
        BY ONLY <2>1, FieldFollows
  <2>3. n1 \in Nat /\ n2 \in Nat /\ n3 \in Nat /\ l2 \in Nat /\ l3 \in Nat /\ l4 \in Nat
        BY ONLY <1>3, <1>4 DEF Field
  <2>   QED  BY ONLY <2>2, <2>3, <1>11
<1> DEFINE u5 == u4 \o ToBits(v5, l5)
<1>14. u5 = u4 \o ToBits(v5, l5)
    OBVIOUS
<1> HIDE DEF u5
<1>15. /\ u5 \in [1 .. n5 -> Bit]
       /\ Holds(u5, n5, n1, ToBits(v2, l2), l2)
       /\ Holds(u5, n5, n2, ToBits(v3, l3), l3)
       /\ Holds(u5, n5, n3, ToBits(v4, l4), l4)
       /\ Holds(u5, n5, n4, ToBits(v5, l5), l5)
  <2>1. /\ n4 \in Nat /\ u4 \in [1 .. n4 -> Bit] /\ Field(v5, l5)
        /\ u5 = u4 \o ToBits(v5, l5) /\ n5 \in Nat /\ n5 = n4 + l5
        BY ONLY <1>3, <1>4, <1>5, <1>13, <1>14
  <2>2. /\ u5 \in [1 .. n5 -> Bit] /\ Holds(u5, n5, n4, ToBits(v5, l5), l5)
        /\ \A off \in Nat, k \in Nat : \A x : Holds(u4, n4, off, x, k) => Holds(u5, n5, off, x, k)
        BY ONLY <2>1, FieldFollows
  <2>3. /\ n1 \in Nat /\ n2 \in Nat /\ n3 \in Nat /\ n4 \in Nat /\ l2 \in Nat /\ l3 \in Nat
        /\ l4 \in Nat /\ l5 \in Nat
        BY ONLY <1>3, <1>4 DEF Field
  <2>   QED  BY ONLY <2>2, <2>3, <1>13
<1> DEFINE u6 == u5 \o ToBits(v6, l6)
<1>16. u6 = u5 \o ToBits(v6, l6)
    OBVIOUS
<1> HIDE DEF u6
<1>17. /\ u6 \in [1 .. n6 -> Bit]
       /\ Holds(u6, n6, n1, ToBits(v2, l2), l2)
       /\ Holds(u6, n6, n2, ToBits(v3, l3), l3)
       /\ Holds(u6, n6, n3, ToBits(v4, l4), l4)
       /\ Holds(u6, n6, n4, ToBits(v5, l5), l5)
  <2>1. /\ n5 \in Nat /\ u5 \in [1 .. n5 -> Bit] /\ Field(v6, l6)
        /\ u6 = u5 \o ToBits(v6, l6) /\ n6 \in Nat /\ n6 = n5 + l6
        BY ONLY <1>3, <1>4, <1>5, <1>15, <1>16
  <2>2. /\ u6 \in [1 .. n6 -> Bit] /\ Holds(u6, n6, n5, ToBits(v6, l6), l6)
        /\ \A off \in Nat, k \in Nat : \A x : Holds(u5, n5, off, x, k) => Holds(u6, n6, off, x, k)
        BY ONLY <2>1, FieldFollows
  <2>3. /\ n1 \in Nat /\ n2 \in Nat /\ n3 \in Nat /\ n4 \in Nat /\ n5 \in Nat /\ l2 \in Nat
        /\ l3 \in Nat /\ l4 \in Nat /\ l5 \in Nat /\ l6 \in Nat
        BY ONLY <1>3, <1>4 DEF Field
  <2>   QED  BY ONLY <2>2, <2>3, <1>15
<1> DEFINE u7 == u6 \o ToBits(v7, l7)
<1>18. u7 = u6 \o ToBits(v7, l7)
    OBVIOUS
<1> HIDE DEF u7
<1>19. /\ u7 \in [1 .. n7 -> Bit]
       /\ Holds(u7, n7, n1, ToBits(v2, l2), l2)
       /\ Holds(u7, n7, n2, ToBits(v3, l3), l3)
       /\ Holds(u7, n7, n3, ToBits(v4, l4), l4)
       /\ Holds(u7, n7, n4, ToBits(v5, l5), l5)
       /\ Holds(u7, n7, n6, ToBits(v7, l7), l7)
  <2>1. /\ n6 \in Nat /\ u6 \in [1 .. n6 -> Bit] /\ Field(v7, l7)
        /\ u7 = u6 \o ToBits(v7, l7) /\ n7 \in Nat /\ n7 = n6 + l7
        BY ONLY <1>3, <1>4, <1>5, <1>17, <1>18
  <2>2. /\ u7 \in [1 .. n7 -> Bit] /\ Holds(u7, n7, n6, ToBits(v7, l7), l7)
        /\ \A off \in Nat, k \in Nat : \A x : Holds(u6, n6, off, x, k) => Holds(u7, n7, off, x, k)
        BY ONLY <2>1, FieldFollows
  <2>3. /\ n1 \in Nat /\ n2 \in Nat /\ n3 \in Nat /\ n4 \in Nat /\ n5 \in Nat /\ n6 \in Nat
        /\ l2 \in Nat /\ l3 \in Nat /\ l4 \in Nat /\ l5 \in Nat /\ l6 \in Nat /\ l7 \in Nat
        BY ONLY <1>3, <1>4 DEF Field
  <2>   QED  BY ONLY <2>2, <2>3, <1>17
<1> DEFINE u8 == u7 \o ToBits(v8, l8)
<1>20. u8 = u7 \o ToBits(v8, l8)
    OBVIOUS
<1> HIDE DEF u8
<1>21. /\ u8 \in [1 .. n8 -> Bit]
       /\ Holds(u8, n8, n1, ToBits(v2, l2), l2)
       /\ Holds(u8, n8, n2, ToBits(v3, l3), l3)
       /\ Holds(u8, n8, n3, ToBits(v4, l4), l4)
       /\ Holds(u8, n8, n4, ToBits(v5, l5), l5)
       /\ Holds(u8, n8, n6, ToBits(v7, l7), l7)
       /\ Holds(u8, n8, n7, ToBits(v8, l8), l8)
  <2>1. /\ n7 \in Nat /\ u7 \in [1 .. n7 -> Bit] /\ Field(v8, l8)
        /\ u8 = u7 \o ToBits(v8, l8) /\ n8 \in Nat /\ n8 = n7 + l8
        BY ONLY <1>3, <1>4, <1>5, <1>19, <1>20
  <2>2. /\ u8 \in [1 .. n8 -> Bit] /\ Holds(u8, n8, n7, ToBits(v8, l8), l8)
        /\ \A off \in Nat, k \in Nat : \A x : Holds(u7, n7, off, x, k) => Holds(u8, n8, off, x, k)
        BY ONLY <2>1, FieldFollows
  <2>3. /\ n1 \in Nat /\ n2 \in Nat /\ n3 \in Nat /\ n4 \in Nat /\ n5 \in Nat /\ n6 \in Nat
        /\ n7 \in Nat /\ l2 \in Nat /\ l3 \in Nat /\ l4 \in Nat /\ l5 \in Nat /\ l6 \in Nat
        /\ l7 \in Nat /\ l8 \in Nat
        BY ONLY <1>3, <1>4 DEF Field
  <2>   QED  BY ONLY <2>2, <2>3, <1>19
<1> DEFINE u9 == u8 \o ToBits(v9, l9)
<1>22. u9 = u8 \o ToBits(v9, l9)
    OBVIOUS
<1> HIDE DEF u9
<1>23. /\ u9 \in [1 .. n9 -> Bit]
       /\ Holds(u9, n9, n1, ToBits(v2, l2), l2)
       /\ Holds(u9, n9, n2, ToBits(v3, l3), l3)
       /\ Holds(u9, n9, n3, ToBits(v4, l4), l4)
       /\ Holds(u9, n9, n4, ToBits(v5, l5), l5)
       /\ Holds(u9, n9, n6, ToBits(v7, l7), l7)
       /\ Holds(u9, n9, n7, ToBits(v8, l8), l8)
  <2>1. /\ n8 \in Nat /\ u8 \in [1 .. n8 -> Bit] /\ Field(v9, l9)
        /\ u9 = u8 \o ToBits(v9, l9) /\ n9 \in Nat /\ n9 = n8 + l9
        BY ONLY <1>3, <1>4, <1>5, <1>21, <1>22
  <2>2. /\ u9 \in [1 .. n9 -> Bit] /\ Holds(u9, n9, n8, ToBits(v9, l9), l9)
        /\ \A off \in Nat, k \in Nat : \A x : Holds(u8, n8, off, x, k) => Holds(u9, n9, off, x, k)
        BY ONLY <2>1, FieldFollows
  <2>3. /\ n1 \in Nat /\ n2 \in Nat /\ n3 \in Nat /\ n4 \in Nat /\ n5 \in Nat /\ n6 \in Nat
        /\ n7 \in Nat /\ n8 \in Nat /\ l2 \in Nat /\ l3 \in Nat /\ l4 \in Nat /\ l5 \in Nat
        /\ l6 \in Nat /\ l7 \in Nat /\ l8 \in Nat /\ l9 \in Nat
        BY ONLY <1>3, <1>4 DEF Field
  <2>   QED  BY ONLY <2>2, <2>3, <1>21
<1>24. bits = u9
  <2>1. SyncPdu(cell, t) =
           ToBits(v1, l1) \o ToBits(v2, l2) \o ToBits(v3, l3) \o ToBits(v4, l4) \o ToBits(v5, l5)
              \o ToBits(v6, l6) \o ToBits(v7, l7) \o ToBits(v8, l8) \o ToBits(v9, l9)
        BY ONLY <1>1, <1>2, Zenon DEF SyncPdu
  <2>   QED  BY ONLY <2>1, <1>6, <1>8, <1>10, <1>12, <1>14, <1>16, <1>18, <1>20, <1>22, bits = SyncPdu(cell, t)
<1>25. Uint(u9, n6, l7) = v7
    BY ONLY <1>4, <1>23, HeldFieldIsRead
<1>26. Uint(u9, n7, l8) = v8
    BY ONLY <1>4, <1>23, HeldFieldIsRead
<1>27. Uint(u9, n1, l2) = v2
    BY ONLY <1>4, <1>23, HeldFieldIsRead
<1>28. Uint(u9, n2, l3) = v3
    BY ONLY <1>4, <1>23, HeldFieldIsRead
<1>29. Uint(u9, n3, l4) = v4
    BY ONLY <1>4, <1>23, HeldFieldIsRead
<1>30. Uint(u9, n4, l5) = v5
    BY ONLY <1>4, <1>23, HeldFieldIsRead
<1> QED
  <2>1. Uint(bits, 31, 10) = cell.mcc
        BY ONLY <1>1, <1>2, <1>3, <1>24, <1>25
  <2>2. Uint(bits, 41, 14) = cell.mnc
        BY ONLY <1>1, <1>2, <1>3, <1>24, <1>26
  <2>3. Uint(bits, 4, 6) = cell.cc
        BY ONLY <1>1, <1>2, <1>3, <1>24, <1>27
  <2>4. Uint(bits, 10, 2) = t.tn - 1
        BY ONLY <1>1, <1>2, <1>3, <1>24, <1>28
  <2>5. Uint(bits, 12, 5) = t.fn
        BY ONLY <1>1, <1>2, <1>3, <1>24, <1>29
  <2>6. Uint(bits, 17, 6) = t.mn
        BY ONLY <1>1, <1>2, <1>3, <1>24, <1>30
  <2>   QED  BY <2>1, <2>2, <2>3, <2>4, <2>5, <2>6

\* tp_sap_udata_ind, whatever it decodes.
LEMMA UdataIndIs ==
    ASSUME NEW r, NEW blk, NEW sent
    PROVE  \E code, decoded : UdataInd(r, blk, sent) = Decoded(r, blk, sent, code, decoded)
<1> DEFINE code == IF blk.type = "SB1" THEN SCRAMB_INIT ELSE r.tcd.scramb_init
           stream == ScramblingBits(code, Len(blk.bits))
           decoded == IF blk.type = "BBK"
                      THEN [crc_ok |-> TRUE, max |-> 0, bits |-> RM3014Decode(Scramble(stream, blk.bits))]
                      ELSE DecodeBlock(blk.type, blk.bits, stream)
<1>1. UdataInd(r, blk, sent) = Decoded(r, blk, sent, code, decoded)
    BY DEF UdataInd, Strict
<1> HIDE DEF code, decoded
<1> QED BY <1>1

\* The synchronisation block is the first of a burst.
LEMMA Sb1IsFirst ==
    ASSUME NEW burst, NEW type, NEW blocks, blocks = BlocksOf(burst, type)
    PROVE  \A i \in 1 .. Len(blocks) : blocks[i].type = "SB1" => i = 1
BY DEF BlocksOf

-----------------------------------------------------------------------------
(* What the receiver knows, if what passes the CRC is what was sent.       *)

\* Blocks of which no SYNC PDU passes that was not sent.
Clean(h) ==
    \E n \in Nat : h = [i \in 1 .. n |-> h[i]]
                   /\ \A i \in 1 .. n : h[i].type = "SB1" /\ h[i].crc_ok => h[i].intact
\* The blocks of a burst: SB2 is named as it should be.
Named(h, bnch) ==
    \E n \in Nat : h = [i \in 1 .. n |-> h[i]] /\ \A i \in 1 .. n : h[i].bnch <=> h[i].type = "SB2" /\ bnch
\* A cell that sends.
Sender(c) == \E x \in {Own, Foreign} :
    c.mcc = x.mcc /\ c.mnc = x.mnc /\ c.cc = x.cc /\ c.scramb_init = ScramblingInit(x)
\* A time in the range of the counters, 0 before the first SYNC PDU.
Ranged(t) == \E tn \in 0 .. 4, fn \in 0 .. MaxFn, mn \in 0 .. MaxMn : t = At(tn, fn, mn)

\* The receiver r in a slot.
Informed(r, slot) ==
    /\ Ranged(r.time)
    /\ r.tcd # NoCell => RightTime(r.time, slot) /\ Sender(r.tcd) /\ Named(r.heard, Bnch(TimeAt(slot)))

\* At the start of a slot nothing was heard.
LEMMA NothingNamed == \A bnch : Named(<<>>, bnch)
<1>1. <<>> = [i \in 1 .. 0 |-> <<>>[i]]
    OBVIOUS
<1> QED BY <1>1 DEF Named

\* The time of a slot is in the range of a SYNC PDU, and of the counters.
LEMMA SlotIsRanged ==
    ASSUME NEW x, Slot(x)
    PROVE  /\ TimeAt(x).tn \in 1 .. 4 /\ TimeAt(x).fn \in 1 .. MaxFn /\ TimeAt(x).mn \in 1 .. MaxMn
           /\ Field(TimeAt(x).tn - 1, 2) /\ Field(TimeAt(x).fn, 5) /\ Field(TimeAt(x).mn, 6)
<1>1. PICK tn \in 0 .. 3, fn \in 0 .. MaxFn - 1, mn \in 0 .. MaxMn - 1 : Passed(x, tn, fn, mn)
    BY DEF Slot
<1>2. MaxFn \in Nat /\ MaxMn \in Nat /\ MaxFn < 32 /\ MaxMn < 64
    BY TetraTdmaAssumption, BroadcastAssumption DEF TetraTdmaAssumption, BroadcastAssumption
<1>3. PICK a, b, c : a = TimeAt(x).tn /\ b = TimeAt(x).fn /\ c = TimeAt(x).mn
    OBVIOUS
<1>4. a = tn + 1 /\ b = fn + 1 /\ c = mn + 1
    BY <1>1, <1>3, TimeAtIs
<1>5. a \in 1 .. 4 /\ b \in 1 .. MaxFn /\ c \in 1 .. MaxMn /\ b \in 1 .. 31 /\ c \in 1 .. 63
    BY ONLY <1>2, <1>4, tn \in 0 .. 3, fn \in 0 .. MaxFn - 1, mn \in 0 .. MaxMn - 1
<1>6. 2^2 = 4 /\ 2^5 = 32 /\ 2^6 = 64
    OBVIOUS
<1>7. Field(a - 1, 2) /\ Field(b, 5) /\ Field(c, 6)
    BY ONLY <1>5, <1>6 DEF Field
<1> QED BY <1>3, <1>5, <1>7

\* The identity of a cell that sends is in the range of a SYNC PDU.
LEMMA IdentityIsRanged ==
    ASSUME NEW cell \in {Own, Foreign}
    PROVE  Field(cell.mcc, 10) /\ Field(cell.mnc, 14) /\ Field(cell.cc, 6)
<1>1. /\ cell.mcc \in Nat /\ cell.mcc < 1024 /\ cell.mnc \in Nat /\ cell.mnc < 16384
      /\ cell.cc \in Nat /\ cell.cc < 64
    BY BroadcastAssumption DEF BroadcastAssumption
<1>2. 2^10 = 1024 /\ 2^14 = 16384 /\ 2^6 = 64
    OBVIOUS
<1>3. PICK a, b, c : a = cell.mcc /\ b = cell.mnc /\ c = cell.cc
    OBVIOUS
<1>4. a \in Nat /\ a < 1024
    BY ONLY <1>1, <1>3
<1>5. b \in Nat /\ b < 16384
    BY ONLY <1>1, <1>3
<1>6. c \in Nat /\ c < 64
    BY ONLY <1>1, <1>3
<1>7. Field(a, 10) /\ Field(b, 14) /\ Field(c, 6)
    BY ONLY <1>2, <1>4, <1>5, <1>6 DEF Field
<1> QED BY <1>3, <1>7

\* The broadcast slot is where the base station has it.
LEMMA BnchIs ==
    ASSUME NEW x, Slot(x), NEW t, RightTime(t, x)
    PROVE  IsBnch(t) <=> Bnch(TimeAt(x))
<1>1. PICK a \in 1 .. 4, b, c \in Nat : a = TimeAt(x).tn /\ b = TimeAt(x).fn /\ c = TimeAt(x).mn
  <2>1. PICK a, b, c : a = TimeAt(x).tn /\ b = TimeAt(x).fn /\ c = TimeAt(x).mn
        OBVIOUS
  <2>2. a \in 1 .. 4 /\ b \in 1 .. MaxFn /\ c \in 1 .. MaxMn
        BY <2>1, SlotIsRanged
  <2>3. b \in Nat /\ c \in Nat
        BY ONLY <2>2, TetraTdmaAssumption DEF TetraTdmaAssumption
  <2>   QED  BY ONLY <2>1, <2>2, <2>3
<1>2. t.tn = a /\ t.fn = b /\ t.mn = c
    BY <1>1 DEF RightTime, At
<1>3. a = 4 - ((c + 3) % 4) <=> (c + a) % 4 = 1
    BY ONLY a \in 1 .. 4, c \in Nat
<1> QED BY <1>1, <1>2, <1>3 DEF IsBnch, Bnch

\* What is taken from a SYNC PDU that arrives as it was sent.
LEMMA SyncPduTells ==
    ASSUME NEW x, Slot(x), NEW cell \in {Own, Foreign}, NEW bits, bits = SyncPdu(cell, TimeAt(x))
    PROVE  /\ \A c : Sender(Cell(c, bits))
           /\ \A t : Ranged(t) => RightTime(Time(t, bits), x) /\ Ranged(Time(t, bits))
<1>1. /\ Uint(bits, 31, 10) = cell.mcc /\ Uint(bits, 41, 14) = cell.mnc /\ Uint(bits, 4, 6) = cell.cc
      /\ Uint(bits, 10, 2) = TimeAt(x).tn - 1 /\ Uint(bits, 12, 5) = TimeAt(x).fn /\ Uint(bits, 17, 6) = TimeAt(x).mn
  <2>1. Field(cell.mcc, 10) /\ Field(cell.mnc, 14) /\ Field(cell.cc, 6)
        BY IdentityIsRanged
  <2>2. PICK t : t = TimeAt(x)
        OBVIOUS
  <2>3. Field(t.tn - 1, 2) /\ Field(t.fn, 5) /\ Field(t.mn, 6)
        BY <2>2, SlotIsRanged
  <2>4. bits = SyncPdu(cell, t)
        BY <2>2
  <2>5. /\ Uint(bits, 31, 10) = cell.mcc /\ Uint(bits, 41, 14) = cell.mnc /\ Uint(bits, 4, 6) = cell.cc
        /\ Uint(bits, 10, 2) = t.tn - 1 /\ Uint(bits, 12, 5) = t.fn /\ Uint(bits, 17, 6) = t.mn
        BY ONLY <2>1, <2>3, <2>4, SyncPduIs
  <2>   QED  BY ONLY <2>2, <2>5
<1>2. ASSUME NEW c PROVE Sender(Cell(c, bits))
  <2>1. PICK d : d = Cell(c, bits)
        OBVIOUS
  <2>2. PICK m, n, cc : m = cell.mcc /\ n = cell.mnc /\ cc = cell.cc
        OBVIOUS
  <2>3. d = [mcc |-> m, mnc |-> n, cc |-> cc, scramb_init |-> ScramblingInit([mcc |-> m, mnc |-> n, cc |-> cc])]
        BY ONLY <1>1, <2>1, <2>2 DEF Cell
  <2>4. ScramblingInit([mcc |-> m, mnc |-> n, cc |-> cc]) = ScramblingInit(cell)
        BY ONLY <2>2 DEF ScramblingInit
  <2>5. d.mcc = m /\ d.mnc = n /\ d.cc = cc /\ d.scramb_init = ScramblingInit(cell)
        BY ONLY <2>3, <2>4
  <2>   QED  BY <2>1, <2>2, <2>5 DEF Sender
<1>3. ASSUME NEW t, Ranged(t) PROVE RightTime(Time(t, bits), x) /\ Ranged(Time(t, bits))
  <2>1. PICK tn \in 0 .. 4, fn \in 0 .. MaxFn, mn \in 0 .. MaxMn : t = At(tn, fn, mn)
        BY <1>3 DEF Ranged
  <2>2. PICK a, b, c : a = TimeAt(x).tn /\ b = TimeAt(x).fn /\ c = TimeAt(x).mn
        OBVIOUS
  <2>3. a \in 1 .. 4 /\ b \in 1 .. MaxFn /\ c \in 1 .. MaxMn
        BY <2>2, SlotIsRanged
  <2>4. (a - 1) + 1 = a
        BY ONLY <2>3
  <2>5. Time(t, bits) = [At(tn, fn, mn) EXCEPT !.tn = a, !.fn = b, !.mn = c]
        BY ONLY <1>1, <2>1, <2>2, <2>4 DEF Time
  <2>6. [At(tn, fn, mn) EXCEPT !.tn = a, !.fn = b, !.mn = c] = At(a, b, c)
    <3>1. [At(tn, fn, mn) EXCEPT !.tn = a] = At(a, fn, mn)
          BY DEF At
    <3>2. [At(a, fn, mn) EXCEPT !.fn = b] = At(a, b, mn)
          BY DEF At
    <3>3. [At(a, b, mn) EXCEPT !.mn = c] = At(a, b, c)
          BY DEF At
    <3>4. [At(tn, fn, mn) EXCEPT !.tn = a, !.fn = b, !.mn = c]
             = [[[At(tn, fn, mn) EXCEPT !.tn = a] EXCEPT !.fn = b] EXCEPT !.mn = c]
          BY Zenon
    <3>   QED  BY ONLY <3>1, <3>2, <3>3, <3>4
  <2>7. a \in 0 .. 4 /\ b \in 0 .. MaxFn /\ c \in 0 .. MaxMn
        BY ONLY <2>3, TetraTdmaAssumption DEF TetraTdmaAssumption
  <2>   QED  BY <2>2, <2>5, <2>6, <2>7 DEF RightTime, Ranged
<1> QED BY <1>2, <1>3

\* A sequence.
Sequence(h) == \E n \in Nat : h = [i \in 1 .. n |-> h[i]]
\* The receiver r in a slot: it is informed, as long as the blocks it heard are clean.
Trusted(r, slot) == Sequence(r.heard) /\ (Clean(r.heard) => Informed(r, slot))

\* A block more leaves the ones before it as clean as they were, and names them as it did.
LEMMA AppendKeeps ==
    ASSUME NEW h, Sequence(h), NEW x, NEW g, g = Append(h, x)
    PROVE  /\ Sequence(g)
           /\ Clean(g) => Clean(h) /\ (x.type = "SB1" /\ x.crc_ok => x.intact)
           /\ \A bnch : Named(h, bnch) /\ (x.bnch <=> x.type = "SB2" /\ bnch) => Named(g, bnch)
<1>1. PICK n \in Nat : h = [i \in 1 .. n |-> h[i]]
    BY DEF Sequence
<1>2. g = [i \in 1 .. n + 1 |-> g[i]] /\ (\A i \in 1 .. n : g[i] = h[i]) /\ g[n + 1] = x
    BY <1>1, AppendedIs
<1>3. \A k \in Nat : h = [i \in 1 .. k |-> h[i]] => 1 .. k = 1 .. n
    BY <1>1
<1>4. \A k \in Nat : g = [i \in 1 .. k |-> g[i]] => 1 .. k = 1 .. n + 1
    BY <1>2
<1>5. n + 1 \in Nat /\ 1 .. n \subseteq 1 .. n + 1 /\ n + 1 \in 1 .. n + 1 /\ \A i \in 1 .. n + 1 : i = n + 1 \/ i \in 1 .. n
    OBVIOUS
<1>6. Sequence(g)
    BY <1>2, <1>5 DEF Sequence
<1>7. ASSUME Clean(g) PROVE Clean(h) /\ (x.type = "SB1" /\ x.crc_ok => x.intact)
  <2>1. PICK k \in Nat : g = [i \in 1 .. k |-> g[i]] /\ \A i \in 1 .. k : g[i].type = "SB1" /\ g[i].crc_ok => g[i].intact
        BY <1>7 DEF Clean
  <2>2. \A i \in 1 .. n + 1 : g[i].type = "SB1" /\ g[i].crc_ok => g[i].intact
        BY <1>4, <2>1
  <2>3. \A i \in 1 .. n : h[i].type = "SB1" /\ h[i].crc_ok => h[i].intact
        BY <1>2, <1>5, <2>2
  <2>   QED  BY <1>1, <1>2, <1>5, <2>2, <2>3 DEF Clean
<1>8. ASSUME NEW bnch, Named(h, bnch), x.bnch <=> x.type = "SB2" /\ bnch PROVE Named(g, bnch)
  <2>1. PICK k \in Nat : h = [i \in 1 .. k |-> h[i]] /\ \A i \in 1 .. k : h[i].bnch <=> h[i].type = "SB2" /\ bnch
        BY <1>8 DEF Named
  <2>2. \A i \in 1 .. n : h[i].bnch <=> h[i].type = "SB2" /\ bnch
        BY <1>3, <2>1
  <2>3. \A i \in 1 .. n + 1 : g[i].bnch <=> g[i].type = "SB2" /\ bnch
        BY <1>2, <1>5, <1>8, <2>2
  <2>   QED  BY <1>2, <1>5, <2>3 DEF Named
<1> QED BY <1>6, <1>7, <1>8

\* tp_sap_udata_ind keeps it so: a SYNC PDU comes before all other blocks of its burst.
LEMMA BlockKeepsTrust ==
    ASSUME NEW slot, Slot(slot), NEW cell \in {Own, Foreign}, NEW r, Trusted(r, slot),
           NEW blk, blk.type = "SB1" => r.heard = <<>>, NEW code, NEW decoded,
           NEW q, q = Decoded(r, blk, Sent(cell, TimeAt(slot), blk.type), code, decoded)
    PROVE  Trusted(q, slot)
<1> DEFINE sync == blk.type = "SB1" /\ decoded.crc_ok
           sent == Sent(cell, TimeAt(slot), blk.type)
           ind == [type |-> blk.type, blk_num |-> blk.blk_num, scrambling_code |-> code,
                   bnch |-> blk.type = "SB2" /\ IsBnch(r.time), crc_ok |-> decoded.crc_ok,
                   intact |-> decoded.bits = sent, max |-> decoded.max]
<1>1. PICK x : x = ind
    OBVIOUS
<1>2. /\ q.heard = Append(r.heard, x)
      /\ q.tcd = IF sync THEN Cell(r.tcd, decoded.bits) ELSE r.tcd
      /\ q.time = IF sync THEN Time(r.time, decoded.bits) ELSE r.time
  <2>1. q = [tcd |-> IF sync THEN Cell(r.tcd, decoded.bits) ELSE r.tcd,
             time |-> IF sync THEN Time(r.time, decoded.bits) ELSE r.time,
             heard |-> Append(r.heard, ind)]
        BY DEF Decoded
  <2>   HIDE DEF sync, ind
  <2>   QED  BY <1>1, <2>1
<1>3. x.type = blk.type /\ x.crc_ok = decoded.crc_ok /\ x.intact = (decoded.bits = sent)
      /\ x.bnch = (blk.type = "SB2" /\ IsBnch(r.time))
  <2> HIDE DEF sent
  <2>   QED  BY <1>1
<1> HIDE DEF ind
<1>4. /\ Sequence(q.heard)
      /\ Clean(q.heard) => Clean(r.heard) /\ (x.type = "SB1" /\ x.crc_ok => x.intact)
      /\ \A bnch : Named(r.heard, bnch) /\ (x.bnch <=> x.type = "SB2" /\ bnch) => Named(q.heard, bnch)
  <2>1. PICK h, g : h = r.heard /\ g = q.heard
        OBVIOUS
  <2>2. Sequence(h) /\ g = Append(h, x)
        BY <1>2, <2>1 DEF Trusted
  <2>3. /\ Sequence(g)
        /\ Clean(g) => Clean(h) /\ (x.type = "SB1" /\ x.crc_ok => x.intact)
        /\ \A bnch : Named(h, bnch) /\ (x.bnch <=> x.type = "SB2" /\ bnch) => Named(g, bnch)
        BY ONLY <2>2, AppendKeeps
  <2>   QED  BY <2>1, <2>3
<1>5. ASSUME Clean(q.heard) PROVE Informed(q, slot)
  <2>1. Informed(r, slot) /\ (sync => decoded.bits = sent)
        BY <1>3, <1>4, <1>5 DEF Trusted
  <2>2. Ranged(r.time)
        BY <2>1 DEF Informed
  <2>3. CASE sync
    <3>1. decoded.bits = SyncPdu(cell, TimeAt(slot))
          BY <2>1, <2>3 DEF Sent
    <3>2. Sender(q.tcd) /\ RightTime(q.time, slot) /\ Ranged(q.time)
          BY <1>2, <2>2, <2>3, <3>1, SyncPduTells
    <3>3. Named(r.heard, Bnch(TimeAt(slot))) /\ ~x.bnch /\ x.type # "SB2"
          BY <1>3, <2>3, NothingNamed
    <3>4. Named(q.heard, Bnch(TimeAt(slot)))
          BY <1>4, <3>3
    <3>   QED  BY <3>2, <3>4 DEF Informed
  <2>4. CASE ~sync
    <3>1. q.tcd = r.tcd /\ q.time = r.time
          BY <1>2, <2>4
    <3>2. ASSUME q.tcd # NoCell PROVE RightTime(q.time, slot) /\ Sender(q.tcd) /\ Named(q.heard, Bnch(TimeAt(slot)))
      <4>1. RightTime(r.time, slot) /\ Sender(r.tcd) /\ Named(r.heard, Bnch(TimeAt(slot)))
            BY <2>1, <3>1, <3>2 DEF Informed
      <4>2. IsBnch(r.time) <=> Bnch(TimeAt(slot))
            BY <4>1, BnchIs
      <4>3. x.bnch <=> x.type = "SB2" /\ Bnch(TimeAt(slot))
            BY <1>3, <4>2
      <4>   QED  BY <1>4, <3>1, <4>1, <4>3
    <3>   QED  BY <2>2, <3>1, <3>2 DEF Informed
  <2>   QED  BY <2>3, <2>4
<1> QED BY <1>4, <1>5 DEF Trusted

\* The blocks of a burst, one after the other.
LEMMA BurstKeepsTrust ==
    ASSUME Slot(elapsed), Informed([tcd |-> tcd, time |-> time, heard |-> <<>>], elapsed),
           NEW cell \in {Own, Foreign}, NEW burst, NEW type, NEW blocks, blocks = BlocksOf(burst, type) \/ blocks = <<>>
    PROVE  Trusted(Taken(blocks, cell), elapsed)
<1>1. PICK n \in 0 .. 3 : n = Len(blocks)
    BY BlocksAre
<1>2. \A i \in 1 .. n : blocks[i].type = "SB1" => i = 1
    BY <1>1, Sb1IsFirst
<1>3. PICK g : Taken(blocks, cell) = g[n] /\ Takes(g, blocks, cell, n)
  <2>1. n \in 0 .. 3 /\ n = Len(blocks)
        BY <1>1
  <2>   QED  BY ONLY <2>1, TakenIs
<1> DEFINE S == {i \in Nat : i <= n => Trusted(g[i], elapsed)}
<1>4. 0 \in S
  <2>1. g[0].heard = <<>>
        BY <1>3 DEF Takes
  <2>2. <<>> = [i \in 1 .. 0 |-> <<>>[i]]
        OBVIOUS
  <2>   QED  BY <1>3, <2>1, <2>2 DEF Takes, Trusted, Sequence
<1>5. ASSUME NEW i \in Nat, i \in S PROVE i + 1 \in S
  <2> SUFFICES ASSUME i + 1 <= n PROVE Trusted(g[i + 1], elapsed)
      OBVIOUS
  <2>1. PICK j \in 1 .. n : j = i + 1 /\ j - 1 = i
        OBVIOUS
  <2>2. Trusted(g[i], elapsed)
        BY <1>5
  <2>3. PICK r, q, blk : r = g[i] /\ q = g[j] /\ blk = blocks[j]
        OBVIOUS
  <2>4. q = UdataInd(r, blk, Sent(cell, TimeAt(elapsed), blk.type))
        BY <1>3, <2>1, <2>3 DEF tm, Takes
  <2>5. PICK code, decoded : q = Decoded(r, blk, Sent(cell, TimeAt(elapsed), blk.type), code, decoded)
        BY <2>4, UdataIndIs
  <2>6. blk.type = "SB1" => r.heard = <<>>
    <3> SUFFICES ASSUME blk.type = "SB1" PROVE r.heard = <<>>
        OBVIOUS
    <3>1. i = 0
          BY <1>2, <2>1, <2>3
    <3>   QED  BY <1>3, <2>3, <3>1 DEF Takes
  <2>7. Trusted(r, elapsed) /\ Slot(elapsed) /\ cell \in {Own, Foreign}
        BY <2>2, <2>3
  <2>8. Trusted(q, elapsed)
        BY ONLY <2>5, <2>6, <2>7, BlockKeepsTrust
  <2>   QED  BY <2>1, <2>3, <2>8
<1>6. n \in S
  <2>   HIDE DEF S
  <2>   QED  BY <1>4, <1>5, NatSet
<1> QED BY <1>3, <1>6

\* What the receiver knows in a slot.
KnowInv == Slot(elapsed) /\ Informed([tcd |-> tcd, time |-> time, heard |-> heard], elapsed)

\* Blocks of which what passes the CRC is what was sent are clean.
LEMMA NoGarbageIsClean ==
    ASSUME NEW h, Sequence(h), \A x \in {h[i] : i \in 1 .. Len(h)} : x.type # "BBK" /\ x.crc_ok => x.intact
    PROVE  Clean(h)
<1>1. PICK n \in Nat : h = [i \in 1 .. n |-> h[i]]
    BY DEF Sequence
<1>2. Len(h) = n
    BY <1>1
<1>3. \A i \in 1 .. n : h[i].type = "SB1" /\ h[i].crc_ok => h[i].intact
    BY <1>2
<1> QED BY <1>1, <1>3 DEF Clean

\* The receiver knows nothing wrong, if what passes the CRC is what was sent.
LEMMA KnowledgeStays ==
    ASSUME KnowInv, NoGarbagePasses', [Next]_vars
    PROVE  KnowInv'
<1> DEFINE r == [tcd |-> tcd, time |-> time, heard |-> heard]
<1>1. /\ Slot(elapsed) /\ Ranged(time)
      /\ tcd # NoCell => RightTime(time, elapsed) /\ Sender(tcd) /\ Named(heard, Bnch(TimeAt(elapsed)))
    BY DEF KnowInv, Informed
<1>2. CASE NextSlot
  <2>1. elapsed' = (elapsed + 1) % (4 * MaxFn * MaxMn) /\ time' = AddTn(time, 1) /\ heard' = <<>> /\ tcd' = tcd
        BY <1>2 DEF NextSlot
  <2>2. Slot(elapsed') /\ \A t : RightTime(t, elapsed) => RightTime(AddTn(t, 1), elapsed')
        BY <1>1, <2>1, TimeGoesOn
  <2>3. Ranged(time')
    <3>1. PICK tn \in 0 .. 4, fn \in 0 .. MaxFn, mn \in 0 .. MaxMn : time = At(tn, fn, mn)
          BY <1>1 DEF Ranged
    <3>2. time' = IF tn < 4 THEN At(tn + 1, fn, mn)
                  ELSE IF fn < MaxFn THEN At(1, fn + 1, mn)
                  ELSE IF mn < MaxMn THEN At(1, 1, mn + 1)
                  ELSE At(1, 1, 1)
          BY <2>1, <3>1, Tick
    <3>   QED  BY <3>2, TetraTdmaAssumption DEF TetraTdmaAssumption, Ranged
  <2>4. tcd' # NoCell => RightTime(time', elapsed') /\ Sender(tcd') /\ Named(heard', Bnch(TimeAt(elapsed')))
        BY <1>1, <2>1, <2>2, NothingNamed
  <2>   QED  BY <2>2, <2>3, <2>4 DEF KnowInv, Informed, NoCell
<1>3. CASE ReceiveBurst
  <2>1. PICK cell \in {Own, Foreign} : \E hit, sent : Receive(cell, hit, sent)
        BY <1>3 DEF ReceiveBurst
  <2>2. PICK burst, after : /\ after = Taken(Found(burst), cell)
                            /\ tcd' = after.tcd /\ time' = after.time /\ heard' = after.heard /\ elapsed' = elapsed
        BY <2>1 DEF Receive
  <2>3. PICK blocks, type : blocks = Found(burst) /\ (blocks = BlocksOf(burst, type) \/ blocks = <<>>)
        BY DEF Found
  <2>4. Informed([tcd |-> tcd, time |-> time, heard |-> <<>>], elapsed)
        BY <1>1, NothingNamed DEF Informed
  <2>5. Trusted(after, elapsed)
        BY <1>1, <2>2, <2>3, <2>4, BurstKeepsTrust
  <2>6. Clean(heard')
    <3>1. Sequence(heard')
          BY <2>2, <2>5 DEF Trusted
    <3>2. \A x \in {heard'[i] : i \in 1 .. Len(heard')} : x.type # "BBK" /\ x.crc_ok => x.intact
          BY DEF NoGarbagePasses, Heard
    <3>   QED  BY ONLY <3>1, <3>2, NoGarbageIsClean
  <2>7. Informed(after, elapsed)
        BY <2>2, <2>5, <2>6 DEF Trusted
  <2>   QED  BY <1>1, <2>2, <2>7 DEF KnowInv, Informed
<1>4. CASE UNCHANGED vars
    BY <1>4 DEF vars, KnowInv, Informed
<1> QED BY <1>2, <1>3, <1>4 DEF Next

\* A receiver that was switched on.
LEMMA NothingIsKnown == Init => KnowInv
<1> SUFFICES ASSUME Init PROVE KnowInv
    OBVIOUS
<1>1. elapsed = 0 /\ tcd = NoCell /\ time = ZeroTime
    BY DEF Init
<1>2. Slot(0)
  <2>1. Passed(0, 0, 0, 0) /\ 0 \in 0 .. 3 /\ 0 \in 0 .. MaxFn - 1 /\ 0 \in 0 .. MaxMn - 1
        BY TetraTdmaAssumption DEF TetraTdmaAssumption, Passed
  <2>   QED  BY ONLY <2>1 DEF Slot
<1>3. Ranged(ZeroTime)
  <2>1. ZeroTime = At(0, 0, 0) /\ 0 \in 0 .. 4 /\ 0 \in 0 .. MaxFn /\ 0 \in 0 .. MaxMn
        BY TetraTdmaAssumption DEF TetraTdmaAssumption, ZeroTime, At
  <2>   QED  BY ONLY <2>1 DEF Ranged
<1> QED BY <1>1, <1>2, <1>3 DEF KnowInv, Informed

\* From the first SYNC PDU on the time is that of the air across every carry, and the cell
\* is one that sends, for any counts of frames and multiframes a SYNC PDU has room for, any
\* two cells and any errors: as long as what passes the CRC is what was sent.
THEOREM TimeIsToldBySync == Spec /\ []NoGarbagePasses => []SyncTellsTime
<1>1. Init => KnowInv
    BY NothingIsKnown
<1>2. KnowInv /\ NoGarbagePasses' /\ [Next]_vars => KnowInv'
    BY KnowledgeStays
<1>3. KnowInv => SyncTellsTime
  <2> SUFFICES ASSUME KnowInv, tcd # NoCell PROVE /\ time.tn = tm.tn /\ time.fn = tm.fn /\ time.mn = tm.mn
                                                 /\ \E c \in {Own, Foreign} : IsKnown(c) /\ tcd.scramb_init = ScramblingInit(c)
      BY DEF SyncTellsTime
  <2>1. RightTime(time, elapsed) /\ Sender(tcd)
        BY DEF KnowInv, Informed
  <2>2. time.tn = tm.tn /\ time.fn = tm.fn /\ time.mn = tm.mn
        BY <2>1 DEF RightTime, At, tm
  <2>   QED  BY <2>1, <2>2 DEF Sender, IsKnown
<1> QED BY <1>1, <1>2, <1>3, PTL DEF Spec

\* The network broadcast channel is known where it is, and nowhere else, on the same
\* condition.
THEOREM BnchIsWhereItIs == Spec /\ []NoGarbagePasses => []BnchIsNamed
<1>1. Init => KnowInv
    BY NothingIsKnown
<1>2. KnowInv /\ NoGarbagePasses' /\ [Next]_vars => KnowInv'
    BY KnowledgeStays
<1>3. KnowInv => BnchIsNamed
  <2> SUFFICES ASSUME KnowInv, tcd # NoCell, NEW i \in 1 .. Len(heard)
               PROVE  heard[i].bnch <=> heard[i].type = "SB2" /\ Bnch(tm)
      BY DEF BnchIsNamed, Heard
  <2>1. Named(heard, Bnch(tm))
        BY DEF KnowInv, Informed, tm
  <2>2. PICK n \in Nat : heard = [k \in 1 .. n |-> heard[k]] /\ \A k \in 1 .. n : heard[k].bnch <=> heard[k].type = "SB2" /\ Bnch(tm)
        BY <2>1 DEF Named
  <2>3. Len(heard) = n
        BY <2>2
  <2>   QED  BY <2>2, <2>3
<1> QED BY <1>1, <1>2, <1>3, PTL DEF Spec

-----------------------------------------------------------------------------
(* The symbols.                                                            *)

\* The turns of the phases of a burst's symbols after the first `done`, n of them.
PhaseTurn(bits, before, n) ==
    Append(before, (before[n] + (Bits2Phase[bits[2 * n - 1] + 2 * bits[2 * n] + 1] - 1) \div 2) % 4)
PhaseFrom(bits, v, done, n) == Turns(LAMBDA before, i : PhaseTurn(bits, before, i), v, done, n)

\* What is made one by one, by the n turns after the first `done`.
PhaseMade(bits, g, done, n) == \A i \in done + 1 .. done + n : g[i] = PhaseTurn(bits, g[i - 1], i)

\* They make just that.
LEMMA PhaseTurns ==
    ASSUME NEW bits, NEW done \in Nat, NEW n \in Nat, NEW g, PhaseMade(bits, g, done, n)
    PROVE  PhaseFrom(bits, g[done], done, n) = g[done + n]
<1> DEFINE Turn(f, i) == Strict(LAMBDA x : PhaseTurn(bits, x, done + i), f[i - 1])
           Made(f) == f = [i \in 0 .. n |-> IF i = 0 THEN g[done] ELSE Turn(f, i)]
           made == CHOOSE f : Made(f)
           S == {i \in Nat : i <= n => made[i] = g[done + i]}
<1>1. \A f, i : Turn(f, i) = PhaseTurn(bits, f[i - 1], done + i)
    BY DEF Strict
<1>2. \A i \in 1 .. n : g[done + i] = PhaseTurn(bits, g[done + (i - 1)], done + i)
  <2>1. \A i \in 1 .. n : done + i \in done + 1 .. done + n /\ (done + i) - 1 = done + (i - 1)
        OBVIOUS
  <2>   QED  BY <2>1 DEF PhaseMade
<1>3. Made([i \in 0 .. n |-> g[done + i]])
  <2> DEFINE h == [i \in 0 .. n |-> g[done + i]]
  <2> HIDE DEF Turn
  <2>1. \A i \in 0 .. n : h[i] = IF i = 0 THEN g[done] ELSE Turn(h, i)
    <3>1. h[0] = g[done]
          OBVIOUS
    <3>2. ASSUME NEW i \in 1 .. n PROVE h[i] = Turn(h, i)
      <4>1. h[i] = g[done + i] /\ h[i - 1] = g[done + (i - 1)]
            OBVIOUS
      <4>   HIDE DEF h
      <4>   QED  BY <1>1, <1>2, <4>1
    <3>   HIDE DEF h
    <3>   QED  BY <3>1, <3>2
  <2>   QED  BY <2>1
<1>4. Made(made)
  <2> HIDE DEF Made
  <2>   QED  BY <1>3
<1>5. made[n] = g[done + n]
  <2> HIDE DEF made, Turn
  <2>1. \A i \in 0 .. n : made[i] = IF i = 0 THEN g[done] ELSE Turn(made, i)
        BY <1>4
  <2>2. 0 \in S
        BY <2>1
  <2>3. ASSUME NEW i \in Nat, i \in S PROVE i + 1 \in S
    <3> SUFFICES ASSUME i + 1 <= n PROVE made[i + 1] = g[done + (i + 1)]
        OBVIOUS
    <3>1. i + 1 \in 1 .. n /\ (i + 1) - 1 = i /\ made[i] = g[done + i]
          BY <2>3
    <3>2. made[i + 1] = Turn(made, i + 1)
          BY <2>1, <3>1
    <3>   QED  BY <1>1, <1>2, <3>1, <3>2
  <2>4. n \in S
    <3> HIDE DEF S
    <3>   QED  BY <2>2, <2>3, NatSet
  <2>   QED  BY <2>4
<1>6. PhaseFrom(bits, g[done], done, n) = made[n]
    BY DEF Turns, PhaseFrom, PhaseTurn
<1> QED BY <1>5, <1>6

\* So the phases of a burst's symbols makes the last of them.
LEMMA PhasesMade ==
    ASSUME NEW bits, NEW start, NEW n \in Nat, n = Len(bits) \div 2, NEW g, g[0] = <<start>>,
           \A i \in 1 .. n : g[i] = PhaseTurn(bits, g[i - 1], i)
    PROVE  Phases(bits, start) = Tail(g[n])
<1> DEFINE m == n \div 16
           Sixteen(x, j) == PhaseFrom(bits, x, 16 * (j - 1), 16)
           Turn(f, j) == Strict(LAMBDA x : Sixteen(x, 0 + j), f[j - 1])
           Made(f) == f = [j \in 0 .. m |-> IF j = 0 THEN <<start>> ELSE Turn(f, j)]
           made == CHOOSE f : Made(f)
           Last(x) == PhaseFrom(bits, x, 16 * m, n % 16)
           S == {j \in Nat : j <= m => made[j] = g[16 * j]}
<1>1. Phases(bits, start) = Tail(Strict(LAMBDA x : Last(x), made[m]))
  <2> DEFINE Looped(k) == Loop(LAMBDA before, i : PhaseTurn(bits, before, i), <<start>>, k)
  <2>1. Phases(bits, start) = Tail(Looped(Len(bits) \div 2))
        BY DEF Phases, PhaseTurn
  <2>2. Looped(n) = Strict(LAMBDA x : Last(x), made[m])
        BY DEF Loop, Turns, PhaseFrom, PhaseTurn
  <2>   HIDE DEF Looped, m, made, Last
  <2>   QED  BY <2>1, <2>2
<1>2. m \in Nat /\ n % 16 \in Nat /\ 16 * m + (n % 16) = n
    BY Sixteens
<1>3. \A j \in 1 .. m : Sixteen(g[16 * (j - 1)], 0 + j) = g[16 * j]
  <2> SUFFICES ASSUME NEW j \in 1 .. m PROVE Sixteen(g[16 * (j - 1)], 0 + j) = g[16 * j]
      OBVIOUS
  <2>1. PICK d \in Nat : d = 16 * (j - 1) /\ d + 16 = 16 * j /\ d + 16 <= n
        BY <1>2
  <2>2. PhaseMade(bits, g, d, 16)
        BY <2>1 DEF PhaseMade
  <2>3. PhaseFrom(bits, g[d], d, 16) = g[d + 16]
        BY <2>2, PhaseTurns
  <2>4. 0 + j = j
        OBVIOUS
  <2>   QED  BY <2>1, <2>3, <2>4
<1>4. Last(g[16 * m]) = g[n]
  <2>1. PICK d \in Nat, r \in Nat : d = 16 * m /\ r = n % 16 /\ d + r = n
        BY <1>2
  <2>2. PhaseMade(bits, g, d, r)
        BY <2>1 DEF PhaseMade
  <2>3. PhaseFrom(bits, g[d], d, r) = g[d + r]
        BY <2>2, PhaseTurns
  <2>   QED  BY <2>1, <2>3
<1> HIDE DEF m, Sixteen, Last
<1>5. (\A f, j : Turn(f, j) = Sixteen(f[j - 1], 0 + j)) /\ \A x : Strict(LAMBDA y : Last(y), x) = Last(x)
    BY DEF Strict
<1>6. Made([j \in 0 .. m |-> g[16 * j]])
  <2> DEFINE h == [j \in 0 .. m |-> g[16 * j]]
  <2> HIDE DEF Turn
  <2>1. \A j \in 0 .. m : h[j] = IF j = 0 THEN <<start>> ELSE Turn(h, j)
    <3>1. h[0] = <<start>>
          BY <1>2
    <3>2. ASSUME NEW j \in 1 .. m PROVE h[j] = Turn(h, j)
      <4>1. h[j] = g[16 * j] /\ h[j - 1] = g[16 * (j - 1)]
        <5>1. j \in 0 .. m /\ j - 1 \in 0 .. m
              BY <1>2
        <5>   QED  BY <5>1
      <4>   HIDE DEF h
      <4>   QED  BY <1>3, <1>5, <4>1
    <3>   HIDE DEF h
    <3>   QED  BY <1>2, <3>1, <3>2
  <2>   QED  BY <2>1
<1>7. Made(made)
  <2> HIDE DEF Made
  <2>   QED  BY <1>6
<1>8. made[m] = g[16 * m]
  <2> HIDE DEF made, Turn
  <2>1. \A j \in 0 .. m : made[j] = IF j = 0 THEN <<start>> ELSE Turn(made, j)
        BY <1>7
  <2>2. 0 \in S
        BY <1>2, <2>1
  <2>3. ASSUME NEW j \in Nat, j \in S PROVE j + 1 \in S
    <3> SUFFICES ASSUME j + 1 <= m PROVE made[j + 1] = g[16 * (j + 1)]
        OBVIOUS
    <3>1. j + 1 \in 1 .. m /\ j + 1 \in 0 .. m /\ (j + 1) - 1 = j /\ made[j] = g[16 * j]
          BY <1>2, <2>3
    <3>2. made[j + 1] = Turn(made, j + 1)
          BY <2>1, <3>1
    <3>   QED  BY <1>3, <1>5, <3>1, <3>2
  <2>4. m \in S
    <3> HIDE DEF S
    <3>   QED  BY <1>2, <2>2, <2>3, NatSet
  <2>   QED  BY <2>4
<1> QED BY <1>1, <1>4, <1>5, <1>8

\* What DQPSKSymbolExtractor makes of a phase.
SymbolOf(quadrant) ==
    LET a == quadrant \in {2, 3}
        b == quadrant \in {1, 2}
    IN  2 * (IF a THEN 1 ELSE 0) + (IF a # b THEN 1 ELSE 0)
PhaseAfter(p, a, b) == (p + (Bits2Phase[a + 2 * b + 1] - 1) \div 2) % 4

\* A change of phase is read back, whichever quadrant p the symbol before was in.
LEMMA QuadrantsTell ==
    ASSUME NEW p \in 0 .. 3, NEW a \in Bit, NEW b \in Bit
    PROVE  /\ PhaseAfter(p, a, b) \in 0 .. 3
           /\ Remapped((SymbolOf(PhaseAfter(p, a, b)) - SymbolOf(p) + 4) % 4) = 2 * a + b
<1>1. /\ Bits2Phase[1] = 1 /\ Bits2Phase[2] = -1 /\ Bits2Phase[3] = 3 /\ Bits2Phase[4] = -3
    BY DEF Bits2Phase
<1>2. \A s \in 0 .. 3 : SymbolOf(s) = s
    BY DEF SymbolOf
<1>3. PhaseAfter(p, a, b) = IF a = 0 THEN IF b = 0 THEN p ELSE (p + 1) % 4
                            ELSE IF b = 0 THEN (p + 3) % 4 ELSE (p + 2) % 4
  <2>1. CASE a = 0 /\ b = 0
        BY <1>1, <2>1 DEF PhaseAfter
  <2>2. CASE a = 0 /\ b = 1
        BY <1>1, <2>2 DEF PhaseAfter
  <2>3. CASE a = 1 /\ b = 0
        BY <1>1, <2>3 DEF PhaseAfter
  <2>4. CASE a = 1 /\ b = 1
        BY <1>1, <2>4 DEF PhaseAfter
  <2>   QED  BY <2>1, <2>2, <2>3, <2>4 DEF Bit
<1>4. Remapped(0) = 0 /\ Remapped(1) = 1 /\ Remapped(2) = 3 /\ Remapped(3) = 2
    BY DEF Remapped
<1>5. PICK q : q = PhaseAfter(p, a, b)
    OBVIOUS
<1>6. q \in 0 .. 3
    BY <1>3, <1>5 DEF Bit
<1>7. SymbolOf(q) = q /\ SymbolOf(p) = p
    BY <1>2, <1>6
<1>8. Remapped((q - p + 4) % 4) = 2 * a + b
  <2>1. CASE a = 0 /\ b = 0
    <3>1. (q - p + 4) % 4 = 0
          BY <1>3, <1>5, <2>1
    <3>   QED  BY <1>4, <2>1, <3>1
  <2>2. CASE a = 0 /\ b = 1
    <3>1. (q - p + 4) % 4 = 1
          BY <1>3, <1>5, <2>2
    <3>   QED  BY <1>4, <2>2, <3>1
  <2>3. CASE a = 1 /\ b = 0
    <3>1. (q - p + 4) % 4 = 3
          BY <1>3, <1>5, <2>3
    <3>   QED  BY <1>4, <2>3, <3>1
  <2>4. CASE a = 1 /\ b = 1
    <3>1. (q - p + 4) % 4 = 2
          BY <1>3, <1>5, <2>4
    <3>   QED  BY <1>4, <2>4, <3>1
  <2>   QED  BY <2>1, <2>2, <2>3, <2>4 DEF Bit
<1> QED BY <1>5, <1>6, <1>7, <1>8

\* The phases of the symbols of a burst, each from the one before.
LEMMA PhasesAre ==
    ASSUME NEW n \in Nat, NEW bits \in [1 .. 2 * n -> Bit], NEW start \in 0 .. 3
    PROVE  \E p \in [1 .. n -> 0 .. 3] :
              /\ Phases(bits, start) = p
              /\ \A i \in 2 .. n : p[i] = PhaseAfter(p[i - 1], bits[2 * i - 1], bits[2 * i])
<1> DEFINE step == [x \in (0 .. 3) \X Nat |->
                      IF x[2] \in 1 .. n THEN PhaseAfter(x[1], bits[2 * x[2] - 1], bits[2 * x[2]]) ELSE 0]
<1>1. \A i \in 1 .. n : 2 * i - 1 \in 1 .. 2 * n /\ 2 * i \in 1 .. 2 * n /\ bits[2 * i - 1] \in Bit /\ bits[2 * i] \in Bit
    OBVIOUS
<1>2. step \in [(0 .. 3) \X Nat -> 0 .. 3]
  <2> SUFFICES ASSUME NEW s \in 0 .. 3, NEW i \in Nat
               PROVE  (IF i \in 1 .. n THEN PhaseAfter(s, bits[2 * i - 1], bits[2 * i]) ELSE 0) \in 0 .. 3
      OBVIOUS
  <2>1. CASE i \in 1 .. n
    <3>1. bits[2 * i - 1] \in Bit /\ bits[2 * i] \in Bit
          BY <1>1, <2>1
    <3>2. PhaseAfter(s, bits[2 * i - 1], bits[2 * i]) \in 0 .. 3
          BY <3>1, QuadrantsTell
    <3>   QED  BY <2>1, <3>2
  <2>2. CASE i \notin 1 .. n
        BY <2>2
  <2>   QED  BY <2>1, <2>2
<1>3. PICK ph \in [0 .. n -> 0 .. 3] : Chain(ph, start, step, n)
  <2> HIDE DEF step
  <2> QED BY <1>2, ChainExists
<1>4. ph[0] = start /\ \A i \in 1 .. n : ph[i] = PhaseAfter(ph[i - 1], bits[2 * i - 1], bits[2 * i])
  <2>1. ph[0] = start /\ \A i \in 1 .. n : ph[i] = step[<<ph[i - 1], i>>]
        BY <1>3 DEF Chain
  <2>2. \A i \in 1 .. n : <<ph[i - 1], i>> \in (0 .. 3) \X Nat /\ step[<<ph[i - 1], i>>] = PhaseAfter(ph[i - 1], bits[2 * i - 1], bits[2 * i])
        OBVIOUS
  <2>   HIDE DEF step
  <2>   QED  BY <2>1, <2>2
<1> HIDE DEF step
<1> DEFINE g == [i \in 0 .. n |-> [k \in 1 .. i + 1 |-> ph[k - 1]]]
<1>5. g[0] = <<start>>
  <2>1. g[0] = [k \in 1 .. 1 |-> ph[k - 1]]
        OBVIOUS
  <2>2. [k \in 1 .. 1 |-> ph[k - 1]] = [k \in 1 .. 1 |-> start]
        BY <1>4
  <2>3. <<start>> = [k \in 1 .. 1 |-> start]
        OBVIOUS
  <2>   QED  BY ONLY <2>1, <2>2, <2>3
<1>6. ASSUME NEW i \in 1 .. n PROVE g[i] = PhaseTurn(bits, g[i - 1], i)
  <2>1. g[i - 1] = [k \in 1 .. i |-> ph[k - 1]] /\ g[i] = [k \in 1 .. i + 1 |-> ph[k - 1]]
        OBVIOUS
  <2> HIDE DEF g
  <2>2. g[i - 1][i] = ph[i - 1]
        BY <2>1
  <2>3. PhaseTurn(bits, g[i - 1], i) = Append(g[i - 1], ph[i])
        BY <1>4, <2>2 DEF PhaseTurn, PhaseAfter
  <2>4. Append([k \in 1 .. i |-> g[i][k]], g[i][i + 1]) = [k \in 1 .. i + 1 |-> g[i][k]]
        BY AppendIs
  <2>5. [k \in 1 .. i |-> g[i][k]] = g[i - 1] /\ g[i][i + 1] = ph[i] /\ [k \in 1 .. i + 1 |-> g[i][k]] = g[i]
        BY <2>1
  <2>   QED  BY ONLY <2>3, <2>4, <2>5
<1>7. n = Len(bits) \div 2
    OBVIOUS
<1>8. Phases(bits, start) = Tail(g[n])
  <2> HIDE DEF g
  <2> QED BY <1>5, <1>6, <1>7, PhasesMade
<1> DEFINE p == [i \in 1 .. n |-> ph[i]]
<1>9. Tail(g[n]) = p
  <2>1. g[n] = [k \in 1 .. n + 1 |-> ph[k - 1]]
        OBVIOUS
  <2>2. PICK s : s = [k \in 1 .. n + 1 |-> ph[k - 1]]
        OBVIOUS
  <2>3. s \in Seq(0 .. 3) /\ Len(s) = n + 1 /\ s # <<>>
    <3>1. s \in [1 .. n + 1 -> 0 .. 3]
          BY <2>2
    <3>   QED  BY <3>1
  <2>4. Tail(s) = [i \in 1 .. n |-> s[i + 1]]
        BY <2>3
  <2>5. \A i \in 1 .. n : s[i + 1] = ph[i]
        BY <2>2
  <2>   QED  BY ONLY <2>1, <2>2, <2>4, <2>5
<1>10. p \in [1 .. n -> 0 .. 3]
    OBVIOUS
<1>11. \A i \in 2 .. n : p[i] = PhaseAfter(p[i - 1], bits[2 * i - 1], bits[2 * i])
    BY <1>4
<1> HIDE DEF p
<1> QED BY <1>8, <1>9, <1>10, <1>11

\* The bits of a burst are read from its symbols whichever way these are turned, and
\* whatever symbol is taken to come before the first: all but those of the first symbol.
THEOREM TurnedSymbolsAreRead ==
    ASSUME NEW n \in Nat, NEW bits \in [1 .. 2 * n -> Bit], NEW start \in 0 .. 3, NEW prev
    PROVE  /\ Unpacked(Phases(bits, start), prev) \in [1 .. 2 * n -> Bit]
           /\ \A k \in 3 .. 2 * n : Unpacked(Phases(bits, start), prev)[k] = bits[k]
<1>1. PICK p \in [1 .. n -> 0 .. 3] :
         /\ Phases(bits, start) = p
         /\ \A i \in 2 .. n : p[i] = PhaseAfter(p[i - 1], bits[2 * i - 1], bits[2 * i])
    BY PhasesAre
<1> DEFINE before(i) == IF i = 1 THEN prev ELSE p[i - 1]
           out(i) == Remapped((SymbolOf(p[i]) - SymbolOf(before(i)) + 4) % 4)
           f == [k \in 1 .. 2 * n |-> IF k % 2 = 1 THEN out((k + 1) \div 2) \div 2 ELSE out(k \div 2) % 2]
<1>2. Unpacked(Phases(bits, start), prev) = Bits(f, 2 * n)
  <2>1. Len(p) = n
        OBVIOUS
  <2>   QED  BY <1>1, <2>1 DEF Unpacked, SymbolOf
<1>3. Bits(f, 2 * n) = f
  <2>1. f = [k \in 1 .. 2 * n |-> f[k]] /\ 2 * n \in Nat
        OBVIOUS
  <2>   HIDE DEF f
  <2>   QED  BY <2>1, BitsOf
<1>4. ASSUME NEW i \in 2 .. n PROVE out(i) = 2 * bits[2 * i - 1] + bits[2 * i] /\ bits[2 * i - 1] \in Bit /\ bits[2 * i] \in Bit
  <2>1. i \in 1 .. n /\ i - 1 \in 1 .. n /\ i # 1 /\ 2 * i - 1 \in 1 .. 2 * n /\ 2 * i \in 1 .. 2 * n
        OBVIOUS
  <2>2. PICK a \in Bit, b \in Bit, s \in 0 .. 3 : a = bits[2 * i - 1] /\ b = bits[2 * i] /\ s = p[i - 1]
        BY <2>1
  <2>3. p[i] = PhaseAfter(s, a, b) /\ before(i) = s
        BY <1>1, <2>1, <2>2
  <2>   QED  BY <2>2, <2>3, QuadrantsTell
<1>5. ASSUME NEW k \in 3 .. 2 * n PROVE f[k] = bits[k]
  <2> HIDE DEF out
  <2>1. CASE k % 2 = 1
    <3>1. PICK i \in 2 .. n : i = (k + 1) \div 2 /\ k = 2 * i - 1
          BY <2>1
    <3>2. f[k] = out(i) \div 2
          BY <2>1, <3>1
    <3>   HIDE DEF f
    <3>3. PICK a \in Bit, b \in Bit : a = bits[2 * i - 1] /\ out(i) = 2 * a + b
          BY <1>4
    <3>4. (2 * a + b) \div 2 = a
          BY DEF Bit
    <3>   QED  BY <3>1, <3>2, <3>3, <3>4
  <2>2. CASE k % 2 = 0
    <3>1. PICK i \in 2 .. n : i = k \div 2 /\ k = 2 * i
          BY <2>2
    <3>2. f[k] = out(i) % 2
          BY <2>2, <3>1
    <3>   HIDE DEF f
    <3>3. PICK a \in Bit, b \in Bit : b = bits[2 * i] /\ out(i) = 2 * a + b
          BY <1>4
    <3>4. (2 * a + b) % 2 = b
          BY DEF Bit
    <3>   QED  BY <3>1, <3>2, <3>3, <3>4
  <2>   QED  BY <2>1, <2>2
<1>6. ASSUME NEW k \in 1 .. 2 * n PROVE f[k] \in Bit
  <2>1. PICK i : f[k] = out(i) \div 2 \/ f[k] = out(i) % 2
        OBVIOUS
  <2>2. \A q : SymbolOf(q) \in 0 .. 3
        BY DEF SymbolOf
  <2>3. PICK x \in 0 .. 3, y \in 0 .. 3 : x = SymbolOf(p[i]) /\ y = SymbolOf(before(i))
        BY <2>2
  <2>4. (x - y + 4) % 4 \in 0 .. 3
        OBVIOUS
  <2>5. out(i) \in 0 .. 3
        BY <2>3, <2>4 DEF Remapped
  <2>   HIDE DEF out, f
  <2>   QED  BY <2>1, <2>5 DEF Bit
<1>7. f \in [1 .. 2 * n -> Bit]
    BY <1>6
<1> HIDE DEF f
<1> QED BY <1>2, <1>3, <1>5, <1>7

-----------------------------------------------------------------------------
(* The layout of a burst.                                                  *)

\* So many bits.
Piece(s, n) == n \in Nat /\ s \in [1 .. n -> Bit]

\* A sequence of so many bits is one.
LEMMA PieceOfSeq ==
    ASSUME NEW s, NEW n, n \in Nat, s \in Seq(Bit), Len(s) = n
    PROVE  Piece(s, n)
BY DEF Piece

\* So is what is cut out of one.
LEMMA PieceOfPiece ==
    ASSUME NEW s, NEW n, Piece(s, n), NEW a \in Nat, NEW b \in Nat, 1 <= a, a <= b + 1, b <= n, NEW l, l = b + 1 - a
    PROVE  Piece(SubSeq(s, a, b), l)
<1>1. n \in Nat /\ s \in Seq(Bit) /\ Len(s) = n
  <2>1. n \in Nat /\ s \in [1 .. n -> Bit]
        BY DEF Piece
  <2>   QED  BY <2>1
<1>2. PICK t : t = SubSeq(s, a, b)
    OBVIOUS
<1>3. t \in Seq(Bit) /\ Len(t) = l /\ l \in Nat
    BY <1>1, <1>2
<1>4. Piece(t, l)
    BY ONLY <1>3, PieceOfSeq
<1> QED BY <1>2, <1>4

\* Pieces put one behind the other.
LEMMA PieceFollows ==
    ASSUME NEW s, NEW n, Piece(s, n), NEW t, NEW m, Piece(t, m), NEW u, u = s \o t, NEW l, l = n + m
    PROVE  /\ Piece(u, l) /\ Holds(u, l, n, t, m)
           /\ \A off \in Nat, k \in Nat : \A x : Holds(s, n, off, x, k) => Holds(u, l, off, x, k)
<1>1. n \in Nat /\ s \in [1 .. n -> Bit] /\ m \in Nat /\ t \in [1 .. m -> Bit] /\ u = s \o t /\ l \in Nat /\ l = n + m
    BY DEF Piece
<1>2. /\ u \in [1 .. l -> Bit]
      /\ Holds(u, l, n, t, m)
      /\ \A off \in Nat, k \in Nat : \A x : Holds(s, n, off, x, k) => Holds(u, l, off, x, k)
    BY ONLY <1>1, ConcatHolds
<1> QED BY <1>1, <1>2 DEF Piece

\* The training sequences and what lies between the blocks.
LEMMA TrainingBits ==
    /\ SubSeq(q_bits, 11, 22) \in [1 .. 12 -> Bit] /\ SubSeq(q_bits, 1, 10) \in [1 .. 10 -> Bit]
    /\ n_bits \in [1 .. 22 -> Bit] /\ p_bits \in [1 .. 22 -> Bit] /\ y_bits \in [1 .. 38 -> Bit]
    /\ f_bits \in [1 .. 80 -> Bit]
<1>1. Piece(q_bits, 22)
  <2>1. q_bits \in Seq(Bit) /\ Len(q_bits) = 22
        BY DEF q_bits, Bit
  <2>   QED  BY <2>1, PieceOfSeq
<1>2. Piece(n_bits, 22)
  <2>1. n_bits \in Seq(Bit) /\ Len(n_bits) = 22
        BY DEF n_bits, Bit
  <2>   QED  BY <2>1, PieceOfSeq
<1>3. Piece(p_bits, 22)
  <2>1. p_bits \in Seq(Bit) /\ Len(p_bits) = 22
        BY DEF p_bits, Bit
  <2>   QED  BY <2>1, PieceOfSeq
<1>4. Piece(y_bits, 38)
  <2>1. y_bits \in Seq(Bit) /\ Len(y_bits) = 38
        BY DEF y_bits, Bit
  <2>   QED  BY <2>1, PieceOfSeq
<1>5. Piece(SubSeq(q_bits, 11, 22), 12) /\ Piece(SubSeq(q_bits, 1, 10), 10)
    BY <1>1, PieceOfPiece
<1>6. Piece(f_bits, 80)
  <2>1. \A n \in Nat : Piece(Ones(n), n) /\ Piece(Zeros(n), n)
    <3> SUFFICES ASSUME NEW n \in Nat PROVE Piece(Ones(n), n) /\ Piece(Zeros(n), n)
        OBVIOUS
    <3>1. [i \in 1 .. n |-> 1] \in [1 .. n -> Bit] /\ [i \in 1 .. n |-> 0] \in [1 .. n -> Bit]
          BY DEF Bit
    <3>   QED  BY <3>1, BitsAre DEF Ones, Zeros, Piece
  <2>2. PICK a, b, l, m, n, k : /\ a = Ones(8) /\ b = Zeros(64)
                               /\ l = 8 /\ m = 64 /\ n = 72 /\ k = 80
                               /\ n = l + m /\ k = n + l
        OBVIOUS
  <2>3. Piece(a, l) /\ Piece(b, m)
        BY <2>1, <2>2
  <2>4. PICK u, w : u = a \o b /\ w = u \o a
        OBVIOUS
  <2>5. Piece(a, l) /\ Piece(b, m) /\ u = a \o b /\ n = l + m
        BY <2>2, <2>3, <2>4
  <2>6. Piece(u, n)
        BY ONLY <2>5, PieceFollows
  <2>7. Piece(u, n) /\ Piece(a, l) /\ w = u \o a /\ k = n + l
        BY <2>2, <2>3, <2>4, <2>6
  <2>8. Piece(w, k)
        BY ONLY <2>7, PieceFollows
  <2>   QED  BY <2>2, <2>4, <2>8 DEF f_bits
<1> QED BY <1>2, <1>3, <1>4, <1>5, <1>6 DEF Piece

\* build_sync_c_d_burst puts the blocks where they are looked for.
LEMMA SyncBurstIs ==
    ASSUME NEW sb \in [1 .. 120 -> Bit], NEW bb \in [1 .. 30 -> Bit], NEW bkn \in [1 .. 216 -> Bit],
           NEW adj1 \in [1 .. 2 -> Bit], NEW adj2 \in [1 .. 2 -> Bit],
           NEW bits, bits = SyncBurst(sb, bb, bkn, adj1, adj2)
    PROVE  /\ bits \in [1 .. 510 -> Bit]
           /\ Holds(bits, 510, 94, sb, 120)
           /\ Holds(bits, 510, 252, bb, 30)
           /\ Holds(bits, 510, 282, bkn, 216)
<1>1. PICK c1, c2, c3, c4, c5, c6, c7, c8, c9 :
        /\ c1 = SubSeq(q_bits, 11, 22)
        /\ c2 = adj1
        /\ c3 = f_bits
        /\ c4 = sb
        /\ c5 = y_bits
        /\ c6 = bb
        /\ c7 = bkn
        /\ c8 = adj2
        /\ c9 = SubSeq(q_bits, 1, 10)
    BY Zenon
<1>2. PICK l1, l2, l3, l4, l5, l6, l7, l8, l9, n1, n2, n3, n4, n5, n6, n7, n8, n9 :
        /\ l1 = 12 /\ n1 = 12
        /\ l2 = 2 /\ n2 = 14
        /\ l3 = 80 /\ n3 = 94
        /\ l4 = 120 /\ n4 = 214
        /\ l5 = 38 /\ n5 = 252
        /\ l6 = 30 /\ n6 = 282
        /\ l7 = 216 /\ n7 = 498
        /\ l8 = 2 /\ n8 = 500
        /\ l9 = 10 /\ n9 = 510
        /\ n1 \in Nat /\ n2 \in Nat /\ n3 \in Nat /\ n4 \in Nat /\ n5 \in Nat /\ n6 \in Nat
        /\ n7 \in Nat /\ n8 \in Nat /\ n9 \in Nat /\ l1 \in Nat /\ l2 \in Nat /\ l3 \in Nat
        /\ l4 \in Nat /\ l5 \in Nat /\ l6 \in Nat /\ l7 \in Nat /\ l8 \in Nat /\ l9 \in Nat
    OBVIOUS
<1>3. Piece(c1, l1) /\ Piece(c2, l2) /\ Piece(c3, l3) /\ Piece(c4, l4) /\ Piece(c5, l5) /\ Piece(c6, l6) /\ Piece(c7, l7) /\ Piece(c8, l8) /\ Piece(c9, l9)
  <2>1. SubSeq(q_bits, 11, 22) \in [1 .. 12 -> Bit]
        BY TrainingBits
  <2>2. adj1 \in [1 .. 2 -> Bit]
        BY TrainingBits
  <2>3. f_bits \in [1 .. 80 -> Bit]
        BY TrainingBits
  <2>4. sb \in [1 .. 120 -> Bit]
        BY TrainingBits
  <2>5. y_bits \in [1 .. 38 -> Bit]
        BY TrainingBits
  <2>6. bb \in [1 .. 30 -> Bit]
        BY TrainingBits
  <2>7. bkn \in [1 .. 216 -> Bit]
        BY TrainingBits
  <2>8. adj2 \in [1 .. 2 -> Bit]
        BY TrainingBits
  <2>9. SubSeq(q_bits, 1, 10) \in [1 .. 10 -> Bit]
        BY TrainingBits
  <2>   QED  BY ONLY <1>1, <1>2, <2>1, <2>2, <2>3, <2>4, <2>5, <2>6, <2>7, <2>8, <2>9 DEF Piece
<1>4. /\ l1 = n1 /\ n2 = n1 + l2 /\ n3 = n2 + l3 /\ n4 = n3 + l4 /\ n5 = n4 + l5 /\ n6 = n5 + l6
      /\ n7 = n6 + l7 /\ n8 = n7 + l8 /\ n9 = n8 + l9
    BY ONLY <1>2
<1> DEFINE u1 == c1
<1>5. Piece(u1, n1)
    BY ONLY <1>3, <1>4
<1> DEFINE u2 == u1 \o c2
<1>6. u2 = u1 \o c2
    OBVIOUS
<1> HIDE DEF u1, u2
<1>7. /\ Piece(u2, n2)
  <2>1. /\ Piece(u1, n1) /\ Piece(c2, l2)
        /\ u2 = u1 \o c2 /\ n2 = n1 + l2
        BY ONLY <1>2, <1>3, <1>4, <1>5, <1>6
  <2>2. /\ Piece(u2, n2) /\ Holds(u2, n2, n1, c2, l2)
        /\ \A off \in Nat, k \in Nat : \A x : Holds(u1, n1, off, x, k) => Holds(u2, n2, off, x, k)
        BY ONLY <2>1, PieceFollows
  <2>3. n1 \in Nat /\ l2 \in Nat
        BY ONLY <1>2
  <2>   QED  BY ONLY <2>2, <2>3, <1>5
<1> DEFINE u3 == u2 \o c3
<1>8. u3 = u2 \o c3
    OBVIOUS
<1> HIDE DEF u3
<1>9. /\ Piece(u3, n3)
  <2>1. /\ Piece(u2, n2) /\ Piece(c3, l3)
        /\ u3 = u2 \o c3 /\ n3 = n2 + l3
        BY ONLY <1>2, <1>3, <1>4, <1>7, <1>8
  <2>2. /\ Piece(u3, n3) /\ Holds(u3, n3, n2, c3, l3)
        /\ \A off \in Nat, k \in Nat : \A x : Holds(u2, n2, off, x, k) => Holds(u3, n3, off, x, k)
        BY ONLY <2>1, PieceFollows
  <2>3. n1 \in Nat /\ n2 \in Nat /\ l2 \in Nat /\ l3 \in Nat
        BY ONLY <1>2
  <2>   QED  BY ONLY <2>2, <2>3, <1>7
<1> DEFINE u4 == u3 \o c4
<1>10. u4 = u3 \o c4
    OBVIOUS
<1> HIDE DEF u4
<1>11. /\ Piece(u4, n4)
       /\ Holds(u4, n4, n3, c4, l4)
  <2>1. /\ Piece(u3, n3) /\ Piece(c4, l4)
        /\ u4 = u3 \o c4 /\ n4 = n3 + l4
        BY ONLY <1>2, <1>3, <1>4, <1>9, <1>10
  <2>2. /\ Piece(u4, n4) /\ Holds(u4, n4, n3, c4, l4)
        /\ \A off \in Nat, k \in Nat : \A x : Holds(u3, n3, off, x, k) => Holds(u4, n4, off, x, k)
        BY ONLY <2>1, PieceFollows
  <2>3. n1 \in Nat /\ n2 \in Nat /\ n3 \in Nat /\ l2 \in Nat /\ l3 \in Nat /\ l4 \in Nat
        BY ONLY <1>2
  <2>   QED  BY ONLY <2>2, <2>3, <1>9
<1> DEFINE u5 == u4 \o c5
<1>12. u5 = u4 \o c5
    OBVIOUS
<1> HIDE DEF u5
<1>13. /\ Piece(u5, n5)
       /\ Holds(u5, n5, n3, c4, l4)
  <2>1. /\ Piece(u4, n4) /\ Piece(c5, l5)
        /\ u5 = u4 \o c5 /\ n5 = n4 + l5
        BY ONLY <1>2, <1>3, <1>4, <1>11, <1>12
  <2>2. /\ Piece(u5, n5) /\ Holds(u5, n5, n4, c5, l5)
        /\ \A off \in Nat, k \in Nat : \A x : Holds(u4, n4, off, x, k) => Holds(u5, n5, off, x, k)
        BY ONLY <2>1, PieceFollows
  <2>3. /\ n1 \in Nat /\ n2 \in Nat /\ n3 \in Nat /\ n4 \in Nat /\ l2 \in Nat /\ l3 \in Nat
        /\ l4 \in Nat /\ l5 \in Nat
        BY ONLY <1>2
  <2>   QED  BY ONLY <2>2, <2>3, <1>11
<1> DEFINE u6 == u5 \o c6
<1>14. u6 = u5 \o c6
    OBVIOUS
<1> HIDE DEF u6
<1>15. /\ Piece(u6, n6)
       /\ Holds(u6, n6, n3, c4, l4)
       /\ Holds(u6, n6, n5, c6, l6)
  <2>1. /\ Piece(u5, n5) /\ Piece(c6, l6)
        /\ u6 = u5 \o c6 /\ n6 = n5 + l6
        BY ONLY <1>2, <1>3, <1>4, <1>13, <1>14
  <2>2. /\ Piece(u6, n6) /\ Holds(u6, n6, n5, c6, l6)
        /\ \A off \in Nat, k \in Nat : \A x : Holds(u5, n5, off, x, k) => Holds(u6, n6, off, x, k)
        BY ONLY <2>1, PieceFollows
  <2>3. /\ n1 \in Nat /\ n2 \in Nat /\ n3 \in Nat /\ n4 \in Nat /\ n5 \in Nat /\ l2 \in Nat
        /\ l3 \in Nat /\ l4 \in Nat /\ l5 \in Nat /\ l6 \in Nat
        BY ONLY <1>2
  <2>   QED  BY ONLY <2>2, <2>3, <1>13
<1> DEFINE u7 == u6 \o c7
<1>16. u7 = u6 \o c7
    OBVIOUS
<1> HIDE DEF u7
<1>17. /\ Piece(u7, n7)
       /\ Holds(u7, n7, n3, c4, l4)
       /\ Holds(u7, n7, n5, c6, l6)
       /\ Holds(u7, n7, n6, c7, l7)
  <2>1. /\ Piece(u6, n6) /\ Piece(c7, l7)
        /\ u7 = u6 \o c7 /\ n7 = n6 + l7
        BY ONLY <1>2, <1>3, <1>4, <1>15, <1>16
  <2>2. /\ Piece(u7, n7) /\ Holds(u7, n7, n6, c7, l7)
        /\ \A off \in Nat, k \in Nat : \A x : Holds(u6, n6, off, x, k) => Holds(u7, n7, off, x, k)
        BY ONLY <2>1, PieceFollows
  <2>3. /\ n1 \in Nat /\ n2 \in Nat /\ n3 \in Nat /\ n4 \in Nat /\ n5 \in Nat /\ n6 \in Nat
        /\ l2 \in Nat /\ l3 \in Nat /\ l4 \in Nat /\ l5 \in Nat /\ l6 \in Nat /\ l7 \in Nat
        BY ONLY <1>2
  <2>   QED  BY ONLY <2>2, <2>3, <1>15
<1> DEFINE u8 == u7 \o c8
<1>18. u8 = u7 \o c8
    OBVIOUS
<1> HIDE DEF u8
<1>19. /\ Piece(u8, n8)
       /\ Holds(u8, n8, n3, c4, l4)
       /\ Holds(u8, n8, n5, c6, l6)
       /\ Holds(u8, n8, n6, c7, l7)
  <2>1. /\ Piece(u7, n7) /\ Piece(c8, l8)
        /\ u8 = u7 \o c8 /\ n8 = n7 + l8
        BY ONLY <1>2, <1>3, <1>4, <1>17, <1>18
  <2>2. /\ Piece(u8, n8) /\ Holds(u8, n8, n7, c8, l8)
        /\ \A off \in Nat, k \in Nat : \A x : Holds(u7, n7, off, x, k) => Holds(u8, n8, off, x, k)
        BY ONLY <2>1, PieceFollows
  <2>3. /\ n1 \in Nat /\ n2 \in Nat /\ n3 \in Nat /\ n4 \in Nat /\ n5 \in Nat /\ n6 \in Nat
        /\ n7 \in Nat /\ l2 \in Nat /\ l3 \in Nat /\ l4 \in Nat /\ l5 \in Nat /\ l6 \in Nat
        /\ l7 \in Nat /\ l8 \in Nat
        BY ONLY <1>2
  <2>   QED  BY ONLY <2>2, <2>3, <1>17
<1> DEFINE u9 == u8 \o c9
<1>20. u9 = u8 \o c9
    OBVIOUS
<1> HIDE DEF u9
<1>21. /\ Piece(u9, n9)
       /\ Holds(u9, n9, n3, c4, l4)
       /\ Holds(u9, n9, n5, c6, l6)
       /\ Holds(u9, n9, n6, c7, l7)
  <2>1. /\ Piece(u8, n8) /\ Piece(c9, l9)
        /\ u9 = u8 \o c9 /\ n9 = n8 + l9
        BY ONLY <1>2, <1>3, <1>4, <1>19, <1>20
  <2>2. /\ Piece(u9, n9) /\ Holds(u9, n9, n8, c9, l9)
        /\ \A off \in Nat, k \in Nat : \A x : Holds(u8, n8, off, x, k) => Holds(u9, n9, off, x, k)
        BY ONLY <2>1, PieceFollows
  <2>3. /\ n1 \in Nat /\ n2 \in Nat /\ n3 \in Nat /\ n4 \in Nat /\ n5 \in Nat /\ n6 \in Nat
        /\ n7 \in Nat /\ n8 \in Nat /\ l2 \in Nat /\ l3 \in Nat /\ l4 \in Nat /\ l5 \in Nat
        /\ l6 \in Nat /\ l7 \in Nat /\ l8 \in Nat /\ l9 \in Nat
        BY ONLY <1>2
  <2>   QED  BY ONLY <2>2, <2>3, <1>19
<1>22. bits = u9
  <2>1. bits = c1 \o c2 \o c3 \o c4 \o c5 \o c6 \o c7 \o c8 \o c9
        BY <1>1 DEF SyncBurst
  <2>   QED  BY ONLY <2>1, <1>6, <1>8, <1>10, <1>12, <1>14, <1>16, <1>18, <1>20 DEF u1
<1> QED BY <1>1, <1>2, <1>21, <1>22 DEF Piece

\* build_norm_c_d_burst too.
LEMMA NormBurstIs ==
    ASSUME NEW bkn1 \in [1 .. 216 -> Bit], NEW bb \in [1 .. 30 -> Bit], NEW bkn2 \in [1 .. 216 -> Bit],
           NEW two \in BOOLEAN, NEW adj1 \in [1 .. 2 -> Bit], NEW adj2 \in [1 .. 2 -> Bit],
           NEW bits, bits = NormBurst(bkn1, bb, bkn2, two, adj1, adj2)
    PROVE  /\ bits \in [1 .. 510 -> Bit]
           /\ Holds(bits, 510, 14, bkn1, 216)
           /\ Holds(bits, 510, 230, SubSeq(bb, 1, 14), 14)
           /\ Holds(bits, 510, 266, SubSeq(bb, 15, 30), 16)
           /\ Holds(bits, 510, 282, bkn2, 216)
<1>1. PICK c1, c2, c3, c4, c5, c6, c7, c8, c9 :
        /\ c1 = SubSeq(q_bits, 11, 22)
        /\ c2 = adj1
        /\ c3 = bkn1
        /\ c4 = SubSeq(bb, 1, 14)
        /\ c5 = (IF two THEN p_bits ELSE n_bits)
        /\ c6 = SubSeq(bb, 15, 30)
        /\ c7 = bkn2
        /\ c8 = adj2
        /\ c9 = SubSeq(q_bits, 1, 10)
    BY Zenon
<1>2. PICK l1, l2, l3, l4, l5, l6, l7, l8, l9, n1, n2, n3, n4, n5, n6, n7, n8, n9 :
        /\ l1 = 12 /\ n1 = 12
        /\ l2 = 2 /\ n2 = 14
        /\ l3 = 216 /\ n3 = 230
        /\ l4 = 14 /\ n4 = 244
        /\ l5 = 22 /\ n5 = 266
        /\ l6 = 16 /\ n6 = 282
        /\ l7 = 216 /\ n7 = 498
        /\ l8 = 2 /\ n8 = 500
        /\ l9 = 10 /\ n9 = 510
        /\ n1 \in Nat /\ n2 \in Nat /\ n3 \in Nat /\ n4 \in Nat /\ n5 \in Nat /\ n6 \in Nat
        /\ n7 \in Nat /\ n8 \in Nat /\ n9 \in Nat /\ l1 \in Nat /\ l2 \in Nat /\ l3 \in Nat
        /\ l4 \in Nat /\ l5 \in Nat /\ l6 \in Nat /\ l7 \in Nat /\ l8 \in Nat /\ l9 \in Nat
    OBVIOUS
<1>3. Piece(c1, l1) /\ Piece(c2, l2) /\ Piece(c3, l3) /\ Piece(c4, l4) /\ Piece(c5, l5) /\ Piece(c6, l6) /\ Piece(c7, l7) /\ Piece(c8, l8) /\ Piece(c9, l9)
  <2>1. SubSeq(q_bits, 11, 22) \in [1 .. 12 -> Bit]
        BY TrainingBits
  <2>2. adj1 \in [1 .. 2 -> Bit]
        BY TrainingBits
  <2>3. bkn1 \in [1 .. 216 -> Bit]
        BY TrainingBits
  <2>4. SubSeq(bb, 1, 14) \in [1 .. 14 -> Bit]
    <3>1. Piece(bb, 30)
          BY DEF Piece
    <3>2. Piece(SubSeq(bb, 1, 14), 14)
          BY <3>1, PieceOfPiece
    <3>   QED  BY <3>2 DEF Piece
  <2>5. (IF two THEN p_bits ELSE n_bits) \in [1 .. 22 -> Bit]
        BY TrainingBits
  <2>6. SubSeq(bb, 15, 30) \in [1 .. 16 -> Bit]
    <3>1. Piece(bb, 30)
          BY DEF Piece
    <3>2. Piece(SubSeq(bb, 15, 30), 16)
          BY <3>1, PieceOfPiece
    <3>   QED  BY <3>2 DEF Piece
  <2>7. bkn2 \in [1 .. 216 -> Bit]
        BY TrainingBits
  <2>8. adj2 \in [1 .. 2 -> Bit]
        BY TrainingBits
  <2>9. SubSeq(q_bits, 1, 10) \in [1 .. 10 -> Bit]
        BY TrainingBits
  <2>   QED  BY ONLY <1>1, <1>2, <2>1, <2>2, <2>3, <2>4, <2>5, <2>6, <2>7, <2>8, <2>9 DEF Piece
<1>4. /\ l1 = n1 /\ n2 = n1 + l2 /\ n3 = n2 + l3 /\ n4 = n3 + l4 /\ n5 = n4 + l5 /\ n6 = n5 + l6
      /\ n7 = n6 + l7 /\ n8 = n7 + l8 /\ n9 = n8 + l9
    BY ONLY <1>2
<1> DEFINE u1 == c1
<1>5. Piece(u1, n1)
    BY ONLY <1>3, <1>4
<1> DEFINE u2 == u1 \o c2
<1>6. u2 = u1 \o c2
    OBVIOUS
<1> HIDE DEF u1, u2
<1>7. /\ Piece(u2, n2)
  <2>1. /\ Piece(u1, n1) /\ Piece(c2, l2)
        /\ u2 = u1 \o c2 /\ n2 = n1 + l2
        BY ONLY <1>2, <1>3, <1>4, <1>5, <1>6
  <2>2. /\ Piece(u2, n2) /\ Holds(u2, n2, n1, c2, l2)
        /\ \A off \in Nat, k \in Nat : \A x : Holds(u1, n1, off, x, k) => Holds(u2, n2, off, x, k)
        BY ONLY <2>1, PieceFollows
  <2>3. n1 \in Nat /\ l2 \in Nat
        BY ONLY <1>2
  <2>   QED  BY ONLY <2>2, <2>3, <1>5
<1> DEFINE u3 == u2 \o c3
<1>8. u3 = u2 \o c3
    OBVIOUS
<1> HIDE DEF u3
<1>9. /\ Piece(u3, n3)
      /\ Holds(u3, n3, n2, c3, l3)
  <2>1. /\ Piece(u2, n2) /\ Piece(c3, l3)
        /\ u3 = u2 \o c3 /\ n3 = n2 + l3
        BY ONLY <1>2, <1>3, <1>4, <1>7, <1>8
  <2>2. /\ Piece(u3, n3) /\ Holds(u3, n3, n2, c3, l3)
        /\ \A off \in Nat, k \in Nat : \A x : Holds(u2, n2, off, x, k) => Holds(u3, n3, off, x, k)
        BY ONLY <2>1, PieceFollows
  <2>3. n1 \in Nat /\ n2 \in Nat /\ l2 \in Nat /\ l3 \in Nat
        BY ONLY <1>2
  <2>   QED  BY ONLY <2>2, <2>3, <1>7
<1> DEFINE u4 == u3 \o c4
<1>10. u4 = u3 \o c4
    OBVIOUS
<1> HIDE DEF u4
<1>11. /\ Piece(u4, n4)
       /\ Holds(u4, n4, n2, c3, l3)
       /\ Holds(u4, n4, n3, c4, l4)
  <2>1. /\ Piece(u3, n3) /\ Piece(c4, l4)
        /\ u4 = u3 \o c4 /\ n4 = n3 + l4
        BY ONLY <1>2, <1>3, <1>4, <1>9, <1>10
  <2>2. /\ Piece(u4, n4) /\ Holds(u4, n4, n3, c4, l4)
        /\ \A off \in Nat, k \in Nat : \A x : Holds(u3, n3, off, x, k) => Holds(u4, n4, off, x, k)
        BY ONLY <2>1, PieceFollows
  <2>3. n1 \in Nat /\ n2 \in Nat /\ n3 \in Nat /\ l2 \in Nat /\ l3 \in Nat /\ l4 \in Nat
        BY ONLY <1>2
  <2>   QED  BY ONLY <2>2, <2>3, <1>9
<1> DEFINE u5 == u4 \o c5
<1>12. u5 = u4 \o c5
    OBVIOUS
<1> HIDE DEF u5
<1>13. /\ Piece(u5, n5)
       /\ Holds(u5, n5, n2, c3, l3)
       /\ Holds(u5, n5, n3, c4, l4)
  <2>1. /\ Piece(u4, n4) /\ Piece(c5, l5)
        /\ u5 = u4 \o c5 /\ n5 = n4 + l5
        BY ONLY <1>2, <1>3, <1>4, <1>11, <1>12
  <2>2. /\ Piece(u5, n5) /\ Holds(u5, n5, n4, c5, l5)
        /\ \A off \in Nat, k \in Nat : \A x : Holds(u4, n4, off, x, k) => Holds(u5, n5, off, x, k)
        BY ONLY <2>1, PieceFollows
  <2>3. /\ n1 \in Nat /\ n2 \in Nat /\ n3 \in Nat /\ n4 \in Nat /\ l2 \in Nat /\ l3 \in Nat
        /\ l4 \in Nat /\ l5 \in Nat
        BY ONLY <1>2
  <2>   QED  BY ONLY <2>2, <2>3, <1>11
<1> DEFINE u6 == u5 \o c6
<1>14. u6 = u5 \o c6
    OBVIOUS
<1> HIDE DEF u6
<1>15. /\ Piece(u6, n6)
       /\ Holds(u6, n6, n2, c3, l3)
       /\ Holds(u6, n6, n3, c4, l4)
       /\ Holds(u6, n6, n5, c6, l6)
  <2>1. /\ Piece(u5, n5) /\ Piece(c6, l6)
        /\ u6 = u5 \o c6 /\ n6 = n5 + l6
        BY ONLY <1>2, <1>3, <1>4, <1>13, <1>14
  <2>2. /\ Piece(u6, n6) /\ Holds(u6, n6, n5, c6, l6)
        /\ \A off \in Nat, k \in Nat : \A x : Holds(u5, n5, off, x, k) => Holds(u6, n6, off, x, k)
        BY ONLY <2>1, PieceFollows
  <2>3. /\ n1 \in Nat /\ n2 \in Nat /\ n3 \in Nat /\ n4 \in Nat /\ n5 \in Nat /\ l2 \in Nat
        /\ l3 \in Nat /\ l4 \in Nat /\ l5 \in Nat /\ l6 \in Nat
        BY ONLY <1>2
  <2>   QED  BY ONLY <2>2, <2>3, <1>13
<1> DEFINE u7 == u6 \o c7
<1>16. u7 = u6 \o c7
    OBVIOUS
<1> HIDE DEF u7
<1>17. /\ Piece(u7, n7)
       /\ Holds(u7, n7, n2, c3, l3)
       /\ Holds(u7, n7, n3, c4, l4)
       /\ Holds(u7, n7, n5, c6, l6)
       /\ Holds(u7, n7, n6, c7, l7)
  <2>1. /\ Piece(u6, n6) /\ Piece(c7, l7)
        /\ u7 = u6 \o c7 /\ n7 = n6 + l7
        BY ONLY <1>2, <1>3, <1>4, <1>15, <1>16
  <2>2. /\ Piece(u7, n7) /\ Holds(u7, n7, n6, c7, l7)
        /\ \A off \in Nat, k \in Nat : \A x : Holds(u6, n6, off, x, k) => Holds(u7, n7, off, x, k)
        BY ONLY <2>1, PieceFollows
  <2>3. /\ n1 \in Nat /\ n2 \in Nat /\ n3 \in Nat /\ n4 \in Nat /\ n5 \in Nat /\ n6 \in Nat
        /\ l2 \in Nat /\ l3 \in Nat /\ l4 \in Nat /\ l5 \in Nat /\ l6 \in Nat /\ l7 \in Nat
        BY ONLY <1>2
  <2>   QED  BY ONLY <2>2, <2>3, <1>15
<1> DEFINE u8 == u7 \o c8
<1>18. u8 = u7 \o c8
    OBVIOUS
<1> HIDE DEF u8
<1>19. /\ Piece(u8, n8)
       /\ Holds(u8, n8, n2, c3, l3)
       /\ Holds(u8, n8, n3, c4, l4)
       /\ Holds(u8, n8, n5, c6, l6)
       /\ Holds(u8, n8, n6, c7, l7)
  <2>1. /\ Piece(u7, n7) /\ Piece(c8, l8)
        /\ u8 = u7 \o c8 /\ n8 = n7 + l8
        BY ONLY <1>2, <1>3, <1>4, <1>17, <1>18
  <2>2. /\ Piece(u8, n8) /\ Holds(u8, n8, n7, c8, l8)
        /\ \A off \in Nat, k \in Nat : \A x : Holds(u7, n7, off, x, k) => Holds(u8, n8, off, x, k)
        BY ONLY <2>1, PieceFollows
  <2>3. /\ n1 \in Nat /\ n2 \in Nat /\ n3 \in Nat /\ n4 \in Nat /\ n5 \in Nat /\ n6 \in Nat
        /\ n7 \in Nat /\ l2 \in Nat /\ l3 \in Nat /\ l4 \in Nat /\ l5 \in Nat /\ l6 \in Nat
        /\ l7 \in Nat /\ l8 \in Nat
        BY ONLY <1>2
  <2>   QED  BY ONLY <2>2, <2>3, <1>17
<1> DEFINE u9 == u8 \o c9
<1>20. u9 = u8 \o c9
    OBVIOUS
<1> HIDE DEF u9
<1>21. /\ Piece(u9, n9)
       /\ Holds(u9, n9, n2, c3, l3)
       /\ Holds(u9, n9, n3, c4, l4)
       /\ Holds(u9, n9, n5, c6, l6)
       /\ Holds(u9, n9, n6, c7, l7)
  <2>1. /\ Piece(u8, n8) /\ Piece(c9, l9)
        /\ u9 = u8 \o c9 /\ n9 = n8 + l9
        BY ONLY <1>2, <1>3, <1>4, <1>19, <1>20
  <2>2. /\ Piece(u9, n9) /\ Holds(u9, n9, n8, c9, l9)
        /\ \A off \in Nat, k \in Nat : \A x : Holds(u8, n8, off, x, k) => Holds(u9, n9, off, x, k)
        BY ONLY <2>1, PieceFollows
  <2>3. /\ n1 \in Nat /\ n2 \in Nat /\ n3 \in Nat /\ n4 \in Nat /\ n5 \in Nat /\ n6 \in Nat
        /\ n7 \in Nat /\ n8 \in Nat /\ l2 \in Nat /\ l3 \in Nat /\ l4 \in Nat /\ l5 \in Nat
        /\ l6 \in Nat /\ l7 \in Nat /\ l8 \in Nat /\ l9 \in Nat
        BY ONLY <1>2
  <2>   QED  BY ONLY <2>2, <2>3, <1>19
<1>22. bits = u9
  <2>1. bits = c1 \o c2 \o c3 \o c4 \o c5 \o c6 \o c7 \o c8 \o c9
        BY <1>1 DEF NormBurst
  <2>   QED  BY ONLY <2>1, <1>6, <1>8, <1>10, <1>12, <1>14, <1>16, <1>18, <1>20 DEF u1
<1> QED BY <1>1, <1>2, <1>21, <1>22 DEF Piece

\* From the second symbol on the same.
ReadAs(read, bits, n) == read \in [1 .. n -> Bit] /\ \A k \in 3 .. n : read[k] = bits[k]

\* The bits read from the symbols of a burst are its own.
LEMMA SymbolsRead ==
    ASSUME NEW bits, bits \in [1 .. 510 -> Bit], NEW start, start \in 0 .. 3, NEW prev,
           NEW read, read = Unpacked(Phases(bits, start), prev)
    PROVE  ReadAs(read, bits, 510)
<1>1. PICK n : n = 255
    OBVIOUS
<1>2. n \in Nat /\ bits \in [1 .. 2 * n -> Bit] /\ start \in 0 .. 3 /\ 2 * n = 510
    BY <1>1
<1>3. /\ Unpacked(Phases(bits, start), prev) \in [1 .. 2 * n -> Bit]
      /\ \A k \in 3 .. 2 * n : Unpacked(Phases(bits, start), prev)[k] = bits[k]
    BY ONLY <1>2, TurnedSymbolsAreRead
<1> QED BY <1>2, <1>3, Zenon DEF ReadAs

\* What lies behind the first symbol is there as well in the bits read from the symbols.
LEMMA HeldAsRead ==
    ASSUME NEW bits, NEW read, NEW n \in Nat, ReadAs(read, bits, n), NEW off \in Nat \ {0, 1},
           NEW t, NEW m \in Nat, Holds(bits, n, off, t, m)
    PROVE  Holds(read, n, off, t, m)
<1>1. off + m <= n /\ \A i \in 1 .. m : bits[off + i] = t[i]
    BY DEF Holds
<1>2. \A i \in 1 .. m : off + i \in 3 .. n
    BY <1>1
<1> QED BY <1>1, <1>2 DEF Holds, ReadAs

\* Cutting a piece out of where it lies gives the piece.
LEMMA CutIs ==
    ASSUME NEW bits, NEW n \in Nat, NEW off \in Nat, NEW t, NEW m \in Nat, Holds(bits, n, off, t, m), Piece(t, m)
    PROVE  Cut(bits, off, m) = t
<1>1. t \in [1 .. m -> Bit] /\ bits \in [1 .. n -> Bit] /\ off + m <= n /\ \A i \in 1 .. m : bits[off + i] = t[i]
    BY DEF Holds, Piece
<1>2. bits \in Seq(Bit) /\ Len(bits) = n
    BY <1>1
<1>3. PICK s : s = SubSeq(bits, off + 1, off + m)
    OBVIOUS
<1>4. s = [i \in 1 .. m |-> bits[off + i]]
  <2>1. \A i \in 1 .. m : i + (off + 1) - 1 = off + i
        OBVIOUS
  <2>2. s \in Seq(Bit) /\ Len(s) = m
        BY <1>1, <1>2, <1>3
  <2>3. \A i \in 1 .. m : s[i] = bits[off + i]
        BY <1>1, <1>2, <1>3, <2>1
  <2>4. s \in [1 .. m -> Bit]
        BY <2>2
  <2>   QED  BY <2>3, <2>4
<1>5. s = t
    BY <1>1, <1>4
<1> QED BY <1>3, <1>5 DEF Cut

\* What a piece is cut into makes the piece.
LEMMA PartsJoin ==
    ASSUME NEW s, NEW n, Piece(s, n), NEW a, a \in Nat, a <= n
    PROVE  SubSeq(s, 1, a) \o SubSeq(s, a + 1, n) = s
<1>1. n \in Nat /\ s \in Seq(Bit) /\ Len(s) = n /\ s \in [1 .. n -> Bit]
  <2>1. n \in Nat /\ s \in [1 .. n -> Bit]
        BY DEF Piece
  <2>   QED  BY <2>1
<1>2. PICK x, y, u : x = SubSeq(s, 1, a) /\ y = SubSeq(s, a + 1, n) /\ u = x \o y
    OBVIOUS
<1>3. x \in Seq(Bit) /\ Len(x) = a
    BY <1>1, <1>2
<1>4. y \in Seq(Bit) /\ Len(y) = n - a
    BY <1>1, <1>2
<1>5. u \in Seq(Bit) /\ Len(u) = n
    BY <1>1, <1>2, <1>3, <1>4
<1>6. \A i \in 1 .. a : u[i] = s[i]
  <2>1. \A i \in 1 .. a : x[i] = s[i]
        BY <1>1, <1>2
  <2>   QED  BY <1>2, <1>3, <1>4, <2>1
<1>7. \A i \in a + 1 .. n : u[i] = s[i]
  <2>1. \A i \in 1 .. n - a : y[i] = s[i + (a + 1) - 1]
        BY <1>1, <1>2
  <2>2. \A i \in a + 1 .. n : i - a \in 1 .. n - a /\ (i - a) + (a + 1) - 1 = i
        BY <1>1
  <2>3. \A i \in a + 1 .. n : y[i - a] = s[i]
        BY <2>1, <2>2
  <2>4. \A i \in a + 1 .. n : u[i] = y[i - a]
    <3>1. \A i \in a + 1 .. a + Len(y) : (x \o y)[i] = y[i - a]
          BY <1>3, <1>4
    <3>2. a + Len(y) = n
          BY <1>1, <1>4
    <3>   QED  BY <1>2, <3>1, <3>2
  <2>   QED  BY <2>3, <2>4
<1>8. u \in [1 .. n -> Bit] /\ \A i \in 1 .. n : u[i] = s[i]
  <2>1. \A i \in 1 .. n : i \in 1 .. a \/ i \in a + 1 .. n
        BY <1>1
  <2>2. u \in [1 .. n -> Bit]
        BY <1>1, <1>5
  <2>   QED  BY <1>6, <1>7, <2>1, <2>2
<1>9. u = s
    BY <1>1, <1>8
<1> QED BY <1>2, <1>9

\* The blocks of a synchronisation burst are cut out where they were put, as they were
\* sent, whichever way the symbols are turned (build_sync_c_d_burst, tetra_burst_rx_cb).
THEOREM SyncBlocksAreCutOut ==
    ASSUME NEW sb \in [1 .. 120 -> Bit], NEW bb \in [1 .. 30 -> Bit], NEW bkn \in [1 .. 216 -> Bit],
           NEW adj1 \in [1 .. 2 -> Bit], NEW adj2 \in [1 .. 2 -> Bit], NEW start \in 0 .. 3, NEW prev
    PROVE  BlocksOf(Unpacked(Phases(SyncBurst(sb, bb, bkn, adj1, adj2), start), prev), "sync")
               = <<[type |-> "SB1", blk_num |-> 1, bits |-> sb], [type |-> "BBK", blk_num |-> 0, bits |-> bb],
                   [type |-> "SB2", blk_num |-> 2, bits |-> bkn]>>
<1>1. PICK bits : bits = SyncBurst(sb, bb, bkn, adj1, adj2)
    OBVIOUS
<1>2. /\ bits \in [1 .. 510 -> Bit]
      /\ Holds(bits, 510, 94, sb, 120) /\ Holds(bits, 510, 252, bb, 30) /\ Holds(bits, 510, 282, bkn, 216)
    BY <1>1, SyncBurstIs
<1>3. PICK read : read = Unpacked(Phases(bits, start), prev)
    OBVIOUS
<1>4. /\ Holds(read, 510, 94, sb, 120) /\ Holds(read, 510, 252, bb, 30) /\ Holds(read, 510, 282, bkn, 216)
  <2>1. ReadAs(read, bits, 510)
        BY ONLY <1>2, <1>3, start \in 0 .. 3, SymbolsRead
  <2>2. Holds(read, 510, 94, sb, 120)
        BY <1>2, <2>1, HeldAsRead
  <2>3. Holds(read, 510, 252, bb, 30)
        BY <1>2, <2>1, HeldAsRead
  <2>4. Holds(read, 510, 282, bkn, 216)
        BY <1>2, <2>1, HeldAsRead
  <2>   QED  BY ONLY <2>2, <2>3, <2>4
<1>5. Cut(read, 94, 120) = sb /\ Cut(read, 252, 30) = bb /\ Cut(read, 282, 216) = bkn
  <2>1. Piece(sb, 120) /\ Piece(bb, 30) /\ Piece(bkn, 216)
        BY DEF Piece
  <2>   QED  BY ONLY <1>4, <2>1, CutIs
<1>6. BlocksOf(read, "sync")
          = <<[type |-> "SB1", blk_num |-> 1, bits |-> Cut(read, 94, 120)],
              [type |-> "BBK", blk_num |-> 0, bits |-> Cut(read, 252, 30)],
              [type |-> "SB2", blk_num |-> 2, bits |-> Cut(read, 282, 216)]>>
    BY DEF BlocksOf, SB_BLK1_OFFSET, SB_BBK_OFFSET, SB_BLK2_OFFSET
<1> QED BY ONLY <1>1, <1>3, <1>5, <1>6

\* So are those of a normal burst, the two halves of its access assignment put together.
THEOREM NormBlocksAreCutOut ==
    ASSUME NEW bkn1 \in [1 .. 216 -> Bit], NEW bb \in [1 .. 30 -> Bit], NEW bkn2 \in [1 .. 216 -> Bit],
           NEW two \in BOOLEAN, NEW adj1 \in [1 .. 2 -> Bit], NEW adj2 \in [1 .. 2 -> Bit],
           NEW start \in 0 .. 3, NEW prev
    PROVE  LET read == Unpacked(Phases(NormBurst(bkn1, bb, bkn2, two, adj1, adj2), start), prev)
               bbk == [type |-> "BBK", blk_num |-> 0, bits |-> bb]
           IN  /\ BlocksOf(read, "norm1") = <<bbk, [type |-> "SCH_F", blk_num |-> 0, bits |-> bkn1 \o bkn2]>>
               /\ BlocksOf(read, "norm2") = <<bbk, [type |-> "NDB", blk_num |-> 1, bits |-> bkn1],
                                              [type |-> "NDB", blk_num |-> 2, bits |-> bkn2]>>
<1>1. PICK bits, bb1, bb2 : /\ bits = NormBurst(bkn1, bb, bkn2, two, adj1, adj2)
                            /\ bb1 = SubSeq(bb, 1, 14) /\ bb2 = SubSeq(bb, 15, 30)
    OBVIOUS
<1>2. /\ bits \in [1 .. 510 -> Bit]
      /\ Holds(bits, 510, 14, bkn1, 216) /\ Holds(bits, 510, 230, bb1, 14)
      /\ Holds(bits, 510, 266, bb2, 16) /\ Holds(bits, 510, 282, bkn2, 216)
    BY <1>1, NormBurstIs
<1>3. PICK read : read = Unpacked(Phases(bits, start), prev)
    OBVIOUS
<1>4. /\ Holds(read, 510, 14, bkn1, 216) /\ Holds(read, 510, 230, bb1, 14)
      /\ Holds(read, 510, 266, bb2, 16) /\ Holds(read, 510, 282, bkn2, 216)
  <2>1. ReadAs(read, bits, 510)
        BY ONLY <1>2, <1>3, start \in 0 .. 3, SymbolsRead
  <2>2. Holds(read, 510, 14, bkn1, 216)
        BY <1>2, <2>1, HeldAsRead
  <2>3. Holds(read, 510, 230, bb1, 14)
        BY <1>2, <2>1, HeldAsRead
  <2>4. Holds(read, 510, 266, bb2, 16)
        BY <1>2, <2>1, HeldAsRead
  <2>5. Holds(read, 510, 282, bkn2, 216)
        BY <1>2, <2>1, HeldAsRead
  <2>   QED  BY ONLY <2>2, <2>3, <2>4, <2>5
<1>5. Piece(bkn1, 216) /\ Piece(bkn2, 216) /\ Piece(bb1, 14) /\ Piece(bb2, 16)
  <2>1. Piece(bb, 30) /\ Piece(bkn1, 216) /\ Piece(bkn2, 216)
        BY DEF Piece
  <2>2. Piece(SubSeq(bb, 1, 14), 14) /\ Piece(SubSeq(bb, 15, 30), 16)
        BY <2>1, PieceOfPiece
  <2>   QED  BY <1>1, <2>1, <2>2
<1>6. Cut(read, 14, 216) = bkn1 /\ Cut(read, 230, 14) = bb1 /\ Cut(read, 266, 16) = bb2 /\ Cut(read, 282, 216) = bkn2
    BY ONLY <1>4, <1>5, CutIs
<1>7. bb1 \o bb2 = bb
  <2>1. PICK n, a : n = 30 /\ a = 14
        OBVIOUS
  <2>2. Piece(bb, n) /\ a \in Nat /\ a <= n
        BY <2>1 DEF Piece
  <2>3. SubSeq(bb, 1, a) \o SubSeq(bb, a + 1, n) = bb
        BY ONLY <2>2, PartsJoin
  <2>   QED  BY <1>1, <2>1, <2>3
<1>8. LET bbk == [type |-> "BBK", blk_num |-> 0, bits |-> Cut(read, 230, 14) \o Cut(read, 266, 16)]
      IN  /\ BlocksOf(read, "norm1")
                 = <<bbk, [type |-> "SCH_F", blk_num |-> 0, bits |-> Cut(read, 14, 216) \o Cut(read, 282, 216)]>>
          /\ BlocksOf(read, "norm2")
                 = <<bbk, [type |-> "NDB", blk_num |-> 1, bits |-> Cut(read, 14, 216)],
                     [type |-> "NDB", blk_num |-> 2, bits |-> Cut(read, 282, 216)]>>
    BY Zenon DEF BlocksOf, NDB_BLK1_OFFSET, NDB_BLK2_OFFSET, NDB_BBK1_OFFSET, NDB_BBK2_OFFSET
<1>9. /\ BlocksOf(read, "norm1") = <<[type |-> "BBK", blk_num |-> 0, bits |-> bb],
                                      [type |-> "SCH_F", blk_num |-> 0, bits |-> bkn1 \o bkn2]>>
      /\ BlocksOf(read, "norm2") = <<[type |-> "BBK", blk_num |-> 0, bits |-> bb],
                                      [type |-> "NDB", blk_num |-> 1, bits |-> bkn1],
                                      [type |-> "NDB", blk_num |-> 2, bits |-> bkn2]>>
    BY ONLY <1>6, <1>7, <1>8
<1> QED BY ONLY <1>1, <1>3, <1>9
=============================================================================
