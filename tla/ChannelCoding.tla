--------------------------- MODULE ChannelCoding ---------------------------
(***************************************************************************)
(* The channel coding of the lower MAC (decoder/src/lower_mac), bit by bit *)
(* and block by block.  Type-1 bits get a CRC (type 2), a convolutional    *)
(* code that is punctured (3), an interleaving (4) and a scrambling (5);   *)
(* and back.  Bits are 0 and 1 in sequences; a bit that was punctured is   *)
(* Erased when it comes back.                                              *)
(*                                                                         *)
(* Sequences that are used more than once are made with SubSeq from        *)
(* functions, so that TLC computes their elements once.                    *)
(***************************************************************************)
EXTENDS Integers, Sequences

\* tetra_blk_param.
BlkParam ==
    [SB1    |-> [type345 |-> 120, type2 |-> 80, type1 |-> 60, a |-> 11],
     SB2    |-> [type345 |-> 216, type2 |-> 144, type1 |-> 124, a |-> 101],
     NDB    |-> [type345 |-> 216, type2 |-> 144, type1 |-> 124, a |-> 101],
     SCH_F  |-> [type345 |-> 432, type2 |-> 288, type1 |-> 268, a |-> 103]]

Bits(f, n) == SubSeq(f, 1, n)
Xor(x, y) == (x + y) % 2
BitOf(v, i) == (v \div 2^i) % 2

ToBits(v, len) == Bits([i \in 1 .. len |-> BitOf(v, len - i)], len)

\* op(x), with x computed before.
Strict(op(_), x) == CHOOSE y \in {op(z) : z \in {x}} : TRUE

\* The loops of the code: body(v, i) for the n values of i after the first `done`, where v
\* is what it made before.
Turns(body(_, _), v, done, n) ==
    LET made[i \in 0 .. n] ==
            IF i = 0 THEN v ELSE LET turn(x) == body(x, done + i) IN Strict(turn, made[i - 1])
    IN  made[n]

\* For i from 1 to n.  By sixteens, as the stack of TLC is limited.
Loop(body(_, _), v, n) ==
    LET sixteen(x, j) == Turns(body, x, 16 * (j - 1), 16)
        rest(x) == Turns(body, x, 16 * (n \div 16), n % 16)
    IN  Strict(rest, Turns(sixteen, v, 0, n \div 16))

\* bits_to_uint, of the len bits after the first off.
Uint(bits, off, len) ==
    LET shift(v, i) == 2 * v + bits[off + i] IN Loop(shift, 0, len)

-----------------------------------------------------------------------------
(* Block interleaving. *)

MutInterleaveIndex(k, a, i) == i                \* no interleaving
\* block_interl_func.
InterleaveIndex(k, a, i) == 1 + ((a * i) % k)

\* The inverse of a modulo k finds the bit that comes to a place.
Interleave(k, a, in) ==
    LET from == [p \in 1 .. k |-> CHOOSE i \in 1 .. k : InterleaveIndex(k, a, i) = p]
    IN  Bits([p \in 1 .. k |-> in[from[p]]], k)
Deinterleave(k, a, in) == Bits([i \in 1 .. k |-> in[InterleaveIndex(k, a, i)]], k)

-----------------------------------------------------------------------------
(* Scrambling: a shift register of 32 bits, the first one its highest. *)

MutScramblingInit(cell) ==                      \* without the colour code
    ToBits(cell.mcc, 10) \o ToBits(cell.mnc, 14) \o ToBits(0, 6) \o <<1, 1>>
\* tetra_scramb_get_init, and SCRAMB_INIT for SB1.
ScramblingInit(cell) ==
    ToBits(cell.mcc, 10) \o ToBits(cell.mnc, 14) \o ToBits(cell.cc, 6) \o <<1, 1>>
SCRAMB_INIT == ToBits(0, 30) \o <<1, 1>>

NextLfsrBit(s) == Xor(s[32] + s[26] + s[23] + s[22] + s[16] + s[12] + s[11],
                      s[10] + s[8] + s[7] + s[5] + s[4] + s[2] + s[1])

\* tetra_scramb_get_bits: what is shifted in is the output, latest first in s.
ScramblingBits(lfsr, n) ==
    LET shift(s, i) == <<NextLfsrBit(s)>> \o s
        s == Loop(shift, lfsr, n)
    IN  Bits([i \in 1 .. n |-> s[n + 1 - i]], n)

\* tetra_scramb_bits, with the bits computed before.
Scramble(stream, in) == Bits([i \in 1 .. Len(in) |-> Xor(in[i], stream[i])], Len(in))

-----------------------------------------------------------------------------
(* CRC: a register of 16 bits, the first one its highest. *)

TETRA_CRC_OK == <<0,0,0,1, 1,1,0,1, 0,0,0,0, 1,1,1,1>>      \* 0x1d0f
GEN_POLY == <<0,0,0,1, 0,0,0,0, 0,0,1,0, 0,0,0,1>>          \* 0x1021

CrcInit == ToBits(65535, 16)

\* One bit of crc16_itut_bits.
CrcBit(crc, bit) ==
    LET carry == Xor(crc[1], bit)
    IN  Bits([i \in 1 .. 16 |-> Xor(IF i < 16 THEN crc[i + 1] ELSE 0, carry * GEN_POLY[i])], 16)

\* crc16_ccitt_bits, of the first n bits.
Crc(in, n) ==
    LET take(crc, i) == CrcBit(crc, in[i]) IN Loop(take, CrcInit, n)

-----------------------------------------------------------------------------
(* The convolutional code and its puncturing. *)

\* conv_enc_in_bit, by the bits that came before.
ConvEnc(in) ==
    LET b(i) == IF i > 0 THEN in[i] ELSE 0
        g(i) == <<Xor(b(i) + b(i - 1), b(i - 4)), Xor(b(i) + b(i - 2), b(i - 3) + b(i - 4)),
                  Xor(b(i) + b(i - 1), b(i - 2) + b(i - 4)), Xor(b(i) + b(i - 1), b(i - 3) + b(i - 4))>>
        n == 4 * Len(in)
    IN  Bits([k \in 1 .. n |-> g((k + 3) \div 4)[((k + 3) % 4) + 1]], n)

\* Where the bits of the mother code are that are kept: P_rate2_3 in a period of 8, the
\* only puncturing that is used.
P_rate2_3 == <<1, 2, 5>>
Erased == 255

\* get_punctured_rate.
Punctured(mother, n) ==
    Bits([j \in 1 .. n |-> mother[(8 * ((j - 1) \div 3)) + P_rate2_3[((j - 1) % 3) + 1]]], n)

\* tetra_rcpc_depunct, into n bits.
Depunctured(in, n) ==
    LET at(k) == ((k - 1) % 8) + 1
        j(k) == 3 * ((k - 1) \div 8)
    IN  Bits([k \in 1 .. n |-> CASE at(k) = 1 -> in[j(k) + 1]
                                 [] at(k) = 2 -> in[j(k) + 2]
                                 [] at(k) = 5 -> in[j(k) + 3]
                                 [] OTHER -> Erased], n)

-----------------------------------------------------------------------------
(* The Viterbi decoder for it: of the two ways into each of 16 states the  *)
(* one with the greater metric survives.                                   *)

K == 5
N == 4
INT8_MAX == 127
INT16_MAX == 32767

\* viterbi_dec_sb1_wrapper.
Soft(bit) == CASE bit = 0 -> INT8_MAX [] bit = Erased -> 0 [] OTHER -> -INT8_MAX

\* conv_cch_next_output: the output for an input of 0.
NextOutput == <<0, 11, 6, 13, 5, 14, 3, 8, 15, 4, 9, 2, 10, 1, 12, 7>>

\* The code is taken to be flushed after n bits; of those that flush it nothing is known.
TrellisLength(n) == n + K - 1
SoftBits(mother, n) ==
    LET len == N * TrellisLength(n)
    IN  Bits([k \in 1 .. len |-> IF k <= N * n THEN Soft(mother[k]) ELSE 0], len)

\* vstate_lshift: the state before, by the bit that was shifted out; and bitswap4.
LShift(reg, val) == ((2 * reg) % 16) + val
BitSwap(v) == 8 * BitOf(v, 0) + 4 * BitOf(v, 1) + 2 * BitOf(v, 2) + BitOf(v, 3)

\* gen_state_info: what is sent on the way into states 0 to 7 from the first of the two
\* states before, as +1 and -1.  The decoder shifts its register the other way.
Outputs ==
    LET out(state) == BitSwap(NextOutput[BitSwap(LShift(state, 0)) + 1])
    IN  Bits([s \in 1 .. 8 |-> Bits([i \in 1 .. N |-> 1 - 2 * BitOf(out(s - 1), i - 1)], N)], 8)

MutInterval == 200
\* The metrics are reduced once in so many steps, that they fit into 16 bits.
Interval == INT16_MAX \div (N * INT8_MAX) - K

\* What the decoder starts with: the encoder was in state 0.
FreshSums == Bits([s \in 1 .. 16 |-> <<IF s = 1 THEN INT8_MAX * N * K ELSE 0, 0>>], 16)

MetricsOf(sums) == {sums[s][1] : s \in 1 .. 16}
Greatest(S) == CHOOSE m \in S : \A n \in S : n <= m
Least(S) == CHOOSE m \in S : \A n \in S : m <= n

\* acs_butterfly: the greater metric, and which way it came.
Survivor(sum0, sum1) == IF sum0 >= sum1 THEN <<sum0, 0>> ELSE <<sum1, 1>>

\* gen_branch_metrics_n4, for the four symbols after the first k.
Metrics(outputs, soft, k) ==
    Bits([s \in 1 .. 8 |-> soft[k + 1] * outputs[s][1] + soft[k + 2] * outputs[s][2]
                          + soft[k + 3] * outputs[s][3] + soft[k + 4] * outputs[s][4]], 8)

\* gen_path_metrics, before the normalisation: with each state its metric and the way.
Step(sums, metric) ==
    Bits([s \in 1 .. 16 |->
            IF s <= 8 THEN Survivor(sums[2 * s - 1][1] + metric[s], sums[2 * s][1] - metric[s])
            ELSE Survivor(sums[2 * s - 17][1] - metric[s - 8], sums[2 * s - 16][1] + metric[s - 8])], 16)

\* And after it, which is done in step i or not.
Normalises(i) == (i - 1) % Interval = 0
Normalised(sums) ==
    LET min == Least(MetricsOf(sums)) IN Bits([s \in 1 .. 16 |-> <<sums[s][1] - min, sums[s][2]>>], 16)
Kept(sums, i) == IF Normalises(i) THEN Normalised(sums) ELSE sums

\* forward_traverse: FreshSums and what each step of the trellis made of them, and the
\* greatest metric, which is met before a normalisation or in the end.
Reached(before, sums, i, len) ==
    [steps |-> Append(before.steps, Kept(sums, i)),
     max |-> IF Normalises(i) \/ i = len THEN Greatest({before.max} \cup MetricsOf(sums)) ELSE before.max]
Traverse(outputs, soft, len, before, i) ==
    LET reach(sums) == Reached(before, sums, i, len)
    IN  Strict(reach, Step(before.steps[i], Metrics(outputs, soft, N * (i - 1))))
Forward(soft, len) ==
    LET outputs == Outputs
        traverse(before, i) == Traverse(outputs, soft, len, before, i)
    IN  Loop(traverse, [steps |-> <<FreshSums>>, max |-> 0], len)

\* The state before, as the survivor of a state tells it, and the bit that led
\* from there.
Before(sums, state) == LShift(state, sums[state + 1][2])
BitInto(state) == state \div 8

\* _traceback, from state 0 after len steps.
Traceback(steps, len) ==
    LET back(after, i) == [state |-> Before(steps[len + 2 - i], after.state),
                           bits |-> <<BitInto(after.state)>> \o after.bits]
    IN  Loop(back, [state |-> 0, bits |-> <<>>], len).bits

\* osmo_conv_decode, for n bits.
ConvDecode(mother, n) ==
    LET len == TrellisLength(n)
        result(forward) == [bits |-> SubSeq(Traceback(forward.steps, len), 1, n), max |-> forward.max]
    IN  Strict(result, Forward(SoftBits(mother, n), len))

-----------------------------------------------------------------------------
(* A block.                                                                *)

\* What the decoding in tp_sap_udata_ind makes of a block before the Viterbi decoder, and
\* of all of it.
Received(p, in, stream) ==
    Depunctured(Deinterleave(p.type345, p.a, Scramble(stream, in)), N * p.type2)
DecodeBlock(type, in, stream) ==
    LET p == BlkParam[type]
        result(type2) == [crc_ok |-> Crc(type2.bits, p.type1 + 16) = TETRA_CRC_OK,
                          bits |-> SubSeq(type2.bits, 1, p.type1), max |-> type2.max]
    IN  Strict(result, ConvDecode(Received(p, in, stream), p.type2))

\* What the base station does: it sends the CRC inverted, and four zeros after it.
Type2(type1, crc) == type1 \o Bits([i \in 1 .. 16 |-> 1 - crc[i]], 16) \o <<0, 0, 0, 0>>
Type5(p, type2, stream) ==
    Scramble(stream, Interleave(p.type345, p.a, Punctured(ConvEnc(type2), p.type345)))
EncodeBlock(type, type1, stream) ==
    LET p == BlkParam[type] IN Type5(p, Type2(type1, Crc(type1, p.type1)), stream)
=============================================================================
