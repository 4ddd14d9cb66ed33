------------------------------- MODULE Burst -------------------------------
(***************************************************************************)
(* The bits of a downlink burst (decoder/src/phy/tetra_burst.c): how its   *)
(* blocks are laid out, how they are found again and cut out, and the      *)
(* symbols it is sent as, two bits each (dsp/dqpsk_sym_extr.cpp and        *)
(* dsp/bit_unpacker.cpp, with the exact phases a demodulator approximates).*)
(***************************************************************************)
EXTENDS ChannelCoding

Ones(n) == Bits([i \in 1 .. n |-> 1], n)
Zeros(n) == Bits([i \in 1 .. n |-> 0], n)

f_bits == Ones(8) \o Zeros(64) \o Ones(8)
n_bits == <<1,1, 0,1, 0,0, 0,0, 1,1, 1,0, 1,0, 0,1, 1,1, 0,1, 0,0>>
p_bits == <<0,1, 1,1, 1,0, 1,0, 0,1, 0,0, 0,0, 1,1, 0,1, 1,1, 1,0>>
q_bits == <<1,0, 1,1, 0,1, 1,1, 0,0, 0,0, 0,1, 1,0, 1,0, 1,1, 0,1>>
y_bits == <<1,1, 0,0, 0,0, 0,1, 1,0, 0,1, 1,1, 0,0, 1,1, 1,0, 1,0, 0,1, 1,1, 0,0, 0,0, 0,1, 1,0,
            0,1, 1,1>>

\* build_sync_c_d_burst and build_norm_c_d_burst; adj1 and adj2 are the bits that adjust
\* the phase, which no receiver looks at.
SyncBurst(sb, bb, bkn, adj1, adj2) ==
    SubSeq(q_bits, 11, 22) \o adj1 \o f_bits \o sb \o y_bits \o bb \o bkn
        \o adj2 \o SubSeq(q_bits, 1, 10)
NormBurst(bkn1, bb, bkn2, two_log_chan, adj1, adj2) ==
    SubSeq(q_bits, 11, 22) \o adj1 \o bkn1 \o SubSeq(bb, 1, 14)
        \o (IF two_log_chan THEN p_bits ELSE n_bits)
        \o SubSeq(bb, 15, 30) \o bkn2 \o adj2 \o SubSeq(q_bits, 1, 10)

-----------------------------------------------------------------------------
(* The access assignment is sent in a (30,14) Reed-Muller code.            *)

rm_30_14_gen ==
    <<<<1,0,0,1,1,0,1,1,0,1,1,0,0,0,0,0>>, <<0,0,1,0,1,1,0,1,1,1,1,0,0,0,0,0>>,
      <<1,1,1,1,1,1,0,0,0,0,1,0,0,0,0,0>>, <<1,1,1,0,0,0,0,0,0,0,1,1,1,1,0,0>>,
      <<1,0,0,1,1,0,0,0,0,0,1,1,1,0,1,0>>, <<0,1,0,1,0,1,0,0,0,0,1,1,0,1,1,0>>,
      <<0,0,1,0,1,1,0,0,0,0,1,0,1,1,1,0>>, <<1,1,1,1,1,1,1,1,1,1,0,1,1,1,1,1>>,
      <<1,0,0,0,0,0,1,1,0,0,1,1,1,0,0,1>>, <<0,1,0,0,0,0,1,0,1,0,1,1,0,1,0,1>>,
      <<0,0,1,0,0,0,0,1,1,0,1,0,1,1,0,1>>, <<0,0,0,1,0,0,1,0,0,1,1,1,0,0,1,1>>,
      <<0,0,0,0,1,0,0,1,0,1,1,0,1,0,1,1>>, <<0,0,0,0,0,1,0,0,1,1,1,0,0,1,1,1>>>>

\* tetra_rm3014_compute, of 14 bits, and tetra_rm3014_decode, which corrects nothing.
RM3014(in) ==
    LET add(sum, i) == IF in[i] = 1 THEN Bits([k \in 1 .. 16 |-> Xor(sum[k], rm_30_14_gen[i][k])], 16)
                       ELSE sum
    IN  in \o Loop(add, Zeros(16), 14)
RM3014Decode(in) == SubSeq(in, 1, 14)

-----------------------------------------------------------------------------
(* The symbols: a change of phase by 1, 3, -1 or -3 eighths of a circle.   *)

\* bits2phase.
Bits2Phase == <<1, -1, 3, -3>>

\* The phase of each symbol after one of phase `start`, in quarters of a circle less the
\* eighth by which the demodulator turns it back at each symbol.
Phases(bits, start) ==
    LET turn(before, n) ==
            Append(before, (before[n] + (Bits2Phase[bits[2 * n - 1] + 2 * bits[2 * n] + 1] - 1) \div 2) % 4)
    IN  Tail(Loop(turn, <<start>>, Len(bits) \div 2))

MutRemapped(phaseDiff) == phaseDiff
\* DQPSKSymbolExtractor::process: the differences of phase are not numbered in the order
\* of the symbols.
Remapped(phaseDiff) == CASE phaseDiff = 2 -> 3 [] phaseDiff = 3 -> 2 [] OTHER -> phaseDiff

\* The same for all symbols, after a symbol in quadrant prev, and BitUnpacker::process.
Unpacked(phases, prev) ==
    LET sym(quadrant) == LET a == quadrant \in {2, 3}      \* sym_c.im < 0
                             b == quadrant \in {1, 2}      \* sym_c.re < 0
                         IN  2 * (IF a THEN 1 ELSE 0) + (IF a # b THEN 1 ELSE 0)
        before(n) == IF n = 1 THEN prev ELSE phases[n - 1]
        out(n) == Remapped((sym(phases[n]) - sym(before(n)) + 4) % 4)
        n == 2 * Len(phases)
    IN  Bits([k \in 1 .. n |-> IF k % 2 = 1 THEN out((k + 1) \div 2) \div 2
                               ELSE out(k \div 2) % 2], n)

-----------------------------------------------------------------------------
(* The training sequence, and the blocks around it.                        *)

\* tetra_find_train_seq: which of three sequences comes first, and after how many bits.
\* Its filter of 22 bits starts without the bit after the first 20.
FindTrainSeq(in) ==
    LET filtered == <<0>> \o SubSeq(in, 1, 20) \o SubSeq(in, 22, Len(in))
        filter(c) == SubSeq(filtered, c + 1, c + 22)
        is(c, seq) == /\ filter(c) = SubSeq(seq, 1, 22)
                      /\ Len(in) - c >= Len(seq)
                      /\ SubSeq(in, c + 1, c + Len(seq)) = seq
        at == {c \in 0 .. Len(in) - 22 : filter(c) \in {n_bits, p_bits, SubSeq(y_bits, 1, 22)}}
        found == {c \in at : is(c, y_bits) \/ is(c, n_bits) \/ is(c, p_bits)}
    IN  IF found = {} THEN [type |-> "none", offset |-> 0]
        ELSE LET first == CHOOSE c \in found : \A d \in found : c <= d
             IN  [type |-> IF is(first, y_bits) THEN "sync" ELSE IF is(first, n_bits) THEN "norm1" ELSE "norm2",
                  offset |-> first]

SB_BLK1_OFFSET == 94
SB_BBK_OFFSET == 252
SB_BLK2_OFFSET == 282
NDB_BLK1_OFFSET == 14
NDB_BBK1_OFFSET == 230
NDB_BBK2_OFFSET == 266
NDB_BLK2_OFFSET == 282

Cut(burst, offset, n) == SubSeq(burst, offset + 1, offset + n)

\* tetra_burst_rx_cb: the blocks of a burst in the order they are passed on.
BlocksOf(burst, type) ==
    LET bbk == Cut(burst, NDB_BBK1_OFFSET, 14) \o Cut(burst, NDB_BBK2_OFFSET, 16)
        blk1 == Cut(burst, NDB_BLK1_OFFSET, 216)
        blk2 == Cut(burst, NDB_BLK2_OFFSET, 216)
        block(t, n, bits) == [type |-> t, blk_num |-> n, bits |-> bits]
    IN  CASE type = "sync" ->
                <<block("SB1", 1, Cut(burst, SB_BLK1_OFFSET, 120)),
                  block("BBK", 0, Cut(burst, SB_BBK_OFFSET, 30)),
                  block("SB2", 2, Cut(burst, SB_BLK2_OFFSET, 216))>>
          [] type = "norm2" -> <<block("BBK", 0, bbk), block("NDB", 1, blk1), block("NDB", 2, blk2)>>
          [] type = "norm1" -> <<block("BBK", 0, bbk), block("SCH_F", 0, blk1 \o blk2)>>
          [] OTHER -> <<>>
=============================================================================
