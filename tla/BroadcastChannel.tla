-------------------------- MODULE BroadcastChannel --------------------------
(***************************************************************************)
(* A receiver on the grid of a cell that sends synchronisation bursts in   *)
(* its broadcast slots and normal bursts beside them, bit by bit: the      *)
(* blocks are encoded, laid out and sent as symbols; the training sequence *)
(* is found, the blocks are cut out, descrambled with the identity of the  *)
(* cell as far as it is known, decoded and taken by the lower MAC.  Any    *)
(* burst may have a run of errors, and any may be another cell's.          *)
(*                                                                         *)
(* The bursts of the frames before the last of a multiframe are counted,   *)
(* and their content is left out.                                          *)
(***************************************************************************)
EXTENDS TetraTdma, Burst

CONSTANTS
    Own, Foreign,   \* two cells, [mcc, mnc, cc], sending at the same time
    ForeignIn,      \* the multiframes in which a burst may be the foreign cell's
    Hits            \* the runs of errors offered: len of them in a block, from a place that
                    \* moves by step with the multiframe, [blk, len, start, step, in], in
                    \* some of the multiframes

\* A SYNC PDU has room for all of them.
ASSUME BroadcastAssumption ==
    /\ MaxFn >= 2 /\ MaxFn < 32 /\ MaxMn >= 2 /\ MaxMn < 64
    /\ \A cell \in {Own, Foreign} :
          /\ cell.mcc \in Nat /\ cell.mcc < 1024
          /\ cell.mnc \in Nat /\ cell.mnc < 16384
          /\ cell.cc \in Nat /\ cell.cc < 64

VARIABLES
    elapsed,        \* slots sent since 1/1/1, modulo one hyperframe
    tcd,            \* the struct tetra_cell_data, but for its time: [mcc, mnc, cc, scramb_init]
    time,           \* t_phy_state.time
    heard,          \* what the lower MAC made of the blocks of this slot
    last            \* history: whose burst was received in this slot, with which errors

vars == <<elapsed, tcd, time, heard, last>>

\* _tcd, in static storage.
NoCell == [mcc |-> 0, mnc |-> 0, cc |-> 0, scramb_init |-> Zeros(32)]
NoHit == [blk |-> "none", at |-> 0, len |-> 0]
NoBurst == [cell |-> NoCell, hit |-> NoHit]

Init == elapsed = 0 /\ tcd = NoCell /\ time = ZeroTime /\ heard = <<>> /\ last = NoBurst

-----------------------------------------------------------------------------
(* The base station.                                                       *)

\* What time it is, from the number of slots alone.
TimeAt(slots) ==
    [hn |-> 0, sn |-> 1, tn |-> (slots % 4) + 1, fn |-> ((slots \div 4) % MaxFn) + 1,
     mn |-> ((slots \div (4 * MaxFn)) % MaxMn) + 1]
tm == TimeAt(elapsed)

\* The SYNC PDU of a cell.
SyncPdu(cell, t) ==
    ToBits(1, 4) \o ToBits(cell.cc, 6) \o ToBits(t.tn - 1, 2) \o ToBits(t.fn, 5) \o ToBits(t.mn, 6)
        \o ToBits(129, 8) \o ToBits(cell.mcc, 10) \o ToBits(cell.mnc, 14) \o ToBits(9, 5)
\* Some bits for the other blocks, n of them.
Payload(t, n) == Bits([i \in 1 .. n |-> IF (i * i * 7 + i * t.mn + t.tn) % 11 < 5 THEN 1 ELSE 0], n)

\* What is sent in a slot of the last frame, in two of which there is a broadcast channel
\* (EN 300 392-2, clause 9.5.2): type-1 bits by block, and the burst.
Bsch(t) == t.fn = MaxFn /\ (t.mn + t.tn) % 4 = 3
Bnch(t) == t.fn = MaxFn /\ (t.mn + t.tn) % 4 = 1
Kind(t) == IF Bsch(t) \/ Bnch(t) THEN "sync" ELSE IF t.tn % 2 = 0 THEN "norm1" ELSE "norm2"
Sent(cell, t, type) == IF type = "SB1" THEN SyncPdu(cell, t)
                       ELSE Payload(t, IF type = "BBK" THEN 14 ELSE BlkParam[type].type1)
BurstOf(cell, t) ==
    LET stream == ScramblingBits(ScramblingInit(cell), 432)
        enc(type) == EncodeBlock(type, Sent(cell, t, type),
                                 IF type = "SB1" THEN ScramblingBits(SCRAMB_INIT, 120) ELSE stream)
        bbk == Scramble(stream, RM3014(Sent(cell, t, "BBK")))
        sch_f == enc("SCH_F")
        adj1 == ToBits(t.mn % 4, 2)
        adj2 == ToBits(t.tn % 4, 2)
    IN  CASE Kind(t) = "sync"  -> SyncBurst(enc("SB1"), bbk, enc("SB2"), adj1, adj2)
          [] Kind(t) = "norm1" -> NormBurst(SubSeq(sch_f, 1, 216), bbk, SubSeq(sch_f, 217, 432), FALSE, adj1, adj2)
          [] Kind(t) = "norm2" -> NormBurst(enc("NDB"), bbk, enc("NDB"), TRUE, adj1, adj2)

-----------------------------------------------------------------------------
(* The channel: the symbols arrive turned by any number of quarters, after *)
(* one of any phase, and some of them are taken for others.                *)

\* The bits of a burst in which a block is, one after the other.
Places(blk) ==
    CASE blk = "SB1" -> [i \in 1 .. 120 |-> SB_BLK1_OFFSET + i]
      [] blk = "BBK" -> [i \in 1 .. 30 |-> SB_BBK_OFFSET + i]
      [] blk = "SB2" -> [i \in 1 .. 216 |-> SB_BLK2_OFFSET + i]
      [] blk = "NDB" -> [i \in 1 .. 216 |-> NDB_BLK2_OFFSET + i]
      [] blk = "SCH_F" -> [i \in 1 .. 432 |-> IF i <= 216 THEN NDB_BLK1_OFFSET + i ELSE NDB_BLK2_OFFSET + i - 216]

Blocks(kind) == CASE kind = "sync" -> {"SB1", "BBK", "SB2"} [] kind = "norm1" -> {"SCH_F"} [] kind = "norm2" -> {"NDB"}
Size(blk) == IF blk = "BBK" THEN 30 ELSE BlkParam[blk].type345
HitsAt(t) == {[blk |-> h.blk, len |-> h.len,
               at |-> (h.start + h.step * t.mn) % (Size(h.blk) - h.len + 1)] :
                 h \in {g \in Hits : g.blk \in Blocks(Kind(t)) /\ t.mn \in g.in}}

Arrived(burst, hit, t) ==
    LET bits == Unpacked(Phases(burst, t.mn % 4), t.tn % 4)
        wrong == IF hit = NoHit THEN {} ELSE {Places(hit.blk)[hit.at + i] : i \in 1 .. hit.len}
    IN  Bits([k \in 1 .. Len(bits) |-> IF k \in wrong THEN 1 - bits[k] ELSE bits[k]], Len(bits))

-----------------------------------------------------------------------------
(* The lower MAC.                                                          *)

\* What tp_sap_udata_ind takes from a SYNC PDU.
Cell(cell, bits) ==
    LET id == [mcc |-> Uint(bits, 31, 10), mnc |-> Uint(bits, 41, 14), cc |-> Uint(bits, 4, 6)]
    IN  [mcc |-> id.mcc, mnc |-> id.mnc, cc |-> id.cc, scramb_init |-> ScramblingInit(id)]
Time(t, bits) ==
    [t EXCEPT !.tn = Uint(bits, 10, 2) + 1, !.fn = Uint(bits, 12, 5), !.mn = Uint(bits, 17, 6)]

\* tp_sap_udata_ind: what it makes of the state r of the receiver with a block in which
\* `sent` was sent, once that is decoded.
Decoded(r, blk, sent, code, decoded) ==
    LET sync == blk.type = "SB1" /\ decoded.crc_ok
    IN  [tcd |-> IF sync THEN Cell(r.tcd, decoded.bits) ELSE r.tcd,
         time |-> IF sync THEN Time(r.time, decoded.bits) ELSE r.time,
         heard |-> Append(r.heard,
             [type |-> blk.type, blk_num |-> blk.blk_num, scrambling_code |-> code,
              bnch |-> blk.type = "SB2" /\ IsBnch(r.time), crc_ok |-> decoded.crc_ok,
              intact |-> decoded.bits = sent, max |-> decoded.max])]
UdataInd(r, blk, sent) ==
    LET code == IF blk.type = "SB1" THEN SCRAMB_INIT ELSE r.tcd.scramb_init
        stream == ScramblingBits(code, Len(blk.bits))
        result(decoded) == Decoded(r, blk, sent, code, decoded)
    IN  Strict(result, IF blk.type = "BBK"
                       THEN [crc_ok |-> TRUE, max |-> 0, bits |-> RM3014Decode(Scramble(stream, blk.bits))]
                       ELSE DecodeBlock(blk.type, blk.bits, stream))

-----------------------------------------------------------------------------
\* tetra_burst_sync_in counts a slot, on the grid.
NextSlot ==
    /\ tm.fn = MaxFn => last # NoBurst
    /\ elapsed' = (elapsed + 1) % (4 * MaxFn * MaxMn)
    /\ time' = AddTn(time, 1)
    /\ heard' = <<>>
    /\ last' = NoBurst
    /\ UNCHANGED tcd

\* tetra_burst_sync_in finds the burst in it, if its training sequence is where it should
\* be, and tetra_burst_rx_cb its blocks.
Found(burst) ==
    LET found == FindTrainSeq(burst)
    IN  IF found.offset = (IF found.type = "sync" THEN 214 ELSE 244)
        THEN BlocksOf(burst, found.type) ELSE <<>>

\* The lower MAC takes them one after the other.
Taken(blocks, cell) ==
    LET take(r, i) == UdataInd(r, blocks[i], Sent(cell, tm, blocks[i].type))
    IN  Turns(take, [tcd |-> tcd, time |-> time, heard |-> <<>>], 0, Len(blocks))

Receive(cell, hit, sent) ==
    \E burst \in {Arrived(sent, hit, tm)} : \E after \in {Taken(Found(burst), cell)} :
        /\ tcd' = after.tcd
        /\ time' = after.time
        /\ heard' = after.heard
        /\ last' = [cell |-> cell, hit |-> hit]
        /\ UNCHANGED elapsed

ReceiveBurst ==
    /\ tm.fn = MaxFn
    /\ last = NoBurst
    /\ \E cell \in {Own} \cup {c \in {Foreign} : tm.mn \in ForeignIn} :
          \E sent \in {BurstOf(cell, tm)} : \E hit \in {NoHit} \cup {h \in HitsAt(tm) : cell = Own} :
              Receive(cell, hit, sent)

Next == NextSlot \/ ReceiveBurst

Spec == Init /\ [][Next]_vars

-----------------------------------------------------------------------------
Heard == {heard[i] : i \in 1 .. Len(heard)}
Errors(h) == IF last.hit.blk = h.type /\ (h.type = "NDB" => h.blk_num = 2) THEN last.hit.len ELSE 0
CodeIsRight(h) == h.type = "SB1" \/ h.scrambling_code = ScramblingInit(last.cell)

IsKnown(cell) == tcd.mcc = cell.mcc /\ tcd.mnc = cell.mnc /\ tcd.cc = cell.cc

\* Every burst is recognised for what it is and cut into as many blocks, whichever way its
\* symbols are turned and whatever the bits beside its training sequence are
\* (tetra_find_train_seq, DQPSKSymbolExtractor::process).
BurstsAreFound ==
    last # NoBurst => {h.type : h \in Heard} = Blocks(Kind(tm)) \cup {"BBK"}

\* The longest runs of errors that are always corrected, whatever is sent in the block.
Correctable == [SB1 |-> 10, SB2 |-> 14, NDB |-> 14, SCH_F |-> 20, BBK |-> 0]

\* A run of errors that the interleaving spreads far enough is corrected, and the block
\* arrives as it was sent (block_interleave, osmo_conv_decode).  So does the access
\* assignment if its bits arrive: it is cut out of two places and not corrected.
RunsAreCorrected ==
    \A h \in Heard : CodeIsRight(h) /\ Errors(h) <= Correctable[h.type] => h.crc_ok /\ h.intact

\* What passes the CRC is what was sent: neither what too many errors left, nor the blocks
\* of another cell, nor those of a cell that is not known yet (crc16_ccitt_bits,
\* tetra_scramb_bits).
NoGarbagePasses ==
    \A h \in Heard : h.type # "BBK" /\ h.crc_ok => h.intact /\ IsKnown(last.cell)

\* From the first SYNC PDU that passes its CRC the time is that of the air, whatever
\* becomes of later ones and across every carry; the identity is one that is sent, with its
\* scrambling code (tp_sap_udata_ind, tetra_tdma_time_add_tn).
SyncTellsTime ==
    tcd # NoCell =>
        /\ time.tn = tm.tn /\ time.fn = tm.fn /\ time.mn = tm.mn
        /\ \E c \in {Own, Foreign} : IsKnown(c) /\ tcd.scramb_init = ScramblingInit(c)

\* A block is taken for the network broadcast channel in its slot and in no other, from
\* the very burst on whose SYNC PDU gives the time (is_bnch, tp_sap_udata_ind).
BnchIsNamed ==
    tcd # NoCell => \A h \in Heard : h.bnch <=> h.type = "SB2" /\ Bnch(tm)

\* The metrics of the Viterbi decoder fit into the 16 bits they are kept in, between one
\* normalisation and the next (vdec_init, gen_path_metrics).
MetricsFit == \A h \in Heard : h.max <= INT16_MAX
=============================================================================
