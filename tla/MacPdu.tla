------------------------------- MODULE MacPdu -------------------------------
(***************************************************************************)
(* The decoding of MAC PDUs (decoder/src/tetra_mac_pdu.c) as far as it     *)
(* decides where things are: the length of a PDU, where its TM-SDU starts, *)
(* and the carriers named by a SYSINFO PDU.                                *)
(*                                                                         *)
(* A PDU is a record of the fields these depend on:                        *)
(*   li     the length indicator of a resource or a MAC-END, 0 .. 63       *)
(*   addr   the address type, 0 .. 7                                       *)
(*   power, grant   whether the optional elements are there                *)
(*   alloc  the channel allocation, a sequence of at most one element      *)
(*   enc    whether it is encrypted                                        *)
(*   fill   how many fill bits end it, 0 when their flag is not set        *)
(***************************************************************************)
EXTENDS Integers, Sequences

OneOf(cond, bits) == IF cond THEN bits ELSE 0

\* Type-1 bits of a block (tetra_blk_param).
Type1Bits(type) ==
    CASE type = "SB1" -> 60
      [] type \in {"SB2", "NDB"} -> 124
      [] type = "SCH_F" -> 268
      [] type = "BBK" -> 14

EINVAL == 22
SecondStolen == -2              \* MACPDU_LEN_2ND_STOLEN
StartFrag == -1                 \* MACPDU_LEN_START_FRAG

\* decode_length: in octets, or a special value.
DecodeLength(li) ==
    CASE li \in {0, 59, 60, 61} -> -EINVAL
      [] li = 62 -> SecondStolen
      [] li = 63 -> StartFrag
      [] li \in 1 .. 58 -> li

NullAddr == 0                   \* ADDR_TYPE_NULL
AddrBits == <<24, 10, 24, 24, 34, 30, 34>>      \* addr_len_by_type

\* macpdu_decode_chan_alloc: the bits the element takes.
ChanAllocBits(a) ==
    25 + OneOf(a.ext, 10) + OneOf(a.monit = 0, 2)
    + OneOf(a.ul_dl = 0, 35 + OneOf(a.nap, 11) + OneOf(a.condA, 16) + OneOf(a.condB, 16))

AllocBits(p) == IF p.alloc = <<>> THEN 0 ELSE ChanAllocBits(p.alloc[1])

\* macpdu_decode_resource: the offset of the TM-SDU, of which an encrypted channel
\* allocation is not yet part.
DecodeResource(p) ==
    IF p.addr = NullAddr THEN 0
    ELSE 16 + AddrBits[p.addr] + 1 + OneOf(p.power, 4) + 1 + OneOf(p.grant, 8) + 1
         + OneOf(~p.enc, AllocBits(p))

-----------------------------------------------------------------------------
(* Where the parsers of the upper MAC (tetra_upper_mac.c) find the TM-SDU  *)
(* of a PDU that begins at offset "at" of a block of n bits; key says      *)
(* whether there is a key for it, active whether its fragslot is.          *)

\* rx_resrc.  A length given replaces the end of the block.
L1Len(p, at, n) ==
    LET len == DecodeLength(p.li)
    IN  (IF len \in {SecondStolen, StartFrag} THEN n - at ELSE len * 8) - p.fill

ResourceHeader(p, key) ==
    DecodeResource(p) + OneOf(p.enc /\ key # 0, AllocBits(p))

MutResourceResult(p) ==                     \* what macpdu_decode_resource returned
    LET len == DecodeLength(p.li)
    IN  IF len \in {SecondStolen, StartFrag} THEN -1
        ELSE IF p.addr = NullAddr THEN 0 ELSE len * 8
ResourceResult(p) ==
    LET len == DecodeLength(p.li)
    IN  IF len \in {SecondStolen, StartFrag} \/ p.addr = NullAddr THEN -1 ELSE len * 8

\* rx_macfrag.
FragHeader == 4

\* rx_macend: two bits of type, one of subtype, the fill flag, the position of the
\* grant, six of length; the rest is parsed if a message is being assembled.
MutEndHeader(p) == 11 + 1 + OneOf(p.grant, 8) + AllocBits(p)    \* a flag forgotten
EndHeader(p) == 11 + 1 + OneOf(p.grant, 8) + 1 + AllocBits(p)

MutEndResult(p) == p.li * 8 - p.fill        \* the fill bits stripped
EndResult(p) == p.li * 8

-----------------------------------------------------------------------------
(* The carriers (tetra_common.c), in Hz.  The code computes with unsigned  *)
(* numbers of 32 bits; here the residue nearest to 0 stands for a number.  *)

\* tetra_carrier_offset.
CarrierOffset == [o \in 0 .. 3 |-> <<0, 6250, -6250, 12500>>[o + 1]]

DlCarrierHz(band, carrier, offset) ==
    band * 100000000 + carrier * 25000 + CarrierOffset[offset]

\* What an int16_t holds of a number.
Int16(n) == ((n + 32768) % 65536) - 32768

\* tetra_duplex_spacing: for which bands there is a spacing of how many kHz.
Spacings ==
    [d \in 0 .. 7 |->
        CASE d = 0 -> {<<{1}, 1600>>, <<2 .. 6, 10000>>}
          [] d = 1 -> {<<{1}, 4500>>, <<{3}, 36000>>, <<{4}, 7000>>, <<{8, 9}, 45000>>}
          [] d = 2 -> {<<0 .. 15, 0>>}
          [] d = 3 -> {<<{3, 4}, 8000>>, <<{8, 9}, 18000>>}
          [] d = 4 -> {<<{3}, 18000>>, <<{4}, 5000>>, <<{6, 7}, 30000>>, <<{9}, 39000>>}
          [] d = 5 -> {<<{4}, 9500>>}
          [] d \in 6 .. 7 -> {}]

Reserved(duplex, band) == ~\E s \in Spacings[duplex] : band \in s[1]

\* An entry of the table as it is stored: a spacing above 32767 kHz becomes negative.
DuplexSpacing(duplex, band) ==
    IF Reserved(duplex, band) THEN -1
    ELSE Int16((CHOOSE s \in Spacings[duplex] : band \in s[1])[2])

\* The test for a spacing below 0 is never true of an unsigned number.
UlCarrierHz(band, carrier, offset, duplex, reverse) ==
    LET dl == DlCarrierHz(band, carrier, offset)
        spacing == DuplexSpacing(duplex, band) * 1000
    IN  IF reverse THEN dl + spacing ELSE dl - spacing
=============================================================================
