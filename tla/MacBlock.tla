------------------------------ MODULE MacBlock ------------------------------
(***************************************************************************)
(* The loop of tp_sap_udata_ind() over the MAC PDUs of a block, bit for    *)
(* bit: the length that upper_mac_prim_recv() returns says where the next  *)
(* PDU begins, and what is left between header and end goes into the       *)
(* fragslots (UpperMac).  One timeslot number, whose blocks are received;  *)
(* FragmentReceiver has lost ones.                                         *)
(*                                                                         *)
(* The base station fills a block as the loop gets to it: "pos" is where   *)
(* its next PDU begins.                                                    *)
(***************************************************************************)
EXTENDS UpperMac, MacPdu, FiniteSets

CONSTANTS
    BlockTypes,     \* the types of block sent
    Addrs,          \* address types of the resources sent
    Allocs,         \* channel allocations sent, sequences of at most one element
    SduBits,        \* lengths of the TM-SDUs that are not fragmented
    MessageBits,    \* lengths of those that are
    Bands, Duplexes \* the frequency bands and duplex spacings of SYSINFO PDUs

ASSUME MacBlockAssumption ==
    /\ Slots # {} /\ BlockTypes \subseteq {"SB2", "NDB", "SCH_F"}
    /\ Addrs \subseteq 1 .. 7 /\ SduBits \subseteq Nat /\ MessageBits \subseteq Nat
    /\ Bands \subseteq 0 .. 15 /\ Duplexes \subseteq 0 .. 7

VARIABLES
    type,           \* the type of the block
    offset,         \* of the loop
    pos,            \* where the PDU begins that is to be parsed next
    again,          \* the PDU the loop is at for a second time: none or one
    fragslot,       \* tms->fragslots[tn]
    sending,        \* the message under way; bits = 0 if there is none
    shown,          \* what the last step wrote to dl_freq and ul_freq, and of what
    last            \* history: the PDU parsed last, and what was made of it

blockVars == <<type, offset, pos, again, fragslot, sending, shown, last>>

N == Type1Bits(type)
Tn == CHOOSE s \in Slots : TRUE

-----------------------------------------------------------------------------
(* What a base station sends at pos.  sdu is the length of the TM-SDU, bits *)
(* that of the whole PDU.                                                  *)

\* A PDU of whole octets: the fill bits are the least that make them whole.
Octets(bits) == (bits + 7) \div 8

Sized(p, header) ==
    LET li == Octets(header + p.sdu)
    IN  [p EXCEPT !.li = li, !.bits = 8 * li, !.fill = 8 * li - (header + p.sdu)]

Blank ==
    [kind |-> "null", li |-> 2, addr |-> NullAddr, power |-> FALSE, grant |-> FALSE,
     alloc |-> <<>>, enc |-> FALSE, key |-> 0, fill |-> 0, sdu |-> 0, bits |-> 16]

\* The elements as EN 300 392-2 lays them out: channel allocation (table 21.82 with
\* the augmented part), the resource (21.55) and the MAC-END (21.60).
SentAlloc(c) ==
    (2 + 4 + 2 + 1 + 1 + 12) + (IF c.ext THEN 1 + 4 + 2 + 3 + 1 ELSE 1)
    + (IF c.monit = 0 THEN 4 ELSE 2)
    + (IF c.ul_dl = 0
       THEN (2 + 3 + 3 + 3 + 3 + 3 + 4 + 5) + (IF c.nap THEN 2 + 11 ELSE 2) + 4
            + (IF c.condA THEN 17 ELSE 1) + (IF c.condB THEN 17 ELSE 1) + 1
       ELSE 0)

SentOptions(p) ==
    (IF p.grant THEN 9 ELSE 1) + (IF p.alloc = <<>> THEN 1 ELSE 1 + SentAlloc(p.alloc[1]))

SentHeader(p) ==
    (2 + 1 + 1 + 2 + 1 + 6 + 3) + AddrBits[p.addr] + (IF p.power THEN 5 ELSE 1) + SentOptions(p)

SentEndHeader(p) == (2 + 1 + 1 + 1 + 6) + SentOptions(p)

\* A null PDU ends the use of a block; the rest is filled.
Nulls == { Blank }

Resource(a, g, c, e, bits) ==
    [Blank EXCEPT !.kind = "resource", !.addr = a, !.power = g, !.grant = ~g,
                  !.alloc = c, !.enc = e > 0, !.key = e \div 2, !.sdu = bits]

Resources(room) ==
    LET headers == { Resource(a, g, c, e, s) :
                        a \in Addrs, g \in BOOLEAN, c \in Allocs, e \in 0 .. 2, s \in SduBits }
    IN  { q \in { Sized(p, SentHeader(p)) : p \in headers } : q.bits <= room }

\* The first fragment of a message fills the block, and so does a resource that
\* says that the second half is stolen.
Filler(k, a, c, e, room) ==
    [Blank EXCEPT !.kind = k, !.li = IF k = "start" THEN 63 ELSE 62, !.addr = a,
                  !.alloc = c, !.enc = e > 0, !.key = e \div 2, !.bits = room]

Fillers(room) ==
    LET headers == { Filler(k, a, c, e, room) :
                        k \in {"start", "stolen"}, a \in Addrs, c \in Allocs, e \in 0 .. 2 }
    IN  { [p EXCEPT !.sdu = room - SentHeader(p)] :
            p \in { q \in headers : SentHeader(q) < room } }

\* The next part of the message under way: a fragment that fills the block, up to
\* fill bits in the last one, or the end.
Fragment(room) ==
    [Blank EXCEPT !.kind = "frag", !.bits = room,
                  !.sdu = IF sending.left < room - 4 THEN sending.left ELSE room - 4,
                  !.fill = IF sending.left < room - 4 THEN room - 4 - sending.left ELSE 0]

End(g, c) == [Blank EXCEPT !.kind = "end", !.grant = g, !.alloc = c, !.sdu = sending.left]

Parts(room) ==
    LET ends == { End(g, c) : g \in BOOLEAN, c \in Allocs }
        sizedEnds == { Sized(p, SentEndHeader(p)) : p \in ends }
    IN  (IF sending.left > 0 THEN { Fragment(room) } ELSE {}) \cup { q \in sizedEnds : q.bits <= room }

\* PDUs with a length indicator that is reserved.
Odd == { [Blank EXCEPT !.kind = "end", !.li = 0, !.bits = 0],
         [Blank EXCEPT !.kind = "resource", !.addr = 1, !.li = 0, !.bits = N - pos],
         [Blank EXCEPT !.kind = "resource", !.addr = 1, !.li = 60, !.bits = N - pos] }

Others(room) == { [Blank EXCEPT !.kind = k, !.bits = room] : k \in {"suppl", "bcast"} }

\* A message under way is carried on in the next block of its timeslot.
Offered ==
    LET room == N - pos
    IN  IF sending.bits > 0 THEN Nulls \cup Parts(room)
        ELSE Nulls \cup Resources(room) \cup Fillers(room) \cup Odd
             \cup IF pos = 0 THEN Others(room) ELSE {}

\* The lengths decode_length refuses; 0 is not refused in a MAC-END.
ReservedLength(p) == p.kind \in {"resource", "end"} /\ p.li \in {0, 59, 60, 61}

NoMessage == [bits |-> 0, left |-> 0, readable |-> FALSE]
Readable(p) == ~p.enc \/ p.key # 0

\* What PDU p does to the message under way.
Transmit(p) ==
    CASE p.kind = "start" -> sending' \in { [bits |-> b, left |-> b - p.sdu, readable |-> Readable(p)] :
                                              b \in { m \in MessageBits : m > p.sdu } }
      [] p.kind = "frag"  -> sending' = [sending EXCEPT !.left = @ - p.sdu]
      [] p.kind = "end"   -> sending' = NoMessage
      [] OTHER            -> UNCHANGED sending

-----------------------------------------------------------------------------
(* The receiver.                                                           *)

\* PDU p as the functions of UpperMac see it.
Decoded(p) ==
    LET header == CASE p.kind \in {"resource", "start", "stolen"} -> ResourceHeader(p, p.key)
                    [] p.kind = "frag" -> FragHeader
                    [] p.kind = "end" -> EndHeader(p)
                    [] OTHER -> 0
        l1 == IF p.kind = "frag" THEN N - offset - p.fill ELSE L1Len(p, offset, N)
    IN  [kind |-> p.kind, mode |-> OneOf(p.enc, 1), key |-> p.key, hdr |-> header,
         body |-> l1 - header, id |-> 0]

\* What rx_tmv_unitdata_ind returns: the bits of the PDU, or that the block ends.
Result(p) ==
    CASE p.kind \in {"resource", "null", "start", "stolen"} -> ResourceResult(p)
      [] p.kind = "end" -> EndResult(p)
      [] OTHER -> -1

\* The part of rx_bcast that shows the carriers of a SYSINFO PDU.
ShowCarriers(p) ==
    IF p.kind = "bcast"
    THEN \E band \in Bands, duplex \in Duplexes, reverse \in BOOLEAN :
            shown' = {[band |-> band, duplex |-> duplex,
                       dl |-> DlCarrierHz(band, 0, 0),
                       ul |-> UlCarrierHz(band, 0, 0, duplex, reverse)]}
    ELSE shown' = {}

\* The head of the loop: is there room for another PDU?
MutMore(off) == off < N - 40                \* room for a resource
More(off) == off < N - 16

\* The loop has come to its end; the next block of this timeslot comes in.
NextBlock ==
    /\ offset' = 0 /\ pos' = 0 /\ again' = {}
    /\ type' \in BlockTypes

\* One turn of the loop.
Parse(p) ==
    LET d == Decoded(p)
        result == Result(p)
    IN  /\ fragslot' = RxTmvUnitdataInd([s \in Slots |-> fragslot],
                           [tn |-> Tn, fn |-> 1, lchan |-> "UNKNOWN", crc_ok |-> TRUE], d)[Tn]
        /\ ShowCarriers(p)
        /\ last' = {[kind |-> p.kind, regular |-> ~ReservedLength(p), whole |-> d.body = p.sdu,
                     readable |-> Readable(p), room |-> N - (pos + p.bits),
                     message |-> sending.readable => Completed(fragslot, d).length = sending.bits]}
        /\ Transmit(p)
        /\ IF result < 0 \/ ~More(offset + result) THEN NextBlock
           ELSE /\ offset' = offset + result
                /\ pos' = IF result = 0 THEN pos ELSE pos + p.bits
                /\ again' = IF result = 0 THEN {p} ELSE {}
                /\ UNCHANGED type

ParseNext == \E p \in IF again # {} THEN again ELSE Offered : Parse(p)

BlockInit ==
    /\ type \in BlockTypes /\ offset = 0 /\ pos = 0 /\ again = {}
    /\ fragslot = Cleared /\ sending = NoMessage /\ shown = {} /\ last = {}

BlockNext == ParseNext
BlockSpec == BlockInit /\ [][BlockNext]_blockVars
FairBlockSpec == BlockSpec /\ WF_blockVars(ParseNext)

-----------------------------------------------------------------------------
\* Every turn of the loop looks at a place where the base station put a PDU: the
\* lengths returned lead from one to the next, through fill bits, elements that are
\* there or not, encrypted PDUs there is no key for and ends of messages whose
\* beginning was missed (rx_resrc, rx_macend, macpdu_decode_resource).
LoopIsAligned == offset = pos

\* The TM-SDU found in a PDU that can be read has the length it was sent with: all the
\* header skipped, all fill bits stripped, nothing else.  And at its MAC-END a message that
\* was sent in fragments is there with all its bits, however it was cut.
HasSdu == {"resource", "start", "stolen", "frag", "end"}

MessageIsWhole ==
    \A l \in last : l.regular =>
        /\ l.kind \in HasSdu /\ l.readable => l.whole
        /\ l.kind = "end" => l.message

\* The loop leaves a block only when there is no PDU in it any more: after one that
\* fills it, after a null PDU, or with too little room for a resource.
SmallestResource == 16 + 10 + 3

NothingIsHidden ==
    \A l \in last : offset = 0 /\ again = {} =>
        l.room < SmallestResource \/ l.kind = "null" \/ ~l.regular

\* The loop over a block ends, except at a MAC-END of the reserved length 0, which
\* it parses again and again: its result 0 is not below 0 and moves nothing.
LoopEnds ==
    \/ []<>(offset = 0 /\ again = {})
    \/ <>[](\E p \in again : p.kind = "end" /\ p.li = 0)

\* A duplex spacing that is reserved gives no uplink carrier (tetra_ul_carrier_hz).
ReservedHasNoUplink ==
    \A s \in shown : Reserved(s.duplex, s.band) => s.ul = 0
=============================================================================
