------------------------------ MODULE UpperMac ------------------------------
(***************************************************************************)
(* The fragment reassembly of the upper MAC (decoder/src/tetra_upper_mac.c *)
(* and struct fragslot of tetra_fragslot.h): the operations on the slots,  *)
(* and rx_tmv_unitdata_ind, through which every MAC PDU comes in.          *)
(*                                                                         *)
(* A PDU is a record                                                       *)
(*   kind   "resource", "null" (a resource with the null address), "start" *)
(*          (a resource whose length field says so), "frag", "end", "other"*)
(*   mode   encryption mode of a resource, 0 for none                      *)
(*   key    what get_ksg_key has for a resource, 0 for none                *)
(*   hdr    length of the header, up to the TM-SDU                         *)
(*   body   length of the TM-SDU, fill bits stripped                       *)
(*   id     stands for the bits of the TM-SDU                              *)
(* Decryption succeeds with any key: CryptoNetwork shows that the rest of  *)
(* what it needs, once known, stays known.                                 *)
(***************************************************************************)
EXTENDS Naturals, Sequences

CONSTANTS
    Slots,          \* the fragslots in use: 1 .. 4, the timeslot numbers
    N203,           \* the age beyond which a partial message is dropped: 6
    MsgbSize        \* FRAGSLOT_MSGB_SIZE: 8192

ASSUME UpperMacAssumption ==
    /\ Slots \subseteq Nat /\ N203 \in Nat /\ MsgbSize \in Nat

NoMsgb == [alloc |-> FALSE, l2h |-> 0, len |-> 0, ids |-> <<>>]
FreshMsgb == [alloc |-> TRUE, l2h |-> 0, len |-> 0, ids |-> <<>>]

\* All of the struct set to 0.
Cleared ==
    [active |-> FALSE, age |-> 0, num_frags |-> 0, length |-> 0, encryption |-> FALSE,
     key |-> 0, msgb |-> NoMsgb]

InitFragslot(f) ==
    [(IF f.msgb.alloc THEN Cleared ELSE f) EXCEPT !.msgb = FreshMsgb]

MutCleanupFragslot(f) ==                    \* not the whole struct
    [Cleared EXCEPT !.age = f.age]
CleanupFragslot(f) == Cleared

MutAgeFragslots(fs) ==                      \* the age does not advance
    [s \in Slots |-> IF fs[s].active /\ fs[s].age > N203 THEN CleanupFragslot(fs[s]) ELSE fs[s]]
AgeFragslots(fs) ==
    [s \in Slots |->
        LET f == fs[s]
        IN  IF ~f.active THEN f
            ELSE IF f.age + 1 > N203 THEN CleanupFragslot(f)
            ELSE [f EXCEPT !.age = @ + 1]]

MutAppendFragBits(f, p) ==                  \* before the check
    [f EXCEPT !.msgb.len = @ + p.body, !.msgb.ids = Append(@, p.id),
              !.length = @ + p.body, !.num_frags = @ + 1, !.age = 0]
\* A fragment that does not fit is dropped, the slot stays as it is.
AppendFragBits(f, p) ==
    IF f.msgb.len + p.body > MsgbSize THEN f
    ELSE [f EXCEPT !.msgb.len = @ + p.body, !.msgb.ids = Append(@, p.id),
                   !.length = @ + p.body, !.num_frags = @ + 1, !.age = 0]

\* rx_resrc on the slot of the PDU: the first fragment of a message that is not,
\* or no longer, encrypted opens the slot, whatever was in it.
MutOpens(p) == p.kind = "start" /\ p.body # 0       \* encrypted or not
Opens(p) == p.kind = "start" /\ p.body # 0 /\ (p.mode > 0 => p.key # 0)

\* The opened slot, made of what init_fragslot leaves in it.
Opened(f, p) ==
    [active |-> TRUE, age |-> f.age, num_frags |-> 1, length |-> p.body,
     encryption |-> p.mode > 0, key |-> IF p.mode > 0 THEN p.key ELSE 0,
     msgb |-> [alloc |-> f.msgb.alloc, l2h |-> p.hdr, len |-> p.hdr + p.body, ids |-> <<p.id>>]]

MutRxResrc(f, p) ==                         \* an active slot is left alone
    IF ~Opens(p) \/ f.active THEN f ELSE Opened(InitFragslot(f), p)
RxResrc(f, p) ==
    IF ~Opens(p) THEN f
    ELSE Opened(InitFragslot(IF f.active THEN CleanupFragslot(f) ELSE f), p)

RxMacFrag(f, p) == IF f.active THEN AppendFragBits(f, p) ELSE f

\* What rx_macend has assembled when it is about to hand the message up.
Completed(f, p) == IF f.active THEN AppendFragBits(f, p) ELSE f

RxMacEnd(f, p) == CleanupFragslot(Completed(f, p))

\* The channels whose blocks hold MAC PDUs of the types above.
PduChannels == {"BNCH", "UNKNOWN", "SCH_F"}

\* The slots when a block's PDU is about to be dispatched: every block with a good
\* CRC that comes in frame 18 ages them, whatever its channel.
Aged(fs, tup) == IF tup.fn = 18 THEN AgeFragslots(fs) ELSE fs

RxTmvUnitdataInd(fs, tup, p) ==
    IF ~tup.crc_ok THEN fs
    ELSE LET aged == Aged(fs, tup)
             f == aged[tup.tn]
         IN  IF tup.lchan \notin PduChannels THEN aged
             ELSE [aged EXCEPT ![tup.tn] =
                     CASE p.kind = "start" -> RxResrc(f, p)
                       [] p.kind = "frag"  -> RxMacFrag(f, p)
                       [] p.kind = "end"   -> RxMacEnd(f, p)
                       [] OTHER            -> f]

\* Its result is not negative: the block may hold another PDU after this one.
MayFollow(tup, p) ==
    tup.crc_ok /\ tup.lchan \in PduChannels /\ p.kind \in {"resource", "end"}
=============================================================================
