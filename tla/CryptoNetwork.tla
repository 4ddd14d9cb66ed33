---------------------------- MODULE CryptoNetwork ----------------------------
(***************************************************************************)
(* The crypto state of a receiver that is tuned from cell to cell.  SYNC   *)
(* PDUs (lower MAC) and broadcast PDUs (upper MAC) update it, at different *)
(* times and each of them only in part; encrypted PDUs use it.  A message  *)
(* in fragments is deciphered with the key its slot kept from the first    *)
(* fragment on, and with the parameters of the moment.                     *)
(*                                                                         *)
(* tcd is struct tetra_cell_data, reduced to what identifies the cell: the *)
(* scrambling code is a one-to-one function of it, so a block other than   *)
(* SB1 passes its CRC only when tcd is the identity of the sending cell.   *)
(***************************************************************************)
EXTENDS CryptoState

CONSTANTS
    Cells,          \* [mcc, mnc, cc, la, main_carrier, cck_id]
    Hyperframes,    \* hyperframe numbers the cells send
    OtherPdus,      \* what broadcast PDUs other than SYSINFO are read as
    Slots           \* indices of fragslots

BroadcastFields ==
    [la : Nat, main_carrier : Nat, cck_valid_no_hf : BOOLEAN, cck_id : Nat,
     hyperframe_number : Nat]

ASSUME CryptoNetworkAssumption ==
    /\ Cells \subseteq [mcc : Nat, mnc : Nat, cc : Nat, la : Nat, main_carrier : Nat,
                        cck_id : Nat]
    /\ Hyperframes \subseteq Nat
    /\ OtherPdus \subseteq BroadcastFields

VARIABLES
    tcs,        \* struct tetra_crypto_state
    tcd,        \* struct tetra_cell_data: the cell of the last SYNC PDU
    fragslots,  \* per slot [active, encryption, key]
    cell,       \* the cell the radio is tuned to
    used,       \* the keystream generated for the PDU just handled, if any, with the
                \* cell the first PDU of the message came from
    sender,     \* history: per slot, the cell whose resource last opened it
    heard       \* history: the last broadcast PDU, and the last one with a
                \* hyperframe number, each a set of at most one

state == <<tcs, tcd, fragslots>>
history == <<sender, heard>>
vars == <<tcs, tcd, fragslots, cell, used, sender, heard>>

Identity(c) == [mcc |-> c.mcc, mnc |-> c.mnc, cc |-> c.cc]
NoCell == [mcc |-> 0, mnc |-> 0, cc |-> 0]      \* static storage
Closed == [active |-> FALSE, encryption |-> FALSE, key |-> 0]

Init ==
    /\ cell \in Cells
    /\ tcs = InitialState /\ tcd = NoCell /\ fragslots = [s \in Slots |-> Closed]
    /\ used = {} /\ sender = [s \in Slots |-> cell] /\ heard = [last |-> {}, hf |-> {}]

\* A SYNC burst: its first block passes the CRC or not, and is published anyway.
RxSb1 ==
    /\ \E crc_ok \in BOOLEAN : tcd' = IF crc_ok THEN Identity(cell) ELSE tcd
    /\ tcs' = PublishCell(tcs, tcd')
    /\ used' = {}
    /\ UNCHANGED <<fragslots, cell, history>>

-----------------------------------------------------------------------------
\* A block passes its CRC: it comes from the cell of tcd.  If its frame is 18 the
\* slots grow older first, and any of them may have grown too old.
AfterAgeing ==
    { [s \in Slots |-> IF s \in old THEN Closed ELSE fragslots[s]] : old \in SUBSET Slots }

\* What rx_bcast reads from a broadcast PDU.  A SYSINFO PDU has either the CCK
\* identifier or the hyperframe number; the type of the PDU is not looked at, so
\* the bits of any other broadcast PDU are taken for the same fields.
Sysinfos(c) ==
    { [la |-> c.la, main_carrier |-> c.main_carrier, cck_valid_no_hf |-> TRUE,
       cck_id |-> c.cck_id, hyperframe_number |-> 0] }
    \cup
    { [la |-> c.la, main_carrier |-> c.main_carrier, cck_valid_no_hf |-> FALSE,
       cck_id |-> 0, hyperframe_number |-> h] : h \in Hyperframes }

RxBroadcast ==
    /\ tcd = Identity(cell)
    /\ fragslots' \in AfterAgeing
    /\ \E sid \in Sysinfos(cell) \cup OtherPdus :
          /\ tcs' = TakeSysinfo(tcs, sid)
          /\ heard' = [last |-> {sid},
                       hf |-> IF sid.cck_valid_no_hf THEN heard.hf ELSE {sid}]
    /\ used' = {}
    /\ UNCHANGED <<tcd, cell, sender>>

\* A MAC-RESOURCE with something after its header, encrypted or not.  start: it is
\* the first fragment of a message and opens the slot, whatever was in it before.
RxResource(slot, encrypted, start) ==
    LET key == IF encrypted /\ Keys # <<>> THEN GetKsgKey(tcs) ELSE 0
        deciphered == encrypted /\ CanDecrypt(tcs, key)
    IN  /\ tcd = Identity(cell)
        /\ used' = IF deciphered THEN {[ks |-> Keystream(tcs, key), first |-> cell]} ELSE {}
        /\ \E fs \in AfterAgeing :
              IF start /\ (encrypted => deciphered)
              THEN /\ fragslots' = [fs EXCEPT ![slot] =
                         [active |-> TRUE, encryption |-> encrypted, key |-> key]]
                   /\ sender' = [sender EXCEPT ![slot] = cell]
              ELSE fragslots' = fs /\ UNCHANGED sender
        /\ UNCHANGED <<tcs, tcd, cell, heard>>

\* A MAC-FRAG or, with end, a MAC-END with something after its header.  It is
\* deciphered with the key of the slot; whether that worked is not looked at.
RxFragment(slot, end) ==
    /\ tcd = Identity(cell)
    /\ \E fs \in AfterAgeing :
          LET f == fs[slot]
          IN  /\ used' = IF f.active /\ f.encryption /\ CanDecrypt(tcs, f.key)
                         THEN {[ks |-> Keystream(tcs, f.key), first |-> sender[slot]]}
                         ELSE {}
              /\ fragslots' = IF end THEN [fs EXCEPT ![slot] = Closed] ELSE fs
    /\ UNCHANGED <<tcs, tcd, cell, history>>

\* Tuning tells the decoder nothing.
Retune == cell' \in Cells /\ used' = {} /\ UNCHANGED <<state, history>>

Next ==
    \/ RxSb1
    \/ RxBroadcast
    \/ \E slot \in Slots, encrypted, start \in BOOLEAN : RxResource(slot, encrypted, start)
    \/ \E slot \in Slots, end \in BOOLEAN : RxFragment(slot, end)
    \/ Retune

Spec == Init /\ [][Next]_vars

-----------------------------------------------------------------------------
StateType ==
    [mcc : Int, mnc : Int, cck_id : Int, hn : Int, la : Int, cc : Int, cn : Nat,
     network : 0 .. Len(Nets), cck : 0 .. Len(Keys)]

TypeOK ==
    /\ tcs \in StateType
    /\ tcd \in [mcc : Nat, mnc : Nat, cc : Nat]
    /\ fragslots \in [Slots -> [active : BOOLEAN, encryption : BOOLEAN,
                                key : 0 .. Len(Keys)]]
    /\ cell \in Cells
    /\ used \subseteq [ks : [key : DOMAIN Keys, cn : Nat, la : Int, cc : Int,
                             hn : Int, dir : {0, 1}], first : Cells]
    /\ sender \in [Slots -> Cells]
    /\ heard \in [last : SUBSET BroadcastFields, hf : SUBSET BroadcastFields]

\* The two cached pointers always name the database entries of the network and
\* key number now believed in, in whatever order SYNC and broadcast PDUs of
\* different cells came in and whichever of them were garbled or missed
\* (update_current_network, update_current_cck and their callers).
CachedKeyIsCurrent ==
    /\ tcs.network = GetNetworkInfo(tcs.mcc, tcs.mnc)
    /\ tcs.cck = FirstOf(SelectableCcks(tcs.mcc, tcs.mnc, tcs.cck_id))

\* A message is deciphered only with a key of the network its first PDU came from:
\* that is the network of the PDU itself for a resource, and for a later fragment
\* the one whose resource opened the slot.  A fragment of another network, met in
\* a slot that is still open after retuning, is deciphered with the old network's
\* key: nothing but ageing closes the slot (rx_resrc, rx_macfrag, rx_macend,
\* get_ksg_key).
KeyOfMessageNetwork ==
    \A u \in used : /\ Keys[u.ks.key].mcc = u.first.mcc
                    /\ Keys[u.ks.key].mnc = u.first.mnc

\* The parameters of every keystream are those received last: the location area
\* and the carrier of one and the same broadcast PDU, the colour code of the cell
\* that sent the PDU, and the hyperframe number of the last broadcast PDU that had
\* one.  cn starts at 0, not at the value the code tests for: what protects it is
\* that no key is selected before a broadcast PDU brought the key number, la and
\* cn together.  hn is not tested at all: until a PDU brings one, the IV has the
\* low 15 bits of -1 (generate_keystream, tea_build_iv, rx_bcast).
KeystreamOfLastReceived ==
    \A u \in used :
        /\ \E sid \in heard.last : u.ks.la = sid.la /\ u.ks.cn = sid.main_carrier
        /\ u.ks.cc = cell.cc
        /\ IF heard.hf = {} THEN u.ks.hn = 32767
           ELSE \E sid \in heard.hf : u.ks.hn = IvHyperframe(sid.hyperframe_number)

\* Once the parameters are known they stay known: a message whose first fragment
\* could be deciphered never meets "incomplete network info" later
\* (rx_macfrag and rx_macend ignore the result of decrypt_mac_element).
ParametersStayKnown == [][Tb5Known(tcs) => Tb5Known(tcs')]_vars
=============================================================================
