----------------------------- MODULE CryptoState -----------------------------
(***************************************************************************)
(* The operations on struct tetra_crypto_state (decoder/src/crypto/        *)
(* tetra_crypto.c): which network the receiver believes to be on, the key  *)
(* it selected for it, and the parameters of the keystream.  The key and   *)
(* network pointers are indices into the database, 0 being NULL.  What a   *)
(* keystream is made of is kept, the bits are not computed.                *)
(***************************************************************************)
EXTENDS Integers, Sequences

CONSTANTS
    Nets,       \* tcdb->nets: records [mcc, mnc, ksg_type]
    Keys        \* tcdb->keys: records [mcc, mnc, key_num, key_type]

Unknown == -1
CckSck == 1                     \* KEYTYPE_CCK_SCK
SupportedKsg == 1 .. 3          \* TEA1, TEA2, TEA3

ASSUME CryptoStateAssumption ==
    /\ Nets \in Seq([mcc : Nat, mnc : Nat, ksg_type : 0 .. 8])
    /\ Keys \in Seq([mcc : Nat, mnc : Nat, key_num : Nat, key_type : Nat])
    \* load_keystore refuses a key whose network it does not know.
    /\ \A k \in DOMAIN Keys : \E n \in DOMAIN Nets :
          Nets[n].mcc = Keys[k].mcc /\ Nets[n].mnc = Keys[k].mnc

\* tetra_crypto_state_init on zeroed memory: cn is the one field it leaves at 0.
InitialState ==
    [mcc |-> Unknown, mnc |-> Unknown, cck_id |-> Unknown, hn |-> Unknown,
     la |-> Unknown, cc |-> Unknown, cn |-> 0, network |-> 0, cck |-> 0]

\* The first index in a set of them, or NULL.
FirstOf(S) == IF S = {} THEN 0 ELSE CHOOSE i \in S : \A j \in S : i <= j

GetNetworkInfo(mcc, mnc) ==
    FirstOf({ n \in DOMAIN Nets : Nets[n].mcc = mcc /\ Nets[n].mnc = mnc })

SelectableCcks(mcc, mnc, id) ==
    { k \in DOMAIN Keys : /\ Keys[k].mcc = mcc /\ Keys[k].mnc = mnc
                          /\ Keys[k].key_num = id /\ Keys[k].key_type = CckSck }

UpdateCurrentCck(tcs) ==
    [tcs EXCEPT !.cck = FirstOf(SelectableCcks(tcs.mcc, tcs.mnc, tcs.cck_id))]

UpdateCurrentNetwork(tcs, mcc, mnc) ==
    UpdateCurrentCck([tcs EXCEPT !.mcc = mcc, !.mnc = mnc,
                                 !.network = GetNetworkInfo(mcc, mnc)])

\* The part of tp_sap_udata_ind(TPSAP_T_SB1) that publishes the cell data.
MutPublishCell(tcs, tcd) ==                     \* && for ||
    LET t == [tcs EXCEPT !.cc = tcd.cc]
    IN  IF tcs.mcc # tcd.mcc /\ tcs.mnc # tcd.mnc
        THEN UpdateCurrentNetwork(t, tcd.mcc, tcd.mnc) ELSE t
MutPublishForget(tcs, tcd) ==                   \* another network, unknown area
    LET t == [tcs EXCEPT !.cc = tcd.cc, !.la = Unknown]
    IN  IF tcs.mcc # tcd.mcc \/ tcs.mnc # tcd.mnc
        THEN UpdateCurrentNetwork(t, tcd.mcc, tcd.mnc) ELSE t
PublishCell(tcs, tcd) ==
    LET t == [tcs EXCEPT !.cc = tcd.cc]
    IN  IF tcs.mcc # tcd.mcc \/ tcs.mnc # tcd.mnc
        THEN UpdateCurrentNetwork(t, tcd.mcc, tcd.mnc) ELSE t

\* The part of rx_bcast that takes over a SYSINFO PDU.
MutTakeSysinfo(tcs, sid) ==                     \* cck_id stored, key not selected
    LET t == [tcs EXCEPT !.la = sid.la, !.cn = sid.main_carrier]
    IN  IF sid.cck_valid_no_hf THEN [t EXCEPT !.cck_id = sid.cck_id]
        ELSE [t EXCEPT !.hn = sid.hyperframe_number]
MutTakeCarrier(tcs, sid) ==                     \* the carrier only with the else part
    LET t == [tcs EXCEPT !.la = sid.la]
    IN  IF ~sid.cck_valid_no_hf
        THEN [t EXCEPT !.hn = sid.hyperframe_number, !.cn = sid.main_carrier]
        ELSE UpdateCurrentCck([t EXCEPT !.cck_id = sid.cck_id])
TakeSysinfo(tcs, sid) ==
    LET t == [tcs EXCEPT !.la = sid.la, !.cn = sid.main_carrier]
    IN  IF ~sid.cck_valid_no_hf THEN [t EXCEPT !.hn = sid.hyperframe_number]
        ELSE IF sid.cck_id = tcs.cck_id THEN t
        ELSE UpdateCurrentCck([t EXCEPT !.cck_id = sid.cck_id])

GetKsgKey(tcs) == IF tcs.network = 0 THEN 0 ELSE tcs.cck

Tb5Known(tcs) == tcs.cn >= 0 /\ tcs.la >= 0 /\ tcs.cc >= 0

\* decrypt_mac_element and generate_keystream with key k on a non-empty part of
\* a PDU: whether a keystream is generated, and from what.  The IV is built for
\* direction 0.  key->network_info is the network load_keystore found for it.
CanDecrypt(tcs, k) ==
    /\ k # 0
    /\ Tb5Known(tcs)
    /\ Nets[GetNetworkInfo(Keys[k].mcc, Keys[k].mnc)].ksg_type \in SupportedKsg

\* The hyperframe number in the IV: a uint16_t of which 15 bits are used.
IvHyperframe(hn) == (hn % 65536) % 32768

Keystream(tcs, k) ==
    [key |-> k, cn |-> tcs.cn, la |-> tcs.la, cc |-> tcs.cc, hn |-> IvHyperframe(tcs.hn),
     dir |-> 0]
=============================================================================
