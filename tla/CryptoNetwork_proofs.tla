------------------------- MODULE CryptoNetwork_proofs -------------------------
(***************************************************************************)
(* The safety properties of CryptoNetwork for every key database, every    *)
(* set of cells and every order of SYNC, broadcast and encrypted PDUs and  *)
(* of messages in fragments.                                               *)
(***************************************************************************)
EXTENDS CryptoNetwork, TLAPS, SequenceTheorems, WellFoundedInduction

\* The network in tcs is the one of tcd, as soon as there is one.
NetworkOfTcd ==
    \/ tcs.mcc = Unknown /\ tcs.mnc = Unknown /\ tcs.cc = Unknown
    \/ tcs.mcc = tcd.mcc /\ tcs.mnc = tcd.mnc /\ tcs.cc = tcd.cc

\* la and cn come from the last broadcast PDU, hn from the last that had it.
ParametersHeard ==
    /\ tcs.la = Unknown
          \/ \E sid \in heard.last : tcs.la = sid.la /\ tcs.cn = sid.main_carrier
    /\ IF heard.hf = {} THEN tcs.hn = Unknown
       ELSE \E sid \in heard.hf : tcs.hn = sid.hyperframe_number

\* The key of a slot is of the network of the cell that opened it.
SlotKeys ==
    \A s \in Slots : fragslots[s].key # 0 =>
        /\ fragslots[s].key \in DOMAIN Keys
        /\ Keys[fragslots[s].key].mcc = sender[s].mcc
        /\ Keys[fragslots[s].key].mnc = sender[s].mnc

IInv ==
    /\ TypeOK /\ CachedKeyIsCurrent /\ NetworkOfTcd /\ ParametersHeard /\ SlotKeys
    /\ KeyOfMessageNetwork /\ KeystreamOfLastReceived

-----------------------------------------------------------------------------
\* FirstOf picks an element of a set of indices, or NULL.
LEMMA FirstOfType ==
    ASSUME NEW n \in Nat, NEW S, S \subseteq 1 .. n
    PROVE  FirstOf(S) \in 0 .. n /\ (FirstOf(S) # 0 => FirstOf(S) \in S)
<1>1. CASE S = {}
      BY <1>1 DEF FirstOf
<1>2. CASE S # {}
  <2>1. S \subseteq Nat
        OBVIOUS
  <2>2. PICK x \in S : \A y \in S : ~ (<<y, x>> \in OpToRel(<, Nat))
        BY <1>2, <2>1, WFMin, NatLessThanWellFounded
  <2>3. ASSUME NEW y \in S  PROVE  x <= y
    <3>1. <<y, x>> \in Nat \X Nat
          BY <2>1
    <3>2. ~ (y < x)
          BY <2>2, <3>1, Zenon DEF OpToRel
    <3>.  QED  BY <3>2, <2>1
  <2>4. FirstOf(S) \in S
        BY <1>2, <2>3 DEF FirstOf
  <2>5. 1 .. n \subseteq 0 .. n
        OBVIOUS
  <2>.  QED  BY <2>4, <2>5
<1>.  QED  BY <1>1, <1>2

\* The two lookups return indices of the database, and what they look for.
LEMMA LookupType ==
    ASSUME NEW mcc, NEW mnc, NEW id
    PROVE  /\ GetNetworkInfo(mcc, mnc) \in 0 .. Len(Nets)
           /\ FirstOf(SelectableCcks(mcc, mnc, id)) \in 0 .. Len(Keys)
           /\ LET k == FirstOf(SelectableCcks(mcc, mnc, id))
              IN  k # 0 => k \in DOMAIN Keys /\ Keys[k].mcc = mcc /\ Keys[k].mnc = mnc
<1>1. Len(Nets) \in Nat /\ DOMAIN Nets = 1 .. Len(Nets)
      BY CryptoStateAssumption DEF CryptoStateAssumption
<1>2. Len(Keys) \in Nat /\ DOMAIN Keys = 1 .. Len(Keys)
      BY CryptoStateAssumption DEF CryptoStateAssumption
<1>3. SelectableCcks(mcc, mnc, id) \subseteq 1 .. Len(Keys)
      BY <1>2 DEF SelectableCcks
<1>4. GetNetworkInfo(mcc, mnc) \in 0 .. Len(Nets)
      BY <1>1, FirstOfType DEF GetNetworkInfo
<1>5. /\ FirstOf(SelectableCcks(mcc, mnc, id)) \in 0 .. Len(Keys)
      /\ FirstOf(SelectableCcks(mcc, mnc, id)) # 0
            => FirstOf(SelectableCcks(mcc, mnc, id)) \in SelectableCcks(mcc, mnc, id)
      BY <1>2, <1>3, FirstOfType
<1>.  QED  BY <1>4, <1>5 DEF SelectableCcks

\* The country codes of the database are numbers.
LEMMA DatabaseType ==
    /\ \A n \in DOMAIN Nets : Nets[n].mcc \in Nat
    /\ \A k \in DOMAIN Keys : Keys[k].mcc \in Nat
<1>1. /\ Nets \in Seq([mcc : Nat, mnc : Nat, ksg_type : 0 .. 8])
      /\ Keys \in Seq([mcc : Nat, mnc : Nat, key_num : Nat, key_type : Nat])
      BY CryptoStateAssumption DEF CryptoStateAssumption
<1>2. ASSUME NEW n \in DOMAIN Nets  PROVE  Nets[n].mcc \in Nat
  <2>1. n \in 1 .. Len(Nets)
        BY <1>1, LenProperties
  <2>2. Nets[n] \in [mcc : Nat, mnc : Nat, ksg_type : 0 .. 8]
        BY <1>1, <2>1, ElementOfSeq, Zenon
  <2>.  QED  BY <2>2
<1>3. ASSUME NEW k \in DOMAIN Keys  PROVE  Keys[k].mcc \in Nat
  <2>1. k \in 1 .. Len(Keys)
        BY <1>1, LenProperties
  <2>2. Keys[k] \in [mcc : Nat, mnc : Nat, key_num : Nat, key_type : Nat]
        BY <1>1, <2>1, ElementOfSeq, Zenon
  <2>.  QED  BY <2>2
<1>.  QED  BY <1>2, <1>3

\* No database entry has the identity of an unknown network.
LEMMA UnknownHasNone ==
    ASSUME NEW mnc, NEW id
    PROVE  GetNetworkInfo(Unknown, mnc) = 0 /\ FirstOf(SelectableCcks(Unknown, mnc, id)) = 0
<1>1. \A n \in DOMAIN Nets : Nets[n].mcc # Unknown
  <2>1. \A i \in Nat : i # -1
        OBVIOUS
  <2>.  QED  BY <2>1, DatabaseType DEF Unknown
<1>2. \A k \in DOMAIN Keys : Keys[k].mcc # Unknown
  <2>1. \A i \in Nat : i # -1
        OBVIOUS
  <2>.  QED  BY <2>1, DatabaseType DEF Unknown
<1>3. { n \in DOMAIN Nets : Nets[n].mcc = Unknown /\ Nets[n].mnc = mnc } = {}
      BY <1>1
<1>4. SelectableCcks(Unknown, mnc, id) = {}
      BY <1>2 DEF SelectableCcks
<1>.  QED  BY <1>3, <1>4 DEF GetNetworkInfo, FirstOf

-----------------------------------------------------------------------------
LEMMA InitInv == Init => IInv
<1>.  SUFFICES ASSUME Init PROVE IInv
      OBVIOUS
<1>1. Len(Nets) \in Nat /\ Len(Keys) \in Nat
      BY CryptoStateAssumption DEF CryptoStateAssumption
<1>2. fragslots = [s \in Slots |-> Closed] /\ cell \in Cells /\ sender = [s \in Slots |-> cell]
      BY DEF Init
<1>3. fragslots \in [Slots -> [active : BOOLEAN, encryption : BOOLEAN, key : 0 .. Len(Keys)]]
      BY <1>1, <1>2 DEF Closed
<1>4. tcs \in StateType
      BY <1>1 DEF Init, StateType, InitialState, Unknown
<1>5. TypeOK
      BY <1>2, <1>3, <1>4 DEF Init, TypeOK, NoCell
<1>6. CachedKeyIsCurrent
      BY UnknownHasNone DEF Init, CachedKeyIsCurrent, InitialState
<1>7. NetworkOfTcd /\ ParametersHeard /\ KeyOfMessageNetwork /\ KeystreamOfLastReceived
      BY DEF Init, InitialState, NetworkOfTcd, ParametersHeard, KeyOfMessageNetwork,
             KeystreamOfLastReceived
<1>8. SlotKeys
      BY <1>2 DEF SlotKeys, Closed
<1>.  QED  BY <1>5, <1>6, <1>7, <1>8 DEF IInv

\* What publishing a SYNC PDU does to the state.
LEMMA PublishKeeps ==
    ASSUME IInv, NEW d \in [mcc : Nat, mnc : Nat, cc : Nat], tcd' = d,
           tcs' = PublishCell(tcs, d)
    PROVE  /\ tcs' \in StateType /\ CachedKeyIsCurrent' /\ NetworkOfTcd'
           /\ tcs'.la = tcs.la /\ tcs'.cn = tcs.cn /\ tcs'.hn = tcs.hn /\ tcs'.cc = d.cc
<1>1. tcs \in StateType /\ CachedKeyIsCurrent
      BY DEF IInv, TypeOK
<1>2. CASE tcs.mcc # d.mcc \/ tcs.mnc # d.mnc
  <2>1. tcs' = [mcc |-> d.mcc, mnc |-> d.mnc, cck_id |-> tcs.cck_id, hn |-> tcs.hn,
                  la |-> tcs.la, cc |-> d.cc, cn |-> tcs.cn,
                  network |-> GetNetworkInfo(d.mcc, d.mnc),
                  cck |-> FirstOf(SelectableCcks(d.mcc, d.mnc, tcs.cck_id))]
        BY <1>1, <1>2 DEF PublishCell, UpdateCurrentNetwork, UpdateCurrentCck, StateType
  <2>2. tcs' \in StateType
        BY <1>1, <2>1, LookupType DEF StateType
  <2>.  QED  BY <1>1, <2>1, <2>2 DEF StateType, CachedKeyIsCurrent, NetworkOfTcd
<1>3. CASE ~(tcs.mcc # d.mcc \/ tcs.mnc # d.mnc)
  <2>1. tcs' = [tcs EXCEPT !.cc = d.cc]
        BY <1>3 DEF PublishCell
  <2>.  QED  BY <1>1, <1>3, <2>1 DEF StateType, CachedKeyIsCurrent, NetworkOfTcd
<1>.  QED  BY <1>2, <1>3

\* What is read from a broadcast PDU has the types of its fields.
LEMMA BroadcastType == ASSUME cell \in Cells PROVE Sysinfos(cell) \cup OtherPdus \subseteq BroadcastFields
<1>1. cell.la \in Nat /\ cell.main_carrier \in Nat /\ cell.cck_id \in Nat
      BY CryptoNetworkAssumption DEF CryptoNetworkAssumption
<1>2. Hyperframes \subseteq Nat /\ OtherPdus \subseteq BroadcastFields
      BY CryptoNetworkAssumption DEF CryptoNetworkAssumption
<1>3. ASSUME NEW sid \in Sysinfos(cell)  PROVE sid \in BroadcastFields
  <2>1. CASE sid = [la |-> cell.la, main_carrier |-> cell.main_carrier,
                    cck_valid_no_hf |-> TRUE, cck_id |-> cell.cck_id, hyperframe_number |-> 0]
        BY <1>1, <2>1 DEF BroadcastFields
  <2>2. ASSUME NEW h \in Hyperframes,
               sid = [la |-> cell.la, main_carrier |-> cell.main_carrier,
                      cck_valid_no_hf |-> FALSE, cck_id |-> 0, hyperframe_number |-> h]
        PROVE  sid \in BroadcastFields
        BY <1>1, <1>2, <2>2 DEF BroadcastFields
  <2>.  QED  BY <2>1, <2>2 DEF Sysinfos
<1>.  QED  BY <1>2, <1>3

\* What taking over a broadcast PDU does to the state.
LEMMA BroadcastKeeps ==
    ASSUME IInv, NEW sid \in BroadcastFields, UNCHANGED tcd, tcs' = TakeSysinfo(tcs, sid)
    PROVE  /\ tcs' \in StateType /\ CachedKeyIsCurrent' /\ NetworkOfTcd'
           /\ tcs'.la = sid.la /\ tcs'.cn = sid.main_carrier /\ tcs'.cc = tcs.cc
           /\ tcs'.hn = IF sid.cck_valid_no_hf THEN tcs.hn ELSE sid.hyperframe_number
<1>1. tcs \in StateType /\ CachedKeyIsCurrent /\ NetworkOfTcd
      BY DEF IInv, TypeOK
<1>2. /\ sid.la \in Nat /\ sid.main_carrier \in Nat /\ sid.cck_id \in Nat
      /\ sid.hyperframe_number \in Nat
      BY DEF BroadcastFields
<1>3. CASE ~sid.cck_valid_no_hf
  <2>1. tcs' = [mcc |-> tcs.mcc, mnc |-> tcs.mnc, cck_id |-> tcs.cck_id,
                  hn |-> sid.hyperframe_number,
                  la |-> sid.la, cc |-> tcs.cc, cn |-> sid.main_carrier,
                  network |-> tcs.network,
                  cck |-> tcs.cck]
        BY <1>1, <1>3 DEF TakeSysinfo, StateType
  <2>2. tcs' \in StateType
        BY <1>1, <1>2, <2>1 DEF StateType
  <2>.  QED  BY <1>1, <1>3, <2>1, <2>2 DEF StateType, CachedKeyIsCurrent, NetworkOfTcd
<1>4. CASE sid.cck_valid_no_hf /\ sid.cck_id = tcs.cck_id
  <2>1. tcs' = [mcc |-> tcs.mcc, mnc |-> tcs.mnc, cck_id |-> tcs.cck_id, hn |-> tcs.hn,
                  la |-> sid.la, cc |-> tcs.cc, cn |-> sid.main_carrier,
                  network |-> tcs.network,
                  cck |-> tcs.cck]
        BY <1>1, <1>4 DEF TakeSysinfo, StateType
  <2>2. tcs' \in StateType
        BY <1>1, <1>2, <2>1 DEF StateType
  <2>.  QED  BY <1>1, <1>4, <2>1, <2>2 DEF StateType, CachedKeyIsCurrent, NetworkOfTcd
<1>5. CASE sid.cck_valid_no_hf /\ sid.cck_id # tcs.cck_id
  <2>1. tcs' = [mcc |-> tcs.mcc, mnc |-> tcs.mnc, cck_id |-> sid.cck_id, hn |-> tcs.hn,
                  la |-> sid.la, cc |-> tcs.cc, cn |-> sid.main_carrier,
                  network |-> tcs.network,
                  cck |-> FirstOf(SelectableCcks(tcs.mcc, tcs.mnc, sid.cck_id))]
        BY <1>1, <1>5 DEF TakeSysinfo, UpdateCurrentCck, StateType
  <2>2. tcs' \in StateType
        BY <1>1, <1>2, <2>1, LookupType DEF StateType
  <2>.  QED  BY <1>1, <1>5, <2>1, <2>2 DEF StateType, CachedKeyIsCurrent, NetworkOfTcd
<1>.  QED  BY <1>3, <1>4, <1>5

SlotsType == [Slots -> [active : BOOLEAN, encryption : BOOLEAN, key : 0 .. Len(Keys)]]

\* Ageing leaves the type of the slots, and each slot as it was or closed.
LEMMA AgeingKeeps ==
    ASSUME IInv, NEW fs \in AfterAgeing
    PROVE  /\ fs \in SlotsType
           /\ \A s \in Slots : fs[s] = Closed \/ fs[s] = fragslots[s]
<1>1. PICK old \in SUBSET Slots :
          fs = [s \in Slots |-> IF s \in old THEN Closed ELSE fragslots[s]]
      BY DEF AfterAgeing
<1>2. fragslots \in SlotsType
      BY DEF IInv, TypeOK, SlotsType
<1>3. Closed \in [active : BOOLEAN, encryption : BOOLEAN, key : 0 .. Len(Keys)]
      BY CryptoStateAssumption DEF CryptoStateAssumption, Closed
<1>.  QED  BY <1>1, <1>2, <1>3 DEF SlotsType

\* A keystream made now has the parameters received last.
LEMMA KeystreamIsFresh ==
    ASSUME IInv, tcd = Identity(cell), NEW k, CanDecrypt(tcs, k), k \in DOMAIN Keys,
           NEW c \in Cells, Keys[k].mcc = c.mcc, Keys[k].mnc = c.mnc,
           used' = {[ks |-> Keystream(tcs, k), first |-> c]}, UNCHANGED <<cell, heard>>
    PROVE  /\ KeyOfMessageNetwork' /\ KeystreamOfLastReceived'
           /\ used' \subseteq [ks : [key : DOMAIN Keys, cn : Nat, la : Int, cc : Int,
                                     hn : Int, dir : {0, 1}], first : Cells]
<1>1. tcs \in StateType /\ NetworkOfTcd /\ ParametersHeard
      BY DEF IInv, TypeOK
<1>2. tcs.la # Unknown /\ tcs.cc # Unknown
      BY <1>1 DEF CanDecrypt, Tb5Known, Unknown, StateType
<1>3. tcs.cc = cell.cc
      BY <1>1, <1>2 DEF NetworkOfTcd, Identity
<1>4. \E sid \in heard.last : tcs.la = sid.la /\ tcs.cn = sid.main_carrier
      BY <1>1, <1>2 DEF ParametersHeard
<1>5. ASSUME tcs.hn = Unknown  PROVE IvHyperframe(tcs.hn) = 32767
  <2>1. ASSUME NEW x \in Int, x < 0, x >= -1  PROVE IvHyperframe(x) = 32767
    <3>1. x % 65536 = x + 65536
          BY <2>1
    <3>2. x % 65536 = 65535
          BY <2>1, <3>1
    <3>3. 65535 % 32768 = 32767
          OBVIOUS
    <3>.  QED  BY <3>2, <3>3 DEF IvHyperframe
  <2>2. tcs.hn \in Int /\ tcs.hn < 0 /\ tcs.hn >= -1
        BY <1>1, <1>5 DEF StateType, Unknown
  <2>.  QED  BY <2>1, <2>2
<1>6. IF heard.hf = {} THEN IvHyperframe(tcs.hn) = 32767
      ELSE \E sid \in heard.hf : IvHyperframe(tcs.hn) = IvHyperframe(sid.hyperframe_number)
  <2>1. CASE heard.hf = {}
    <3>1. tcs.hn = Unknown
          BY <1>1, <2>1 DEF ParametersHeard
    <3>.  QED  BY <1>5, <2>1, <3>1
  <2>2. CASE heard.hf # {}
    <3>1. PICK sid \in heard.hf : tcs.hn = sid.hyperframe_number
          BY <1>1, <2>2 DEF ParametersHeard
    <3>.  QED  BY <2>2, <3>1
  <2>.  QED  BY <2>1, <2>2
<1>7. KeyOfMessageNetwork'
      BY DEF KeyOfMessageNetwork, Keystream
<1>8. KeystreamOfLastReceived'
      BY <1>3, <1>4, <1>6 DEF KeystreamOfLastReceived, Keystream
<1>9. IvHyperframe(tcs.hn) \in Int
      BY <1>1 DEF StateType, IvHyperframe
<1>.  QED  BY <1>1, <1>7, <1>8, <1>9 DEF Keystream, StateType

LEMMA StepInv == IInv /\ [Next]_vars => IInv'
<1>.  SUFFICES ASSUME IInv, [Next]_vars PROVE IInv'
      OBVIOUS
<1>0. /\ TypeOK /\ CachedKeyIsCurrent /\ NetworkOfTcd /\ ParametersHeard /\ SlotKeys
      /\ KeyOfMessageNetwork /\ KeystreamOfLastReceived
      BY DEF IInv
<1>1. CASE RxSb1
  <2>1. tcd' \in [mcc : Nat, mnc : Nat, cc : Nat]
        BY <1>0, <1>1, CryptoNetworkAssumption
           DEF CryptoNetworkAssumption, RxSb1, TypeOK, Identity
  <2>2. UNCHANGED <<fragslots, cell, sender, heard>> /\ used' = {}
        BY <1>1 DEF RxSb1, history
  <2>3. /\ tcs' \in StateType /\ CachedKeyIsCurrent' /\ NetworkOfTcd'
        /\ tcs'.la = tcs.la /\ tcs'.cn = tcs.cn /\ tcs'.hn = tcs.hn
        BY <1>1, <2>1, PublishKeeps DEF RxSb1
  <2>4. TypeOK'
        BY <1>0, <2>1, <2>2, <2>3 DEF TypeOK
  <2>5. ParametersHeard'
        BY <1>0, <2>2, <2>3, Zenon DEF ParametersHeard
  <2>6. SlotKeys' /\ KeyOfMessageNetwork' /\ KeystreamOfLastReceived'
        BY <1>0, <2>2 DEF SlotKeys, KeyOfMessageNetwork, KeystreamOfLastReceived
  <2>.  QED  BY <2>3, <2>4, <2>5, <2>6 DEF IInv
<1>2. CASE RxBroadcast
  <2>1. PICK sid \in Sysinfos(cell) \cup OtherPdus :
            /\ tcs' = TakeSysinfo(tcs, sid)
            /\ heard' = [last |-> {sid},
                         hf |-> IF sid.cck_valid_no_hf THEN heard.hf ELSE {sid}]
        BY <1>2 DEF RxBroadcast
  <2>2. UNCHANGED <<tcd, cell, sender>> /\ used' = {} /\ fragslots' \in AfterAgeing
        BY <1>2 DEF RxBroadcast
  <2>3. sid \in BroadcastFields
        BY <1>0, <2>1, BroadcastType DEF TypeOK
  <2>4. /\ tcs' \in StateType /\ CachedKeyIsCurrent' /\ NetworkOfTcd'
        /\ tcs'.la = sid.la /\ tcs'.cn = sid.main_carrier
        /\ tcs'.hn = IF sid.cck_valid_no_hf THEN tcs.hn ELSE sid.hyperframe_number
        BY <2>1, <2>2, <2>3, BroadcastKeeps
  <2>5. /\ fragslots' \in SlotsType
        /\ \A s \in Slots : fragslots'[s] = Closed \/ fragslots'[s] = fragslots[s]
        BY <2>2, AgeingKeeps
  <2>6. heard' \in [last : SUBSET BroadcastFields, hf : SUBSET BroadcastFields]
        BY <1>0, <2>1, <2>3 DEF TypeOK
  <2>7. TypeOK'
        BY <1>0, <2>2, <2>4, <2>5, <2>6 DEF TypeOK, SlotsType
  <2>8. ParametersHeard'
    <3>1. heard'.last = {sid}
          BY <2>1
    <3>2. CASE sid.cck_valid_no_hf
          BY <1>0, <2>1, <2>4, <3>1, <3>2 DEF ParametersHeard
    <3>3. CASE ~sid.cck_valid_no_hf
          BY <2>1, <2>4, <3>1, <3>3 DEF ParametersHeard
    <3>.  QED  BY <3>2, <3>3
  <2>9. SlotKeys'
        BY <1>0, <2>2, <2>5 DEF SlotKeys, Closed
  <2>10. KeyOfMessageNetwork' /\ KeystreamOfLastReceived'
        BY <2>2 DEF KeyOfMessageNetwork, KeystreamOfLastReceived
  <2>.  QED  BY <2>4, <2>7, <2>8, <2>9, <2>10 DEF IInv
<1>3. ASSUME NEW slot \in Slots, NEW encrypted \in BOOLEAN, NEW start \in BOOLEAN,
             RxResource(slot, encrypted, start)
      PROVE  IInv'
  <2>.  DEFINE key == IF encrypted /\ Keys # <<>> THEN GetKsgKey(tcs) ELSE 0
               deciphered == encrypted /\ CanDecrypt(tcs, key)
  <2>1. /\ tcd = Identity(cell) /\ UNCHANGED <<tcs, tcd, cell, heard>>
        /\ used' = IF deciphered THEN {[ks |-> Keystream(tcs, key), first |-> cell]} ELSE {}
        BY <1>3 DEF RxResource
  <2>2. PICK fs \in AfterAgeing :
            IF start /\ (encrypted => deciphered)
            THEN /\ fragslots' = [fs EXCEPT ![slot] =
                       [active |-> TRUE, encryption |-> encrypted, key |-> key]]
                 /\ sender' = [sender EXCEPT ![slot] = cell]
            ELSE fragslots' = fs /\ UNCHANGED sender
        BY <1>3 DEF RxResource
  <2>3. key \in 0 .. Len(Keys)
        BY <1>0, CryptoStateAssumption DEF CryptoStateAssumption, TypeOK, StateType, GetKsgKey
  <2>4. deciphered => /\ key \in DOMAIN Keys
                      /\ Keys[key].mcc = cell.mcc /\ Keys[key].mnc = cell.mnc
    <3>.  SUFFICES ASSUME deciphered
                   PROVE  /\ key \in DOMAIN Keys
                          /\ Keys[key].mcc = cell.mcc /\ Keys[key].mnc = cell.mnc
          OBVIOUS
    <3>1. key = tcs.cck /\ tcs.cck # 0
          BY DEF GetKsgKey, CanDecrypt
    <3>2. /\ tcs.cck \in DOMAIN Keys
          /\ Keys[tcs.cck].mcc = tcs.mcc /\ Keys[tcs.cck].mnc = tcs.mnc
          BY <1>0, <3>1, LookupType DEF CachedKeyIsCurrent
    <3>3. tcs.mcc # Unknown
          BY <3>2, DatabaseType DEF Unknown
    <3>4. tcs.mcc = cell.mcc /\ tcs.mnc = cell.mnc
          BY <1>0, <2>1, <3>3 DEF NetworkOfTcd, Identity
    <3>.  QED  BY <3>1, <3>2, <3>4
  <2>5. /\ fs \in SlotsType
        /\ \A s \in Slots : fs[s] = Closed \/ fs[s] = fragslots[s]
        BY AgeingKeeps
  <2>6. key # 0 => encrypted
        OBVIOUS
  <2>7. /\ KeyOfMessageNetwork' /\ KeystreamOfLastReceived'
        /\ used' \subseteq [ks : [key : DOMAIN Keys, cn : Nat, la : Int, cc : Int,
                                  hn : Int, dir : {0, 1}], first : Cells]
    <3>1. cell \in Cells
          BY <1>0 DEF TypeOK
    <3>2. CASE deciphered
      <4>1. CanDecrypt(tcs, key) /\ used' = {[ks |-> Keystream(tcs, key), first |-> cell]}
            BY <2>1, <3>2
      <4>.  HIDE DEF key
      <4>.  QED  BY <2>1, <2>4, <3>1, <3>2, <4>1, KeystreamIsFresh
    <3>3. CASE ~deciphered
      <4>1. used' = {}
            BY <2>1, <3>3
      <4>.  QED  BY <4>1 DEF KeyOfMessageNetwork, KeystreamOfLastReceived
    <3>.  QED  BY <3>2, <3>3
  <2>.  HIDE DEF key, deciphered
  <2>8. fragslots' \in SlotsType /\ sender' \in [Slots -> Cells] /\ SlotKeys'
    <3>1. sender \in [Slots -> Cells] /\ cell \in Cells
          BY <1>0 DEF TypeOK
    <3>2. CASE start /\ (encrypted => deciphered)
      <4>1. /\ fragslots' = [fs EXCEPT ![slot] =
                  [active |-> TRUE, encryption |-> encrypted, key |-> key]]
            /\ sender' = [sender EXCEPT ![slot] = cell]
            BY <2>2, <3>2
      <4>2. fragslots' \in SlotsType /\ sender' \in [Slots -> Cells]
            BY <2>3, <2>5, <3>1, <4>1 DEF SlotsType
      <4>3. \A s \in Slots : s # slot => fragslots'[s] = fs[s] /\ sender'[s] = sender[s]
            BY <2>5, <3>1, <4>1 DEF SlotsType
      <4>4. fragslots'[slot].key = key /\ sender'[slot] = cell
            BY <2>5, <3>1, <4>1 DEF SlotsType
      <4>5. key # 0 => deciphered
            BY <2>6, <3>2
      <4>6. ASSUME NEW s \in Slots, fragslots'[s].key # 0
            PROVE  /\ fragslots'[s].key \in DOMAIN Keys
                   /\ Keys[fragslots'[s].key].mcc = sender'[s].mcc
                   /\ Keys[fragslots'[s].key].mnc = sender'[s].mnc
        <5>1. CASE s = slot
              BY <2>4, <4>4, <4>5, <4>6, <5>1
        <5>2. CASE s # slot
              BY <1>0, <2>5, <4>3, <4>6, <5>2 DEF SlotKeys, Closed
        <5>.  QED  BY <5>1, <5>2
      <4>.  QED  BY <4>2, <4>6 DEF SlotKeys
    <3>3. CASE ~(start /\ (encrypted => deciphered))
      <4>1. fragslots' = fs /\ sender' = sender
            BY <2>2, <3>3
      <4>.  QED  BY <1>0, <2>5, <3>1, <4>1 DEF SlotKeys, Closed
    <3>.  QED  BY <3>2, <3>3
  <2>9. TypeOK'
        BY <1>0, <2>1, <2>7, <2>8 DEF TypeOK, SlotsType
  <2>10. CachedKeyIsCurrent' /\ NetworkOfTcd' /\ ParametersHeard'
        BY <1>0, <2>1 DEF CachedKeyIsCurrent, NetworkOfTcd, ParametersHeard
  <2>.  QED  BY <2>7, <2>8, <2>9, <2>10 DEF IInv
<1>4. ASSUME NEW slot \in Slots, NEW end \in BOOLEAN, RxFragment(slot, end)
      PROVE  IInv'
  <2>1. tcd = Identity(cell) /\ UNCHANGED <<tcs, tcd, cell, sender, heard>>
        BY <1>4 DEF RxFragment, history
  <2>2. PICK fs \in AfterAgeing :
            /\ used' = IF fs[slot].active /\ fs[slot].encryption /\ CanDecrypt(tcs, fs[slot].key)
                       THEN {[ks |-> Keystream(tcs, fs[slot].key), first |-> sender[slot]]}
                       ELSE {}
            /\ fragslots' = IF end THEN [fs EXCEPT ![slot] = Closed] ELSE fs
        BY <1>4 DEF RxFragment
  <2>3. /\ fs \in SlotsType
        /\ \A s \in Slots : fs[s] = Closed \/ fs[s] = fragslots[s]
        BY AgeingKeeps
  <2>4. sender[slot] \in Cells
        BY <1>0 DEF TypeOK
  <2>5. /\ KeyOfMessageNetwork' /\ KeystreamOfLastReceived'
        /\ used' \subseteq [ks : [key : DOMAIN Keys, cn : Nat, la : Int, cc : Int,
                                  hn : Int, dir : {0, 1}], first : Cells]
    <3>1. CASE fs[slot].active /\ fs[slot].encryption /\ CanDecrypt(tcs, fs[slot].key)
      <4>1. CanDecrypt(tcs, fs[slot].key) /\ fs[slot].key # 0
            BY <3>1 DEF CanDecrypt
      <4>2. fs[slot] = fragslots[slot]
            BY <2>3, <4>1 DEF Closed
      <4>3. /\ fs[slot].key \in DOMAIN Keys
            /\ Keys[fs[slot].key].mcc = sender[slot].mcc
            /\ Keys[fs[slot].key].mnc = sender[slot].mnc
            BY <1>0, <4>1, <4>2 DEF SlotKeys
      <4>4. used' = {[ks |-> Keystream(tcs, fs[slot].key), first |-> sender[slot]]}
            BY <2>2, <3>1
      <4>.  QED  BY <2>1, <2>4, <4>1, <4>3, <4>4, KeystreamIsFresh
    <3>2. CASE ~(fs[slot].active /\ fs[slot].encryption /\ CanDecrypt(tcs, fs[slot].key))
      <4>1. used' = {}
            BY <2>2, <3>2
      <4>.  QED  BY <4>1 DEF KeyOfMessageNetwork, KeystreamOfLastReceived
    <3>.  QED  BY <3>1, <3>2
  <2>6. Closed \in [active : BOOLEAN, encryption : BOOLEAN, key : 0 .. Len(Keys)]
        BY CryptoStateAssumption DEF CryptoStateAssumption, Closed
  <2>7. /\ fragslots' \in SlotsType
        /\ \A s \in Slots : fragslots'[s] = Closed \/ fragslots'[s] = fragslots[s]
        BY <2>2, <2>3, <2>6 DEF SlotsType
  <2>8. SlotKeys'
        BY <1>0, <2>1, <2>7 DEF SlotKeys, Closed
  <2>9. TypeOK'
        BY <1>0, <2>1, <2>5, <2>7 DEF TypeOK, SlotsType
  <2>10. CachedKeyIsCurrent' /\ NetworkOfTcd' /\ ParametersHeard'
        BY <1>0, <2>1 DEF CachedKeyIsCurrent, NetworkOfTcd, ParametersHeard
  <2>.  QED  BY <2>5, <2>8, <2>9, <2>10 DEF IInv
<1>5. CASE Retune
  <2>1. /\ cell' \in Cells /\ used' = {}
        /\ UNCHANGED <<tcs, tcd, fragslots, sender, heard>>
        BY <1>5 DEF Retune, state, history
  <2>2. TypeOK' /\ CachedKeyIsCurrent' /\ NetworkOfTcd' /\ ParametersHeard'
        BY <1>0, <2>1 DEF TypeOK, CachedKeyIsCurrent, NetworkOfTcd, ParametersHeard
  <2>3. SlotKeys' /\ KeyOfMessageNetwork' /\ KeystreamOfLastReceived'
        BY <1>0, <2>1 DEF SlotKeys, KeyOfMessageNetwork, KeystreamOfLastReceived
  <2>.  QED  BY <2>2, <2>3 DEF IInv
<1>6. CASE UNCHANGED vars
      BY <1>0, <1>6 DEF IInv, vars, TypeOK, CachedKeyIsCurrent, NetworkOfTcd,
          ParametersHeard, SlotKeys, KeyOfMessageNetwork, KeystreamOfLastReceived
<1>.  QED  BY <1>1, <1>2, <1>3, <1>4, <1>5, <1>6 DEF Next

LEMMA Inductive == Spec => []IInv
<1>.  QED  BY InitInv, StepInv, PTL DEF Spec

-----------------------------------------------------------------------------
\* Type correctness.
THEOREM TypeCorrect == Spec => []TypeOK
<1>1. IInv => TypeOK
      BY DEF IInv
<1>.  QED  BY <1>1, Inductive, PTL

\* The network and key pointers are never stale (update_current_network,
\* update_current_cck and the places that call them, or do not).
THEOREM KeyIsCurrent == Spec => []CachedKeyIsCurrent
<1>1. IInv => CachedKeyIsCurrent
      BY DEF IInv
<1>.  QED  BY <1>1, Inductive, PTL

\* A resource is deciphered only with a key of the network it came from, a later
\* fragment only with one of the network its slot was opened from (rx_resrc,
\* rx_macfrag, rx_macend, get_ksg_key).
THEOREM KeyIsOfMessage == Spec => []KeyOfMessageNetwork
<1>1. IInv => KeyOfMessageNetwork
      BY DEF IInv
<1>.  QED  BY <1>1, Inductive, PTL

\* Every keystream is made of the parameters received last, with the mark of an
\* unknown hyperframe number if none was received (generate_keystream).
THEOREM KeystreamIsOfLastReceived == Spec => []KeystreamOfLastReceived
<1>1. IInv => KeystreamOfLastReceived
      BY DEF IInv
<1>.  QED  BY <1>1, Inductive, PTL

\* Once la, cn and cc are known they stay known (rx_bcast, tp_sap_udata_ind).
THEOREM KnownStaysKnown == Spec => ParametersStayKnown
<1>1. IInv /\ [Next]_vars => [Tb5Known(tcs) => Tb5Known(tcs')]_vars
  <2>.  SUFFICES ASSUME IInv, Next, Tb5Known(tcs) PROVE Tb5Known(tcs')
        OBVIOUS
  <2>1. CASE RxSb1
    <3>1. tcd' \in [mcc : Nat, mnc : Nat, cc : Nat]
          BY <2>1, CryptoNetworkAssumption DEF CryptoNetworkAssumption, RxSb1, IInv, TypeOK, Identity
    <3>2. tcs'.la = tcs.la /\ tcs'.cn = tcs.cn /\ tcs'.cc = tcd'.cc
          BY <2>1, <3>1, PublishKeeps DEF RxSb1
    <3>.  QED  BY <3>1, <3>2 DEF Tb5Known
  <2>2. CASE RxBroadcast
    <3>1. PICK sid \in Sysinfos(cell) \cup OtherPdus : tcs' = TakeSysinfo(tcs, sid)
          BY <2>2 DEF RxBroadcast
    <3>2. sid \in BroadcastFields /\ UNCHANGED tcd
          BY <2>2, BroadcastType DEF IInv, TypeOK, RxBroadcast
    <3>3. tcs'.la = sid.la /\ tcs'.cn = sid.main_carrier /\ tcs'.cc = tcs.cc
          BY <3>1, <3>2, BroadcastKeeps
    <3>4. sid.la \in Nat /\ sid.main_carrier \in Nat
          BY <3>2 DEF BroadcastFields
    <3>.  QED  BY <3>3, <3>4 DEF Tb5Known
  <2>3. CASE UNCHANGED tcs
        BY <2>3
  <2>.  QED  BY <2>1, <2>2, <2>3 DEF Next, RxResource, RxFragment, Retune, state
<1>.  QED  BY <1>1, Inductive, PTL DEF Spec, ParametersStayKnown
=============================================================================
