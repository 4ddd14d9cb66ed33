-------------------------- MODULE FragmentReceiverMC -------------------------
(***************************************************************************)
(* Two timeslot numbers: on one of them messages follow each other, the    *)
(* other has one that may be extended, aged or ended meanwhile.            *)
(***************************************************************************)
EXTENDS FragmentReceiver

MCMaxMsgs == [s \in Slots |-> IF s = 1 THEN 2 ELSE 1]
=============================================================================
