-------------------------- MODULE FragmentAgeingMC --------------------------
(***************************************************************************)
(* The four timeslots of a frame; one message, in the first of them.       *)
(***************************************************************************)
EXTENDS FragmentAgeing

MCMaxMsgs == [s \in Slots |-> IF s = 1 THEN 1 ELSE 0]
=============================================================================
