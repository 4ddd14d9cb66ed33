--------------------------- MODULE CryptoNetworkMC ---------------------------
(***************************************************************************)
(* Three cells: two of one network, which differ in everything else, and   *)
(* one of a network with the same country code.  Both networks have a key  *)
(* for the key number in use, the first one also for another number and a  *)
(* key of another type.  Of the two hyperframe numbers one needs 16 bits.  *)
(* One other broadcast PDU reads like a key number, one like a hyperframe  *)
(* number, both with an area and a carrier that no cell has together.      *)
(***************************************************************************)
EXTENDS CryptoNetwork

MCCells ==
    {[mcc |-> 1, mnc |-> 1, cc |-> 1, la |-> 5, main_carrier |-> 7, cck_id |-> 1],
     [mcc |-> 1, mnc |-> 1, cc |-> 2, la |-> 6, main_carrier |-> 8, cck_id |-> 2],
     [mcc |-> 1, mnc |-> 2, cc |-> 1, la |-> 5, main_carrier |-> 9, cck_id |-> 1]}

MCNets ==
    <<[mcc |-> 1, mnc |-> 1, ksg_type |-> 1], [mcc |-> 1, mnc |-> 2, ksg_type |-> 3]>>

MCKeys ==
    <<[mcc |-> 1, mnc |-> 2, key_num |-> 1, key_type |-> 1],
      [mcc |-> 1, mnc |-> 1, key_num |-> 1, key_type |-> 2],
      [mcc |-> 1, mnc |-> 1, key_num |-> 1, key_type |-> 1],
      [mcc |-> 1, mnc |-> 1, key_num |-> 2, key_type |-> 1]>>

MCHyperframes == {3, 40000}

MCOtherPdus ==
    {[la |-> 0, main_carrier |-> 0, cck_valid_no_hf |-> TRUE, cck_id |-> 2,
      hyperframe_number |-> 0],
     [la |-> 6, main_carrier |-> 9, cck_valid_no_hf |-> FALSE, cck_id |-> 0,
      hyperframe_number |-> 4]}
=============================================================================
