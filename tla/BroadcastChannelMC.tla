------------------------- MODULE BroadcastChannelMC -------------------------
(***************************************************************************)
(* Two cells that differ in the last bit of their colour code; runs of     *)
(* errors that just can be corrected, from every place of a block in the   *)
(* course of a hyperframe or of some of them, and runs that cannot.        *)
(***************************************************************************)
EXTENDS BroadcastChannel

OwnCell == [mcc |-> 262, mnc |-> 1001, cc |-> 17]
ForeignCell == [mcc |-> 262, mnc |-> 1001, cc |-> 16]

ForeignMultiframes == {2, 30, 31, 60}

RunsOfErrors ==
    {[blk |-> "SB1", len |-> 10, start |-> 0, step |-> 2, in |-> 1 .. 60],
     [blk |-> "SB1", len |-> 10, start |-> 1, step |-> 2, in |-> 1 .. 60],
     [blk |-> "SB1", len |-> 40, start |-> 0, step |-> 7, in |-> {1, 2, 30, 31, 60}],
     [blk |-> "BBK", len |-> 3, start |-> 0, step |-> 5, in |-> {3, 31}],
     [blk |-> "SB2", len |-> 14, start |-> 0, step |-> 7, in |-> 1 .. 60],
     [blk |-> "NDB", len |-> 14, start |-> 3, step |-> 11, in |-> 1 .. 60],
     [blk |-> "NDB", len |-> 90, start |-> 0, step |-> 11, in |-> 1 .. 60],
     [blk |-> "SCH_F", len |-> 20, start |-> 0, step |-> 13, in |-> 1 .. 60]}
=============================================================================
