------------------------------ MODULE TetraTdma ------------------------------
(***************************************************************************)
(* The TDMA time of the air interface (decoder/src/tetra_tdma.c) and a     *)
(* predicate the lower MAC derives from it.  A time is a record            *)
(*   tn  timeslot, fn  frame, mn  multiframe, hn  hyperframe, sn  symbol   *)
(* and the operators are the arithmetic of the C functions, carry by       *)
(* carry.  The fields are 32-bit unsigned in C (hn is 16 bits wide and is  *)
(* never carried into); every value met here stays far below those widths. *)
(* Time is added by slots only: nobody calls the functions that add        *)
(* symbols and frames.                                                     *)
(***************************************************************************)
EXTENDS Naturals

CONSTANTS
    MaxFn,      \* frames of a multiframe, 18
    MaxMn       \* multiframes of a hyperframe, 60

ASSUME TetraTdmaAssumption == MaxFn \in Nat \ {0} /\ MaxMn \in Nat \ {0}

MutNormalizeMn(t) == IF t.mn >= MaxMn THEN [t EXCEPT !.mn = @ % MaxMn] ELSE t
NormalizeMn(t) == IF t.mn > MaxMn THEN [t EXCEPT !.mn = @ % MaxMn] ELSE t

NormalizeFn(t) ==
    LET carried == [t EXCEPT !.mn = @ + t.fn \div MaxFn]
    IN  NormalizeMn(IF t.fn > MaxFn THEN [carried EXCEPT !.fn = @ % MaxFn] ELSE t)

NormalizeTn(t) ==
    LET carried == [t EXCEPT !.fn = @ + t.tn \div 4]
    IN  NormalizeFn(IF t.tn > 4 THEN [carried EXCEPT !.tn = @ % 4] ELSE t)

AddTn(t, n) == NormalizeTn([t EXCEPT !.tn = @ + n])

\* is_bnch: the slot of the last frame that carries the network broadcast channel rotates
\* with the multiframe number.
MutIsBnch(t) == t.fn = MaxFn /\ t.tn = 4 - ((t.mn + 5) % 4)
IsBnch(t) == t.fn = MaxFn /\ t.tn = 4 - ((t.mn + 3) % 4)

\* The state t_phy_state is in before the first SYNC PDU: static storage.
ZeroTime == [hn |-> 0, sn |-> 0, tn |-> 0, fn |-> 0, mn |-> 0]
=============================================================================
