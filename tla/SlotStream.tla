----------------------------- MODULE SlotStream -----------------------------
(***************************************************************************)
(* What a burst synchroniser promises to its callback, without bits: while *)
(* it is locked it takes the bursts that are sent one by one, in the order *)
(* in which they are sent, and leaves none out; it gives a burst on unless *)
(* it was corrupted, and only then may the lock be lost.  A lock may come  *)
(* with any call, and bursts sent before it are never seen.                *)
(***************************************************************************)
EXTENDS Sequences, SequencesExt

CONSTANTS
    Kinds,      \* the kinds of bursts that can be recognised
    MaxBegun    \* so many bursts can begin in the bits of one call

VARIABLES
    locked,
    begun,      \* the bursts that have begun since the lock and were not taken yet
    given       \* what the last call gave to the callback, or "none"

vars == <<locked, begun, given>>

AirKinds == Kinds \cup {"lost"}
Init == locked = FALSE /\ begun = <<>> /\ given = "none"

\* The first of the bursts is taken.  The lock may survive a corrupted one, when there is a
\* burst after it.
Take(bursts) ==
    /\ bursts # <<>>
    /\ given' = IF Head(bursts) = "lost" THEN "none" ELSE Head(bursts)
    /\ \/ locked' = TRUE /\ begun' = Tail(bursts)
       \/ Head(bursts) = "lost" /\ locked' = FALSE /\ begun' = <<>>

\* It has not arrived as a whole.
Keep(bursts) == locked' = TRUE /\ begun' = bursts /\ given' = "none"

Call ==
    /\ locked
    /\ \E ks \in BoundedSeq(AirKinds, MaxBegun) : Take(begun \o ks) \/ Keep(begun \o ks)

\* The bursts that have begun when the lock comes.
Lock ==
    /\ ~locked
    /\ \E ks \in BoundedSeq(AirKinds, MaxBegun) : Take(ks) \/ Keep(ks)

Search == ~locked /\ given' = "none" /\ UNCHANGED <<locked, begun>>

Next == Call \/ Lock \/ Search

Spec == Init /\ [][Next]_vars
=============================================================================
