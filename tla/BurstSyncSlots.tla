--------------------------- MODULE BurstSyncSlots ---------------------------
(***************************************************************************)
(* The synchroniser, bit by bit, implements the stream of whole bursts     *)
(* that the modules of the layers above take as their input.               *)
(***************************************************************************)
EXTENDS BurstSync

\* The bursts of which the stream b has bits.  One that does not start where the grid of the
\* synchroniser has it is none of those that were sent.
BurstsIn(b) ==
    [i \in 1 .. (Len(b) + TS - 1) \div TS |->
        LET first == b[(i - 1) * TS + 1]
        IN  IF first.ph = 0 THEN first.kind ELSE "misplaced"]

Slots == INSTANCE SlotStream WITH
            MaxBegun <- BufSize \div TS + 1,
            locked <- state = "locked",
            begun <- IF state = "locked" THEN BurstsIn(buf) ELSE <<>>,
            given <- out.burst

\* From the lock to its loss each burst that is sent is taken once, in its order, and given
\* on unless it was corrupted; whatever the chunks were in which its bits arrived
\* (tetra_burst_sync_in).
GivesAllBursts == Slots!Spec
=============================================================================
