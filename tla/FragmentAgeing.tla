--------------------------- MODULE FragmentAgeing ---------------------------
(***************************************************************************)
(* FragmentReceiver with a count of the multiframes that have passed since *)
(* a slot's last fragment, which is what the age of a slot is said to be.  *)
(***************************************************************************)
EXTENDS FragmentReceiver

VARIABLE since      \* per slot, the frames 18 begun since the last fragment

AgeingInit == Init /\ since = [s \in Slots |-> 0]

Elapse ==
    since' = [s \in Slots |->
                IF now'.fn = 18 /\ now.fn # 18 /\ since[s] < 4
                THEN since[s] + 1 ELSE since[s]]

Restart ==
    LET b == Head(blocks)
    IN  since' = IF b.tup.crc_ok /\ Head(b.pdus).kind \in {"start", "frag"}
                 THEN [since EXCEPT ![b.tup.tn] = 0] ELSE since

AgeingNext == (NextSlot /\ Elapse) \/ (ParsePdu /\ Restart)
AgeingSpec == AgeingInit /\ [][AgeingNext]_<<vars, since>>

\* A partial message is dropped only by its own end, or when at least four
\* multiframes have passed since its last fragment (age_fragslots, N203).
DroppedOnlyWhenOld ==
    [][\A s \in Slots :
          (fragslots[s].active /\ ~fragslots'[s].active) =>
             \/ Head(Head(blocks).pdus).kind = "end"
             \/ since[s] >= 4]_<<vars, since>>
=============================================================================
