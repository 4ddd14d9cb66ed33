----------------------------- MODULE MacBlockMC -----------------------------
EXTENDS MacBlock

\* None, the shortest, and one with every optional part.
MCAllocs ==
    { <<>>,
      <<[ext |-> FALSE, monit |-> 1, ul_dl |-> 1, nap |-> FALSE, condA |-> FALSE, condB |-> FALSE]>>,
      <<[ext |-> TRUE, monit |-> 0, ul_dl |-> 0, nap |-> TRUE, condA |-> TRUE, condB |-> FALSE]>> }
=============================================================================
