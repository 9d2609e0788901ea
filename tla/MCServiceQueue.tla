---------------------------- MODULE MCServiceQueue ----------------------------
(* Small instances of ServiceQueue for TLC. *)
EXTENDS ServiceQueue, TLC

CONSTANTS j1, j2, w1, w2, w3

\* j1 has a limit of its own, j2 has none.
MCRetries == [j \in Jobs |-> IF j = j1 THEN 1 ELSE NoLimit]
MCTwo     == [j \in Jobs |-> 2]

MCSymmetry == Permutations(Workers)
=============================================================================
