--------------------------------- MODULE Sums ---------------------------------
(* The sum of the values a function has on a finite set.                   *)
EXTENDS Integers, FiniteSetsExt

Total(values, S) == MapThenSumSet(LAMBDA s : values[s], S)
=============================================================================
