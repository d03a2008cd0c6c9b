-------------------------------- MODULE Sums --------------------------------
(* The sum of the values of a function over a finite set. *)
EXTENDS Integers, FiniteSetsExt

SumOver(f, S) == MapThenSumSet(LAMBDA q : f[q], S)
=============================================================================
