--------------------------- MODULE MCGovarLedger ---------------------------
(***************************************************************************)
(* Instances of GovarLedger for TLC.                                       *)
(***************************************************************************)
EXTENDS GovarLedger, TLC

CONSTANTS t1, r1, r2, p1

OneOwner == (r1 :> t1) @@ (r2 :> t1)
OneBudget == (p1 :> 4)

RequestSymmetry == Permutations({r1, r2})

=============================================================================
