---------------------------- MODULE MCExpiryWork ----------------------------
(***************************************************************************)
(* Instances of ExpiryWork for TLC: one window and one usage version, so   *)
(* that the ledger's part stays small.                                     *)
(***************************************************************************)
EXTENDS ExpiryWork, TLC

CONSTANTS t1, r1, r2, p1, w1, w2

OneOwner == [r \in Requests |-> t1]
OneBudget == p1 :> 2

Symmetric == Permutations({r1, r2}) \cup Permutations({w1, w2})

=============================================================================
