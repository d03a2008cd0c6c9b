-------------------------- MODULE MCGatewayStream --------------------------
(***************************************************************************)
(* Instances of GatewayStream for TLC: two streams of one request and one  *)
(* of another, of the same tenant.                                         *)
(***************************************************************************)
EXTENDS GatewayStream, TLC

CONSTANTS t1, r1, r2, p1, s1, s2, s3

OneOwner == [r \in Requests |-> t1]
OneBudget == p1 :> 3
Carried == (s1 :> r1) @@ (s2 :> r1) @@ (s3 :> r2)

SameRequest == Permutations({s1, s2})

=============================================================================
