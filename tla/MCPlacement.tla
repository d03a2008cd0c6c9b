---------------------------- MODULE MCPlacement ----------------------------
(* Placement for TLC: one evidence object per node, named like its node;    *)
(* one policy accepts any TEE, the other only the TEE that simulated        *)
(* evidence carries here.                                                   *)
EXTENDS Placement

mcNodeOf == [e \in Evidences |-> e]
Lax == [tees |-> TEEs, maxAge |-> 1]
Strict == [tees |-> {"TDX"}, maxAge |-> 1]
mcSpecs == {Lax, Strict}

=============================================================================
