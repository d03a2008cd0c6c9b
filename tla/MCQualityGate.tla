--------------------------- MODULE MCQualityGate ---------------------------
(* QualityGate for TLC: a dataset of one prompt, one that extends it and an *)
(* empty one.                                                               *)
EXTENDS QualityGate

mcDatasets == {"one", "two", "empty"}
mcIDs == [d \in mcDatasets |->
            CASE d = "one" -> {1} [] d = "two" -> {1, 2} [] d = "empty" -> {}]
mcInitially == {<<"one", "high">>}

=============================================================================
