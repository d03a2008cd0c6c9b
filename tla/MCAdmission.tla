---------------------------- MODULE MCAdmission ----------------------------
(***************************************************************************)
(* Instances of Admission for TLC: two models with a provider each, three  *)
(* price lists (one incomplete), prices of one and a half and three micros *)
(* per token so that costs are rounded.                                    *)
(***************************************************************************)
EXTENDS Admission, TLC

Charge(basis, applicability, price, included, maximum, bound) ==
    [basis |-> basis, applicability |-> applicability, price |-> price, unit |-> 1,
     included |-> included, maximum |-> maximum, bound |-> bound, disjoint |-> FALSE]

Others(bases) == AllBases \ ({"input_tokens", "output_tokens"} \cup bases)

\* Prices in halves of a micro (Precision = 2).
Flat == [input |-> 3000000, output |-> 6000000,
         charges |-> {Charge("request", "always", 1, Empty, 1, Empty)},
         inapplicable |-> Others({"request"})]

PerTool == [input |-> 6000000, output |-> 3000000,
            charges |-> {Charge("tool_call", "request", 2, Empty, Absent, "own"),
                         Charge("cached_input_tokens", "request", 0, "input_tokens", Absent, Empty)},
            inapplicable |-> Others({"tool_call", "cached_input_tokens"})]

Incomplete == [Flat EXCEPT !.inapplicable = {}]

MCPriceLists == {Flat, PerTool, Incomplete}

Anyone == [k \in {"namespace", "team", "application"} |-> Empty]

MCModelSpec == <<[context |-> 4, quality |-> 70, latency |-> 5, serves |-> Anyone, zone |-> "eu"],
                 [context |-> 3, quality |-> 90, latency |-> 9,
                  serves |-> [Anyone EXCEPT !.team = "a"], zone |-> "us"]>>

Request(exact, input, tools) ==
    [namespace |-> "n", team |-> "a", application |-> "x", sensitive |-> FALSE,
     zones |-> {}, exact |-> exact, input |-> input, maxOutput |-> 1,
     declared |-> "tool_call" :> tools, inCohort |-> TRUE]

Calibrated == [present |-> TRUE, sourceOK |-> TRUE, observed |-> TRUE, artifactOK |-> TRUE,
               regimeOK |-> TRUE, supported |-> TRUE, boundOK |-> TRUE, age |-> 0,
               maxAge |-> 1, driftSpecOK |-> TRUE, detectorKnown |-> TRUE, driftAge |-> 0,
               drifted |-> FALSE]

Routing(objective, method, fallback, quantity) ==
    [ready |-> TRUE, evaluatedAt |-> 0, objective |-> objective, method |-> method,
     mean |-> 1, margin |-> 1, quantile |-> 1, adaptive |-> 1, fallback |-> fallback,
     evidence |-> Calibrated, minQuality |-> 0, maxLatency |-> 0,
     budget |-> [ready |-> TRUE, target |-> [team |-> "a"]], quantity |-> quantity]

Strictly(objective, quantity) == Routing(objective, Empty, "reject", quantity)

\* Exact and estimated inputs, a narrow budget, a drifted calibration with the
\* strict fallback and one that is still valid.
MCCalls ==
   <<[req |-> Request(TRUE, 1, 1), routing |-> Strictly("quality", 17)],
     [req |-> Request(FALSE, 1, 0), routing |-> Strictly("cost", 60)],
     [req |-> [Request(TRUE, 2, 0) EXCEPT !.maxOutput = 2],
      routing |-> [Routing("latency", "govar_fixed_cohort", "strict_provider_cap", 60)
                     EXCEPT !.evidence.drifted = TRUE]],
     [req |-> [Request(TRUE, 1, 2) EXCEPT !.maxOutput = 2, !.zones = {"eu"}],
      routing |-> [Routing("quality", "adaptive_quantile", "queue", 60) EXCEPT !.minQuality = 60]]>>

MCFirstList == <<Flat, PerTool>>
=============================================================================
