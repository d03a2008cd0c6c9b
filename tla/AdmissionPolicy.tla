-------------------------- MODULE AdmissionPolicy --------------------------
(***************************************************************************)
(* How GOV-AR admission turns models and providers into candidates         *)
(* (govar/snapshot.go), how many output tokens it reserves for one, and    *)
(* which candidate it chooses (govar/admission_policy.go).                 *)
(*                                                                         *)
(* Each check is a pair of a condition and the reason given when it fails; *)
(* the first that fails decides.  Digests and identities that only have to *)
(* be present or well-formed are one Boolean field (wellFormed).           *)
(***************************************************************************)
EXTENDS Pricing, Sequences

\* The reason of the first check that fails, or "".
FirstFailure(checks) ==
    LET failed == {i \in DOMAIN checks : ~checks[i][1]}
    IN  IF failed = {} THEN Empty ELSE checks[CHOOSE i \in failed : \A j \in failed : i <= j][2]

Fresh(observedAt, at) == at - observedAt <= Day /\ observedAt - at <= Minute

-----------------------------------------------------------------------------
(* Candidates *)

zoneAllowed(allowed, residency, region) == residency \in allowed \/ region \in allowed

OutputCapSupported(type, pathMode) ==
    <<type, pathMode>> \in {<<"openai", "openai-body">>,
                            <<"azure-openai", "azure-deployment-path">>}

matchesTarget(req, model) ==
    \A k \in {"namespace", "team", "application"} :
        model.serves[k] = Empty \/ model.serves[k] = req[k]

\* The route binding is there once and well-formed; otherwise deployment is "".
providerRouteBinding(provider) == provider.deployment # Empty

\* Mutant: the cap of an earlier provider generation still counts.
AnyGeneration(cap, provider) == TRUE

\* The cap was verified for the provider, deployment and prices as they are now.
SameProvider(cap, provider) ==
    /\ cap.generation = provider.generation /\ cap.deployment = provider.deployment
    /\ cap.digest = provider.digest

VerifiedOutputCap(model, provider, at) ==
    LET cap == model.cap IN
    /\ cap.present /\ cap.verified /\ cap.tokens > 0
    /\ SameProvider(cap, provider)
    /\ OutputCapSupported(provider.type, provider.pathMode)
    /\ cap.validUntil > at /\ Fresh(cap.observedAt, at)

BuildCandidate(req, model, provider, at) ==
    LET reason == FirstFailure(<<
          <<provider.present, "provider_unavailable">>,
          <<model.wellFormed /\ provider.wellFormed, "not_routable">>,
          <<matchesTarget(req, model), "workload_target_mismatch">>,
          <<model.observed = model.generation /\ model.ready, "model_not_ready">>,
          <<provider.observed = provider.generation /\ provider.ready, "provider_unavailable">>,
          <<model.routable /\ providerRouteBinding(provider)
            /\ OutputCapSupported(provider.type, provider.pathMode), "not_routable">>,
          <<~req.sensitive \/ model.sensitive \/ provider.sensitive, "governance_infeasible">>,
          <<req.zones = {} \/ zoneAllowed(req.zones, provider.residency, provider.region),
            "governance_infeasible">>,
          <<Fresh(model.evaluatedAt, at), "quality_stale">>,
          <<model.context > 0 /\ provider.priced, "pricing_incomplete">>,
          <<provider.priced /\ ValidateSnapshot(provider.snapshot, provider.digest,
                                                provider.generation, at), "pricing_stale">> >>)
    IN  [ref |-> model.ref, feasible |-> reason = Empty, reason |-> reason,
         quality |-> model.quality, context |-> model.context,
         latency |-> IF model.latency # Absent /\ Fresh(model.latencyAt, at)
                     THEN model.latency ELSE Absent,
         verified |-> VerifiedOutputCap(model, provider, at),
         cap |-> model.cap.tokens,
         snapshot |-> provider.snapshot, digest |-> provider.digest]

-----------------------------------------------------------------------------
(* Reservations *)

\* What the routing policy publishes about the calibration of a candidate.
validateCalibrationEvidence(evidence) ==
    FirstFailure(<<
      <<evidence.present, "calibration_missing">>,
      <<evidence.sourceOK, "calibration_mismatch">>,
      <<evidence.observed, "calibration_generation">>,
      <<evidence.artifactOK, "calibration_mismatch">>,
      <<evidence.regimeOK, "calibration_regime">>,
      <<evidence.supported, "calibration_support">>,
      <<evidence.boundOK, "calibration_mismatch">>,
      <<evidence.age \in 0 .. evidence.maxAge, "calibration_stale">>,
      <<evidence.driftSpecOK, "calibration_mismatch">>,
      <<evidence.detectorKnown, "calibration_unsupported">>,
      <<evidence.driftAge \in 0 .. evidence.maxAge, "calibration_stale">>,
      <<~evidence.drifted, "calibration_drift">> >>)

Smaller(a, b) == IF a < b THEN a ELSE b

Tokens(tokens, method, fallback) ==
    [tokens |-> tokens, method |-> method, fallback |-> fallback, reason |-> Empty]

Refused(method, reason) ==
    [tokens |-> 0, method |-> method, fallback |-> Empty, reason |-> reason]

Strict(req, candidate, fallback) ==
    IF candidate.verified /\ req.maxOutput <= candidate.cap
    THEN Tokens(req.maxOutput, "strict_provider_cap", fallback)
    ELSE Refused("strict_provider_cap", "strict_cap_unverified")

\* An estimate, clamped to the cap of the request, for an input that is exact.
Estimated(req, routing, candidate, method) ==
    LET clamp(v) == Tokens(Smaller(v, req.maxOutput), method, Empty)
        uncalibrated == Refused(method, "insufficient_calibration")
        invalid == validateCalibrationEvidence(routing.evidence)
    IN  CASE method = "mean" ->
               IF routing.mean < 0 THEN uncalibrated ELSE clamp(routing.mean)
          [] method = "fixed_margin" ->
               IF routing.mean < 0 \/ routing.margin < 0
                  \/ routing.mean > req.maxOutput - routing.margin
               THEN uncalibrated ELSE clamp(routing.mean + routing.margin)
          [] method = "fixed_quantile" ->
               IF routing.quantile < 0 THEN uncalibrated ELSE clamp(routing.quantile)
          [] method \in {"adaptive_quantile", "govar_fixed_cohort"} ->
               IF invalid # Empty
               THEN IF routing.fallback = "strict_provider_cap"
                    THEN Strict(req, candidate, invalid) ELSE Refused(method, invalid)
               ELSE IF method = "govar_fixed_cohort" /\ ~req.inCohort
               THEN uncalibrated ELSE clamp(routing.adaptive)
          [] OTHER -> Refused(method, "reservation_method_unknown")

reservationTokens(req, routing, candidate) ==
    LET method == IF routing.method = Empty THEN "strict_provider_cap" ELSE routing.method
    IN  CASE req.maxOutput <= 0 -> Refused(method, "insufficient_evidence")
          [] req.maxOutput > 0 /\ method = "strict_provider_cap" ->
               Strict(req, candidate, Empty)
          [] req.maxOutput > 0 /\ method # "strict_provider_cap" /\ ~req.exact ->
               Strict(req, candidate, "input_bound_fallback")
          [] OTHER -> Estimated(req, routing, candidate, method)

IsStrict(method) == method \in {"strict_provider_cap", "strict_context_window_bound"}

\* Guardrails and the context window.
GuardFailure(req, routing, c) ==
    FirstFailure(<<
      <<c.feasible, c.reason>>,
      <<c.quality >= routing.minQuality, "quality_below_minimum">>,
      <<(routing.maxLatency > 0 \/ routing.objective = "latency") => c.latency # Absent,
        "latency_unavailable">>,
      <<routing.maxLatency > 0 => c.latency <= routing.maxLatency, "latency_exceeded">>,
      <<c.context > 0 /\ (IF req.exact THEN req.input + req.maxOutput <= c.context
                          ELSE req.maxOutput < c.context), "context_limit">> >>)

\* The components reserved for a candidate that passed the guardrails for so
\* many tokens, or why there are none.
Quote(req, c, guard, tokens, at) ==
    LET whole == IsStrict(tokens.method) /\ ~req.exact
        input == IF whole THEN c.context - tokens.tokens ELSE req.input
        priced == ReserveComponents(c.snapshot, c.digest,
                    [input |-> input, output |-> tokens.tokens,
                     declared |-> req.declared], at)
        sum == SumComponents(priced.components)
        reason == CASE guard # Empty -> guard
                    [] guard = Empty /\ tokens.reason # Empty -> tokens.reason
                    [] OTHER -> IF priced.ok THEN IF sum > MaxInt64 THEN "pricing_error" ELSE Empty
                                ELSE "pricing_error"
    IN  IF reason # Empty THEN [ref |-> c.ref, reason |-> reason, candidate |-> c]
        ELSE [ref |-> c.ref, reason |-> Empty, candidate |-> c, reservation |-> sum,
              method |-> IF whole THEN "strict_context_window_bound" ELSE tokens.method,
              fallback |-> tokens.fallback, inputBound |-> input, outputBound |-> tokens.tokens]

Offer(req, routing, c, at) ==
    Quote(req, c, GuardFailure(req, routing, c), reservationTokens(req, routing, c), at)

\* Mutant: the cheapest offer, whatever the objective.
Cheaper(routing, a, b) ==
    a.reservation < b.reservation \/ (a.reservation = b.reservation /\ a.ref < b.ref)

\* The order of sort.Slice; refs are numbers in the order of their names.
Before(routing, a, b) ==
    LET key(o) == <<CASE routing.objective = "quality" -> -o.candidate.quality
                      [] routing.objective = "latency" -> o.candidate.latency
                      [] OTHER -> 0,
                    o.reservation, o.ref>>
    IN  \E i \in 1 .. 3 : /\ key(a)[i] < key(b)[i]
                          /\ \A j \in 1 .. i - 1 : key(a)[j] = key(b)[j]

\* A candidate whose prices cannot be applied refuses the whole request; the
\* reason of the last candidate is given when none was feasible.
chooseAdmission(routing, offers, available) ==
    LET priced == {i \in DOMAIN offers : offers[i].reason = Empty}
        fitting == {offers[i] : i \in {j \in priced : offers[j].reservation <= available}}
        none(reason) == [ok |-> FALSE, reason |-> reason]
    IN  CASE \E i \in DOMAIN offers : offers[i].reason = "pricing_error" ->
               none("pricing_incomplete")
          [] offers = << >> -> none("no_candidate")
          [] OTHER ->
               IF fitting # {}
               THEN [ok |-> TRUE, reason |-> Empty,
                     choice |-> CHOOSE o \in fitting :
                                  \A other \in fitting \ {o} : Before(routing, o, other)]
               ELSE IF priced # {} THEN none("budget_unavailable")
               ELSE none(offers[Len(offers)].reason)

validatePolicyAndTarget(req, budget, routing, at) ==
    FirstFailure(<<
      <<budget.ready /\ routing.ready, "policy_not_ready">>,
      <<routing.evaluatedAt <= at /\ at - routing.evaluatedAt <= Day, "policy_not_ready">>,
      <<\A k \in DOMAIN budget.target : budget.target[k] \in {Empty, req[k]},
        "budget_target_mismatch">> >>)

isCalibrationReason(reason) ==
    reason \in {"insufficient_calibration", "calibration_missing", "calibration_generation",
                "calibration_mismatch", "calibration_regime", "calibration_support",
                "calibration_stale", "calibration_drift", "calibration_unsupported"}

decisionForAdmissionFailure(routing, reason) ==
    CASE reason = "budget_unavailable" -> "queue"
      [] reason # "budget_unavailable" /\ isCalibrationReason(reason) ->
           IF routing.fallback \in {"queue", "reject", "require_approval"}
           THEN routing.fallback ELSE "abstain"
      [] OTHER -> "abstain"
=============================================================================
