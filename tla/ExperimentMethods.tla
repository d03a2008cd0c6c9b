-------------------------- MODULE ExperimentMethods --------------------------
(* What the experiment runners share: the comparator methods, the reservation  *)
(* arithmetic, the admission decisions, the ledgers and the rule that ties an  *)
(* observed usage to the fault mode a request declares.                        *)
(*                                                                             *)
(* A request is numbered by its place in the stream.  Money is in micros; a    *)
(* price is per PriceUnit tokens (a million in the code).                      *)
EXTENDS Integers, FiniteSets, Sequences, Sums

CONSTANTS
    PriceUnit,    \* the number of tokens a price is quoted for
    InputPrice,   \* config.InputPriceMicrosPerMillion
    OutputPrice,  \* config.OutputPriceMicrosPerMillion
    OutputCap,    \* config.VerifiedOutputCapTokens
    Estimate,     \* config.EstimateOutputTokens of the estimating methods
    Margin,       \* config.MarginOutputTokens of mean_margin
    MinSupport,   \* method.RevalidationMinimumSupport
    MaxAge        \* method.MaxAgeSeconds

ASSUME PriceAssumption == PriceUnit \in Nat \ {0} /\ InputPrice \in Nat /\ OutputPrice \in Nat

\* The reservation mode each comparator executes.
budgetAdmissionMethods ==
    [no_budget |-> "observational", settled_only |-> "settled_only",
     strict_max |-> "strict_provider_cap", mean |-> "mean",
     mean_margin |-> "fixed_margin", fixed_quantile |-> "fixed_quantile",
     fixed_estimate |-> "mean", gov_ar |-> "govar_fixed_cohort"]

Methods == DOMAIN budgetAdmissionMethods

Reserving(method) == method \notin {"no_budget", "settled_only"}

ceilingProduct(price, quantity) == (price * quantity + PriceUnit - 1) \div PriceUnit

Lesser(a, b) == IF a < b THEN a ELSE b

\* Calibration evidence is usable only when it is supported, young (the
\* calibration and the drift window both) and free of detected drift.
govarEvidenceFallsBack(evidence) ==
    \/ evidence.support < MinSupport
    \/ evidence.age > MaxAge
    \/ evidence.driftAge > MaxAge
    \/ evidence.drift

\* A mutant: the mean is reserved with no room above it.
ReservedTokensWithoutCap(method, evidence, op) == Lesser(Estimate, op.max)

ReservedTokens(method, evidence, op) ==
    CASE budgetAdmissionMethods[method] \in {"mean", "fixed_quantile"} -> Lesser(Estimate, op.max)
      [] budgetAdmissionMethods[method] = "fixed_margin" -> Lesser(Estimate + Margin, op.max)
      [] budgetAdmissionMethods[method] = "strict_provider_cap" -> op.max
      [] budgetAdmissionMethods[method] = "govar_fixed_cohort" ->
            IF govarEvidenceFallsBack(evidence) THEN op.max ELSE Lesser(evidence.upper, op.max)

expectedReservation(method, evidence, op) ==
    IF ~Reserving(method) THEN 0
    ELSE ceilingProduct(InputPrice, op.input)
         + ceilingProduct(OutputPrice, ReservedTokens(method, evidence, op))

ActualCost(usage) == ceilingProduct(InputPrice, usage.in) + ceilingProduct(OutputPrice, usage.out)

\* A usage is accepted when it shows exactly the fault the request declares.
OutcomeInBounds(op, usage) ==
    LET mismatch == usage.in # op.input
        violation == usage.out > op.max \/ usage.out > OutputCap
    IN CASE op.fault = "nominal" -> ~mismatch /\ ~violation
         [] op.fault = "provider_cap_violation" -> ~mismatch /\ violation
         [] op.fault = "known_input_mismatch" -> mismatch /\ ~violation

-----------------------------------------------------------------------------
(* One ledger per tenant-window: what is settled, what is held, and how many   *)
(* reservations are active.  The non-reserving methods hold nothing.           *)

EmptyBook == [settled |-> 0, held |-> 0, active |-> 0]

SettledOnlyAdmits(op, book) == op.budget - book.settled > 0

Admits(method, reserved, op, book) ==
    CASE method = "no_budget" -> TRUE
      [] method = "settled_only" -> SettledOnlyAdmits(op, book)
      [] OTHER -> reserved <= op.budget - book.settled - book.held

AdmitIn(method, reserved, book) ==
    IF Reserving(method) THEN [book EXCEPT !.held = @ + reserved, !.active = @ + 1] ELSE book

\* A mutant: a settlement frees the hold and what it cost as well.
SettleInFreeingCost(method, reserved, cost, book) ==
    IF Reserving(method)
    THEN [settled |-> book.settled + cost, held |-> book.held - reserved - cost, active |-> book.active - 1]
    ELSE [book EXCEPT !.settled = @ + cost]

SettleIn(method, reserved, cost, book) ==
    IF Reserving(method)
    THEN [settled |-> book.settled + cost, held |-> book.held - reserved, active |-> book.active - 1]
    ELSE [book EXCEPT !.settled = @ + cost]

=============================================================================
