----------------------------- MODULE Admission -----------------------------
(***************************************************************************)
(* From price list to settled cost: administrators edit AIProvider and     *)
(* AIModel objects, their reconcilers publish a normalized price snapshot  *)
(* and a verified output cap, the admission handler lists models and then  *)
(* providers, reserves the chosen candidate, and the usage the provider    *)
(* reports is priced against the snapshot frozen at admission.             *)
(*                                                                         *)
(* A status update carries the resource version its object was read with,  *)
(* so that reading and updating one object is one step; the model          *)
(* reconciler also reads another object, the provider, and has two.  One   *)
(* admission is followed, at any point of the edits; nothing else is       *)
(* stepped once it is decided, as the settlement reads only what the       *)
(* reservation froze.                                                      *)
(*                                                                         *)
(* Assumed of administrators: evidence that a cap is enforced is attested  *)
(* only while the model's provider has a deployment that enforces it, and  *)
(* withdrawn before the provider is given another.  Nothing in the         *)
(* evidence names the deployment.                                          *)
(***************************************************************************)
EXTENDS AdmissionPolicy

CONSTANTS
    Models,         \* numbers, in the order of the names
    PriceLists,     \* the pricing a provider may declare
    Calls,          \* sequence of admission requests, each with its routing policy
    FirstList,      \* the prices of each provider at the start
    ModelSpec,      \* context window, quality and placement of a model
    Edited,         \* models that are edited and reconciled, with their providers
    MaxEdits,       \* bound: edits of provider and model objects
    MaxClock,       \* bound: days
    MaxUsage        \* bound: quantity of a basis a provider reports

VARIABLES
    clock,     \* minutes
    prov,      \* the provider of each model: spec and status
    mod,       \* AIModel objects: spec and status
    edits,     \* edits so far
    job,       \* the model reconciliation in progress
    call       \* the admission and the settlement

admissionVars == <<clock, prov, mod, edits, job, call>>

ASSUME AdmissionBounds ==
    /\ MaxEdits \in Nat /\ MaxClock \in Nat /\ MaxUsage \in Nat
    /\ Models \subseteq Nat /\ IsFiniteSet(Models) /\ Edited \subseteq Models

\* A price and a unit for which no reported quantity costs more than the
\* largest amount; beyond it the arithmetic of money.go is an error.
Affordable(price, unit) ==
    price >= 0 /\ unit > 0 => ceilingProduct(price, MaxUsage, unit) <= MaxInt64

ASSUME ListAssumption ==
    /\ FirstList \in [Models -> PriceLists]
    /\ \A list \in PriceLists :
         /\ list.input \in Int /\ Affordable(exactMicros(list.input), 1000000)
         /\ list.output \in Int /\ Affordable(exactMicros(list.output), 1000000)
         /\ IsFiniteSet(list.charges)
         /\ \A r \in list.charges : /\ r.price \in Int /\ r.unit \in Int /\ r.maximum \in Int
                                    /\ Affordable(r.price, r.unit)

ASSUME CallAssumption ==
    /\ \A m \in Models : /\ ModelSpec[m].context \in Int /\ ModelSpec[m].quality \in Int
                         /\ ModelSpec[m].latency \in Int
    /\ \A i \in DOMAIN Calls :
         LET req == Calls[i].req
             routing == Calls[i].routing
         IN  /\ req.exact \in BOOLEAN /\ req.input \in Int /\ req.maxOutput \in Int
             /\ \A b \in DOMAIN req.declared : req.declared[b] \in Int
             /\ routing.mean \in Int /\ routing.margin \in Int
             /\ routing.quantile \in Int /\ routing.adaptive \in Int

\* Deployments that pass the output cap of the request on or do not, and "" for
\* a route binding that is missing, duplicate or malformed.
Deployments == {"capped", "uncapped", Empty}

NoCap == [present |-> FALSE, verified |-> FALSE, tokens |-> 0, generation |-> 0,
          deployment |-> Empty, digest |-> Fails, validUntil |-> 0, observedAt |-> 0]

Idle == [phase |-> "idle"]

\* spec.outputCapEvidence of a model
CapTokens == 2

ProviderSpec(list, deployment, generation, at) ==
    [type |-> "openai", pathMode |-> "openai-body", deployment |-> deployment,
     generation |-> generation, list |-> list, listedAt |-> at]

Unready == [observed |-> 0, ready |-> FALSE, priced |-> FALSE]

\* A list is observed when it is declared and valid for a day.
Declared(spec) ==
    [closed |-> TRUE, declared |-> TRUE, generation |-> spec.generation,
     input |-> spec.list.input, output |-> spec.list.output,
     charges |-> spec.list.charges, inapplicable |-> spec.list.inapplicable,
     observedAt |-> spec.listedAt, validUntil |-> spec.listedAt + Day]

\* The status AIProviderReconciler.Reconcile publishes.
Published(spec) ==
    LET normalized == Normalize(Declared(spec), clock)
    IN  IF normalized.ok
        THEN [observed |-> spec.generation, ready |-> TRUE, priced |-> TRUE,
              snapshot |-> normalized.snapshot, digest |-> normalized.digest]
        ELSE [Unready EXCEPT !.observed = spec.generation]

\* Status of the output cap, of a model with or without evidence and its
\* provider as it was read.
OutputCap(evidence, provider) ==
    LET spec == provider.spec
        status == provider.status
    IN  IF /\ evidence /\ status.priced /\ providerRouteBinding(spec)
           /\ OutputCapSupported(spec.type, spec.pathMode)
           /\ status.observed = spec.generation
           /\ status.snapshot.generation = spec.generation
        THEN [present |-> TRUE, verified |-> TRUE, tokens |-> CapTokens,
              generation |-> spec.generation, deployment |-> spec.deployment,
              digest |-> status.digest, validUntil |-> (MaxClock + 1) * Day,
              observedAt |-> clock]
        ELSE NoCap

\* The models that are not edited have been reconciled with their providers.
AdmissionInit ==
    /\ clock = 0 /\ edits = 0 /\ job = Idle /\ call = Idle
    /\ prov = [m \in Models |->
                 LET spec == ProviderSpec(FirstList[m], "capped", 1, 0)
                 IN  [spec |-> spec,
                      status |-> IF m \in Edited THEN Unready ELSE Published(spec)]]
    /\ mod = [m \in Models |->
                LET cap == OutputCap(TRUE, prov[m])
                IN  [evidence |-> TRUE, generation |-> 1,
                     observed |-> IF m \in Edited THEN 0 ELSE 1,
                     ready |-> m \notin Edited /\ cap.present,
                     cap |-> IF m \in Edited THEN NoCap ELSE cap]]

-----------------------------------------------------------------------------
(* Administrators *)

\* One edit changes the prices or the deployment.
EditProvider(m, list, deployment) ==
    /\ edits < MaxEdits /\ edits' = edits + 1
    /\ mod[m].evidence => deployment # "uncapped"
    /\ (list = prov[m].spec.list) # (deployment = prov[m].spec.deployment)
    /\ prov' = [prov EXCEPT ![m].spec =
                  ProviderSpec(list, deployment, @.generation + 1, clock)]
    /\ UNCHANGED <<clock, mod, job, call>>

EditModel(m) ==
    /\ edits < MaxEdits /\ edits' = edits + 1
    /\ ~mod[m].evidence => prov[m].spec.deployment # "uncapped"
    /\ mod' = [mod EXCEPT ![m].evidence = ~@, ![m].generation = @ + 1]
    /\ UNCHANGED <<clock, prov, job, call>>

Tick == /\ clock < MaxClock * Day
        /\ clock' = clock + Day
        /\ UNCHANGED <<prov, mod, edits, job, call>>

-----------------------------------------------------------------------------
(* Reconcilers *)

\* AIProviderReconciler.Reconcile
ReconcileProvider(m) ==
    /\ prov' = [prov EXCEPT ![m].status = Published(prov[m].spec)]
    /\ UNCHANGED <<clock, mod, edits, job, call>>

\* AIModelReconciler.Reconcile: the model and then its provider are read ...
ReconcileModelRead(m) ==
    /\ job = Idle
    /\ job' = [phase |-> "read", model |-> m, generation |-> mod[m].generation,
               evidence |-> mod[m].evidence, provider |-> prov[m]]
    /\ UNCHANGED <<clock, prov, mod, edits, call>>

\* ... and the status is updated, unless the model was edited meanwhile.
ReconcileModelWrite ==
    /\ job.phase = "read"
    /\ mod' = IF job.generation # mod[job.model].generation THEN mod
              ELSE [mod EXCEPT ![job.model] =
                      [@ EXCEPT !.observed = job.generation, !.cap = OutputCap(job.evidence, job.provider),
                                !.ready = OutputCap(job.evidence, job.provider).present]]
    /\ job' = Idle
    /\ UNCHANGED <<clock, prov, edits, call>>

-----------------------------------------------------------------------------
(* Admission and settlement *)

\* The request being admitted and its routing policy.
Req == Calls[call.of].req
Policy == Calls[call.of].routing

\* handleAdmit lists the models ...
AdmitModels(i) ==
    /\ call = Idle
    /\ call' = [phase |-> "models", of |-> i, mod |-> mod]
    /\ UNCHANGED <<clock, prov, mod, edits, job>>

\* The objects of snapshot.go, from what was listed.
ModelOf(m, listed) ==
    [ref |-> m, wellFormed |-> TRUE, serves |-> ModelSpec[m].serves,
     observed |-> listed.observed, generation |-> listed.generation,
     ready |-> listed.ready, routable |-> TRUE, sensitive |-> FALSE,
     evaluatedAt |-> 0, context |-> ModelSpec[m].context,
     quality |-> ModelSpec[m].quality, latency |-> ModelSpec[m].latency,
     latencyAt |-> 0, cap |-> listed.cap]

ProviderOf(m, listed) ==
    [present |-> TRUE, wellFormed |-> TRUE, type |-> listed.spec.type,
     pathMode |-> listed.spec.pathMode, deployment |-> listed.spec.deployment,
     generation |-> listed.spec.generation, observed |-> listed.status.observed,
     ready |-> listed.status.ready, sensitive |-> FALSE,
     residency |-> ModelSpec[m].zone, region |-> ModelSpec[m].zone,
     priced |-> listed.status.priced,
     snapshot |-> IF listed.status.priced THEN listed.status.snapshot ELSE Fails,
     digest |-> IF listed.status.priced THEN listed.status.digest ELSE Fails]

\* What ChoiceIsBest looks at of an offer.
Weighed(o) ==
    [reason |-> o.reason, quality |-> o.candidate.quality, latency |-> o.candidate.latency,
     reservation |-> IF o.reason = Empty THEN o.reservation ELSE 0]

\* The offers for all models, as listed before, and their providers, as they are now.
Offers ==
    [m \in Models |->
        Offer(Req, Policy,
              BuildCandidate(Req, ModelOf(m, call.mod[m]), ProviderOf(m, prov[m]), clock), clock)]

\* The engine's choice among them.
Chosen(offers) ==
    LET refusal == validatePolicyAndTarget(Req, Policy.budget, Policy, clock)
    IN  IF refusal # Empty THEN [ok |-> FALSE, reason |-> refusal]
        ELSE chooseAdmission(Policy, offers, quantityToMicros(Policy.quantity))

\* ... then the providers, builds the candidates and lets the engine choose.
AdmitDecide ==
    /\ call.phase = "models"
    /\ \E offers \in {Offers} : \E chosen \in {Chosen(offers)} :
         call' = IF chosen.ok
                 THEN [phase |-> "reserved", of |-> call.of,
                       offers |-> [m \in Models |-> Weighed(offers[m])],
                       choice |-> chosen.choice, at |-> clock,
                       deployment |-> prov[chosen.choice.ref].spec.deployment]
                 ELSE [phase |-> "refused", of |-> call.of,
                       offers |-> [m \in Models |-> Weighed(offers[m])],
                       decision |-> decisionForAdmissionFailure(Policy, chosen.reason)]
    /\ UNCHANGED <<clock, prov, mod, edits, job>>

\* The components the reservation froze.
ReservedComponents ==
    ReserveComponents(call.choice.candidate.snapshot, call.choice.candidate.digest,
        [input |-> call.choice.inputBound, output |-> call.choice.outputBound,
         declared |-> Req.declared], call.at).components

\* What a provider may bill: input it was sent, output up to the cap if the
\* deployment passes it on, and what the other bases are bounded by.
MostUsed(b) ==
    LET c == call.choice IN
    CASE b = "input_tokens" -> IF Req.exact THEN Req.input
                               ELSE c.candidate.context - Req.maxOutput
      [] b = "output_tokens" -> IF call.deployment = "capped" THEN Req.maxOutput
                                ELSE c.candidate.context
      [] OTHER -> ReservedOf(ReservedComponents, b)

\* Usage that reaches the settlement, with some bases possibly left out.
Usages ==
    LET charged == {c.basis : c \in ReservedComponents}
    IN  UNION {{u \in [B -> 0 .. MaxUsage] : \A b \in B : u[b] <= MostUsed(b)} :
                 B \in SUBSET charged}

Settle(usage) ==
    /\ call.phase = "reserved"
    /\ LET c == call.choice.candidate
           settled == SettleComponents(c.snapshot, c.digest, ReservedComponents, usage)
       IN  call' = [phase |-> "settled", ok |-> settled.ok,
                    method |-> call.choice.method,
                    reservation |-> call.choice.reservation,
                    cost |-> IF settled.ok THEN SumComponents(settled.components) ELSE Absent,
                    exceeded |-> settled.ok /\ settled.exceeded]
    /\ UNCHANGED <<clock, prov, mod, edits, job>>

Undecided == call.phase \in {"idle", "models"}

AdmissionNext ==
    \/ /\ Undecided
       /\ \/ \E m \in Edited, list \in PriceLists, d \in Deployments :
               EditProvider(m, list, d)
          \/ \E m \in Edited : EditModel(m) \/ ReconcileProvider(m) \/ ReconcileModelRead(m)
          \/ ReconcileModelWrite
          \/ Tick
    \/ \E i \in DOMAIN Calls : AdmitModels(i)
    \/ AdmitDecide
    \/ call.phase = "reserved" /\ \E usage \in Usages : Settle(usage)

AdmissionSpec == AdmissionInit /\ [][AdmissionNext]_admissionVars

-----------------------------------------------------------------------------
(* Properties *)

\* A reservation by a strict method covers whatever the provider bills, though
\* models and providers were listed at different moments between edits and
\* reconciliations.
StrictCovers ==
    call.phase = "settled" /\ IsStrict(call.method) =>
        call.cost <= call.reservation /\ ~call.exceeded

\* Usage on the charged bases is priced, complete or not; it costs more than was reserved only if some
\* quantity exceeds its reserved bound.
UsageIsPriced ==
    call.phase = "settled" =>
        call.ok /\ (call.cost > call.reservation => call.exceeded)

\* What a routing objective ranks by.
Rank(objective, offer) ==
    CASE objective = "quality" -> 100 - offer.quality
      [] objective = "latency" -> offer.latency
      [] OTHER -> offer.reservation

\* No candidate that could have been reserved within the budget and the
\* guardrails ranks better for the objective than the one that was, and a
\* request waits for budget only if none fits.
ChoiceIsBest ==
    call.phase \in {"reserved", "refused"} =>
        \A m \in Models :
            LET o == call.offers[m] IN
            o.reason = Empty /\ o.reservation <= quantityToMicros(Policy.quantity) =>
                \/ /\ call.phase = "reserved"
                   /\ Rank(Policy.objective, call.offers[call.choice.ref]) <= Rank(Policy.objective, o)
                \/ call.phase = "refused" /\ call.decision # "queue"
=============================================================================
