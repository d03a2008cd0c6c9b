------------------------------- MODULE FinOps -------------------------------
(***************************************************************************)
(* Usage reports, sovereignty evaluation and budget fallback.  Every       *)
(* controller reads the same three things: the metrics the AI gateway      *)
(* exposes, the catalog of AIModel and AIProvider objects, and the         *)
(* namespace's sovereignty policy.  From them it derives samples, flows,   *)
(* findings, prices, recommendations, reroutes, and the Prometheus series  *)
(* it publishes and later prunes.                                          *)
(*                                                                         *)
(* Costs are tokens times price, without the division by a million; prices *)
(* and tokens are natural numbers, so that no rounding is modelled.        *)
(***************************************************************************)
EXTENDS Sums, Sequences, SequencesExt

CONSTANTS
    NoValue,    \* an absent value
    Scraped,    \* the histogram series the gateway may expose, by number
    Scrapes,    \* the sets of these numbers it exposes together
    Providers,  \* the residency, prices and flags of each AIProvider, by its name
    Catalogs,   \* the lists of AIModels users may have, by number
    Defaults,   \* the built-in catalog: provider, zone and prices by model name
    Policies,   \* the sovereignty policies users may have, by number
    Reports,    \* names of AIFinOpsReports
    Scope,      \* the target namespace of each report, Empty for all of them
    Budgets,    \* the AIBudgetPolicy specs users may have, by number
    Egress,     \* observed connections [ns, app, zone, provider] past the gateway
    MaxChanges  \* bound on the changes of metrics, catalog and policies

VARIABLES
    scrape,     \* numbers of the series the gateway exposes now
    catalog,    \* number of the users' list of AIModels
    stubs,      \* model names with an automatic stub AIModel
    policy,     \* number of the sovereignty policy, or NoValue
    report,     \* each report's existence and status
    control,    \* what the last reconcile of a policy or a budget decided
    series,     \* published metric series
    owned,      \* series each object's tracker remembers
    changes     \* changes of the environment so far

finopsVars == <<scrape, catalog, stubs, policy, report, control, series, owned, changes>>

-----------------------------------------------------------------------------
(* internal/catalog, internal/controller/catalog.go: what a model is *)

\* The empty string: a field that is not set.
Empty == "empty"

Canonical == [france |-> "FR", francecentral |-> "FR", europe |-> "EU", us |-> "US",
              eastus |-> "US", china |-> "CN", uk |-> "GB"]
EUCountries == {"FR", "DE", "ES", "IT", "NL", "BE"}

\* NormalizeZone: the canonical code of a residency, or the residency itself.
NormalizeZone(z) == IF z \in DOMAIN Canonical THEN Canonical[z] ELSE z
ZoneSet(zones) == {NormalizeZone(z) : z \in zones}

\* zoneAllowed: the EU covers its members, and an empty list allows every zone.
ZoneAllowed(zone, allowed) ==
    allowed = {} \/ zone \in allowed \/ ("EU" \in allowed /\ zone \in EUCountries)

IsZoneAllowed(p, raw) ==
    /\ NormalizeZone(raw) \notin ZoneSet(p.forbidden)
    /\ ZoneAllowed(NormalizeZone(raw), ZoneSet(p.allowed))

-----------------------------------------------------------------------------
(* api/v1alpha1, internal/catalog/defaults.go: what the API server lets users declare *)

EnforcementMode == {"reportOnly", "warn", "enforce"}

\* Zones are as users write them; audit rules and anonymisation have no reader.
AISovereigntyPolicySpec(p) ==
    /\ p.allowed \subseteq STRING /\ p.forbidden \subseteq STRING
    /\ p.external \in BOOLEAN /\ p.mode \in EnforcementMode

\* The thresholds need not be in order; 0 and Empty switch a guardrail off.
AIBudgetPolicySpec(b) ==
    /\ b.ns \in STRING /\ b.app \in STRING
    /\ b.period \in {"daily", "weekly", "monthly"} /\ b.budget \in Nat
    /\ b.warning \in 0 .. 100 /\ b.critical \in 0 .. 100 /\ b.hard \in 0 .. 200
    /\ b.mode \in EnforcementMode /\ b.onPhase \in {"Critical", "Exceeded"}
    /\ b.maxLatency \in Nat /\ b.minTier \in {Empty, "low", "medium", "high"}

\* A built-in model: provider family, canonical zone and list prices.
DefaultModel(d) ==
    d.provider \in STRING /\ d.zone = NormalizeZone(d.zone) /\ d.in \in Nat /\ d.out \in Nat

ASSUME FinOpsAssumption ==
    /\ \A k \in DOMAIN Policies : AISovereigntyPolicySpec(Policies[k])
    /\ \A k \in DOMAIN Budgets : AIBudgetPolicySpec(Budgets[k])
    /\ \A m \in DOMAIN Defaults : DefaultModel(Defaults[m])

\* The gateway exposes finitely many series at a time, with counters.
ScrapeAssumption ==
    \A live \in Scrapes :
        /\ IsFiniteSet(live) /\ live \subseteq Int
        /\ \A i \in live : Scraped[i].sum \in Nat /\ Scraped[i].count \in Nat

\* Lists of AIModels, each of which must name a provider, and the prices of the
\* AIProviders.
CatalogAssumption ==
    /\ 1 \in DOMAIN Catalogs
    /\ \A c \in DOMAIN Catalogs :
        /\ Catalogs[c] \in Seq(ToSet(Catalogs[c]))
        /\ \A i \in DOMAIN Catalogs[c] : Catalogs[c][i].provider # Empty
    /\ \A p \in DOMAIN Providers : Providers[p].in \in Nat /\ Providers[p].out \in Nat

ASSUME FinOpsInputs == ScrapeAssumption /\ CatalogAssumption

DefaultZone(m) == IF m \in DOMAIN Defaults THEN Defaults[m].zone ELSE Empty

\* The AIModel ensureModelStubs creates: its provider is a placeholder.
Stub(m) == [name |-> <<"auto", m>>, model |-> m, provider |-> "unknown", sensitive |-> FALSE,
            tier |-> Empty, ns |-> Empty, app |-> Empty]

\* loadCatalog: the users' models and the stubs.
Listing(c, auto) == Catalogs[c] \o SetToSeq({Stub(m) : m \in auto})

Named(ms, m) == {i \in DOMAIN ms : ms[i].model = m}

\* priceBook: the defaults, overlaid by the models whose provider exists.
PriceBook(ms) ==
    LET priced(m) == {i \in Named(ms, m) : ms[i].provider \in DOMAIN Providers}
        user == {ms[i].model : i \in {j \in DOMAIN ms : ms[j].provider \in DOMAIN Providers}}
    IN  [m \in DOMAIN Defaults \cup user |->
            IF priced(m) = {} THEN [in |-> Defaults[m].in, out |-> Defaults[m].out]
            ELSE LET p == Providers[ms[Max(priced(m))].provider] IN [in |-> p.in, out |-> p.out]]

\* zoneForModel: the residency of the first known provider, or the default.
ZoneForModel(ms, m) ==
    LET known == {i \in Named(ms, m) : ms[i].provider \in DOMAIN Providers}
    IN  IF known = {} THEN DefaultZone(m)
        ELSE NormalizeZone(Providers[ms[Min(known)].provider].zone)

\* modelSensitivity: the first model of that name decides; an unknown one is not cleared.
ModelAllows(ms, m) == Named(ms, m) # {} /\ ms[Min(Named(ms, m))].sensitive

-----------------------------------------------------------------------------
(* internal/collectors/aigw: from series to samples *)

\* modelAttribution: the last model of that name in the listing.
Attribution(ms, m) ==
    IF Named(ms, m) = {} THEN [provider |-> Empty, ns |-> Empty, app |-> Empty]
    ELSE LET x == ms[Max(Named(ms, m))] IN [provider |-> x.provider, ns |-> x.ns, app |-> x.app]

\* The workload a series belongs to: the request's headers, else the catalog.
SampleKey(ms, i) ==
    LET a == Attribution(ms, Scraped[i].model)
    IN  [ns |-> IF Scraped[i].ns # Empty THEN Scraped[i].ns ELSE a.ns,
         app |-> IF Scraped[i].app # Empty THEN Scraped[i].app ELSE a.app,
         model |-> Scraped[i].model]

\* Collect: one sample per workload and model.  Tokens add up, the number of
\* requests is the largest count of its series, latency that of a duration series.
Collect(live, ms) ==
    LET groups == {[key |-> SampleKey(ms, i), of |-> {j \in live : SampleKey(ms, j) = SampleKey(ms, i)}] :
                     i \in live}
        typed(g, t) == {i \in g.of : Scraped[i].type = t}
        sum(g, t) == SumOver([i \in g.of |-> Scraped[i].sum], typed(g, t))
        counts(g) == {Scraped[i].count : i \in typed(g, "input") \cup typed(g, "duration")}
        provider(g) == LET p == Attribution(ms, g.key.model).provider
                       IN  IF p # Empty THEN p ELSE Scraped[Min(g.of)].provider
        latency(g) == IF typed(g, "duration") = {} THEN 0
                      ELSE Scraped[Max(typed(g, "duration"))].sum
    IN  {[ns |-> g.key.ns, app |-> g.key.app, model |-> g.key.model, provider |-> provider(g),
          input |-> sum(g, "input"), output |-> sum(g, "output"),
          requests |-> Max({0} \cup counts(g)), latency |-> latency(g)] : g \in groups}

\* filterByNamespace.
InScope(samples, ns) == {s \in samples : ns = Empty \/ s.ns = ns}

\* unknownModels: neither in the users' catalog nor among the defaults.
UnknownModels(samples, ms) ==
    {s.model : s \in samples} \ ({ms[i].model : i \in DOMAIN ms} \cup DOMAIN Defaults)

\* costengine.sampleCost, for a priced model; an unpriced one costs nothing.
Priced(s, price) == s.input * price.in + s.output * price.out
CostOf(s, pb) == IF s.model \in DOMAIN pb THEN Priced(s, pb[s.model]) ELSE 0
Spend(samples, pb) == SumOver([s \in samples |-> CostOf(s, pb)], samples)

-----------------------------------------------------------------------------
(* internal/sovereigntyengine: from samples to findings *)

\* catalog.flows: the provider's residency, else the default zone of the model.
FlowZone(s) ==
    LET raw == IF s.provider \in DOMAIN Providers THEN Providers[s.provider].zone ELSE Empty
    IN  IF NormalizeZone(raw) = Empty THEN DefaultZone(s.model) ELSE NormalizeZone(raw)

Placed(s) == FlowZone(s) # Empty \/ s.provider # Empty

\* The flow is external: its provider is, or only the default catalog places it.
External(s) ==
    \/ s.provider \in DOMAIN Providers /\ Providers[s.provider].managed
    \/ DefaultZone(s.model) # Empty /\ (s.provider \in DOMAIN Providers => Providers[s.provider].zone = Empty)

Uncleared(s, ms) ==
    ~ModelAllows(ms, s.model) \/ s.provider \notin DOMAIN Providers
    \/ ~Providers[s.provider].sensitive

Finding(severity, s) ==
    [severity |-> severity, ns |-> s.ns, app |-> s.app, model |-> s.model,
     zone |-> FlowZone(s), requests |-> s.requests]

\* Mutant of EvaluateFlows: a forbidden zone inside the allowed ones is let pass.
EvaluateAllowedFirst(p, samples, ms) ==
    UNION {IF ~Placed(s) \/ ZoneAllowed(FlowZone(s), ZoneSet(p.allowed)) THEN {}
           ELSE IF FlowZone(s) \in ZoneSet(p.forbidden) THEN {Finding("critical", s)}
           ELSE {Finding("warning", s)} : s \in samples}

\* EvaluateFlows: the findings of every flow.  Samples are distinct by workload
\* and model, so no two findings of a kind are merged.
EvaluateFlows(p, samples, ms) ==
    LET placed == {s \in samples : Placed(s)}
        forbidden == {s \in placed : FlowZone(s) \in ZoneSet(p.forbidden)}
    IN  {Finding("critical", s) : s \in forbidden}
        \cup {Finding("warning", s) : s \in
                {x \in placed \ forbidden : ~ZoneAllowed(FlowZone(x), ZoneSet(p.allowed))}}
        \cup {Finding("external", s) : s \in
                {x \in placed : ~p.external /\ External(x) /\ Uncleared(x, ms)}}

Critical(findings) == {f \in findings : f.severity = "critical"}

-----------------------------------------------------------------------------
(* internal/recommendationengine, internal/routingscore *)

Compliant(p, ms, m) == p = NoValue \/ IsZoneAllowed(Policies[p], ZoneForModel(ms, m))

\* Mutant of SwapCandidates: any cheaper model will do.
SwapCandidatesAny(s, p, ms, pb) ==
    {m \in DOMAIN pb \ {s.model} : Priced(s, pb[m]) < CostOf(s, pb)}

\* The compliant models that would serve the usage for less.
SwapCandidates(s, p, ms, pb) ==
    {m \in DOMAIN pb \ {s.model} : Compliant(p, ms, m) /\ Priced(s, pb[m]) < CostOf(s, pb)}

\* Recommend, its cost-saving part: the cheapest candidate, when it saves a
\* fifth of the cost at least.  Equal prices are told apart by map order.
Swaps(samples, p, ms, pb) ==
    LET swap(s, m) == [ns |-> s.ns, app |-> s.app, current |-> s.model, to |-> m,
                       saving |-> CostOf(s, pb) - Priced(s, pb[m])]
        best(s, c) == CHOOSE m \in c : \A n \in c : Priced(s, pb[m]) <= Priced(s, pb[n])
    IN  UNION {{swap(s, best(s, c)) : c \in {x \in {SwapCandidates(s, p, ms, pb)} :
                    x # {} /\ 5 * swap(s, best(s, x)).saving >= CostOf(s, pb)}} : s \in samples}

TierScore == [high |-> 1000, medium |-> 750, low |-> 500]
Inverse1000(v, all) ==
    IF \A x \in all : x = v THEN 1000
    ELSE 1000 - (1000 * (v - Min(all))) \div (Max(all) - Min(all))

\* Mutant of Lawful: only the built-in catalog is seeded.
LawfulByDefaults(p, ms, m) == m \in DOMAIN Defaults => Compliant(p, ms, m)

\* routingModelInfo: what either catalog knows is checked against the policy.
Lawful(p, ms, m) == (Named(ms, m) # {} \/ m \in DOMAIN Defaults) => Compliant(p, ms, m)

\* routingscore.Compute, in thousandths.  A model in a forbidden zone scores
\* nothing; one no catalog knows counts as compliant.
Scores(samples, p, ms, pb) ==
    LET per(s) == IF s.requests > 0 THEN (1000 * CostOf(s, pb)) \div s.requests ELSE 0
        timed == {s \in samples : s.latency > 0 /\ s.requests > 0}
        tier(m) == IF Named(ms, m) = {} THEN Empty ELSE ms[Max(Named(ms, m))].tier
        quality(m) == IF tier(m) \in DOMAIN TierScore THEN TierScore[tier(m)] ELSE 600
        score(s, costs, times) ==
            (4 * Inverse1000(per(s), costs) + 3 * quality(s.model)
             + 2 * (IF s \in timed THEN Inverse1000(s.latency, times) ELSE 500) + 1000) \div 10
    IN  {[ns |-> s.ns, app |-> s.app, model |-> s.model, compliant |-> Lawful(p, ms, s.model),
          score |-> IF Lawful(p, ms, s.model)
                    THEN score(s, {per(x) : x \in samples}, {x.latency : x \in timed}) ELSE 0] :
            s \in samples}

-----------------------------------------------------------------------------
(* internal/controller/reportmetrics.go, enforcementmetrics.go, shadow.go *)

Owners == Reports \cup {"shadow", "enforcement", "budget"}

\* Mutant of Retire: the vector is reset before the owner's series are set.
RetireByReset(o, set, now) ==
    /\ series' = set
    /\ owned' = [owned EXCEPT ![o] = now]

\* Mutant of Retire: what the owner no longer emits stays published.
RetireNothing(o, set, now) ==
    /\ series' = series \cup set
    /\ owned' = [owned EXCEPT ![o] = now]

\* The series set by this reconcile, then retire: those the owner remembers and
\* does not list now are pruned.
Retire(o, set, now) ==
    /\ series' = (series \cup set) \ (owned[o] \ now)
    /\ owned' = [owned EXCEPT ![o] = now]

-----------------------------------------------------------------------------
(* AIFinOpsReportReconciler *)

NoReport == [phase |-> "absent"]
Fresh == [phase |-> "live", ready |-> FALSE, findings |-> {}, swaps |-> {}, seen |-> NoValue]

Undecided == [kind |-> "none"]

\* What a reconcile is computed from.
Seen == [scrape |-> scrape, catalog |-> catalog, stubs |-> stubs, policy |-> policy]
SeenSamples(seen) == Collect(seen.scrape, Listing(seen.catalog, seen.stubs))

\* applyCostToStatus: the zones with spend.
CostSeries(samples, ms) == {<<"zone", ZoneForModel(ms, s.model)>> : s \in samples}

\* applySovereigntyToStatus: without a policy the last findings stay.
ReportFindings(old, p, samples, ms) ==
    IF p = NoValue THEN old ELSE EvaluateFlows(Policies[p], samples, ms)

\* applyRecommendations: savings by workload and swap, risks, unpriced models.
RecommendationSeries(samples, pb, swaps, findings) ==
    {<<"cost-saving", w.ns, w.app>> : w \in swaps}
    \cup {<<"swap", w.ns, w.app, w.current, w.to>> : w \in swaps}
    \cup {<<"sovereignty", f.ns, f.app>> : f \in {x \in Critical(findings) : x.requests > 0}}
    \cup {<<"data-quality">> : s \in {x \in samples : x.model \notin DOMAIN pb}}

\* applyRoutingScores.
ScoreSeries(samples, ms, pb, p) ==
    {<<"score", c.ns, c.app, c.model, c.compliant>> : c \in Scores(samples, p, ms, pb)}

\* reportSeriesSet: everything a reconcile publishes for a report.
ReportSeries(samples, ms, pb, swaps, findings, p) ==
    CostSeries(samples, ms) \cup RecommendationSeries(samples, pb, swaps, findings)
        \cup ScoreSeries(samples, ms, pb, p)

\* Reconcile of a live report.  Without telemetry it only says so; without a
\* policy the findings of the last evaluation stay.
ReportReconcile(r) ==
    /\ report[r].phase = "live"
    /\ UNCHANGED <<scrape, catalog, policy, control, changes>>
    /\ IF scrape = {}
       THEN /\ report' = [report EXCEPT ![r].ready = FALSE]
            /\ UNCHANGED <<stubs, series, owned>>
       ELSE \E ms \in {Listing(catalog, stubs)} :
            \E pb \in {PriceBook(ms)}, samples \in {InScope(Collect(scrape, ms), Scope[r])} :
            \E swaps \in {Swaps(samples, policy, ms, pb)} :
            \E findings \in {ReportFindings(report[r].findings, policy, samples, ms)} :
            \E now \in {ReportSeries(samples, ms, pb, swaps, findings, policy)} :
                /\ stubs' = stubs \cup UnknownModels(samples, ms)
                /\ Retire(r, now, now)
                /\ report' = [report EXCEPT ![r] =
                                [phase |-> "live", ready |-> TRUE, findings |-> findings,
                                 swaps |-> swaps, seen |-> Seen]]

\* The finalizer prunes the series of a deleted report, then lets it go.
ReportFinalize(r) ==
    /\ report[r].phase = "deleting"
    /\ UNCHANGED <<scrape, catalog, stubs, policy, control, changes>>
    /\ Retire(r, {}, {})
    /\ report' = [report EXCEPT ![r] = NoReport]

-----------------------------------------------------------------------------
(* AISovereigntyPolicyReconciler: findings, decisions and shadow egress *)

\* Mutant of CheapestCompliant: the zone is not asked for.
CheapestAny(p, ms) ==
    LET pb == PriceBook(ms)
    IN  CHOOSE m \in DOMAIN pb : \A n \in DOMAIN pb : pb[m].in + pb[m].out <= pb[n].in + pb[n].out

\* cheapestCompliantModelName.
CheapestCompliant(p, ms) ==
    LET pb == PriceBook(ms)
        lawful == {m \in DOMAIN pb : IsZoneAllowed(p, ZoneForModel(ms, m))}
    IN  IF lawful = {} THEN NoValue
        ELSE CHOOSE m \in lawful : \A n \in lawful : pb[m].in + pb[m].out <= pb[n].in + pb[n].out

\* DecideSovereignty: every critical finding is reported, warned of, rerouted
\* to the cheapest compliant model, or blocked when there is none.
Decide(p, findings, ms) ==
    LET to == CheapestCompliant(p, ms)
    IN  {[ns |-> f.ns, app |-> f.app, model |-> f.model, to |-> IF p.mode = "enforce" THEN to ELSE NoValue,
          action |-> IF p.mode = "warn" THEN "warn"
                     ELSE IF p.mode # "enforce" THEN "report"
                     ELSE IF to # NoValue THEN "reroute" ELSE "block"] : f \in Critical(findings)}

\* shadowengine.Detect: egress to a known endpoint in a zone that is not allowed.
Detect(p) ==
    {<<"shadow", e.ns, e.app, e.zone,
       IF NormalizeZone(e.zone) \in ZoneSet(p.forbidden) THEN "critical" ELSE "warning">> :
        e \in {x \in Egress : (x.zone # Empty \/ x.provider # Empty) /\ ~IsZoneAllowed(p, x.zone)}}

\* Reconcile.  Shadow detection comes first and does not depend on telemetry,
\* without which the previous decisions and their series stay.
SovereigntyReconcile ==
    /\ policy # NoValue
    /\ \E p \in {Policies[policy]}, ms \in {Listing(catalog, stubs)} :
       \E samples \in {Collect(scrape, ms)}, shadow \in {Detect(p)} :
       \E decisions \in {Decide(p, EvaluateFlows(p, samples, ms), ms)} :
       \E acts \in {IF scrape = {} THEN owned["enforcement"]
                    ELSE {<<"action", d.ns, d.app, p.mode, d.action>> : d \in decisions}} :
        /\ series' = ((series \cup shadow \cup acts) \ (owned["shadow"] \ shadow))
                        \ (owned["enforcement"] \ acts)
        /\ owned' = [owned EXCEPT !["shadow"] = shadow, !["enforcement"] = acts]
        /\ control' = IF scrape = {} THEN control
                      ELSE [kind |-> "sovereignty", decisions |-> decisions, seen |-> Seen]
    /\ UNCHANGED <<scrape, catalog, stubs, policy, report, changes>>

-----------------------------------------------------------------------------
(* AIBudgetPolicyReconciler, budgetfallback.go and budgetengine *)

\* monthlyFactor, as a fraction: 30.4375 days in a month.
Monthly == [daily |-> <<487, 16>>, weekly |-> <<487, 112>>, monthly |-> <<1, 1>>]

\* budgetengine.Evaluate: the highest threshold the rounded percentage reaches.
Phase(b, spend) ==
    LET f == Monthly[b.period]
        pct == (200 * spend * f[1] + b.budget * f[2]) \div (2 * b.budget * f[2])
    IN  IF b.budget <= 0 THEN "Unknown"
        ELSE IF pct >= b.hard THEN "Exceeded"
        ELSE IF pct >= b.critical THEN "Critical"
        ELSE IF pct >= b.warning THEN "Warning" ELSE "WithinBudget"

PhaseRank == [Unknown |-> 0, WithinBudget |-> 1, Warning |-> 2, Critical |-> 3, Exceeded |-> 4]
TierRank(t) == IF t = "high" THEN 3 ELSE IF t = "medium" THEN 2 ELSE IF t = "low" THEN 1 ELSE 0

\* budgetTargetMatchesSample, filterByBudgetTarget.
Matches(b, s) == (b.ns = Empty \/ s.ns = b.ns) /\ (b.app = Empty \/ s.app = b.app)

\* Mutant of SharedOutside: nothing is looked up outside the target.
SharedNowhere(b, samples) == {}

\* sharedModelsOutsideTarget: models of the target others use too.
SharedOutside(b, samples) ==
    {s.model : s \in {x \in samples : Matches(b, x)}}
        \cap {s.model : s \in {x \in samples : ~Matches(b, x)}}

\* The guards of budgetFallbackDesired on the fallback model itself.
FallbackUsable(b, samples, ms, phase) ==
    LET fs == {i \in DOMAIN ms : ms[i].name = b.fallback}
        f == ms[Min(fs)]
        own == {s \in samples : s.model = f.model}
        requests == SumOver([s \in own |-> s.requests], own)
        latency == SumOver([s \in own |-> s.latency * s.requests], own)
    IN  /\ b.mode = "enforce"
        /\ PhaseRank[phase] >= PhaseRank[b.onPhase]
        /\ ~(policy # NoValue /\ Policies[policy].mode = "enforce")
        /\ fs # {}
        /\ f.provider \in DOMAIN Providers /\ Providers[f.provider].managed
        /\ b.minTier # Empty => TierRank(f.tier) >= TierRank(b.minTier)
        /\ b.maxLatency > 0 => own # {} /\ (requests > 0 => latency <= b.maxLatency * requests)

\* budgetFallbackDesired: the dearer models only the target uses.
FallbackDesired(b, samples, ms, phase) ==
    LET pb == PriceBook(ms)
        to == ms[Min({i \in DOMAIN ms : ms[i].name = b.fallback})].model
        mine == {s \in samples : Matches(b, s)}
        cost(m, price) == SumOver([s \in mine |-> Priced(s, price)], {s \in mine : s.model = m})
    IN  IF ~FallbackUsable(b, samples, ms, phase) THEN {}
        ELSE {[model |-> m, to |-> to] : m \in
                {n \in {s.model : s \in mine} \ ({to} \cup SharedOutside(b, samples)) :
                    n \in DOMAIN pb /\ cost(n, pb[to]) < cost(n, pb[n])}}

\* Reconcile up to the actuation, which RouteControl models.  The series of the
\* triggered actions are set; that of the reroute is only remembered.
BudgetPolicyReconcile(k) ==
    /\ scrape # {}
    /\ \E b \in {Budgets[k]}, ms \in {Listing(catalog, stubs)} :
       \E samples \in {Collect(scrape, ms)}, pb \in {PriceBook(ms)} :
       \E phase \in {Phase(b, Spend({s \in samples : Matches(b, s)}, pb))} :
       \E desired \in {FallbackDesired(b, samples, ms, phase)} :
       LET acts == {<<"action", k, phase>> : x \in {phase} \cap {"Warning", "Critical", "Exceeded"}}
           reroutes == IF PhaseRank[phase] >= PhaseRank[b.onPhase]
                       THEN {<<"fallback", k, phase, desired # {}>>} ELSE {}
       IN  /\ control' = [kind |-> "budget", budget |-> k, fallbacks |-> desired, seen |-> Seen]
           /\ Retire("budget", acts, acts \cup reroutes)
    /\ UNCHANGED <<scrape, catalog, stubs, policy, report, changes>>

-----------------------------------------------------------------------------
(* AIRoutingPolicyReconciler: a candidate for every application *)

\* The guardrails on the best-scored model of an application.
Blocked(best, minimum) == ~best.compliant \/ best.score < minimum

\* Scores are grouped by application, whatever the namespace; the lowest is
\* taken for the current model.  No latency limit is set.
RoutingReconcile ==
    /\ scrape # {}
    /\ UNCHANGED <<scrape, catalog, stubs, policy, report, series, owned, changes>>
    /\ \E ms \in {Listing(catalog, stubs)} :
       \E scores \in {Scores(Collect(scrape, ms), policy, ms, PriceBook(ms))} :
       LET of(a) == {c \in scores : c.app = a}
           best(a) == CHOOSE c \in of(a) : \A d \in of(a) : c.score >= d.score
           current(a) == CHOOSE c \in of(a) : \A d \in of(a) : c.score <= d.score
       IN  control' = [kind |-> "routing", seen |-> Seen, candidates |->
              {[app |-> a, current |-> current(a).model, candidate |-> best(a).model,
                blocked |-> Blocked(best(a), 700)] :
                  a \in {c.app : c \in {x \in scores : best(x.app).model # current(x.app).model}}}]

-----------------------------------------------------------------------------
(* Users, the gateway and the operator's process *)

FinOpsInit ==
    /\ scrape \in Scrapes \ {{}}
    /\ catalog = 1 /\ stubs = {} /\ policy = NoValue
    /\ report = [r \in Reports |-> Fresh]
    /\ control = Undecided
    /\ series = {}
    /\ owned = [o \in Owners |-> {}]
    /\ changes = 0

Changed == changes < MaxChanges /\ changes' = changes + 1

\* The gateway exposes other series: new traffic, or counters lost in a restart.
Traffic ==
    /\ Changed
    /\ scrape' \in Scrapes \ {scrape}
    /\ UNCHANGED <<catalog, stubs, policy, report, control, series, owned>>

\* The catalog is edited; a stub its user completes is no stub any more.
EditCatalog ==
    /\ Changed
    /\ catalog' \in DOMAIN Catalogs \ {catalog}
    /\ stubs' = stubs \ {Catalogs[catalog'][i].model : i \in DOMAIN Catalogs[catalog']}
    /\ UNCHANGED <<scrape, policy, report, control, series, owned>>

\* A sovereignty policy is created, edited, or deleted with its series.
EditPolicy ==
    /\ Changed
    /\ \/ /\ policy' \in DOMAIN Policies \ {policy}
          /\ UNCHANGED <<control, series, owned>>
       \/ /\ policy # NoValue /\ policy' = NoValue
          /\ series' = series \ (owned["shadow"] \cup owned["enforcement"])
          /\ owned' = [owned EXCEPT !["shadow"] = {}, !["enforcement"] = {}]
          /\ control' = Undecided
    /\ UNCHANGED <<scrape, catalog, stubs, report>>

\* A report is deleted, or created again under a new UID.
EditReport(r) ==
    /\ Changed
    /\ \/ report[r].phase = "live" /\ report' = [report EXCEPT ![r].phase = "deleting"]
       \/ report[r].phase = "absent" /\ report' = [report EXCEPT ![r] = Fresh]
    /\ UNCHANGED <<scrape, catalog, stubs, policy, control, series, owned>>

\* The operator restarts: published series and trackers are process memory.
Restart ==
    /\ Changed
    /\ series' = {} /\ owned' = [o \in Owners |-> {}]
    /\ UNCHANGED <<scrape, catalog, stubs, policy, report, control>>

FinOpsNext ==
    \/ \E r \in Reports : ReportReconcile(r) \/ ReportFinalize(r) \/ EditReport(r)
    \/ SovereigntyReconcile \/ RoutingReconcile
    \/ \E k \in DOMAIN Budgets : BudgetPolicyReconcile(k)
    \/ Traffic \/ EditCatalog \/ EditPolicy \/ Restart

FinOpsSpec == FinOpsInit /\ [][FinOpsNext]_finopsVars

\* The report controller reconciles every report again after a minute.
FinOpsFairness ==
    \A r \in Reports : WF_finopsVars(ReportReconcile(r)) /\ WF_finopsVars(ReportFinalize(r))

FinOpsLiveSpec == FinOpsSpec /\ FinOpsFairness

-----------------------------------------------------------------------------
(* Properties *)

\* Nothing dead stays on the dashboards: every published series is one some
\* object's last reconcile emitted, across deletions, restarts and changes.
SeriesHaveAnOwner == series \subseteq UNION {owned[o] : o \in Owners}

\* Overlapping reports do not erase each other for ever: once the environment
\* is at rest and there is telemetry, every series a report emits stays published.
SeriesSettle ==
    <>[](scrape # {}) => <>[](\A r \in Reports : owned[r] \subseteq series)

\* The reports that were generated, with what they were computed from.
Generated == {r \in Reports : report[r].phase = "live" /\ report[r].ready}

\* The provider a series' traffic goes to: the catalog's, else the gateway's.
ProviderOf(ms, i) ==
    LET a == Attribution(ms, Scraped[i].model)
    IN  IF a.provider # Empty THEN a.provider ELSE Scraped[i].provider

\* The counted series in scope that go to a provider in a forbidden zone; one
\* with neither a zone nor a provider is nowhere.
ExposedSeries(p, live, ms, scope) ==
    LET zone(i) == LET q == ProviderOf(ms, i)
                   IN  IF q \in DOMAIN Providers /\ Providers[q].zone # Empty
                       THEN Providers[q].zone ELSE DefaultZone(Scraped[i].model)
    IN  {i \in live : /\ NormalizeZone(zone(i)) \in ZoneSet(p.forbidden)
                      /\ zone(i) # Empty \/ ProviderOf(ms, i) # Empty
                      /\ scope = Empty \/ SampleKey(ms, i).ns = scope}

\* The gateway gives the series of a model one provider label.
OneLabelPerModel ==
    \A live \in Scrapes : \A i, j \in live :
        Scraped[i].model = Scraped[j].model => Scraped[i].provider = Scraped[j].provider

\* No exposure is lost or invented between the gateway's counters and a report:
\* its critical findings are the workloads and models of which some counted
\* series goes to a provider in a forbidden zone.  A workload's usage of a model
\* that is not catalogued is placed by the label of one of its series, so the
\* labels have to agree.
ExposureIsReported == OneLabelPerModel =>
    \A r \in Generated : report[r].seen.policy # NoValue =>
        LET seen == report[r].seen
            ms == Listing(seen.catalog, seen.stubs)
        IN  {<<f.ns, f.app, f.model>> : f \in Critical(report[r].findings)} =
            {<<SampleKey(ms, i).ns, SampleKey(ms, i).app, SampleKey(ms, i).model>> :
                i \in ExposedSeries(Policies[seen.policy], seen.scrape, ms, Scope[r])}

\* What is published and reported is true: every series has an owner, and every
\* exposure a finding.
ReportsAreTrue == SeriesHaveAnOwner /\ ExposureIsReported

\* The sample a recommended swap would turn a workload's usage into.
Moved(ms, s, m) ==
    [s EXCEPT !.model = m,
              !.provider = IF Named(ms, m) = {} THEN Defaults[m].provider ELSE Attribution(ms, m).provider]

\* A cost-saving swap never pushes traffic out of the allowed zones: evaluated
\* as a flow of its own the swapped usage has no zone finding, and it costs at
\* most four fifths of what it did.
SwapIsLawfulAndCheaper ==
    \A r \in Generated : \A w \in report[r].swaps :
        LET seen == report[r].seen
            ms == Listing(seen.catalog, seen.stubs)
            pb == PriceBook(ms)
            s == CHOOSE x \in SeenSamples(seen) :
                    x.ns = w.ns /\ x.app = w.app /\ x.model = w.current
        IN  /\ 5 * CostOf(Moved(ms, s, w.to), pb) <= 4 * CostOf(s, pb)
            /\ seen.policy # NoValue =>
                 ~\E f \in EvaluateFlows(Policies[seen.policy], {Moved(ms, s, w.to)}, ms) :
                    f.severity \in {"critical", "warning"}

\* Enforcement covers every exposed model and sends none of them to another
\* exposed one.
RerouteLeavesTheZone ==
    control.kind = "sovereignty" =>
        LET seen == control.seen
            p == Policies[seen.policy]
            exposed == {s.model : s \in {x \in SeenSamples(seen) :
                                            Placed(x) /\ FlowZone(x) \in ZoneSet(p.forbidden)}}
        IN  p.mode = "enforce" =>
              /\ {d.model : d \in control.decisions} = exposed
              /\ \A d \in control.decisions : d.action = "reroute" => d.to \notin exposed

\* A routing candidate that is not blocked and is in the users' catalog is one
\* sovereignty enforcement leaves alone: its flows have no critical finding.
CandidateIsLawful ==
    control.kind = "routing" /\ control.seen.policy # NoValue =>
        LET ms == Listing(control.seen.catalog, {})
            exposed == {f.model : f \in Critical(EvaluateFlows(Policies[control.seen.policy],
                                                               SeenSamples(control.seen), ms))}
        IN  \A c \in control.candidates : c.blocked \/ Named(ms, c.candidate) = {}
                                          \/ c.candidate \notin exposed

\* The paths to a model's zone lead to one zone: a model name has one AIModel,
\* every provider declares its residency, and what goes by the built-in catalog
\* has no provider that is also an AIProvider.
PathsAgree ==
    /\ \A c \in DOMAIN Catalogs : \A i, j \in DOMAIN Catalogs[c] :
        Catalogs[c][i].model = Catalogs[c][j].model => i = j
    /\ \A p \in DOMAIN Providers : Providers[p].zone # Empty
    /\ \A m \in DOMAIN Defaults :
        /\ Defaults[m].provider \notin DOMAIN Providers
        /\ \A live \in Scrapes : \A i \in live :
            Scraped[i].model = m => Scraped[i].provider \notin DOMAIN Providers

\* Nothing the operator recommends or enforces moves traffic to a zone its
\* sovereignty policy forbids, as long as the paths to a model's zone agree.
AdviceIsLawful ==
    PathsAgree => SwapIsLawfulAndCheaper /\ RerouteLeavesTheZone /\ CandidateIsLawful

\* A budget fallback touches no model that a workload outside the budget's
\* target uses, and lowers what the target spends.
FallbackSparesOthers ==
    control.kind = "budget" /\ control.fallbacks # {} =>
        LET b == Budgets[control.budget]
            seen == control.seen
            ms == Listing(seen.catalog, seen.stubs)
            pb == PriceBook(ms)
            samples == SeenSamples(seen)
            mine == {s \in samples : Matches(b, s)}
            target(m) == {d \in control.fallbacks : d.model = m}
            after(s) == IF target(s.model) = {} THEN CostOf(s, pb)
                        ELSE Priced(s, pb[(CHOOSE d \in target(s.model) : TRUE).to])
        IN  /\ \A s \in samples \ mine : target(s.model) = {}
            /\ SumOver([s \in mine |-> after(s)], mine) < Spend(mine, pb)

=============================================================================
