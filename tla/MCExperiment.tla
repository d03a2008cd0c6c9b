----------------------------- MODULE MCExperiment -----------------------------
(* The programs whose product is a record others must be able to check.  One   *)
(* of them runs: the causal runner, the trace runner, the publication of       *)
(* artifacts or the audit trail.  The variables of the others are parked.      *)
EXTENDS ExperimentCausal, ExperimentTrace, ExperimentArtifacts, AuditChain

VARIABLE part

vars == <<part, causalVars, traceVars, artifactVars, auditVars>>

CausalParked ==
    /\ method = "idle" /\ evidence = <<>> /\ stream = <<>> /\ usage = <<>>
    /\ stage = <<>> /\ world = <<>>

TraceParked ==
    /\ phase = "idle" /\ setting = <<>> /\ ops = <<>> /\ fixture = <<>> /\ tie = <<>> /\ cursor = 0
    /\ pending = {} /\ ledger = <<>> /\ paidFor = <<>> /\ rows = <<>> /\ access = <<>> /\ peak = <<>>

ArtifactsParked == plan = <<>> /\ at = <<>> /\ disk = <<>> /\ restarts = <<>> /\ losses = 0

AuditParked ==
    /\ reservation = <<>> /\ window = 0 /\ now = 0 /\ inbox = <<>> /\ entries = <<>> /\ tx = <<>>

Init ==
    \/ part = "causal" /\ CausalInit /\ TraceParked /\ ArtifactsParked /\ AuditParked
    \/ part = "trace" /\ CausalParked /\ TraceInit /\ ArtifactsParked /\ AuditParked
    \/ part = "files" /\ CausalParked /\ TraceParked /\ ArtifactsInit /\ AuditParked
    \/ part = "audit" /\ CausalParked /\ TraceParked /\ ArtifactsParked /\ AuditInit

Next ==
    \/ part = "causal" /\ CausalNext /\ UNCHANGED <<part, traceVars, artifactVars, auditVars>>
    \/ part = "trace" /\ TraceNext /\ UNCHANGED <<part, causalVars, artifactVars, auditVars>>
    \/ part = "files" /\ ArtifactsNext /\ UNCHANGED <<part, causalVars, traceVars, auditVars>>
    \/ part = "audit" /\ AuditNext /\ UNCHANGED <<part, causalVars, traceVars, artifactVars>>

Spec == Init /\ [][Next]_vars

-----------------------------------------------------------------------------
Op(win, arrival, late, fault) ==
    [tenant |-> "t", window |-> win, budget |-> 5, input |-> 1, max |-> 3, fault |-> fault,
     arrival |-> arrival, response |-> arrival + (IF late THEN 1 ELSE 0),
     available |-> arrival + (IF late THEN 2 ELSE 0),
     settlement |-> arrival + (IF late THEN 2 ELSE 1)]

MCStreams ==
    {<<Op("w1", 0, l1, "nominal"), Op("w1", a2, l2, "nominal"), Op(win, a3, l3, f)>> :
        l1, l2, l3 \in BOOLEAN, a2 \in {0, 1}, a3 \in {1, 2},
        win \in {"w1", "w2"}, f \in {"nominal", "provider_cap_violation"}}

\* Two worlds that differ in the usage of one request.
Tokens(n) == [in |-> 1, out |-> n]
MCUsages(s) ==
    {<<[i \in DOMAIN s |-> IF i = victim THEN Tokens(0) ELSE Tokens(rest)],
       [i \in DOMAIN s |-> IF i = victim THEN Tokens(hi) ELSE Tokens(rest)]>> :
        victim \in DOMAIN s, rest \in {1, 3}, hi \in {3, 5}}

MCEvidence == {[support |-> 2, age |-> 0, driftAge |-> 1, drift |-> FALSE, upper |-> 1],
               [support |-> 2, age |-> 0, driftAge |-> 2, drift |-> FALSE, upper |-> 1]}

MCMethods == {"settled_only", "strict_max", "fixed_quantile", "mean_margin", "gov_ar"}

\* A tenant's two requests with and without a gap of steps, a third request of
\* either tenant, replays of both kinds, and a fault of each kind.
TOp(seq, t, delay, fault, duplicate, conflict) ==
    [seq |-> seq, tenant |-> t, budget |-> 5, input |-> 1, max |-> 2, delay |-> delay,
     fault |-> fault, duplicate |-> duplicate, conflict |-> conflict]

MCTraceStreams ==
    {<<>>} \cup
    {<<TOp(0, "a", d1, "nominal", TRUE, FALSE), TOp(s2, t2, d2, "nominal", FALSE, TRUE),
       TOp(3, "a", 1, f, TRUE, TRUE)>> :
        d1 \in {0, 2, 4}, s2 \in {1, 2}, t2 \in {"a", "b"}, d2 \in {0, 2},
        f \in {"nominal", "provider_cap_violation", "known_input_mismatch"}}

MCTraceUsages(s) ==
    {<<>>} \cup
    {<<Tokens(o1), Tokens(o2), u>> :
        o1 \in {1, 2}, o2 \in {0, 2}, u \in {Tokens(1), Tokens(4), [in |-> 3, out |-> 0]}}

MCTraceMethods == {"no_budget", "settled_only", "strict_max", "mean", "gov_ar"}

MCTraceEvidence == {[support |-> 2, age |-> 0, driftAge |-> 1, drift |-> FALSE, upper |-> 1]}

MCTenants == <<"a", "b">>

MCPlans == [edition : {1, 2}, run : {"r"}, body : {"x", "y"}] \cup [edition : {1, 2}, run : {"s"}, body : {"x"}]
=============================================================================
