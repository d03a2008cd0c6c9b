--------------------------- MODULE ExperimentCausal ---------------------------
(* The causal experiment runner (RunWithUsageIssuerV2) and the usage issuer.   *)
(*                                                                             *)
(* Every request has four events, arrival, provider response, usage available  *)
(* and settlement, which the runner processes in the order of their instants   *)
(* and, at one instant, in that order of kinds.  The usages lie with the       *)
(* issuer from the start: a request's usage may be revealed only after its     *)
(* dispatch was delivered and its availability instant has come.               *)
(*                                                                             *)
(* The same stream runs in several worlds at once, which differ only in the    *)
(* usages the issuer holds: what a decision may depend on is what the worlds   *)
(* have shown the runner so far.  An error ends a world's run without result.  *)
EXTENDS ExperimentMethods, SequencesExt

CONSTANTS
    Worlds,          \* the usage authorities the stream is run against
    Streams,         \* candidate streams: a set of sequences of opportunities
    Usages(_),       \* the pairs of usages a stream of this length may meet
    CausalMethods,   \* the methods the causal runner implements
    Evidence,        \* calibration evidence a gov_ar run may be given
    SettlementDelay  \* config.SettlementDelaySeconds

VARIABLES
    method,    \* config.ComparatorMethod
    evidence,  \* the calibration evidence of the run
    stream,    \* the opportunities, in sequence
    usage,     \* usage[w][i]: the issuer's observation of request i in world w
    stage,     \* stage[i]: the number of events of request i processed
    world      \* world[w]: the run in world w

causalVars == <<method, evidence, stream, usage, stage, world>>

Key(op) == <<op.tenant, op.window>>

Instant(op, kind) == <<op.arrival, op.response, op.available, op.settlement>>[kind]

\* The order the events are processed in.
Before(i, k, j, l) ==
    LET a == Instant(stream[i], k)
        b == Instant(stream[j], l)
    IN a < b \/ (a = b /\ (k < l \/ (k = l /\ i < j)))

ValidOpportunity(op) ==
    op.arrival <= op.response /\ op.response <= op.available /\ op.available <= op.settlement

\* What a stream must be to run: ordered instants, a fixed settlement delay, no
\* regressing arrival, no output above the cap, one budget per tenant-window.
ValidateStreamV2(s) ==
    /\ s # <<>>
    /\ \A i \in DOMAIN s :
        /\ ValidOpportunity(s[i])
        /\ s[i].settlement - s[i].response = SettlementDelay
        /\ s[i].max <= OutputCap
        /\ i > 1 => s[i - 1].arrival <= s[i].arrival
        /\ \A j \in DOMAIN s : Key(s[i]) = Key(s[j]) => s[i].budget = s[j].budget

\* The issuer covers the stream exactly: every row's input is the mapped one.
ValidateOpportunityCoverage(s, u) ==
    \A w \in Worlds : DOMAIN u[w] = DOMAIN s /\ \A i \in DOMAIN s : u[w][i].in = s[i].input

Fresh(s) ==
    [req |-> [i \in DOMAIN s |-> [state |-> "none", reserved |-> 0, cost |-> 0]],
     book |-> [k \in {Key(s[i]) : i \in DOMAIN s} |-> EmptyBook],
     exposed |-> [k \in {Key(s[i]) : i \in DOMAIN s} |-> 0],
     rows |-> <<>>, access |-> <<>>, aborted |-> FALSE]

\* A request of the stream, as its parser leaves it.
OpportunityV2 ==
    [tenant : STRING, window : STRING, budget : Nat, input : Nat, max : Nat,
     fault : {"nominal", "provider_cap_violation", "known_input_mismatch"},
     arrival : Nat, response : Nat, available : Nat, settlement : Nat]

ASSUME CausalAssumption ==
    /\ {OutputCap, Estimate, Margin, SettlementDelay} \subseteq Nat
    /\ CausalMethods \subseteq Methods
    /\ Evidence # {} /\ \A e \in Evidence : e.upper \in Nat
    /\ Streams \subseteq Seq(OpportunityV2)
    /\ \A s \in Streams : \A u \in Usages(s) : \A w \in Worlds : \A i \in DOMAIN s :
            u[w][i].in \in Nat /\ u[w][i].out \in Nat

CausalInit ==
    /\ method \in CausalMethods
    /\ evidence \in IF method = "gov_ar" THEN Evidence ELSE {CHOOSE e \in Evidence : TRUE}
    /\ stream \in {s \in Streams : ValidateStreamV2(s)}
    /\ usage \in {u \in Usages(stream) : ValidateOpportunityCoverage(stream, u)}
    /\ stage = [i \in DOMAIN stream |-> 0]
    /\ world = [w \in Worlds |-> Fresh(stream)]

-----------------------------------------------------------------------------
(* The issuer.                                                                 *)

Row(event, i, kind) == [event |-> event, req |-> i, at |-> Instant(stream[i], kind)]

Access(kind, i, at) == [kind |-> kind, req |-> i, at |-> at]

Authorized(s, i) == \E n \in DOMAIN s.access : s.access[n].kind = "authorize" /\ s.access[n].req = i

\* The proof of a dispatch: the delivered row of this very request, made no later
\* than its usage becomes available.
ValidProof(proof, i) ==
    /\ proof.event = "dispatch_delivered" /\ proof.req = i
    /\ proof.at <= stream[i].available

\* A mutant: the usage is handed out at the arrival, once it is authorized.
authorizeAndReveal(s, i) ==
    [s EXCEPT !.access = Append(Append(@, Access("authorize", i, stream[i].arrival)),
                                Access("reveal", i, stream[i].arrival))]

\* An authorization needs a valid proof and is given once.
authorizeUsage(s, i) ==
    LET proof == Last(s.rows) IN
    IF ValidProof(proof, i) /\ ~Authorized(s, i)
    THEN [s EXCEPT !.access = Append(@, Access("authorize", i, proof.at))]
    ELSE [s EXCEPT !.aborted = TRUE]

\* The usage is handed out to an authorized request, not before its instant.
revealUsage(s, i, at) ==
    IF Authorized(s, i) /\ at >= stream[i].available
    THEN [s EXCEPT !.access = Append(@, Access("reveal", i, at))]
    ELSE [s EXCEPT !.aborted = TRUE]

-----------------------------------------------------------------------------
(* The events, in one world.                                                   *)

\* A mutant: what is exposed and not yet settled is charged to settled_only too.
OnArrivalCountingExposure(s, i) ==
    LET op == stream[i]
        k == Key(op)
        r == expectedReservation(method, evidence, op)
    IN IF Admits(method, r, op, [s.book[k] EXCEPT !.settled = @ + s.exposed[k]])
       THEN authorizeUsage([s EXCEPT
            !.req[i] = [state |-> "dispatched", reserved |-> r, cost |-> 0],
            !.book[k] = AdmitIn(method, r, @),
            !.rows = @ \o <<Row("admission", i, 1), Row("dispatch_claim", i, 1),
                            Row("dispatch_delivered", i, 1)>>], i)
       ELSE [s EXCEPT !.req[i].state = "refused", !.rows = Append(@, Row("admission", i, 1))]

OnArrival(s, i) ==
    LET op == stream[i]
        k == Key(op)
        r == expectedReservation(method, evidence, op)
        admitted == [s EXCEPT
            !.req[i] = [state |-> "dispatched", reserved |-> r, cost |-> 0],
            !.book[k] = AdmitIn(method, r, @),
            !.rows = @ \o <<Row("admission", i, 1), Row("dispatch_claim", i, 1),
                            Row("dispatch_delivered", i, 1)>>]
    IN IF Admits(method, r, op, s.book[k])
       THEN authorizeUsage(admitted, i)
       ELSE [s EXCEPT !.req[i].state = "refused", !.rows = Append(@, Row("admission", i, 1))]

OnResponse(s, i) ==
    IF s.req[i].state = "refused" THEN s
    ELSE [s EXCEPT !.rows = Append(@, Row("provider_response", i, 2))]

\* The usage is revealed, checked against the declared fault and priced; only
\* settled_only tracks it as exposed until it settles.
OnUsage(s, i, w) ==
    LET revealed == revealUsage(s, i, stream[i].available)
        cost == ActualCost(usage[w][i])
    IN IF s.req[i].state = "refused" THEN s
       ELSE IF revealed.aborted \/ ~OutcomeInBounds(stream[i], usage[w][i])
       THEN [revealed EXCEPT !.aborted = TRUE]
       ELSE [revealed EXCEPT
                !.req[i].state = "revealed", !.req[i].cost = cost,
                !.exposed[Key(stream[i])] = IF method = "settled_only" THEN @ + cost ELSE @,
                !.rows = Append(@, Row("usage_available", i, 3))]

\* A mutant: what settles stays exposed.
OnSettlementStillExposed(s, i) ==
    LET k == Key(stream[i])
        r == s.req[i]
    IN IF r.state = "refused" THEN s
       ELSE IF r.state # "revealed" \/ (method = "settled_only" /\ s.exposed[k] < r.cost)
       THEN [s EXCEPT !.aborted = TRUE]
       ELSE [s EXCEPT
                !.req[i].state = "final",
                !.book[k] = SettleIn(method, r.reserved, r.cost, @),
                !.rows = Append(@, Row("settlement_final", i, 4))]

OnSettlement(s, i) ==
    LET k == Key(stream[i])
        r == s.req[i]
    IN IF r.state = "refused" THEN s
       ELSE IF r.state # "revealed" \/ (method = "settled_only" /\ s.exposed[k] < r.cost)
       THEN [s EXCEPT !.aborted = TRUE]
       ELSE [s EXCEPT
                !.req[i].state = "final",
                !.book[k] = SettleIn(method, r.reserved, r.cost, @),
                !.exposed[k] = IF method = "settled_only" THEN @ - r.cost ELSE @,
                !.rows = Append(@, Row("settlement_final", i, 4))]

-----------------------------------------------------------------------------
(* The runner: the earliest event of all requests is next, in every world that *)
(* has not failed.                                                             *)

IsNext(i) ==
    /\ stage[i] < 4
    /\ \A j \in DOMAIN stage \ {i} : stage[j] < 4 => Before(i, stage[i] + 1, j, stage[j] + 1)

Process(i, F(_, _)) ==
    /\ IsNext(i)
    /\ \E w \in Worlds : ~world[w].aborted
    /\ stage' = [stage EXCEPT ![i] = @ + 1]
    /\ world' = [w \in Worlds |-> IF world[w].aborted THEN world[w] ELSE F(world[w], w)]
    /\ UNCHANGED <<method, evidence, stream, usage>>

Arrival(i) == stage[i] = 0 /\ Process(i, LAMBDA s, w : OnArrival(s, i))

ProviderResponse(i) == stage[i] = 1 /\ Process(i, LAMBDA s, w : OnResponse(s, i))

UsageAvailable(i) == stage[i] = 2 /\ Process(i, LAMBDA s, w : OnUsage(s, i, w))

Settlement(i) == stage[i] = 3 /\ Process(i, LAMBDA s, w : OnSettlement(s, i))

CausalNext ==
    \E i \in DOMAIN stage : Arrival(i) \/ ProviderResponse(i) \/ UsageAvailable(i) \/ Settlement(i)

CausalSpec == CausalInit /\ [][CausalNext]_causalVars

-----------------------------------------------------------------------------
\* No decision foresees a usage: two runs whose usages differ only in requests
\* that settle after a request's arrival decide that request alike, whether it
\* is admitted and what is reserved for it.  (The runner reads the settled
\* ledger and the pre-outcome stream, never the usages the issuer holds.)
NoForesight ==
    \A i \in DOMAIN stage : \A v, w \in DOMAIN world :
        (/\ stage[i] > 0
         /\ world[v].req[i].state # "none" /\ world[w].req[i].state # "none"
         /\ \A j \in DOMAIN stage : usage[v][j] # usage[w][j] => ~Before(j, 4, i, 1))
        => /\ (world[v].req[i].state = "refused") = (world[w].req[i].state = "refused")
           /\ world[v].req[i].reserved = world[w].req[i].reserved

\* Usage is earned: the access log shows, for every delivered dispatch and for
\* nothing else, one authorization at the delivery and at most one reveal, later
\* in the log and at the instant the usage became available.
UsageIsEarned ==
    \A w \in DOMAIN world :
        LET log == world[w].access
            rows == world[w].rows
            Of(kind, i) == {n \in DOMAIN log : log[n].kind = kind /\ log[n].req = i}
            Delivered(i) == {n \in DOMAIN rows : rows[n].event = "dispatch_delivered" /\ rows[n].req = i}
        IN \A i \in DOMAIN stage :
            /\ Cardinality(Of("authorize", i)) = Cardinality(Delivered(i))
            /\ Cardinality(Of("reveal", i)) <= Cardinality(Of("authorize", i))
            /\ \A n \in Of("reveal", i) :
                /\ log[n].at = stream[i].available
                /\ \E m \in Of("authorize", i) : m < n
                /\ stage[i] >= 3

\* A completed run leaves nothing open: every admitted request is final, its
\* cost is in the settled spend of its window and of no other, and no hold, no
\* active reservation and no exposure remains.
RunEndsSettled ==
    \A w \in DOMAIN world :
        (~world[w].aborted /\ \A i \in DOMAIN stage : stage[i] = 4) =>
            LET Mine(k) == {i \in DOMAIN stage : Key(stream[i]) = k /\ world[w].req[i].state = "final"}
            IN /\ \A i \in DOMAIN stage : world[w].req[i].state \in {"refused", "final"}
               /\ \A k \in DOMAIN world[w].book :
                    /\ world[w].book[k].held = 0 /\ world[w].book[k].active = 0
                    /\ world[w].exposed[k] = 0
                    /\ world[w].book[k].settled =
                        SumOver([i \in DOMAIN stage |-> ActualCost(usage[w][i])], Mine(k))

\* Reserving the verified cap keeps nominal spend inside the budget: with
\* strict_max, or gov_ar on evidence that falls back, what a window settled and
\* what its open requests will cost never exceeds its budget, however late the
\* usages become known.
CapReservationCoversSpend ==
    (method = "strict_max" \/ (method = "gov_ar" /\ govarEvidenceFallsBack(evidence))) =>
        \A w \in DOMAIN world : \A k \in DOMAIN world[w].book :
            LET Open == {i \in DOMAIN stage : Key(stream[i]) = k
                            /\ world[w].req[i].state \in {"dispatched", "revealed", "final"}}
            IN (\A i \in Open : OutcomeInBounds([stream[i] EXCEPT !.fault = "nominal"], usage[w][i]))
               => \A i \in Open : SumOver([j \in DOMAIN stage |-> ActualCost(usage[w][j])], Open)
                                    <= stream[i].budget

\* A causal run is one a live system could have had: no decision foresees, no
\* usage is unearned, nothing is left open, and a cap reservation suffices.
CausalRunIsSound ==
    NoForesight /\ UsageIsEarned /\ RunEndsSettled /\ CapReservationCoversSpend

=============================================================================
