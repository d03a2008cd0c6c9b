--------------------------- MODULE ExperimentTrace ---------------------------
(* The trace experiment runner (RunWithIssuer, runNonReserving), the outcome   *)
(* issuer it asks for usages, and the verifier (VerifyRecords) that recomputes *)
(* a finished trace from its rows alone before a result is returned.           *)
(*                                                                             *)
(* Time is the sequence number of the opportunities, which may leave gaps.  A  *)
(* request settles a number of steps after its own; settlements due at one     *)
(* step are ordered by a random tie-breaker.  After each opportunity one       *)
(* snapshot per tenant is recorded.  A tenant has one budget window.           *)
EXTENDS ExperimentMethods, SequencesExt

CONSTANTS
    TraceMethods,   \* the methods the trace runner executes
    TraceEvidence,  \* calibration evidence a gov_ar run may be given
    TraceStreams,   \* candidate streams: a set of sequences of opportunities
    TraceUsages(_), \* the usages the issuer may hold for a stream
    Tenants         \* the tenants, in the order of the snapshots

VARIABLES
    setting,  \* config: the method and its evidence
    ops,      \* the opportunities
    fixture,  \* fixture[i]: the usage the issuer holds for request i
    tie,      \* tie[i]: the tie-breaker of request i
    cursor,   \* the opportunity being processed
    phase,    \* where the runner is; at the end, how the run ended
    pending,  \* the requests that await settlement, which are also the active ones
    ledger,   \* the ledger of each tenant
    paidFor,  \* paidFor[i]: the cost recorded for a settled request
    rows,     \* the lifecycle rows
    access,   \* the issuer's access log
    peak      \* per tenant, the peak latent exposure the verifier measured

traceVars == <<setting, ops, fixture, tie, cursor, phase, pending, ledger, paidFor, rows, access, peak>>

\* An opportunity that passed its own validation.
Opportunity ==
    [seq : Nat, tenant : ToSet(Tenants), budget : Nat, input : Nat, max : Nat, delay : Nat,
     fault : {"nominal", "provider_cap_violation", "known_input_mismatch"},
     duplicate : BOOLEAN, conflict : BOOLEAN]

ASSUME TraceAssumption ==
    /\ {OutputCap, Estimate, Margin} \subseteq Nat
    /\ TraceMethods \subseteq Methods
    /\ \A e \in TraceEvidence : e.upper \in Nat
    /\ Tenants \in Seq(ToSet(Tenants)) /\ \A m, n \in DOMAIN Tenants : Tenants[m] = Tenants[n] => m = n
    /\ TraceStreams \subseteq Seq(Opportunity)
    /\ \A s \in TraceStreams : \A u \in TraceUsages(s) : \A i \in DOMAIN s :
            DOMAIN u = DOMAIN s => u[i].in \in Nat /\ u[i].out \in Nat

ParseStream(s) ==
    /\ \A i \in DOMAIN s : s[i].max <= OutputCap /\ (i > 1 => s[i - 1].seq < s[i].seq)
    /\ \A i, j \in DOMAIN s : s[i].tenant = s[j].tenant => s[i].budget = s[j].budget

\* The issuer holds one outcome for every opportunity and for nothing else.
ValidateOutcomeCoverage(s, u) == DOMAIN u = DOMAIN s

\* One context, with a ledger and a budget of its own, for every tenant.
NewTenantContexts(s) == [t \in {s[i].tenant : i \in DOMAIN s} |-> EmptyBook]

Unpaid == -1

TraceInit ==
    /\ setting \in [method : TraceMethods, evidence : TraceEvidence]
    /\ ops \in {s \in TraceStreams : ParseStream(s)}
    /\ fixture \in {u \in TraceUsages(ops) : ValidateOutcomeCoverage(ops, u)}
    /\ tie \in [DOMAIN ops -> 1..2]
    /\ cursor = 1 /\ phase = (IF ops = <<>> THEN "final" ELSE "flush") /\ pending = {}
    /\ ledger = NewTenantContexts(ops)
    /\ paidFor = [i \in DOMAIN ops |-> Unpaid]
    /\ rows = <<>> /\ access = <<>>
    /\ peak = [t \in DOMAIN ledger |-> 0]

-----------------------------------------------------------------------------
Due(i) == ops[i].seq + ops[i].delay

Reserved(i) == expectedReservation(setting.method, setting.evidence, ops[i])

Cost(i) == ActualCost(fixture[i])

\* A row of request i: what happened, at which step, and the ledger after it.
LifecycleRow(event, i, step, selected, reason, book) ==
    [event |-> event, req |-> i, tenant |-> ops[i].tenant, step |-> step,
     selected |-> selected, reason |-> reason, book |-> book,
     reserved |-> IF selected THEN Reserved(i) ELSE 0,
     actual |-> IF selected THEN Cost(i) ELSE 0]

\* The ledger's answer to a settlement: the first is effective, an exact repeat
\* is a duplicate and a different cost for the same request is refused.
SettlementAnswer(paid, cost) ==
    IF paid = Unpaid THEN "effective" ELSE IF paid = cost THEN "duplicate" ELSE "conflict"

\* The engine reports an exceeded reservation by quantity, component by
\* component; the non-reserving runner by cost, having reserved nothing.
ExceedsByQuantity(i) ==
    IF Reserving(setting.method)
    THEN \/ Cost(i) > Reserved(i)
         \/ fixture[i].in > ops[i].input
         \/ fixture[i].out > ReservedTokens(setting.method, setting.evidence, ops[i])
    ELSE Cost(i) > 0

\* The verifier judges it by the cost of each component.
ExceedsByCost(i) ==
    \/ Cost(i) > Reserved(i)
    \/ /\ Reserving(setting.method)
       /\ \/ ceilingProduct(InputPrice, fixture[i].in) > ceilingProduct(InputPrice, ops[i].input)
          \/ ceilingProduct(OutputPrice, fixture[i].out)
              > ceilingProduct(OutputPrice, ReservedTokens(setting.method, setting.evidence, ops[i]))

Reason(exceeds) == IF exceeds THEN "reservation_exceeded" ELSE "settlement_finalized"

\* A mutant: pending settlements are ordered by the tie-breaker alone.
DueFirstByTie(i) ==
    /\ i \in pending
    /\ \A j \in pending \ {i} : tie[i] < tie[j] \/ (tie[i] = tie[j] /\ i < j)

\* flush: by step, then by tie-breaker, then by sequence.
DueFirst(i) ==
    /\ i \in pending
    /\ \A j \in pending \ {i} :
        \/ Due(i) < Due(j)
        \/ Due(i) = Due(j) /\ (tie[i] < tie[j] \/ (tie[i] = tie[j] /\ i < j))

NoneDue == \A i \in pending : Due(i) > ops[cursor].seq

\* settleOne: the first pending settlement whose step has come (at the end, any
\* pending one) is applied and recorded, then its declared replays.  A replay
\* the ledger does not answer as it should ends the run.
SettleOne(i) ==
    LET t == ops[i].tenant
        cost == Cost(i)
        book == SettleIn(setting.method, Reserved(i), cost, ledger[t])
        Replay(event) == LifecycleRow(event, i, Due(i), TRUE, event, book)
        settled == Append(rows, LifecycleRow("settlement_final", i, Due(i), TRUE,
                                             Reason(ExceedsByQuantity(i)), book))
        repeated == IF ops[i].duplicate THEN Append(settled, Replay("settlement_duplicate")) ELSE settled
    IN /\ phase \in {"flush", "settle", "final"} /\ DueFirst(i)
       /\ phase # "final" => Due(i) <= ops[cursor].seq
       /\ pending' = pending \ {i}
       /\ ledger' = [ledger EXCEPT ![t] = book]
       /\ paidFor' = [paidFor EXCEPT ![i] = cost]
       /\ rows' = IF ops[i].conflict THEN Append(repeated, Replay("settlement_conflict_rejected"))
                  ELSE repeated
       /\ phase' = IF /\ SettlementAnswer(paidFor[i], cost) = "effective"
                      /\ ops[i].duplicate => SettlementAnswer(paidFor'[i], cost) = "duplicate"
                      /\ ops[i].conflict => SettlementAnswer(paidFor'[i], cost + 1) = "conflict"
                   THEN phase ELSE "aborted"
       /\ UNCHANGED <<setting, ops, fixture, tie, cursor, access, peak>>

\* A mutant: the outcome is asked for once more.
IssuedAgain(i, delivery) ==
    <<[kind |-> "authorize", req |-> i, row |-> delivery], [kind |-> "issue", req |-> i, row |-> delivery],
      [kind |-> "issue_replay", req |-> i, row |-> delivery]>>

\* The issuer's log of a delivery, named by the index of its row: the runner asks
\* for one authorization and then for the outcome, once.
Issued(i, delivery) ==
    <<[kind |-> "authorize", req |-> i, row |-> delivery], [kind |-> "issue", req |-> i, row |-> delivery]>>

\* The opportunity under the cursor, once what is due before it has settled: the
\* decision and, when it is admitted, the claim, the delivery, the issuer's
\* authorization for that delivery and the usage.  A usage that contradicts the
\* declared fault ends the run.  A refusal goes on as the runner in use does.
Admit ==
    LET i == cursor
        op == ops[i]
        admitted == Admits(setting.method, Reserved(i), op, ledger[op.tenant])
        book == IF admitted THEN AdmitIn(setting.method, Reserved(i), ledger[op.tenant])
                ELSE ledger[op.tenant]
        At(event) == LifecycleRow(event, i, op.seq, admitted, event, book)
    IN /\ phase = "flush" /\ NoneDue
       /\ ledger' = [ledger EXCEPT ![op.tenant] = book]
       /\ IF admitted
          THEN /\ rows' = rows \o <<At("admission"), At("dispatch_claim"), At("dispatch_delivered")>>
               /\ access' = access \o Issued(i, Len(rows) + 3)
               /\ pending' = pending \cup {i}
               /\ phase' = IF OutcomeInBounds(op, fixture[i]) THEN "settle" ELSE "aborted"
          ELSE /\ rows' = Append(rows, At("admission"))
               /\ phase' = IF Reserving(setting.method) THEN "settle" ELSE "snapshot"
               /\ UNCHANGED <<pending, access>>
       /\ UNCHANGED <<setting, ops, fixture, tie, cursor, paidFor, peak>>

Snapshot(t) ==
    LET active == {i \in pending : ops[i].tenant = t}
    IN [event |-> "snapshot", req |-> 0, tenant |-> t, step |-> ops[cursor].seq,
        selected |-> FALSE, reason |-> "epoch", book |-> ledger[t],
        reserved |-> SumOver([i \in active |-> Reserved(i)], active),
        actual |-> SumOver([i \in active |-> Cost(i)], active)]

\* The rows with one snapshot per tenant, in order.
WithSnapshots ==
    LET out[n \in 0 .. Len(Tenants)] ==
            IF n = 0 THEN rows
            ELSE IF Tenants[n] \in DOMAIN ledger THEN Append(out[n - 1], Snapshot(Tenants[n]))
            ELSE out[n - 1]
    IN out[Len(Tenants)]

\* emitSnapshots, then the next opportunity.
EmitSnapshots ==
    /\ phase \in {"settle", "snapshot"} /\ NoneDue
    /\ rows' = WithSnapshots
    /\ cursor' = IF cursor < Len(ops) THEN cursor + 1 ELSE cursor
    /\ phase' = IF cursor < Len(ops) THEN "flush" ELSE "final"
    /\ UNCHANGED <<setting, ops, fixture, tie, pending, ledger, paidFor, access, peak>>

-----------------------------------------------------------------------------
(* The verifier: one pass over the rows, with a ledger of its own.             *)

Recount ==
    [last |-> 0, stage |-> [i \in DOMAIN ops |-> 0], book |-> NewTenantContexts(ops), active |-> {},
     shots |-> {}, peak |-> [t \in DOMAIN NewTenantContexts(ops) |-> 0]]

\* A mutant: what is reserved is taken for what is owed.
LatentReserved(row) == row.book.settled + (IF row.event = "snapshot" THEN row.reserved ELSE 0)

Latent(row) == row.book.settled + (IF row.event = "snapshot" THEN row.actual ELSE 0)

expectedEventStep(row) ==
    IF row.event \in {"admission", "dispatch_claim", "dispatch_delivered"}
    THEN ops[row.req].seq ELSE Due(row.req)

\* A snapshot shows the recounted figures, is the only one of its tenant at its
\* epoch and comes in the order of the tenants.
SnapshotRecounts(v, row) ==
    LET active == {i \in v.active : ops[i].tenant = row.tenant}
    IN /\ \E i \in DOMAIN ops : ops[i].seq = row.step
       /\ {s \in v.shots : s[1] = row.step} =
            {<<row.step, Tenants[n]>> : n \in {m \in DOMAIN Tenants : Tenants[m] \in DOMAIN v.book
                                                /\ m < CHOOSE k \in DOMAIN Tenants : Tenants[k] = row.tenant}}
       /\ row.reserved = SumOver([i \in active |-> Reserved(i)], active)
       /\ row.actual = SumOver([i \in active |-> Cost(i)], active)
       /\ row.book = v.book[row.tenant]

\* The stage a request must be in before an event, and the one it is in after.
StageBefore(event, op) ==
    CASE event = "admission" -> 0 [] event = "dispatch_claim" -> 1
      [] event = "dispatch_delivered" -> 2 [] event = "settlement_final" -> 3
      [] event = "settlement_duplicate" -> 4
      [] event = "settlement_conflict_rejected" -> IF op.duplicate THEN 5 ELSE 4

StageAfter == [admission |-> 1, dispatch_claim |-> 2, dispatch_delivered |-> 3,
               settlement_final |-> 4, settlement_duplicate |-> 5, settlement_conflict_rejected |-> 6]

\* The ledger after a lifecycle row of a request.
BookAfter(v, row) ==
    LET i == row.req
        before == v.book[row.tenant]
    IN CASE row.event = "admission" /\ Admits(setting.method, Reserved(i), ops[i], before)
                -> AdmitIn(setting.method, Reserved(i), before)
         [] row.event = "settlement_final" -> SettleIn(setting.method, Reserved(i), Cost(i), before)
         [] OTHER -> before

\* A lifecycle row agrees with the recount v up to it.
LifecycleAgrees(v, row) ==
    LET i == row.req
        op == ops[i]
    IN /\ \A s \in v.shots : s[1] # row.step
       /\ row.step = expectedEventStep(row)
       /\ v.stage[i] = StageBefore(row.event, op)
       /\ IF row.event = "admission"
          THEN row.selected = Admits(setting.method, Reserved(i), op, v.book[row.tenant])
          ELSE row.selected /\ (i \in v.active \/ v.stage[i] >= 4)
       /\ row.selected => OutcomeInBounds(op, fixture[i])
                           /\ row.reserved = Reserved(i) /\ row.actual = Cost(i)
       /\ row.event = "settlement_final" => row.reason = Reason(ExceedsByCost(i))
       /\ row.event = "settlement_duplicate" => op.duplicate
       /\ row.event = "settlement_conflict_rejected" => op.conflict
       /\ row.book = BookAfter(v, row)

RowAgrees(v, row) ==
    /\ row.step >= v.last
    /\ IF row.event = "snapshot" THEN SnapshotRecounts(v, row) ELSE LifecycleAgrees(v, row)

VerifyLifecycleRow(v, row) ==
    [v EXCEPT
      !.stage[row.req] = StageAfter[row.event],
      !.book[row.tenant] = BookAfter(v, row),
      !.active = IF row.event = "admission" /\ Admits(setting.method, Reserved(row.req), ops[row.req],
                                                      v.book[row.tenant])
                 THEN @ \cup {row.req}
                 ELSE IF row.event = "settlement_final" THEN @ \ {row.req} ELSE @]

\* The recount v with one more row.
VerifyRow(v, row) ==
    LET seen == IF row.event = "snapshot" THEN [v EXCEPT !.shots = @ \cup {<<row.step, row.tenant>>}]
                ELSE VerifyLifecycleRow(v, row)
    IN [seen EXCEPT !.last = row.step,
                    !.peak[row.tenant] = IF Latent(row) > @ THEN Latent(row) ELSE @]

\* recounted[n] is the recount of the first n rows.
recounted ==
    LET after[n \in 0 .. Len(rows)] == IF n = 0 THEN Recount ELSE VerifyRow(after[n - 1], rows[n])
    IN after

\* At the end every opportunity was decided, every admitted one reached the
\* stage its declared replays lead to, and every snapshot is there.
Complete(v) ==
    /\ \A i \in DOMAIN ops :
        v.stage[i] \in {1, IF ops[i].conflict THEN 6 ELSE IF ops[i].duplicate THEN 5 ELSE 4}
    /\ v.active = {}
    /\ v.shots = {ops[i].seq : i \in DOMAIN ops} \X DOMAIN v.book

\* The access log the rows call for: what publication compares the issuer's with.
VerifyFeedbackAccessLog ==
    LET deliveries == {n \in DOMAIN rows : rows[n].event = "dispatch_delivered"}
        Entry(kind, n) == [kind |-> kind, req |-> rows[n].req, row |-> n]
    IN /\ Len(access) = 2 * Cardinality(deliveries)
       /\ \A n \in deliveries :
            LET k == Cardinality({m \in deliveries : m <= n})
            IN access[2 * k - 1] = Entry("authorize", n) /\ access[2 * k] = Entry("issue", n)

\* The first row that does not agree ends the verification.
VerifyRecords ==
    /\ phase = "final" /\ pending = {}
    /\ phase' = IF /\ \A n \in DOMAIN rows : RowAgrees(recounted[n - 1], rows[n])
                   /\ Complete(recounted[Len(rows)])
                THEN "accepted" ELSE "rejected"
    /\ peak' = recounted[Len(rows)].peak
    /\ UNCHANGED <<setting, ops, fixture, tie, cursor, pending, ledger, paidFor, rows, access>>

TraceNext ==
    \/ \E i \in pending : SettleOne(i)
    \/ Admit
    \/ EmitSnapshots
    \/ VerifyRecords

TraceSpec == TraceInit /\ [][TraceNext]_traceVars

-----------------------------------------------------------------------------
Dispatched == {i \in DOMAIN ops : \E n \in DOMAIN rows :
                                    rows[n].event = "dispatch_delivered" /\ rows[n].req = i}

\* Runner and verifier agree: a run is given up only over a usage that does not
\* show its declared fault, and a finished trace is accepted by the recount from
\* its rows alone, in whatever order the settlements fell due, except that a
\* component used beyond its reserved quantity at the same rounded-up cost makes
\* the verifier refuse the reason the engine recorded.
RunnerAndVerifierAgree ==
    /\ phase = "aborted" => \E i \in Dispatched : ~OutcomeInBounds(ops[i], fixture[i])
    /\ phase \in {"accepted", "rejected"} =>
        (phase = "rejected") = (\E i \in Dispatched : ExceedsByQuantity(i) # ExceedsByCost(i))

\* What the verifier reports as a tenant's peak latent exposure is all the tenant
\* ever spent, and so is what the ledger settled: nothing is lost between the
\* last snapshot and the settlements after it, and no replay is charged.
PeakLatentIsSpend ==
    phase = "accepted" =>
        \A t \in DOMAIN ledger :
            LET spend == SumOver([i \in DOMAIN ops |-> Cost(i)], {i \in Dispatched : ops[i].tenant = t})
            IN peak[t] = spend /\ ledger[t] = [EmptyBook EXCEPT !.settled = spend]

\* The access log is two entries per effective delivery, an authorization and an
\* issue that name the row of that delivery, in the order of the deliveries.
\* That is what WriteArtifacts and every later verification check of it.
FeedbackOncePerDelivery == VerifyFeedbackAccessLog

\* A trace means the same to whoever wrote it and to whoever recounts it.
TraceIsVerifiable == RunnerAndVerifierAgree /\ PeakLatentIsSpend /\ FeedbackOncePerDelivery

=============================================================================
