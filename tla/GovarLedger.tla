---------------------------- MODULE GovarLedger ----------------------------
(***************************************************************************)
(* The GOV-AR reservation ledger as the PostgresEngine keeps it            *)
(* (internal/govar/postgres_engine.go, ledger_extensions_postgres.go).     *)
(*                                                                         *)
(* Every operation is one serializable transaction, hence one action: an   *)
(* error rolls the whole transaction back and a serialization failure is   *)
(* retried, so neither is a step.  Replays of an event already in the      *)
(* inbox, of an admitted request and of a recorded adjustment commit       *)
(* without changing a row, and are stuttering steps too.                   *)
(*                                                                         *)
(* Time is the index of the budget window (daily, weekly or monthly UTC)   *)
(* the serving replica's clock is in.  Replicas' clocks may disagree, so   *)
(* "now" may move backwards; the code refuses to serve a tenant whose      *)
(* recorded window is ahead of the clock.                                  *)
(***************************************************************************)
EXTENDS GovarTransitions, Sums

CONSTANTS
    Tenants,       \* tenant identifiers
    Requests,      \* request identifiers
    Owner,         \* the tenant whose principal presents a request
    Policies,      \* budget policy identities (UID, generation and spec)
    PolicyBudget,  \* the budget each policy identity fixes
    Costs,         \* reservation ceilings a feasible candidate may have
    Actuals,       \* costs an authoritative usage report may amount to
    Adjusted,      \* budgets an authorised adjustment may set
    Payments,      \* debt payments an authorised adjustment may make
    MaxWindow,     \* bound: budget windows 1..MaxWindow
    MaxVersion     \* bound: usage versions 1..MaxVersion

ASSUME RequestsFinite == IsFiniteSet(Requests)
ASSUME OwnerType == Owner \in [Requests -> Tenants]
ASSUME PolicyType == Policies # {} /\ PolicyBudget \in [Policies -> Nat]
ASSUME AmountsType == /\ Costs \subseteq Nat /\ Actuals \subseteq Nat
                      /\ Adjusted \subseteq Nat /\ Payments \subseteq Nat
ASSUME BoundsType == MaxWindow \in Nat \ {0} /\ MaxVersion \in Nat

VARIABLES
    now,      \* budget window of the serving replica's clock
    res,      \* govar_reservations (with its govar_outbox row)
    tenant,   \* govar_tenants; window 0: no row yet
    paid      \* sum of govar_budget_adjustments.debt_payment_micros

vars == <<now, res, tenant, paid>>

Windows == 1 .. MaxWindow

Settlements == [version : 1 .. MaxVersion, actual : Actuals,
                exceeded : BOOLEAN, final : BOOLEAN]

NewTenant == [budget |-> 0, settled |-> 0, reserved |-> 0, carried |-> 0,
              credit |-> 0, active |-> 0, window |-> 0,
              identity |-> CHOOSE p \in Policies : TRUE]

Init == /\ now = 1
        /\ res = [q \in Requests |-> NoReservation]
        /\ tenant = [o \in Tenants |-> NewTenant]
        /\ paid = [o \in Tenants |-> 0]

-----------------------------------------------------------------------------
(* Budget windows *)

\* Mutant of Guarded: corrected usage is not guarded.
GuardedUncorrected(o) ==
    {q \in Requests :
        /\ Owner[q] = o /\ res[q].state = "SETTLED_PROVISIONAL"
        /\ ~res[q].carried /\ res[q].enforcement = tenant[o].window}

\* The reservations rolloverTenantTx guards: settled but not final, charged
\* to the window being closed.
Guarded(o) ==
    {q \in Requests :
        /\ Owner[q] = o
        /\ res[q].state \in {"SETTLED_PROVISIONAL", "CORRECTED_PROVISIONAL"}
        /\ ~res[q].carried
        /\ res[q].enforcement = tenant[o].window}

RolledRes(o) ==
    [q \in Requests |->
        IF q \in Guarded(o)
        THEN [res[q] EXCEPT !.guard = @ + res[q].provisional]
        ELSE res[q]]

\* Mutant of RolledTenant: the guards are not counted as reserved.
RolledUnguarded(o) == [tenant[o] EXCEPT !.settled = 0, !.window = now]

\* Mutant of RolledTenant: the closed window's spend is not reset.
RolledWithSpend(o) ==
    [tenant[o] EXCEPT
        !.reserved = @ + SumOver([q \in Requests |-> res[q].provisional],
                                 Guarded(o)),
        !.window = now]

RolledTenant(o) ==
    [tenant[o] EXCEPT
        !.reserved = @ + SumOver([q \in Requests |-> res[q].provisional],
                                 Guarded(o)),
        !.settled = 0,
        !.window = now]

\* advanceTenantWindowTx is an error when the clock is behind the window.
ClockServes(o) == tenant[o].window <= now

\* advanceTenantWindowTx: what the transaction reads after it.
AdvancedRes(o) == IF tenant[o].window \in {0, now} THEN res ELSE RolledRes(o)

AdvancedTenant(o) ==
    IF tenant[o].window \in {0, now} THEN tenant[o] ELSE RolledTenant(o)

-----------------------------------------------------------------------------
(* Admission *)

\* In an open window neither the policy nor the budget may differ from the
\* ones the window was bound to.
BindAccepted(o, p) ==
    \/ tenant[o].window = 0
    \/ tenant[o].window < now
    \/ /\ tenant[o].window = now
       /\ tenant[o].identity = p /\ tenant[o].budget = PolicyBudget[p]

BoundTenant(o, p) ==
    [AdvancedTenant(o) EXCEPT !.window = now, !.identity = p,
                              !.budget = PolicyBudget[p]]

\* admitOnce, a feasible candidate with reservation ceiling c fits.
Admit(r, p, c) ==
    LET o == Owner[r]
        t == BoundTenant(o, p)
    IN  /\ res[r].state = Absent
        /\ BindAccepted(o, p)
        /\ c <= Available(t)
        /\ res' = [AdvancedRes(o) EXCEPT ![r] = NewReservation(c, now)]
        /\ tenant' = [tenant EXCEPT ![o] =
                        [t EXCEPT !.reserved = @ + c, !.active = @ + 1]]
        /\ UNCHANGED <<now, paid>>

\* admitOnce, no candidate is feasible or none fits the available budget: the
\* window binding (and rollover) is committed without a reservation.
AdmitRefused(r, p) ==
    /\ res[r].state = Absent
    /\ BindAccepted(Owner[r], p)
    /\ res' = AdvancedRes(Owner[r])
    /\ tenant' = [tenant EXCEPT ![Owner[r]] = BoundTenant(Owner[r], p)]
    /\ UNCHANGED <<now, paid>>

-----------------------------------------------------------------------------
(* Request events *)

\* Mutant of ActiveDelta: a reservation revived by late usage is not counted.
ActiveDeltaDown(before, after) ==
    IF Active(before) /\ ~Active(after) THEN -1 ELSE 0

ActiveDelta(before, after) ==
    CASE Active(before) /\ ~Active(after) -> -1
      [] ~Active(before) /\ Active(after) -> 1
      [] OTHER -> 0

\* The CHECK constraints of govar_tenants and govar_reservations: a
\* transaction that would store a negative amount is refused.
Storable(s) ==
    /\ s.ten.settled >= 0 /\ s.ten.reserved >= 0 /\ s.ten.carried >= 0
    /\ s.ten.credit >= 0 /\ s.ten.active >= 0
    /\ s.res.residual >= 0 /\ s.res.guard >= 0 /\ s.res.carryEffect >= 0

\* mutateEventOnce: advance the window, reload the reservation, apply the
\* transition s to what was read, store reservation and tenant.
Mutate(r, s) ==
    LET o == Owner[r]
        before == AdvancedRes(o)[r]
        t == [s.ten EXCEPT !.active = @ + ActiveDelta(before, s.res)]
    IN  /\ Storable([res |-> s.res, ten |-> t])
        /\ res' = [AdvancedRes(o) EXCEPT ![r] = s.res]
        /\ tenant' = [tenant EXCEPT ![o] = t]
        /\ UNCHANGED <<now, paid>>

Dispatch(r, status) ==
    LET q == AdvancedRes(Owner[r])[r]
    IN  /\ ClockServes(Owner[r])
        /\ DispatchAccepted(q, status)
        /\ Mutate(r, [res |-> ApplyDispatch(q, status),
                      ten |-> AdvancedTenant(Owner[r])])

Settle(r, u) ==
    LET q == AdvancedRes(Owner[r])[r]
    IN  /\ ClockServes(Owner[r])
        /\ u.actual > q.reserved => u.exceeded
        /\ SettleAccepted(q, u)
        /\ Mutate(r, ApplySettlement(q, AdvancedTenant(Owner[r]), u))

Cancel(r, authoritative) ==
    LET q == AdvancedRes(Owner[r])[r]
    IN  /\ ClockServes(Owner[r])
        /\ CancelAccepted(q)
        /\ Mutate(r, ApplyCancel(q, AdvancedTenant(Owner[r]), authoritative))

-----------------------------------------------------------------------------
(* Reconciliation, budget authority, liability snapshot, time *)

\* reconcileExpiredOnce, with S the expirable reservations past their expiry.
\* It does not advance the tenants' windows.
ReconcileExpired(S) ==
    LET released(o) == {q \in S : Owner[q] = o /\ res[q].state = "RESERVED"}
        hold == [q \in Requests |-> Hold(res[q])]
    IN  /\ S # {} /\ \A q \in S : Expirable(res[q])
        /\ res' = [q \in Requests |->
                     IF q \in S THEN ApplyExpiry(res[q]) ELSE res[q]]
        /\ tenant' = [o \in Tenants |->
                        [tenant[o] EXCEPT
                            !.reserved = @ - SumOver(hold, released(o)),
                            !.active = @ - Cardinality(released(o))]]
        /\ UNCHANGED <<now, paid>>

\* Mutant of AdjustBudget: the payment is not bounded by the debt.
AdjustUnbounded(o, b, d) ==
    LET t == AdvancedTenant(o)
    IN  /\ tenant[o].window # 0 /\ ClockServes(o)
        /\ res' = AdvancedRes(o)
        /\ tenant' = [tenant EXCEPT ![o] =
                        [t EXCEPT !.budget = b, !.carried = @ - d]]
        /\ paid' = [paid EXCEPT ![o] = @ + d]
        /\ UNCHANGED now

\* adjustBudgetOnce, with an adjustment bound to the current window.
AdjustBudget(o, b, d) ==
    LET t == AdvancedTenant(o)
    IN  /\ tenant[o].window # 0
        /\ ClockServes(o)
        /\ d <= t.carried
        /\ res' = AdvancedRes(o)
        /\ tenant' = [tenant EXCEPT ![o] =
                        [t EXCEPT !.budget = b, !.carried = @ - d]]
        /\ paid' = [paid EXCEPT ![o] = @ + d]
        /\ UNCHANGED now

\* LiabilityWithError: reading the liability commits the window rollover.
Liability(o) ==
    /\ ClockServes(o)
    /\ res' = AdvancedRes(o)
    /\ tenant' = [tenant EXCEPT ![o] = AdvancedTenant(o)]
    /\ UNCHANGED <<now, paid>>

Clock(w) == now' = w /\ UNCHANGED <<res, tenant, paid>>

Next ==
    \/ \E w \in Windows : Clock(w)
    \/ \E r \in Requests, p \in Policies :
          AdmitRefused(r, p) \/ \E c \in Costs : Admit(r, p, c)
    \/ \E r \in Requests, status \in DispatchStatuses : Dispatch(r, status)
    \/ \E r \in Requests, u \in Settlements : Settle(r, u)
    \/ \E r \in Requests, authoritative \in BOOLEAN : Cancel(r, authoritative)
    \/ \E S \in SUBSET Requests : ReconcileExpired(S)
    \/ \E o \in Tenants, b \in Adjusted, d \in Payments : AdjustBudget(o, b, d)
    \/ \E o \in Tenants : Liability(o)

Spec == Init /\ [][Next]_vars

-----------------------------------------------------------------------------
(* Invariants *)

ReservationRecord ==
    [state : ReservationStates \cup {Absent}, outbox : OutboxStates,
     reserved : Nat, residual : Nat, guard : Nat, provisional : Nat,
     base : Nat, settledEffect : Nat, carryEffect : Nat, credit : Nat,
     version : 0 .. MaxVersion, carried : BOOLEAN, finalized : BOOLEAN,
     origin : 0 .. MaxWindow, enforcement : 0 .. MaxWindow]

TenantRecord ==
    [budget : Nat, settled : Nat, reserved : Nat, carried : Nat,
     credit : Nat, active : Nat, window : 0 .. MaxWindow,
     identity : Policies]

\* The tables hold what their columns allow: amounts are integers and never
\* negative, states are the closed sets of the schema.
TypeOK == /\ now \in Windows
          /\ res \in [Requests -> ReservationRecord]
          /\ tenant \in [Tenants -> TenantRecord]
          /\ paid \in [Tenants -> Nat]

RequestsOf(o) == {q \in Requests : Owner[q] = o}

ActiveOf(o) == {q \in RequestsOf(o) : Active(res[q])}

\* The reserved column is the sum of the residual holds and rollover guards of
\* the active reservations, through every interleaving of events, expiry and
\* window rollovers (startup check "tenant aggregate invariant mismatch").
ReservedIsSumOfHolds ==
    \A o \in Tenants :
        tenant[o].reserved =
            SumOver([q \in Requests |-> Hold(res[q])], ActiveOf(o))

\* The active_reservations column counts the active reservations, also when
\* authoritative usage revives one that had expired.
ActiveIsCount ==
    \A o \in Tenants : tenant[o].active = Cardinality(ActiveOf(o))

\* The settled column is the spend of the reservations charged to the current
\* window, and nothing of an earlier one (same startup check).
SettledIsWindowSpend ==
    \A o \in Tenants :
        tenant[o].settled =
            SumOver([q \in Requests |-> res[q].settledEffect],
                    {q \in RequestsOf(o) :
                        ~res[q].carried
                        /\ res[q].enforcement = tenant[o].window})

\* Carried debt is the debt the reservations caused less what authorised
\* adjustments paid (same startup check).
CarriedIsDebtLessPayments ==
    \A o \in Tenants :
        tenant[o].carried =
            SumOver([q \in Requests |-> res[q].carryEffect], RequestsOf(o))
            - paid[o]

\* The tenant's audit credit is the sum of its reservations' (same check).
CreditIsSumOfCredits ==
    \A o \in Tenants :
        tenant[o].credit =
            SumOver([q \in Requests |-> res[q].credit], RequestsOf(o))

\* The aggregates, kept by increments in every branch of every operation, are
\* what the reservations add up to (all of the startup check).
BooksBalance ==
    /\ ReservedIsSumOfHolds
    /\ ActiveIsCount
    /\ SettledIsWindowSpend
    /\ CarriedIsDebtLessPayments
    /\ CreditIsSumOfCredits

\* What the tenant's availability is reduced by on account of q.
Exposure(q) ==
    Hold(res[q]) + res[q].carryEffect + Spend(res[q], tenant[Owner[q]].window)

\* Until finality or an unbilled release, a request weighs on its tenant's
\* budget with at least its ceiling and at least its last reported cost, in
\* whatever window and state it is (ReconcileExpired: "retains every
\* potentially billable hold").
ExposureCoversCeiling ==
    \A q \in Requests :
        Active(res[q]) => /\ Exposure(q) >= res[q].reserved
                          /\ Exposure(q) >= res[q].provisional

\* The dispatch outbox never disagrees with the reservation: only a claimed
\* attempt is ever delivered, unresolved or settled, and a withdrawn one is
\* canceled.
OutboxAgrees == \A q \in Requests : OutboxFits(res[q])

\* Every reservation has one of the shapes the code's arithmetic relies on (see
\* GovarTransitions), whatever interleaving of events, expiry and rollovers it
\* went through.
WellFormed == \A q \in Requests : Shape(res[q], tenant[Owner[q]].window)

-----------------------------------------------------------------------------
(* Action properties *)

Committed(t) == t.settled + t.reserved + t.carried

\* A tenant's commitments grow only by an admission, by cost beyond the
\* reserved ceiling, by a rise after finality or by usage of an expired
\* reservation: neither a settlement within the ceiling nor a rollover ever
\* takes availability away from the tenant's other requests.
CommitmentGrowth ==
    [][\A o \in Tenants :
        Committed(tenant'[o]) > Committed(tenant[o]) =>
          \E q \in RequestsOf(o) :
            \/ res[q].state = Absent
               /\ res'[q].state = "RESERVED"
            \/ /\ res'[q].provisional > res[q].reserved
               /\ res'[q].provisional > res[q].provisional
            \/ res[q].finalized /\ res'[q].provisional > res[q].provisional
            \/ res[q].state = "EXPIRED_UNDISPATCHED"
               /\ res'[q].version = 1]_vars

-----------------------------------------------------------------------------
(* What the ledger implements *)

Stage(q) ==
    CASE res[q].state = Absent -> "none"
      [] res[q].state \in {"CANCELED_UNBILLED", "FAILED_UNBILLED"} -> "withdrawn"
      [] res[q].state = "EXPIRED_UNDISPATCHED" -> "expired"
      [] res[q].state \in {"FINALIZED", "LATE_FINALIZED"} -> "final"
      [] OTHER -> "open"

Book == INSTANCE LiabilityBook WITH
    Budgets <- Adjusted \cup {PolicyBudget[p] : p \in Policies},
    window <- [o \in Tenants |-> tenant[o].window],
    budget <- [o \in Tenants |-> tenant[o].budget],
    stage <- [q \in Requests |-> Stage(q)],
    ceiling <- [q \in Requests |-> res[q].reserved],
    cost <- [q \in Requests |-> res[q].provisional],
    debt <- [q \in Requests |-> res[q].carryEffect],
    owed <- [q \in Requests |-> Exposure(q)]

\* The ledger keeps a LiabilityBook: its five columns per tenant, its holds,
\* guards and effects per reservation and its twelve states amount to each
\* request weighing on its tenant what it may still cost, and admission, which
\* looks at the columns alone, never grants more than the requests leave.
ImplementsBook == Book!BookSpec

=============================================================================
