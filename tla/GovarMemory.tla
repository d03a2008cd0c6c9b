---------------------------- MODULE GovarMemory ----------------------------
(***************************************************************************)
(* The in-memory Engine of internal/govar/engine.go and                    *)
(* ledger_extensions.go (GOV_AR_DEV_IN_MEMORY=true).  One mutex makes      *)
(* every operation a single step.  It shares the transitions and the       *)
(* window arithmetic with GovarLedger and differs in three ways:           *)
(*   - an operation reads its reservation before it advances the window    *)
(*     and writes that copy back afterwards;                               *)
(*   - no CHECK constraint refuses a negative amount;                      *)
(*   - the active reservations are a set of request identifiers kept per   *)
(*     tenant, of which the reported count is the size.                    *)
(* When an operation fails after the window was advanced the rollover      *)
(* stays; that step is Liability's.                                        *)
(***************************************************************************)
EXTENDS GovarLedger

VARIABLE requests   \* tenantLedger.Requests of each tenant

memoryVars == <<now, res, tenant, paid, requests>>

MemoryInit == Init /\ requests = [o \in Tenants |-> {}]

\* Set the tenant's requests to R; its active field is what Liability reports.
Listed(o, t, R) ==
    /\ requests' = [requests EXCEPT ![o] = R]
    /\ tenant' = [tenant EXCEPT ![o] = [t EXCEPT !.active = Cardinality(R)]]

\* Engine.Admit
MemoryAdmit(r, p, c) ==
    LET o == Owner[r]
        t == BoundTenant(o, p)
    IN  /\ res[r].state = Absent
        /\ BindAccepted(o, p)
        /\ c <= Available(t)
        /\ res' = [AdvancedRes(o) EXCEPT ![r] = NewReservation(c, now)]
        /\ Listed(o, [t EXCEPT !.reserved = @ + c], requests[o] \cup {r})
        /\ UNCHANGED <<now, paid>>

\* The end of Dispatch, Settle and Cancel: the transition s of the copy of r
\* read before the rollover is stored over what the rollover wrote.
Store(r, s, closed) ==
    LET o == Owner[r]
    IN  /\ res' = [AdvancedRes(o) EXCEPT ![r] = s.res]
        /\ Listed(o, s.ten, IF closed THEN requests[o] \ {r} ELSE requests[o])
        /\ UNCHANGED <<now, paid>>

\* Engine.Dispatch
MemoryDispatch(r, status) ==
    /\ ClockServes(Owner[r])
    /\ DispatchAccepted(res[r], status)
    /\ Store(r, [res |-> ApplyDispatch(res[r], status),
                 ten |-> AdvancedTenant(Owner[r])], FALSE)

\* Engine.Settle
MemorySettle(r, u) ==
    LET s == ApplySettlement(res[r], AdvancedTenant(Owner[r]), u)
    IN  /\ ClockServes(Owner[r])
        /\ u.actual > res[r].reserved => u.exceeded
        /\ SettleAccepted(res[r], u)
        /\ Store(r, s, ~Active(s.res))

\* Engine.Cancel
MemoryCancel(r, authoritative) ==
    LET s == ApplyCancel(res[r], AdvancedTenant(Owner[r]), authoritative)
    IN  /\ ClockServes(Owner[r])
        /\ CancelAccepted(res[r])
        /\ Store(r, s, s.res.state \in {"CANCELED_UNBILLED", "FAILED_UNBILLED"})

\* Engine.ReconcileExpired
MemoryReconcileExpired(S) ==
    LET released(o) == {q \in S : Owner[q] = o /\ res[q].state = "RESERVED"}
        hold == [q \in Requests |-> Hold(res[q])]
    IN  /\ S # {} /\ \A q \in S : Expirable(res[q])
        /\ res' = [q \in Requests |->
                     IF q \in S THEN ApplyExpiry(res[q]) ELSE res[q]]
        /\ requests' = [o \in Tenants |-> requests[o] \ released(o)]
        /\ tenant' = [o \in Tenants |->
                        [tenant[o] EXCEPT
                            !.reserved = @ - SumOver(hold, released(o)),
                            !.active = Cardinality(requests'[o])]]
        /\ UNCHANGED <<now, paid>>

MemoryNext ==
    \/ \E r \in Requests, p \in Policies, c \in Costs : MemoryAdmit(r, p, c)
    \/ \E r \in Requests, status \in DispatchStatuses :
          MemoryDispatch(r, status)
    \/ \E r \in Requests, u \in Settlements : MemorySettle(r, u)
    \/ \E r \in Requests, authoritative \in BOOLEAN :
          MemoryCancel(r, authoritative)
    \/ \E S \in SUBSET Requests : MemoryReconcileExpired(S)
    \/ /\ \/ \E w \in Windows : Clock(w)
          \/ \E r \in Requests, p \in Policies : AdmitRefused(r, p)
          \/ \E o \in Tenants, b \in Adjusted, d \in Payments :
                AdjustBudget(o, b, d)
          \/ \E o \in Tenants : Liability(o)
       /\ UNCHANGED requests

MemorySpec == MemoryInit /\ [][MemoryNext]_memoryVars

-----------------------------------------------------------------------------
(* Properties *)

\* A window advanced in the middle of an operation leaks the guard of the
\* reservation the operation is about, and a revived reservation is not listed
\* again; both err on one side: the tenant is never charged less than its
\* reservations hold.
ReservedCoversHolds ==
    \A o \in Tenants :
        tenant[o].reserved >=
            SumOver([q \in Requests |-> Hold(res[q])], RequestsOf(o))

\* Of the aggregates of the in-memory ledger, spend and carried debt are exact
\* and the reserved amount errs on the safe side.
MemoryBooks ==
    /\ ReservedCoversHolds
    /\ SettledIsWindowSpend
    /\ CarriedIsDebtLessPayments

=============================================================================
