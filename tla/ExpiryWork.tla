----------------------------- MODULE ExpiryWork -----------------------------
(***************************************************************************)
(* Expiry of reservations, end to end: GovarLedger and WorkLeases          *)
(* composed by the durable worker manager                                  *)
(* (cmd/gov-ar-admission/reconciliation_worker.go).  Every replica         *)
(* enqueues an expiry item for each reservation it finds past its expiry,  *)
(* claims items, and for each one reconciles all the expired reservations  *)
(* in a ledger transaction before it acknowledges the item.                *)
(*                                                                         *)
(* A reservation has one expiry item: its source identity is the request   *)
(* and its expiry, which never changes.  The item's payload hash covers    *)
(* the state and outbox state it was enqueued in.  Replica clocks are      *)
(* assumed to agree with the database clock.                               *)
(***************************************************************************)
EXTENDS GovarLedger, WorkLeases

VARIABLES
    expired,  \* requests whose expiry has passed
    payload   \* what payload_sha256 of each item covers

expiryVars == <<now, res, tenant, paid, work, jobs, crashes, stalls,
                expired, payload>>

ASSUME ItemsAreRequests == Items = Requests

NoPayload == <<>>

ExpiryInit == /\ Init /\ LeasesInit
              /\ expired = {}
              /\ payload = [r \in Requests |-> NoPayload]

-----------------------------------------------------------------------------
(* Enqueueing *)

\* residual_hold_micros + rollover_guard_micros > 0
HeldNow(r) == Hold(res[r]) > 0

ReleasableNow(r) == res[r].state = "RESERVED" /\ res[r].outbox = "PENDING"

\* The query of EnqueueExpiredWork.
Overdue ==
    {r \in expired : Expirable(res[r]) \/ res[r].state = "UNRESOLVED"}

PayloadNow(r) == <<res[r].state, res[r].outbox>>

\* enqueueWorkerItemTx is an error: the item is releasable without liability,
\* or it exists and was enqueued, or last claimed, with another binding.
Conflicts(r) ==
    \/ ReleasableNow(r) /\ ~HeldNow(r)
    \/ /\ work[r].state # "NONE"
       /\ \/ payload[r] # PayloadNow(r)
          \/ work[r].held # HeldNow(r)
          \/ work[r].eligible # ReleasableNow(r)

\* EnqueueExpiredWork over the overdue reservations C (SKIP LOCKED and LIMIT
\* may leave some out).  One conflict aborts the transaction for all of them.
EnqueueExpired(C) ==
    /\ C # {} /\ C \subseteq Overdue
    /\ \A r \in C : ~Conflicts(r)
    /\ work' = [r \in Requests |->
                  IF r \in C /\ work[r].state = "NONE"
                  THEN Row(HeldNow(r), ReleasableNow(r)) ELSE work[r]]
    /\ payload' = [r \in Requests |->
                     IF r \in C /\ work[r].state = "NONE"
                     THEN PayloadNow(r) ELSE payload[r]]
    /\ UNCHANGED <<now, res, tenant, paid, jobs, crashes, stalls, expired>>

-----------------------------------------------------------------------------
(* Working *)

\* ClaimWork's refresh of the liability of the rows it picks.
ClaimExpired(w, B) ==
    /\ Claim(w, B, [r \in Requests |-> HeldNow(r) /\ Active(res[r])],
                   [r \in Requests |-> ReleasableNow(r)])
    /\ UNCHANGED <<now, res, tenant, paid, expired, payload>>

\* Mutant of Disposition: the eligibility seen by the claim is enough.
DispositionAsClaimed(j, S) ==
    IF j.eligible THEN "AUTHORITATIVE_RELEASE" ELSE "PRESERVE"

\* The disposition handleExpiry reports when its transaction reconciled S.
Disposition(j, S) ==
    IF j.item \in S /\ res[j.item].state = "RESERVED" /\ j.eligible
    THEN "AUTHORITATIVE_RELEASE" ELSE "PRESERVE"

\* Mutant of ReconciledNow: dispatched reservations are left as they are.
ReconciledReserved == {r \in expired : res[r].state = "RESERVED"}

\* The reservations reconcileExpiredOnce selects.
ReconciledNow == {r \in expired : Expirable(res[r])}

\* handleExpiry: reconcile everything that is overdue, whichever request the
\* item is about.
HandleExpiry(j) ==
    LET S == ReconciledNow
    IN  /\ IF S = {} THEN UNCHANGED <<now, res, tenant, paid>>
                     ELSE ReconcileExpired(S)
        /\ Finish(j, [state |-> "COMPLETED", disposition |-> Disposition(j, S)])
        /\ UNCHANGED <<work, crashes, stalls, expired, payload>>

\* handleExpiry when the transaction fails.
HandleFails(j) ==
    /\ Finish(j, [state |-> "RETRY", disposition |-> "PRESERVE"])
    /\ UNCHANGED <<now, res, tenant, paid, work, crashes, stalls, expired, payload>>

-----------------------------------------------------------------------------
(* The whole *)

\* The five minutes of a reservation pass.
Expire(r) ==
    /\ res[r].state # Absent /\ r \notin expired
    /\ expired' = expired \cup {r}
    /\ UNCHANGED <<now, res, tenant, paid, work, jobs, crashes, stalls, payload>>

\* What the gateway does to the ledger.
GatewayStep ==
    /\ \/ \E r \in Requests, p \in Policies, c \in Costs : Admit(r, p, c)
       \/ \E r \in Requests, status \in DispatchStatuses : Dispatch(r, status)
       \/ \E r \in Requests, u \in Settlements : Settle(r, u)
       \/ \E r \in Requests, authoritative \in BOOLEAN : Cancel(r, authoritative)
    /\ UNCHANGED <<work, jobs, crashes, stalls, expired, payload>>

QueueStep ==
    /\ \/ \E j \in jobs : RenewFails(j) \/ Complete(j)
       \/ \E i \in Items : LeaseExpires(i)
       \/ \E w \in Workers : \E F \in SUBSET jobs : Crash(w, F)
    /\ UNCHANGED <<now, res, tenant, paid, expired, payload>>

ExpiryNext ==
    \/ GatewayStep
    \/ QueueStep
    \/ \E r \in Requests : Expire(r)
    \/ \E C \in SUBSET Overdue : EnqueueExpired(C)
    \/ \E w \in Workers, B \in SUBSET Items : ClaimExpired(w, B)
    \/ \E j \in jobs : HandleExpiry(j) \/ HandleFails(j)

ExpirySpec == ExpiryInit /\ [][ExpiryNext]_expiryVars

\* Replicas keep enqueueing and polling, handlers return, the database answers
\* and abandoned leases run out.  Nothing is assumed of the gateway.
ExpiryFairness ==
    /\ WF_expiryVars(EnqueueExpired(Overdue))
    /\ WF_expiryVars(\E w \in Workers, B \in SUBSET Items : ClaimExpired(w, B))
    /\ WF_expiryVars(\E j \in jobs : HandleExpiry(j) \/ HandleFails(j))
    /\ WF_expiryVars(/\ \E j \in jobs : Complete(j)
                     /\ UNCHANGED <<now, res, tenant, paid, expired, payload>>)
    /\ \A i \in Items :
          WF_expiryVars(/\ LeaseExpires(i) /\ ~Renewing(i)
                        /\ UNCHANGED <<now, res, tenant, paid, expired, payload>>)

ExpiryLiveSpec == ExpirySpec /\ ExpiryFairness

-----------------------------------------------------------------------------
(* Properties *)

\* A completed item means what its reason says, "expiry_reconciled": the
\* reservation is no longer waiting for its expiry, whichever replica's
\* transaction dealt with it and whatever takeovers happened.
CompletedIsReconciled ==
    \A r \in Requests : work[r].state = "COMPLETED" => ~Expirable(res[r])

\* A release is on record only where the last claim authorised it, and for a
\* reservation that expired undispatched and (if late usage arrived afterwards)
\* was revived: the eligibility read at the claim is stale by the time the
\* handler runs.
RecordedReleaseHappened ==
    /\ ReleaseIsAuthorised
    /\ \A r \in Requests :
        work[r].disposition = "AUTHORITATIVE_RELEASE" =>
            res[r].state = "EXPIRED_UNDISPATCHED" \/ res[r].version # 0

\* What the durable work table says of an item is true of its reservation.
OutcomeIsTrue == CompletedIsReconciled /\ RecordedReleaseHappened

=============================================================================
