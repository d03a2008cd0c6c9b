----------------------------- MODULE WorkLeases -----------------------------
(***************************************************************************)
(* GOV-AR's durable work queue: the rows of govar_work_items and the       *)
(* claim, renew and complete transactions on them                          *)
(* (internal/govar/worker_postgres.go), and the pass each replica's worker *)
(* runs over one kind of work (internal/govarworker/worker.go).            *)
(*                                                                         *)
(* Time.  A lease is live until lease_until passes on the database clock.  *)
(* A worker renews more often than the lease lasts, so the lease of a      *)
(* running job expires only when the worker stalls; the number of stalls   *)
(* is bounded.  A RETRY row becomes claimable when its backoff has passed, *)
(* which the model leaves open.                                            *)
(*                                                                         *)
(* Failure.  A replica may crash at any point and come back with a new     *)
(* random lease owner.  A completion it has already sent may still be      *)
(* executed by the database after the crash, or never.                     *)
(***************************************************************************)
EXTENDS Naturals, FiniteSets

CONSTANTS
    Items,        \* durable work items of one kind
    Workers,      \* admission replicas
    MaxAttempts,  \* Config.MaxAttempts
    MaxStalls,    \* bound: leases that expire under a running job
    MaxCrashes    \* bound: crashes of each replica

ASSUME WorkersFinite == IsFiniteSet(Workers)
ASSUME LeaseBounds == /\ MaxAttempts \in Nat \ {0}
                      /\ MaxStalls \in Nat /\ MaxCrashes \in Nat

VARIABLES
    work,    \* govar_work_items
    jobs,    \* the process calls in progress and completions in flight
    crashes, \* crashes of each replica so far
    stalls   \* leases that expired under a running job so far

leaseVars == <<work, jobs, crashes, stalls>>

Dispositions == {"PRESERVE", "AUTHORITATIVE_RELEASE"}

Outcomes == {"COMPLETED", "RETRY", "DEAD_LETTER"}

\* The states of a row; "NONE" is the absence of one.
WorkStates == Outcomes \cup {"NONE", "PENDING", "LEASED"}

Results == [state : Outcomes, disposition : Dispositions]

NoResult == [state |-> "DEAD_LETTER", disposition |-> "PRESERVE"]

\* newWorkerOwner: every start of a replica draws a new owner token.
OwnerTokens == Workers \X (0 .. MaxCrashes)

Token(w) == <<w, crashes[w]>>

\* lease_owner = ''
NoToken == <<>>

NoWork == [state |-> "NONE", owner |-> NoToken, live |-> FALSE,
           attempts |-> 0, held |-> FALSE, eligible |-> FALSE,
           disposition |-> "PRESERVE"]

LeasesInit == /\ work = [i \in Items |-> NoWork]
              /\ jobs = {}
              /\ crashes = [w \in Workers |-> 0]
              /\ stalls = 0

-----------------------------------------------------------------------------
(* The ledger's transactions *)

\* enqueueWorkerItemTx, the insert; the caller has checked the request.
Row(held, eligible) ==
    [state |-> "PENDING", owner |-> NoToken, live |-> FALSE, attempts |-> 0,
     held |-> held, eligible |-> eligible, disposition |-> "PRESERVE"]

\* Mutant of Claimable: a lease is never taken over.
ClaimableFresh(i) == work[i].state \in {"PENDING", "RETRY"}

\* A row ClaimWork may pick: waiting, or leased with an expired lease.
Claimable(i) ==
    \/ work[i].state \in {"PENDING", "RETRY"}
    \/ work[i].state = "LEASED" /\ ~work[i].live

Claimed(i, w, held, eligible) ==
    [state |-> "LEASED", owner |-> Token(w), live |-> TRUE,
     attempts |-> work[i].attempts + 1, held |-> held, eligible |-> eligible,
     disposition |-> "PRESERVE"]

\* Some process call of the running replica w has not returned.
Busy(w) == \E j \in jobs : j.owner = Token(w)

\* runPass and ClaimWork: w leases the rows B (SKIP LOCKED and LIMIT may leave
\* others out), with the liability the reservations have now, and starts one
\* process call for each.  It claims again only when all of them returned.
Claim(w, B, held, eligible) ==
    /\ ~Busy(w)
    /\ B # {} /\ \A i \in B : Claimable(i)
    /\ work' = [i \in Items |->
                  IF i \in B THEN Claimed(i, w, held[i], eligible[i])
                             ELSE work[i]]
    /\ jobs' = jobs \cup
         {[item |-> i, owner |-> Token(w), attempt |-> work[i].attempts + 1,
           held |-> held[i], eligible |-> eligible[i], phase |-> "handling",
           lost |-> FALSE, result |-> NoResult] : i \in B}
    /\ UNCHANGED <<crashes, stalls>>

\* The row is leased to the job's owner and the lease has not expired.
Leased(j) ==
    /\ work[j.item].state = "LEASED"
    /\ work[j.item].owner = j.owner
    /\ work[j.item].live

\* RenewWork extends a live lease, which changes nothing here; a lease that
\* was lost is noticed, and the job will not be acknowledged.
RenewFails(j) ==
    /\ j.phase = "handling" /\ ~j.lost
    /\ ~Leased(j)
    /\ jobs' = (jobs \ {j}) \cup {[j EXCEPT !.lost = TRUE]}
    /\ UNCHANGED <<work, crashes, stalls>>

\* normalizeResult: an exhausted RETRY becomes a dead letter, anything but a
\* completion keeps the liability, and a release needs the claim's authority.
Normalize(j, result) ==
    LET state == IF result.state = "RETRY" /\ j.attempt >= MaxAttempts
                 THEN "DEAD_LETTER" ELSE result.state
    IN  IF state # "COMPLETED"
        THEN [state |-> state, disposition |->
                 IF j.held THEN "PRESERVE" ELSE result.disposition]
        ELSE IF /\ result.disposition = "AUTHORITATIVE_RELEASE"
                /\ j.held /\ ~j.eligible
             THEN NoResult
             ELSE result

\* The end of process: the handler returned result.  After a failed renewal
\* nothing is acknowledged; otherwise CompleteWork sends its update.
Finish(j, result) ==
    /\ j.phase = "handling"
    /\ jobs' = (jobs \ {j}) \cup
         (IF j.lost THEN {}
          ELSE {[j EXCEPT !.phase = "sent", !.result = Normalize(j, result)]})

\* validWorkerResult
Valid(j) ==
    j.result.disposition = "AUTHORITATIVE_RELEASE" =>
        j.held /\ j.eligible /\ j.result.state = "COMPLETED"

\* Mutant of Acknowledges: the compare-and-set looks at the lease alone.
AcknowledgesLeased(j) ==
    Valid(j) /\ work[j.item].state = "LEASED" /\ work[j.item].live

\* The compare-and-set of CompleteWork succeeds.
Acknowledges(j) ==
    /\ Valid(j)
    /\ Leased(j)
    /\ work[j.item].held = j.held /\ work[j.item].eligible = j.eligible

\* Mutant of Complete: the disposition is the eligibility of the row.
CompleteAsEligible(j) ==
    /\ j.phase = "sent"
    /\ jobs' = jobs \ {j}
    /\ work' = IF Acknowledges(j)
               THEN [work EXCEPT ![j.item] =
                       [@ EXCEPT !.state = j.result.state, !.owner = NoToken,
                                 !.live = FALSE, !.disposition =
                                    IF j.eligible THEN "AUTHORITATIVE_RELEASE"
                                    ELSE j.result.disposition]]
               ELSE work
    /\ UNCHANGED <<crashes, stalls>>

\* The database executes the update of CompleteWork.  If the compare-and-set
\* fails the row stays, whether the call is an idempotent replay or an error.
Complete(j) ==
    /\ j.phase = "sent"
    /\ jobs' = jobs \ {j}
    /\ work' = IF Acknowledges(j)
               THEN [work EXCEPT ![j.item] =
                       [@ EXCEPT !.state = j.result.state, !.owner = NoToken,
                                 !.live = FALSE,
                                 !.disposition = j.result.disposition]]
               ELSE work
    /\ UNCHANGED <<crashes, stalls>>

-----------------------------------------------------------------------------
(* Time and failure *)

\* A process call that still renews the row's lease.
Renewing(i) ==
    \E j \in jobs : /\ j.item = i /\ Leased(j)
                    /\ \E w \in Workers : j.owner = Token(w)

LeaseExpires(i) ==
    /\ work[i].state = "LEASED" /\ work[i].live
    /\ \/ ~Renewing(i) /\ UNCHANGED stalls
       \/ Renewing(i) /\ stalls < MaxStalls /\ stalls' = stalls + 1
    /\ work' = [work EXCEPT ![i].live = FALSE]
    /\ UNCHANGED <<jobs, crashes>>

\* The replica dies and is restarted; of its jobs only the sent completions
\* in F remain in flight.
Crash(w, F) ==
    /\ crashes[w] < MaxCrashes
    /\ F \subseteq {j \in jobs : j.owner = Token(w) /\ j.phase = "sent"}
    /\ jobs' = {j \in jobs : j.owner # Token(w)} \cup F
    /\ crashes' = [crashes EXCEPT ![w] = @ + 1]
    /\ UNCHANGED <<work, stalls>>

-----------------------------------------------------------------------------
(* The queue alone: any handler, and reservations that change at will      *)

\* What a handler may return.  None asks to release an item that holds no
\* liability.
HandlerResults(j) ==
    {result \in Results : result.disposition = "PRESERVE" \/ j.held}

\* The schema allows no release eligibility without a held liability.
Flags == {f \in [held : BOOLEAN, eligible : BOOLEAN] : f.eligible => f.held}

Enqueue(i, f) ==
    /\ work[i].state = "NONE"
    /\ work' = [work EXCEPT ![i] = Row(f.held, f.eligible)]
    /\ UNCHANGED <<jobs, crashes, stalls>>

ClaimSome(w) ==
    \E B \in SUBSET Items, f \in Flags :
        Claim(w, B, [i \in Items |-> f.held], [i \in Items |-> f.eligible])

Handle(j) ==
    /\ \E result \in HandlerResults(j) : Finish(j, result)
    /\ UNCHANGED <<work, crashes, stalls>>

LeasesNext ==
    \/ \E i \in Items, f \in Flags : Enqueue(i, f)
    \/ \E w \in Workers : ClaimSome(w)
    \/ \E j \in jobs : RenewFails(j) \/ Handle(j) \/ Complete(j)
    \/ \E i \in Items : LeaseExpires(i)
    \/ \E w \in Workers : \E F \in SUBSET jobs : Crash(w, F)

LeasesSpec == LeasesInit /\ [][LeasesNext]_leaseVars

\* Handlers return, the database answers, an abandoned lease runs out and
\* some replica keeps polling.
Fairness ==
    /\ \A i \in Items : WF_leaseVars(LeaseExpires(i) /\ ~Renewing(i))
    /\ WF_leaseVars(\E j \in jobs : Handle(j))
    /\ WF_leaseVars(\E j \in jobs : Complete(j))
    /\ WF_leaseVars(\E w \in Workers : ClaimSome(w))

LiveSpec == LeasesSpec /\ Fairness

-----------------------------------------------------------------------------
(* Properties *)

WorkRecord ==
    [state : WorkStates, owner : OwnerTokens \cup {NoToken}, live : BOOLEAN,
     attempts : Nat, held : BOOLEAN, eligible : BOOLEAN,
     disposition : Dispositions]

JobRecord ==
    [item : Items, owner : OwnerTokens, attempt : Nat, held : BOOLEAN,
     eligible : BOOLEAN, phase : {"handling", "sent"}, lost : BOOLEAN,
     result : Results]

\* Rows and jobs have the columns and fields of the schema and of WorkItem, and
\* exactly the leased rows have an owner (govar_work_lease_coherent).
LeasesTypeOK ==
    /\ work \in [Items -> WorkRecord]
    /\ \A i \in Items : work[i].state = "LEASED" <=> work[i].owner # NoToken
    /\ jobs \subseteq JobRecord
    /\ crashes \in [Workers -> 0 .. MaxCrashes]
    /\ stalls \in 0 .. MaxStalls

\* Every row that leaves its lease in this step does so for a completion with
\* the row's attempt number.
AckOfLatestClaim ==
    \A i \in Items :
        work[i].state = "LEASED" /\ work'[i].state # "LEASED" =>
            \E j \in jobs \ jobs' : /\ j.item = i /\ j.phase = "sent"
                                    /\ j.attempt = work[i].attempts
                                    /\ j.result.state = work'[i].state

\* A row leaves its lease only through the acknowledgement of the claim that
\* leased it last: never through a stale worker's completion, one that was in
\* flight across a crash and a takeover included (CompleteWork's "every other
\* stale-owner completion fails closed").
AckIsOfLatestClaim == [][AckOfLatestClaim]_leaseVars

\* A row is retried only below the attempt limit, so an item whose handler
\* returns is not retried forever (normalizeResult).
RetryBelowLimit ==
    \A i \in Items : work[i].state = "RETRY" => work[i].attempts < MaxAttempts

\* A release is on record only for a completed item whose last claim proved
\* that the liability may be released (MIGRATIONS.md: "a retry, dead letter,
\* stale owner, or unproven handler result cannot release liability").
ReleaseIsAuthorised ==
    \A i \in Items :
        work[i].disposition = "AUTHORITATIVE_RELEASE" =>
            work[i].state = "COMPLETED" /\ work[i].held /\ work[i].eligible

\* An enqueued item ends completed or as a dead letter, whatever crashes and
\* stalls happen on the way: no lease is left behind for good.
WorkEnds ==
    \A i \in Items :
        work[i].state \in {"PENDING", "LEASED", "RETRY"} ~>
            work[i].state \in {"COMPLETED", "DEAD_LETTER"}

=============================================================================
