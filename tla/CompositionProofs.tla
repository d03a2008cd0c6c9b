------------------------- MODULE CompositionProofs -------------------------
(***************************************************************************)
(* The two systems built on the ledger: the durable work that expires      *)
(* reservations (WorkLeases, ExpiryWork) and the gateway (GatewayStream),  *)
(* for any replicas, streams, requests, attempts, stalls, crashes and      *)
(* ledger parameters.  A step of either is a ledger step or leaves the     *)
(* ledger alone, so the ledger's invariant holds in both.                  *)
(*                                                                         *)
(* Work: the compare-and-set of CompleteWork looks at the owner of the     *)
(* lease and not at the attempt, so that it is of the latest claim has to  *)
(* follow from the rest: a replica claims only when none of its process    *)
(* calls is left, which makes JobsMatch inductive.  TokensPast shows that  *)
(* a restart leaves the replica idle, because its new owner token is       *)
(* fresh.  What a completed item says of its reservation is decided in one *)
(* transaction and written down in a later one; it is still true then      *)
(* because the ledger never moves a reservation back (LedgerOnward).       *)
(*                                                                         *)
(* Gateway: an admission is held by one stream at most, because it is      *)
(* given only for a request without a reservation and reservations are     *)
(* never forgotten; and the inbox says what has happened to a reservation. *)
(***************************************************************************)
EXTENDS ExpiryWork, GatewayStream, GovarLedgerProofs

-----------------------------------------------------------------------------
(* The work queue, alone and with the ledger: the inductive invariant *)

\* A job whose token owns the lease of its row is the latest claim of it.
JobsMatch ==
    \A j \in jobs :
        work[j.item].owner = j.owner => j.attempt = work[j.item].attempts

\* A replica's token is newer than the ones it had before its crashes.
TokensPast == \A j \in jobs : j.owner[2] <= crashes[j.owner[1]]

\* What normalizeResult leaves of a handler's result.
ResultsNormal ==
    \A j \in jobs :
        j.phase = "sent" /\ j.result.state = "RETRY" => j.attempt < MaxAttempts

LeasesInv == /\ LeasesTypeOK /\ JobsMatch /\ TokensPast /\ ResultsNormal
             /\ RetryBelowLimit /\ ReleaseIsAuthorised

-----------------------------------------------------------------------------
(* Types of the pieces *)

\* The owner token of a running replica is never the empty lease owner.
LEMMA TokenType ==
    ASSUME LeasesTypeOK, NEW w \in Workers
    PROVE  /\ Token(w) \in OwnerTokens /\ Token(w) # NoToken
           /\ Token(w)[1] = w /\ Token(w)[2] = crashes[w]
           /\ crashes[w] \in Nat
BY LeaseBounds, SMT DEF LeasesTypeOK, Token, OwnerTokens, NoToken

\* The lease owner of a job is a token, never empty.
LEMMA JobOwner ==
    ASSUME NEW j \in JobRecord
    PROVE  /\ j.owner \in OwnerTokens /\ j.owner # NoToken /\ j.item \in Items
           /\ j.owner[1] \in Workers /\ j.owner[2] \in Nat
BY LeaseBounds, SMT DEF JobRecord, OwnerTokens, NoToken

\* normalizeResult returns a result, and a retry only below the limit.
LEMMA NormalizeType ==
    ASSUME NEW j \in JobRecord, NEW result \in Results
    PROVE  /\ Normalize(j, result) \in Results
           /\ Normalize(j, result).state = "RETRY" => j.attempt < MaxAttempts
BY LeaseBounds, SMT DEF Normalize, Results, Outcomes, Dispositions, NoResult, JobRecord

\* Initially the queue is empty.
LEMMA LeasesInitInv == LeasesInit => LeasesInv
BY LeaseBounds, SMT DEF LeasesInit, LeasesInv, LeasesTypeOK, JobsMatch, TokensPast,
   ResultsNormal, RetryBelowLimit, ReleaseIsAuthorised, NoWork, NoToken, WorkRecord,
   WorkStates, Outcomes, Dispositions, OwnerTokens

-----------------------------------------------------------------------------
(* One lemma for each step *)

\* A new row has no lease and no jobs.
LEMMA RowsInv ==
    ASSUME LeasesInv, NEW C \in SUBSET Items, NEW held \in [Items -> BOOLEAN],
           NEW eligible \in [Items -> BOOLEAN],
           work' = [i \in Items |-> IF i \in C THEN Row(held[i], eligible[i])
                                              ELSE work[i]],
           UNCHANGED <<jobs, crashes, stalls>>
    PROVE  LeasesInv'
<1>1. \A i \in Items : Row(held[i], eligible[i]) \in WorkRecord
  BY SMT DEF Row, WorkRecord, WorkStates, Outcomes, Dispositions, NoToken
<1>2. \A i \in Items : /\ Row(held[i], eligible[i]).owner = NoToken
                       /\ Row(held[i], eligible[i]).state = "PENDING"
                       /\ Row(held[i], eligible[i]).disposition = "PRESERVE"
  BY SMT DEF Row
<1>3. \A i \in Items : work'[i] = IF i \in C THEN Row(held[i], eligible[i])
                                             ELSE work[i]
  OBVIOUS
<1>4. \A j \in jobs : j.item \in Items /\ j.owner # NoToken
  BY JobOwner DEF LeasesInv, LeasesTypeOK
<1>5. LeasesTypeOK'
  <2>1. work' \in [Items -> WorkRecord]
    BY <1>1 DEF LeasesInv, LeasesTypeOK
  <2> QED BY <1>2, <1>3, <2>1, SMT DEF LeasesInv, LeasesTypeOK
<1>6. JobsMatch'
  BY <1>2, <1>3, <1>4, SMT DEF LeasesInv, JobsMatch
<1>7. TokensPast' /\ ResultsNormal'
  BY SMT DEF LeasesInv, TokensPast, ResultsNormal
<1>8. RetryBelowLimit' /\ ReleaseIsAuthorised'
  BY <1>2, <1>3, SMT DEF LeasesInv, RetryBelowLimit, ReleaseIsAuthorised
<1> QED BY <1>5, <1>6, <1>7, <1>8 DEF LeasesInv

\* The queue alone enqueues one row at a time.
LEMMA EnqueueInv ==
    ASSUME LeasesInv, NEW i \in Items, NEW f \in Flags, Enqueue(i, f)
    PROVE  LeasesInv'
<1> DEFINE held == [k \in Items |-> f.held]
           eligible == [k \in Items |-> f.eligible]
<1>1. held \in [Items -> BOOLEAN] /\ eligible \in [Items -> BOOLEAN]
  BY SMT DEF Flags
<1>2. UNCHANGED <<jobs, crashes, stalls>>
  BY DEF Enqueue
<1>3. work' = [k \in Items |-> IF k \in {i} THEN Row(held[k], eligible[k])
                                             ELSE work[k]]
  <2>1. work' = [work EXCEPT ![i] = Row(f.held, f.eligible)]
    BY DEF Enqueue
  <2>2. \A k \in Items : Row(held[k], eligible[k]) = Row(f.held, f.eligible)
    OBVIOUS
  <2> HIDE DEF held, eligible
  <2> QED BY <2>1, <2>2 DEF LeasesInv, LeasesTypeOK
<1> HIDE DEF held, eligible
<1> QED BY <1>1, <1>2, <1>3, RowsInv

\* A claim leases rows that no job of this token is about.
LEMMA ClaimInv ==
    ASSUME LeasesInv, NEW w \in Workers, NEW B \in SUBSET Items,
           NEW held \in [Items -> BOOLEAN], NEW eligible \in [Items -> BOOLEAN],
           Claim(w, B, held, eligible)
    PROVE  LeasesInv'
<1> DEFINE New(i) == [item |-> i, owner |-> Token(w), attempt |-> work[i].attempts + 1,
                      held |-> held[i], eligible |-> eligible[i],
                      phase |-> "handling", lost |-> FALSE, result |-> NoResult]
           Cl(i) == Claimed(i, w, held[i], eligible[i])
<1>2. /\ ~Busy(w)
      /\ work' = [i \in Items |-> IF i \in B THEN Cl(i) ELSE work[i]]
      /\ jobs' = jobs \cup {New(i) : i \in B}
      /\ UNCHANGED <<crashes, stalls>>
  BY DEF Claim
<1>3. /\ Token(w) \in OwnerTokens /\ Token(w) # NoToken
      /\ Token(w)[1] = w /\ Token(w)[2] = crashes[w] /\ crashes[w] \in Nat
  BY TokenType DEF LeasesInv
<1>4. \A i \in Items : work[i] \in WorkRecord /\ work[i].attempts \in Nat
  BY DEF LeasesInv, LeasesTypeOK, WorkRecord
<1>5. \A i \in Items : /\ Cl(i) \in WorkRecord
                       /\ Cl(i).state = "LEASED" /\ Cl(i).owner = Token(w)
                       /\ Cl(i).attempts = work[i].attempts + 1
                       /\ Cl(i).disposition = "PRESERVE"
  BY <1>2, <1>3, <1>4, SMT DEF Claimed, WorkRecord, WorkStates, Outcomes, Dispositions
<1>6. \A i \in Items : /\ New(i) \in JobRecord
                       /\ New(i).owner = Token(w) /\ New(i).item = i
                       /\ New(i).attempt = work[i].attempts + 1
                       /\ New(i).phase = "handling"
  BY <1>2, <1>3, <1>4, SMT DEF JobRecord, Results, NoResult, Outcomes, Dispositions
<1>7. \A j \in jobs : j \in JobRecord /\ j.item \in Items /\ j.owner # Token(w)
  BY <1>2, JobOwner DEF LeasesInv, LeasesTypeOK, Busy
<1>8. \A j \in jobs' : j \in jobs \/ \E i \in B : j = New(i)
  BY <1>2
<1>9. \A i \in Items : work'[i] = IF i \in B THEN Cl(i) ELSE work[i]
  BY <1>2
<1> HIDE DEF New, Cl
<1>10. LeasesTypeOK'
  <2>1. work' \in [Items -> WorkRecord]
    BY <1>2, <1>4, <1>5
  <2>2. \A i \in Items : work'[i].state = "LEASED" <=> work'[i].owner # NoToken
    BY <1>3, <1>5, <1>9 DEF LeasesInv, LeasesTypeOK
  <2>3. jobs' \subseteq JobRecord
    BY <1>6, <1>7, <1>8
  <2> QED BY <1>2, <2>1, <2>2, <2>3 DEF LeasesInv, LeasesTypeOK
<1>11. JobsMatch'
  <2> SUFFICES ASSUME NEW j \in jobs', work'[j.item].owner = j.owner
               PROVE  j.attempt = work'[j.item].attempts
    BY DEF JobsMatch
  <2>1. CASE j \in jobs
    BY <2>1, <1>5, <1>7, <1>9, SMT DEF LeasesInv, JobsMatch
  <2>2. CASE \E i \in B : j = New(i)
    BY <2>2, <1>5, <1>6, <1>9, SMT
  <2> QED BY <1>8, <2>1, <2>2
<1>12. TokensPast'
  BY <1>2, <1>3, <1>6, <1>8, SMT DEF LeasesInv, TokensPast
<1>13. ResultsNormal'
  BY <1>6, <1>8, SMT DEF LeasesInv, ResultsNormal
<1>14. RetryBelowLimit' /\ ReleaseIsAuthorised'
  BY <1>5, <1>9, SMT DEF LeasesInv, RetryBelowLimit, ReleaseIsAuthorised
<1> QED BY <1>10, <1>11, <1>12, <1>13, <1>14 DEF LeasesInv

\* Marking a job's lease as lost changes nothing the invariant speaks of.
LEMMA RenewFailsInv ==
    ASSUME LeasesInv, NEW j \in jobs, RenewFails(j)
    PROVE  LeasesInv'
<1> DEFINE k == [j EXCEPT !.lost = TRUE]
<1>1. /\ jobs' = (jobs \ {j}) \cup {k}
      /\ UNCHANGED <<work, crashes, stalls>> /\ j.phase = "handling"
  BY DEF RenewFails
<1>2. j \in JobRecord
  BY DEF LeasesInv, LeasesTypeOK
<1>3. k \in JobRecord
  BY <1>2, Zenon DEF JobRecord
<1>4. /\ k.item = j.item /\ k.owner = j.owner /\ k.attempt = j.attempt
      /\ k.phase = "handling"
  BY <1>1, <1>2, SMT DEF JobRecord
<1> HIDE DEF k
<1>5. LeasesTypeOK'
  BY <1>1, <1>3 DEF LeasesInv, LeasesTypeOK
<1>6. JobsMatch' /\ TokensPast' /\ ResultsNormal'
  BY <1>1, <1>4, SMT DEF LeasesInv, JobsMatch, TokensPast, ResultsNormal
<1>7. RetryBelowLimit' /\ ReleaseIsAuthorised'
  BY <1>1 DEF LeasesInv, RetryBelowLimit, ReleaseIsAuthorised
<1> QED BY <1>5, <1>6, <1>7 DEF LeasesInv

\* The end of process sends a normalised result, or drops the job.
LEMMA FinishInv ==
    ASSUME LeasesInv, NEW j \in jobs, NEW result \in Results, Finish(j, result),
           UNCHANGED <<work, crashes, stalls>>
    PROVE  LeasesInv'
<1> DEFINE n == Normalize(j, result)
           k == [j EXCEPT !.phase = "sent", !.result = n]
<1>2. /\ jobs' \subseteq (jobs \ {j}) \cup {k}
      /\ UNCHANGED <<work, crashes, stalls>>
  BY Zenon DEF Finish
<1>3. j \in JobRecord
  BY DEF LeasesInv, LeasesTypeOK
<1>4. n \in Results /\ (n.state = "RETRY" => j.attempt < MaxAttempts)
  BY <1>3, NormalizeType
<1> HIDE DEF n
<1>5. k \in JobRecord
  BY <1>3, <1>4, Zenon DEF JobRecord
<1>6. k.item = j.item /\ k.owner = j.owner /\ k.attempt = j.attempt /\ k.result = n
  BY <1>3, SMT DEF JobRecord
<1> HIDE DEF k
<1>7. LeasesTypeOK'
  BY <1>2, <1>5 DEF LeasesInv, LeasesTypeOK
<1>8. JobsMatch' /\ TokensPast' /\ ResultsNormal'
  BY <1>2, <1>4, <1>6, SMT DEF LeasesInv, JobsMatch, TokensPast, ResultsNormal
<1>9. RetryBelowLimit' /\ ReleaseIsAuthorised'
  BY <1>2 DEF LeasesInv, RetryBelowLimit, ReleaseIsAuthorised
<1> QED BY <1>7, <1>8, <1>9 DEF LeasesInv

\* An acknowledgement passes the compare-and-set, so the job is the latest
\* claim of the row it ends.
LEMMA CompleteInv ==
    ASSUME LeasesInv, NEW j \in jobs, Complete(j)
    PROVE  LeasesInv'
<1>1. j \in JobRecord /\ j.item \in Items /\ j.phase = "sent" /\ j.owner # NoToken
  BY JobOwner DEF LeasesInv, LeasesTypeOK, Complete
<1>2. jobs' = jobs \ {j} /\ UNCHANGED <<crashes, stalls>>
  BY DEF Complete
<1>3. CASE ~Acknowledges(j)
  <2>1. work' = work
    BY <1>3 DEF Complete
  <2> QED BY <1>2, <2>1 DEF LeasesInv, LeasesTypeOK, JobsMatch, TokensPast, ResultsNormal,
                           RetryBelowLimit, ReleaseIsAuthorised
<1>4. CASE Acknowledges(j)
  <2> DEFINE row == work[j.item]
             new == [row EXCEPT !.state = j.result.state, !.owner = NoToken,
                                !.live = FALSE, !.disposition = j.result.disposition]
  <2>1. work' = [work EXCEPT ![j.item] = new]
    BY <1>4, Zenon DEF Complete
  <2>2. row \in WorkRecord /\ j.result \in Results
    BY <1>1 DEF LeasesInv, LeasesTypeOK, JobRecord
  <2>3. j.result.state \in Outcomes /\ j.result.disposition \in Dispositions
    BY <2>2 DEF Results
  <2>4. row.attempts = j.attempt
    BY <1>4 DEF LeasesInv, JobsMatch, Acknowledges, Leased
  <2>5. new \in WorkRecord
    <3>1. j.result.state \in WorkStates /\ NoToken \in OwnerTokens \cup {NoToken}
      BY <2>3 DEF WorkStates
    <3> QED BY <2>2, <2>3, <3>1, Zenon DEF WorkRecord
  <2>6. /\ new.state = j.result.state /\ new.owner = NoToken
        /\ new.disposition = j.result.disposition /\ new.attempts = row.attempts
        /\ new.held = row.held /\ new.eligible = row.eligible
    BY <2>2, SMT DEF WorkRecord
  <2>7. /\ row.held = j.held /\ row.eligible = j.eligible
        /\ j.result.disposition = "AUTHORITATIVE_RELEASE" =>
              j.held /\ j.eligible /\ j.result.state = "COMPLETED"
    BY <1>4 DEF Acknowledges, Valid
  <2> HIDE DEF new, row
  <2>8. \A i \in Items : work'[i] = IF i = j.item THEN new ELSE work[i]
    BY <2>1 DEF LeasesInv, LeasesTypeOK
  <2>9. LeasesTypeOK'
    <3>1. work' \in [Items -> WorkRecord]
      BY <2>1, <2>5 DEF LeasesInv, LeasesTypeOK
    <3>2. new.state # "LEASED"
      BY <2>3, <2>6 DEF Outcomes
    <3> QED BY <1>2, <2>6, <2>8, <3>1, <3>2 DEF LeasesInv, LeasesTypeOK
  <2>10. JobsMatch'
    <3>1. \A k \in jobs' : k \in jobs /\ k.item \in Items /\ k.owner # NoToken
      BY <1>2, JobOwner DEF LeasesInv, LeasesTypeOK
    <3> QED BY <2>6, <2>8, <3>1, SMT DEF LeasesInv, JobsMatch
  <2>11. TokensPast' /\ ResultsNormal'
    BY <1>2 DEF LeasesInv, TokensPast, ResultsNormal
  <2>12. RetryBelowLimit'
    BY <1>1, <2>4, <2>6, <2>8, SMT DEF LeasesInv, ResultsNormal, RetryBelowLimit
  <2>13. ReleaseIsAuthorised'
    BY <2>6, <2>7, <2>8, SMT DEF LeasesInv, ReleaseIsAuthorised
  <2> QED BY <2>9, <2>10, <2>11, <2>12, <2>13 DEF LeasesInv
<1> QED BY <1>3, <1>4

\* A lease that runs out keeps its owner.
LEMMA LeaseExpiresInv ==
    ASSUME LeasesInv, NEW i \in Items, LeaseExpires(i)
    PROVE  LeasesInv'
<1> DEFINE new == [work[i] EXCEPT !.live = FALSE]
<1>1. work' = [work EXCEPT ![i] = new] /\ UNCHANGED <<jobs, crashes>>
  BY Zenon DEF LeaseExpires
<1>2. stalls' \in 0 .. MaxStalls
  BY LeaseBounds, SMT DEF LeaseExpires, LeasesInv, LeasesTypeOK
<1>3. work[i] \in WorkRecord
  BY DEF LeasesInv, LeasesTypeOK
<1>4. new \in WorkRecord
  BY <1>3, Zenon DEF WorkRecord
<1>5. /\ new.state = work[i].state /\ new.owner = work[i].owner
      /\ new.attempts = work[i].attempts /\ new.held = work[i].held
      /\ new.eligible = work[i].eligible /\ new.disposition = work[i].disposition
  BY <1>3, SMT DEF WorkRecord
<1> HIDE DEF new
<1>6. \A k \in Items : work'[k] = IF k = i THEN new ELSE work[k]
  BY <1>1 DEF LeasesInv, LeasesTypeOK
<1>7. LeasesTypeOK'
  <2>1. work' \in [Items -> WorkRecord]
    BY <1>1, <1>4 DEF LeasesInv, LeasesTypeOK
  <2> QED BY <1>1, <1>2, <1>5, <1>6, <2>1 DEF LeasesInv, LeasesTypeOK
<1>8. JobsMatch'
  <2>1. \A j \in jobs : j.item \in Items
    BY JobOwner DEF LeasesInv, LeasesTypeOK
  <2> QED BY <1>1, <1>5, <1>6, <2>1, SMT DEF LeasesInv, JobsMatch
<1>9. TokensPast' /\ ResultsNormal'
  BY <1>1 DEF LeasesInv, TokensPast, ResultsNormal
<1>10. RetryBelowLimit' /\ ReleaseIsAuthorised'
  BY <1>5, <1>6, SMT DEF LeasesInv, RetryBelowLimit, ReleaseIsAuthorised
<1> QED BY <1>7, <1>8, <1>9, <1>10 DEF LeasesInv

\* A restarted replica has a token no job carries yet.
LEMMA CrashInv ==
    ASSUME LeasesInv, NEW w \in Workers, NEW F \in SUBSET jobs, Crash(w, F)
    PROVE  LeasesInv'
<1>1. /\ jobs' \subseteq jobs /\ UNCHANGED <<work, stalls>>
      /\ crashes' = [crashes EXCEPT ![w] = @ + 1] /\ crashes[w] < MaxCrashes
  BY DEF Crash
<1>2. crashes' \in [Workers -> 0 .. MaxCrashes]
  BY <1>1, LeaseBounds, SMT DEF LeasesInv, LeasesTypeOK
<1>3. LeasesTypeOK' /\ JobsMatch' /\ ResultsNormal'
      /\ RetryBelowLimit' /\ ReleaseIsAuthorised'
  BY <1>1, <1>2 DEF LeasesInv, LeasesTypeOK, JobsMatch, ResultsNormal, RetryBelowLimit,
                    ReleaseIsAuthorised
<1>4. TokensPast'
  <2>1. \A j \in jobs : j.owner[1] \in Workers /\ j.owner[2] \in Nat
    BY JobOwner DEF LeasesInv, LeasesTypeOK
  <2>2. \A v \in Workers : crashes[v] \in Nat /\ crashes[v] <= crashes'[v]
    BY <1>1, LeaseBounds, SMT DEF LeasesInv, LeasesTypeOK
  <2>3. \A v \in Workers : crashes'[v] \in Nat
    BY <1>2, LeaseBounds, SMT
  <2> QED BY <1>1, <2>1, <2>2, <2>3, SMT DEF LeasesInv, TokensPast
<1> QED BY <1>3, <1>4 DEF LeasesInv

\* Every step keeps the invariant.
LEMMA LeasesNextInv == LeasesInv /\ [LeasesNext]_leaseVars => LeasesInv'
<1> SUFFICES ASSUME LeasesInv, [LeasesNext]_leaseVars
             PROVE  LeasesInv'
  OBVIOUS
<1>1. ASSUME NEW i \in Items, NEW f \in Flags, Enqueue(i, f)
      PROVE  LeasesInv'
  BY <1>1, EnqueueInv
<1>2. ASSUME NEW w \in Workers, ClaimSome(w)
      PROVE  LeasesInv'
  <2>1. PICK B \in SUBSET Items, f \in Flags :
           Claim(w, B, [i \in Items |-> f.held], [i \in Items |-> f.eligible])
    BY <1>2 DEF ClaimSome
  <2>2. /\ [i \in Items |-> f.held] \in [Items -> BOOLEAN]
        /\ [i \in Items |-> f.eligible] \in [Items -> BOOLEAN]
    BY SMT DEF Flags
  <2> QED BY <2>1, <2>2, ClaimInv
<1>3. ASSUME NEW j \in jobs, RenewFails(j) \/ Handle(j) \/ Complete(j)
      PROVE  LeasesInv'
  BY <1>3, RenewFailsInv, FinishInv, CompleteInv DEF Handle, HandlerResults
<1>4. ASSUME NEW i \in Items, LeaseExpires(i)
      PROVE  LeasesInv'
  BY <1>4, LeaseExpiresInv
<1>5. ASSUME NEW w \in Workers, NEW F \in SUBSET jobs, Crash(w, F)
      PROVE  LeasesInv'
  BY <1>5, CrashInv
<1>6. CASE UNCHANGED leaseVars
  BY <1>6 DEF leaseVars, LeasesInv, LeasesTypeOK, JobsMatch, TokensPast, ResultsNormal,
              RetryBelowLimit, ReleaseIsAuthorised
<1> QED BY <1>1, <1>2, <1>3, <1>4, <1>5, <1>6 DEF LeasesNext

\* A replica that restarts has no process call of its own left, so that the
\* guard of its first claim looks at nothing a dead process left behind.
LEMMA RestartIsIdle ==
    ASSUME LeasesInv, NEW w \in Workers, NEW F \in SUBSET jobs, Crash(w, F)
    PROVE  ~Busy(w)'
<1>1. jobs' \subseteq jobs /\ crashes'[w] = crashes[w] + 1 /\ crashes[w] \in Nat
  BY LeaseBounds, SMT DEF Crash, LeasesInv, LeasesTypeOK
<1>2. ASSUME NEW j \in jobs', j.owner = Token(w)'
      PROVE  FALSE
  <2>1. j \in jobs /\ j.owner[1] = w /\ j.owner[2] = crashes[w] + 1
    BY <1>1, <1>2, SMT DEF Token
  <2> QED BY <1>1, <2>1, SMT DEF LeasesInv, TokensPast
<1> QED BY <1>2 DEF Busy

-----------------------------------------------------------------------------
(* Theorems *)

\* The queue keeps its inductive invariant, whatever crashes, stalls, handler
\* results and reservation changes happen.
THEOREM QueueInvariant == LeasesSpec => []LeasesInv
BY LeasesInitInv, LeasesNextInv, PTL DEF LeasesSpec

\* Rows and jobs are well formed, and exactly the leased rows have an owner.
THEOREM LeasesTypeCorrect == LeasesSpec => []LeasesTypeOK
<1>1. LeasesInv => LeasesTypeOK
  BY DEF LeasesInv
<1> QED BY <1>1, QueueInvariant, PTL

\* A row is in RETRY only below the attempt limit of normalizeResult.
THEOREM RetriesAreBounded == LeasesSpec => []RetryBelowLimit
<1>1. LeasesInv => RetryBelowLimit
  BY DEF LeasesInv
<1> QED BY <1>1, QueueInvariant, PTL

\* A release on record was authorised by the last claim of a completed item.
THEOREM ReleasesAreAuthorised == LeasesSpec => []ReleaseIsAuthorised
<1>1. LeasesInv => ReleaseIsAuthorised
  BY DEF LeasesInv
<1> QED BY <1>1, QueueInvariant, PTL

\* A completion that ends a lease is of the claim that leased the row.
LEMMA CompleteAcks ==
    ASSUME LeasesInv, NEW j \in jobs, Complete(j)
    PROVE  AckOfLatestClaim
<1> SUFFICES ASSUME NEW i \in Items,
                    work[i].state = "LEASED", work'[i].state # "LEASED"
             PROVE  \E k \in jobs \ jobs' : /\ k.item = i /\ k.phase = "sent"
                                            /\ k.attempt = work[i].attempts
                                            /\ k.result.state = work'[i].state
  BY DEF AckOfLatestClaim
<1>1. work \in [Items -> WorkRecord]
  BY DEF LeasesInv, LeasesTypeOK
<1>2. Acknowledges(j) /\ i = j.item
  BY <1>1, SMT DEF Complete
<1>3. work'[i].state = j.result.state
  <2> DEFINE new == [work[i] EXCEPT !.state = j.result.state, !.owner = NoToken,
                       !.live = FALSE, !.disposition = j.result.disposition]
  <2>1. work' = [work EXCEPT ![i] = new]
    BY <1>2, Zenon DEF Complete
  <2>2. new.state = j.result.state
    BY <1>1, SMT DEF WorkRecord
  <2> HIDE DEF new
  <2> QED BY <1>1, <2>1, <2>2
<1>4. j.attempt = work[i].attempts
  BY <1>2 DEF LeasesInv, JobsMatch, Acknowledges, Leased
<1> QED BY <1>2, <1>3, <1>4 DEF Complete

\* A claim and a lease that runs out leave the leased rows leased.
LEMMA OthersAckNothing ==
    ASSUME LeasesInv,
           \/ \E w \in Workers, B \in SUBSET Items : \E held, eligible :
                  Claim(w, B, held, eligible)
           \/ \E i \in Items : LeaseExpires(i)
           \/ \A i \in Items : work[i].state = "LEASED" => work'[i] = work[i]
    PROVE  AckOfLatestClaim
<1>1. ASSUME NEW w \in Workers, NEW B \in SUBSET Items, NEW held, NEW eligible,
             Claim(w, B, held, eligible)
      PROVE  AckOfLatestClaim
  BY <1>1, SMT DEF Claim, Claimed, AckOfLatestClaim
<1>2. ASSUME NEW i \in Items, LeaseExpires(i)
      PROVE  AckOfLatestClaim
  <2> DEFINE new == [work[i] EXCEPT !.live = FALSE]
  <2>1. work' = [work EXCEPT ![i] = new]
    BY <1>2, Zenon DEF LeaseExpires
  <2>2. work \in [Items -> WorkRecord]
    BY DEF LeasesInv, LeasesTypeOK
  <2>3. new.state = work[i].state
    BY <2>2, SMT DEF WorkRecord
  <2> HIDE DEF new
  <2> QED BY <2>1, <2>2, <2>3 DEF AckOfLatestClaim
<1> QED BY <1>1, <1>2 DEF AckOfLatestClaim

\* A row leaves its lease only through a completion of its latest claim.
THEOREM AckOfLatest == LeasesSpec => AckIsOfLatestClaim
<1>1. LeasesInv /\ [LeasesNext]_leaseVars => [AckOfLatestClaim]_leaseVars
  <2> SUFFICES ASSUME LeasesInv, LeasesNext
               PROVE  AckOfLatestClaim
    OBVIOUS
  <2>1. ASSUME NEW k \in Items, NEW f \in Flags, Enqueue(k, f)
        PROVE  AckOfLatestClaim
    <3>1. \A i \in Items : work[i].state = "LEASED" => work'[i] = work[i]
      BY <2>1, SMT DEF Enqueue, LeasesInv, LeasesTypeOK
    <3> QED BY <3>1, OthersAckNothing
  <2>2. ASSUME NEW w \in Workers, ClaimSome(w)
        PROVE  AckOfLatestClaim
    BY <2>2, OthersAckNothing DEF ClaimSome
  <2>3. ASSUME NEW j \in jobs, RenewFails(j) \/ Handle(j)
        PROVE  AckOfLatestClaim
    BY <2>3, OthersAckNothing DEF RenewFails, Handle
  <2>4. ASSUME NEW w \in Workers, NEW F \in SUBSET jobs, Crash(w, F)
        PROVE  AckOfLatestClaim
    BY <2>4, OthersAckNothing DEF Crash
  <2> QED BY <2>1, <2>2, <2>3, <2>4, CompleteAcks, OthersAckNothing DEF LeasesNext
<1> QED BY <1>1, QueueInvariant, PTL DEF LeasesSpec, AckIsOfLatestClaim

-----------------------------------------------------------------------------
(* What a ledger step may do to a reservation that has expired *)

\* The reservation is admitted and no longer waits for its expiry.
DealtWith(r) ==
    r.state \notin {Absent, "RESERVED", "DISPATCH_PENDING", "DISPATCHED"}

\* It expired undispatched, and usage may have revived it since.
LetGo(r) == r.state = "EXPIRED_UNDISPATCHED" \/ r.version # 0

\* A reservation x that became y was not moved back.
Onward(x, y) == /\ x.state # Absent => y.state # Absent
                /\ DealtWith(x) => DealtWith(y)
                /\ LetGo(x) => LetGo(y)

\* An admitted reservation that cannot expire any more has been dealt with.
LEMMA DealtIsNotExpirable ==
  ASSUME IInv, NEW q \in Requests
  PROVE  /\ DealtWith(res[q]) => ~Expirable(res[q])
         /\ res[q].state # Absent /\ ~Expirable(res[q]) => DealtWith(res[q])
<1>1. OutboxFits(res[q])
  BY OwnerType DEF IInv, Good, Account, RequestsOf, Shape
<1> QED BY <1>1 DEF OutboxFits, Expirable, DealtWith, Absent

\* Rolling a window over leaves state and version alone.
LEMMA RolledOnward ==
  ASSUME IInv, NEW o \in Tenants, NEW q \in Requests
  PROVE  /\ AdvancedRes(o)[q].state = res[q].state
         /\ AdvancedRes(o)[q].version = res[q].version
<1>1. res \in [Requests -> ReservationRecord]
  BY DEF IInv, Good
<1>2. CASE tenant[o].window \in {0, now}
  BY <1>2 DEF AdvancedRes
<1>3. CASE tenant[o].window \notin {0, now}
  <2>1. \/ AdvancedRes(o)[q] = res[q]
        \/ AdvancedRes(o)[q] = [res[q] EXCEPT !.guard = @ + res[q].provisional]
    BY <1>1, <1>3 DEF AdvancedRes, RolledRes
  <2> QED BY <1>1, <2>1 DEF ReservationRecord
<1> QED BY <1>2, <1>3

\* An event moves the reservation it is about as its transition does, and
\* no other.
LEMMA EventOnward ==
  ASSUME IInv, NEW r \in Requests, NEW s, Mutate(r, s),
         Onward(AdvancedRes(Owner[r])[r], s.res), NEW q \in Requests
  PROVE  Onward(res[q], res'[q])
<1>1. Owner[r] \in Tenants
  BY OwnerType
<1>2. DOMAIN AdvancedRes(Owner[r]) = Requests
  BY DEF AdvancedRes, RolledRes, IInv, Good
<1>3. res' = [AdvancedRes(Owner[r]) EXCEPT ![r] = s.res]
  BY DEF Mutate
<1>4. res'[q] = IF q = r THEN s.res ELSE AdvancedRes(Owner[r])[q]
  BY <1>2, <1>3
<1> QED BY <1>1, <1>4, RolledOnward DEF Onward, DealtWith, LetGo

\* Usage leaves a reservation in a state that only usage leads to.
LEMMA SettlementOnward ==
  ASSUME NEW x \in ReservationRecord, NEW t \in TenantRecord,
         Shape(x, t.window), NEW u \in Settlements, SettleAccepted(x, u)
  PROVE  Onward(x, ApplySettlement(x, t, u).res)
<1> DEFINE y == ApplySettlement(x, t, u).res
<1> SUFFICES Onward(x, y)
  OBVIOUS
<1>1. Shape(y, t.window)
  BY SettlementSound DEF Sound
<1>2. y.state \notin Unused
  <2>1. CASE x.finalized
    <3>1. x.state \in {"FINALIZED", "LATE_FINALIZED"}
      BY <2>1 DEF Shape
    <3>2. y.state = x.state
      BY <2>1 DEF ApplySettlement, CorrectFinal, ReservationRecord
    <3> QED BY <3>1, <3>2 DEF Unused, Absent
  <2>2. CASE ~x.finalized
    <3> DEFINE w == IF u.version = x.version THEN [res |-> x, ten |-> t]
                                             ELSE RecordUsage(x, t, u)
    <3>1. w.res \in ReservationRecord
      <4>1. CASE u.version = x.version
        BY <4>1
      <4>2. CASE u.version # x.version
        <5>1. u.version = x.version + 1
          BY <4>2 DEF SettleAccepted
        <5> QED BY <2>2, <4>2, <5>1, RecordUsageSound DEF Recorded
      <4> QED BY <4>1, <4>2
    <3>2. y = FinishSettlement(w.res, w.ten, u).res
      BY <2>2 DEF ApplySettlement
    <3> HIDE DEF w, y
    <3>3. CASE u.final
      BY <3>1, <3>2, <3>3 DEF FinishSettlement, Release, ReservationRecord, Unused, Absent
    <3>4. CASE ~u.final
      <4>1. y = [w.res EXCEPT !.state = ProvisionalState(w.res, w.ten, u)]
        BY <3>2, <3>4 DEF FinishSettlement
      <4>2. ProvisionalState(w.res, w.ten, u) \notin Unused
        BY DEF ProvisionalState, Unused, Absent
      <4> QED BY <3>1, <4>1, <4>2 DEF ReservationRecord
    <3> QED BY <3>3, <3>4
  <2> QED BY <2>1, <2>2
<1>3. y.version # 0
  BY <1>1, <1>2 DEF Shape
<1> HIDE DEF y
<1> QED BY <1>2, <1>3 DEF Onward, DealtWith, LetGo, Unused

\* Neither dispatch nor cancellation touches a reservation that was let go, and
\* neither puts one back to wait for its expiry.
LEMMA DispatchCancelOnward ==
  ASSUME NEW x \in ReservationRecord, NEW t \in TenantRecord,
         Shape(x, t.window)
  PROVE  /\ \A status \in DispatchStatuses : DispatchAccepted(x, status) =>
               Onward(x, ApplyDispatch(x, status))
         /\ \A authoritative \in BOOLEAN : CancelAccepted(x) =>
               Onward(x, ApplyCancel(x, t, authoritative).res)
<1>1. x.state \in {"RESERVED", "DISPATCH_PENDING", "DISPATCHED", "UNRESOLVED"}
        => x.version = 0
  BY DEF Shape, Unused
<1>2. ASSUME NEW status \in DispatchStatuses, DispatchAccepted(x, status)
      PROVE  Onward(x, ApplyDispatch(x, status))
  <2>1. /\ x.state \in {"RESERVED", "DISPATCH_PENDING"} /\ x.version = 0
        /\ ApplyDispatch(x, status).state # Absent
    BY <1>1, <1>2 DEF DispatchAccepted, ApplyDispatch, ReservationRecord, Absent
  <2> QED BY <2>1 DEF Onward, DealtWith, LetGo
<1>3. ASSUME NEW authoritative \in BOOLEAN, CancelAccepted(x)
      PROVE  Onward(x, ApplyCancel(x, t, authoritative).res)
  <2>1. /\ x.state \in {"RESERVED", "DISPATCH_PENDING", "DISPATCHED", "UNRESOLVED"}
        /\ x.version = 0
    BY <1>1, <1>3 DEF CancelAccepted
  <2>2. ApplyCancel(x, t, authoritative).res.state
           \in {"UNRESOLVED", "CANCELED_UNBILLED", "FAILED_UNBILLED"}
    BY DEF ApplyCancel, Release, ReservationRecord
  <2> QED BY <2>1, <2>2 DEF Onward, DealtWith, LetGo, Absent
<1> QED BY <1>2, <1>3

\* No step of the gateway, and no expiry pass, moves a reservation back.
LEMMA LedgerOnward ==
  ASSUME IInv, NEW q \in Requests,
         \/ \E r \in Requests, p \in Policies, c \in Costs : Admit(r, p, c)
         \/ \E r \in Requests, status \in DispatchStatuses : Dispatch(r, status)
         \/ \E r \in Requests, u \in Settlements : Settle(r, u)
         \/ \E r \in Requests, authoritative \in BOOLEAN :
               Cancel(r, authoritative)
         \/ \E S \in SUBSET Requests : ReconcileExpired(S)
  PROVE  Onward(res[q], res'[q])
<1>1. \A r \in Requests : Owner[r] \in Tenants
  BY OwnerType
<1>2. ASSUME NEW r \in Requests, ClockServes(Owner[r])
      PROVE  /\ AdvancedRes(Owner[r])[r] \in ReservationRecord
             /\ AdvancedTenant(Owner[r]) \in TenantRecord
             /\ Shape(AdvancedRes(Owner[r])[r], AdvancedTenant(Owner[r]).window)
  BY <1>2, AdvancedReservation DEF ClockServes
<1>3. ASSUME NEW r \in Requests, NEW p \in Policies, NEW c \in Costs,
             Admit(r, p, c)
      PROVE  Onward(res[q], res'[q])
  <2>1. /\ res[r].state = Absent
        /\ res' = [AdvancedRes(Owner[r]) EXCEPT ![r] = NewReservation(c, now)]
    BY <1>3 DEF Admit
  <2>2. res[r].version = 0
    <3>1. Shape(res[r], tenant[Owner[r]].window)
      BY <1>1 DEF IInv, Good, Account, RequestsOf
    <3> QED BY <2>1, <3>1 DEF Shape, Unused
  <2>3. CASE q = r
    BY <2>1, <2>2, <2>3 DEF Onward, DealtWith, LetGo, Absent
  <2>4. CASE q # r
    <3>1. DOMAIN AdvancedRes(Owner[r]) = Requests
      BY DEF AdvancedRes, RolledRes, IInv, Good
    <3>2. res'[q] = AdvancedRes(Owner[r])[q]
      BY <2>1, <2>4, <3>1
    <3> QED BY <1>1, <3>2, RolledOnward DEF Onward, DealtWith, LetGo
  <2> QED BY <2>3, <2>4
<1>4. ASSUME NEW r \in Requests, NEW status \in DispatchStatuses,
             Dispatch(r, status)
      PROVE  Onward(res[q], res'[q])
  <2> DEFINE x == AdvancedRes(Owner[r])[r]
             s == [res |-> ApplyDispatch(x, status),
                   ten |-> AdvancedTenant(Owner[r])]
  <2>1. ClockServes(Owner[r]) /\ DispatchAccepted(x, status) /\ Mutate(r, s)
    BY <1>4 DEF Dispatch
  <2>2. Onward(x, ApplyDispatch(x, status))
    BY <1>2, <2>1, DispatchCancelOnward
  <2>3. Onward(x, s.res)
    BY <2>2
  <2> HIDE DEF s
  <2> QED BY <2>1, <2>3, EventOnward
<1>5. ASSUME NEW r \in Requests, NEW u \in Settlements, Settle(r, u)
      PROVE  Onward(res[q], res'[q])
  <2> DEFINE x == AdvancedRes(Owner[r])[r]
             s == ApplySettlement(x, AdvancedTenant(Owner[r]), u)
  <2>1. ClockServes(Owner[r]) /\ SettleAccepted(x, u) /\ Mutate(r, s)
    BY <1>5 DEF Settle
  <2>2. Onward(x, s.res)
    BY <1>2, <2>1, SettlementOnward
  <2> HIDE DEF s
  <2> QED BY <2>1, <2>2, EventOnward
<1>6. ASSUME NEW r \in Requests, NEW authoritative \in BOOLEAN,
             Cancel(r, authoritative)
      PROVE  Onward(res[q], res'[q])
  <2> DEFINE x == AdvancedRes(Owner[r])[r]
             s == ApplyCancel(x, AdvancedTenant(Owner[r]), authoritative)
  <2>1. ClockServes(Owner[r]) /\ CancelAccepted(x) /\ Mutate(r, s)
    BY <1>6 DEF Cancel
  <2>2. Onward(x, s.res)
    BY <1>2, <2>1, DispatchCancelOnward
  <2> HIDE DEF s
  <2> QED BY <2>1, <2>2, EventOnward
<1>7. ASSUME NEW S \in SUBSET Requests, ReconcileExpired(S)
      PROVE  Onward(res[q], res'[q])
  <2>1. res[q] \in ReservationRecord
    BY DEF IInv, Good
  <2>2. CASE q \in S
    <3>1. Expirable(res[q]) /\ res'[q] = ApplyExpiry(res[q])
      BY <1>7, <2>2 DEF ReconcileExpired
    <3>2. res[q].version = 0
      <4>1. Shape(res[q], tenant[Owner[q]].window)
        BY <1>1 DEF IInv, Good, Account, RequestsOf
      <4> QED BY <3>1, <4>1 DEF Shape, Unused, Expirable
    <3>3. res'[q].state \in {"EXPIRED_UNDISPATCHED", "UNRESOLVED"}
      BY <2>1, <3>1 DEF ApplyExpiry, ReservationRecord
    <3> QED BY <3>1, <3>2, <3>3 DEF Expirable, Onward, DealtWith, LetGo, Absent
  <2>3. CASE q \notin S
    BY <1>7, <2>3 DEF ReconcileExpired, Onward
  <2> QED BY <2>2, <2>3
<1> QED BY <1>3, <1>4, <1>5, <1>6, <1>7

-----------------------------------------------------------------------------
(* The composition *)

\* Only reservations that have expired are queued.
QueuedHaveExpired ==
    /\ expired \subseteq Requests
    /\ \A r \in expired : res[r].state # Absent
    /\ \A r \in Requests : work[r].state # "NONE" => r \in expired
    /\ \A j \in jobs : j.item \in expired

\* What a result says of reservation r is so.
Tells(state, disposition, r) ==
    /\ state = "COMPLETED" => DealtWith(r)
    /\ disposition = "AUTHORITATIVE_RELEASE" => LetGo(r)

\* What the rows say, and what the completions on their way to them say.
RowsTell ==
    \A r \in Requests : Tells(work[r].state, work[r].disposition, res[r])

JobsTell ==
    \A j \in jobs : j.phase = "sent" =>
        Tells(j.result.state, j.result.disposition, res[j.item])

ExpiryInv == LeasesInv /\ IInv /\ QueuedHaveExpired /\ RowsTell /\ JobsTell

\* A claim about a reservation outlives a step that does not move it back.
LEMMA TellsOnward ==
  ASSUME NEW state, NEW disposition, NEW x, NEW y,
         Tells(state, disposition, x), Onward(x, y)
  PROVE  Tells(state, disposition, y)
BY DEF Tells, Onward

\* A step of the ledger that moves no reservation back keeps what rows and
\* completions say.
LEMMA LedgerMoves ==
  ASSUME ExpiryInv, IInv', \A q \in Requests : Onward(res[q], res'[q]),
         UNCHANGED <<work, jobs, crashes, stalls, expired>>
  PROVE  ExpiryInv'
<1>1. LeasesInv'
  BY DEF ExpiryInv, LeasesInv, LeasesTypeOK, JobsMatch, TokensPast, ResultsNormal,
         RetryBelowLimit, ReleaseIsAuthorised
<1>2. QueuedHaveExpired'
  BY DEF ExpiryInv, QueuedHaveExpired, Onward
<1>3. RowsTell'
  BY TellsOnward DEF ExpiryInv, RowsTell
<1>4. JobsTell'
  <2>1. \A j \in jobs : j.item \in Requests
    BY DEF ExpiryInv, QueuedHaveExpired
  <2> QED BY <2>1, TellsOnward DEF ExpiryInv, JobsTell
<1> QED BY <1>1, <1>2, <1>3, <1>4 DEF ExpiryInv

\* A step of the queue says nothing new of a reservation: rows change only by
\* becoming unfinished, or by taking over what a completion said.
LEMMA QueueMoves ==
  ASSUME ExpiryInv, LeasesInv', UNCHANGED <<now, res, tenant, paid, expired>>,
         \A r \in Requests :
            /\ work'[r].state # "NONE" => r \in expired
            /\ Tells(work'[r].state, work'[r].disposition, res[r]),
         \A j \in jobs' :
            /\ j.item \in expired
            /\ j.phase = "sent" =>
                  Tells(j.result.state, j.result.disposition, res[j.item])
  PROVE  ExpiryInv'
<1>1. IInv'
  BY DEF ExpiryInv, IInv, Good
<1>2. QueuedHaveExpired' /\ RowsTell' /\ JobsTell'
  BY DEF ExpiryInv, QueuedHaveExpired, RowsTell, JobsTell
<1> QED BY <1>1, <1>2 DEF ExpiryInv

\* The rows and jobs a step of the queue finds.
LEMMA QueueFound ==
  ASSUME ExpiryInv
  PROVE  /\ \A r \in Requests :
               /\ work[r] \in WorkRecord
               /\ work[r].state # "NONE" => r \in expired
               /\ Tells(work[r].state, work[r].disposition, res[r])
         /\ \A j \in jobs :
               /\ j \in JobRecord /\ j.item \in expired /\ j.item \in Requests
               /\ j.phase = "sent" =>
                     Tells(j.result.state, j.result.disposition, res[j.item])
         /\ work \in [Requests -> WorkRecord]
<1>1. work \in [Requests -> WorkRecord] /\ jobs \subseteq JobRecord
  BY ItemsAreRequests DEF ExpiryInv, LeasesInv, LeasesTypeOK
<1> QED BY <1>1 DEF ExpiryInv, QueuedHaveExpired, RowsTell, JobsTell

\* A row that is waiting or leased tells nothing.
LEMMA UnfinishedTells ==
  ASSUME NEW state \in WorkStates \ {"COMPLETED"}, NEW r
  PROVE  Tells(state, "PRESERVE", r)
BY DEF Tells

\* Enqueueing looks for reservations that have expired.
LEMMA EnqueueExpiredInv ==
  ASSUME ExpiryInv, NEW C \in SUBSET Overdue, EnqueueExpired(C)
  PROVE  ExpiryInv'
<1> DEFINE D == {r \in C : work[r].state = "NONE"}
           held == [r \in Items |-> HeldNow(r)]
           eligible == [r \in Items |-> ReleasableNow(r)]
           row(r) == Row(HeldNow(r), ReleasableNow(r))
<1>1. C \subseteq expired /\ C \subseteq Requests
  BY DEF Overdue, ExpiryInv, QueuedHaveExpired
<1>2. /\ work' = [r \in Requests |-> IF r \in C /\ work[r].state = "NONE"
                                     THEN row(r) ELSE work[r]]
      /\ UNCHANGED <<now, res, tenant, paid, jobs, crashes, stalls, expired>>
  BY DEF EnqueueExpired
<1>3. \A r : HeldNow(r) \in BOOLEAN /\ ReleasableNow(r) \in BOOLEAN
  BY DEF HeldNow, ReleasableNow
<1>4. held \in [Items -> BOOLEAN] /\ eligible \in [Items -> BOOLEAN]
  BY <1>3
<1>5. work' = [r \in Items |-> IF r \in D THEN Row(held[r], eligible[r]) ELSE work[r]]
  BY <1>2, ItemsAreRequests
<1>6. D \in SUBSET Items
  BY <1>1, ItemsAreRequests
<1>7. LeasesInv'
  <2> HIDE DEF D, held, eligible
  <2>1. LeasesInv
    BY DEF ExpiryInv
  <2>2. UNCHANGED <<jobs, crashes, stalls>>
    BY <1>2
  <2> QED BY <1>4, <1>5, <1>6, <2>1, <2>2, RowsInv
<1>8. \A r \in Requests : row(r).state = "PENDING" /\ row(r).disposition = "PRESERVE"
  BY DEF Row
<1>9. \A r \in Requests : work'[r] = IF r \in C /\ work[r].state = "NONE"
                                     THEN row(r) ELSE work[r]
  BY <1>2
<1> HIDE DEF row
<1>10. \A r \in Requests :
         /\ work'[r].state # "NONE" => r \in expired
         /\ Tells(work'[r].state, work'[r].disposition, res[r])
  <2>1. "PENDING" \in WorkStates \ {"COMPLETED"}
    BY DEF WorkStates
  <2> QED BY <1>1, <1>8, <1>9, <2>1, QueueFound, UnfinishedTells
<1> QED BY <1>2, <1>7, <1>10, QueueFound, QueueMoves

\* A claim leases rows that are in the table and starts jobs that have said
\* nothing yet.
LEMMA ClaimExpiredInv ==
  ASSUME ExpiryInv, NEW w \in Workers, NEW B \in SUBSET Items, ClaimExpired(w, B)
  PROVE  ExpiryInv'
<1> DEFINE held == [r \in Requests |-> HeldNow(r) /\ Active(res[r])]
           eligible == [r \in Requests |-> ReleasableNow(r)]
           New(i) == [item |-> i, owner |-> Token(w), attempt |-> work[i].attempts + 1,
                      held |-> held[i], eligible |-> eligible[i],
                      phase |-> "handling", lost |-> FALSE, result |-> NoResult]
           Cl(i) == Claimed(i, w, held[i], eligible[i])
<1>1. Claim(w, B, held, eligible) /\ UNCHANGED <<now, res, tenant, paid, expired>>
  BY DEF ClaimExpired
<1>2. held \in [Items -> BOOLEAN] /\ eligible \in [Items -> BOOLEAN]
  BY ItemsAreRequests DEF HeldNow, ReleasableNow, Active
<1> HIDE DEF held, eligible
<1>3. LeasesInv'
  BY <1>1, <1>2, ClaimInv DEF ExpiryInv
<1>4. /\ \A i \in B : work[i].state # "NONE"
      /\ work' = [i \in Items |-> IF i \in B THEN Cl(i) ELSE work[i]]
      /\ jobs' = jobs \cup {New(i) : i \in B}
  BY <1>1 DEF Claim, Claimable
<1>5. B \subseteq expired
  BY <1>4, QueueFound, ItemsAreRequests
<1>6. \A i \in Items : /\ Cl(i).state = "LEASED" /\ Cl(i).disposition = "PRESERVE"
                       /\ New(i).item = i /\ New(i).phase = "handling"
  BY DEF Claimed
<1>7. \A i \in Requests : work'[i] = IF i \in B THEN Cl(i) ELSE work[i]
  BY <1>4, ItemsAreRequests
<1>8. \A j \in jobs' : j \in jobs \/ \E i \in B : j = New(i)
  BY <1>4
<1> HIDE DEF New, Cl
<1>9. \A r \in Requests :
        /\ work'[r].state # "NONE" => r \in expired
        /\ Tells(work'[r].state, work'[r].disposition, res[r])
  <2>1. "LEASED" \in WorkStates \ {"COMPLETED"}
    BY DEF WorkStates
  <2> QED BY <1>5, <1>6, <1>7, <2>1, ItemsAreRequests, QueueFound, UnfinishedTells
<1>10. \A j \in jobs' :
         /\ j.item \in expired
         /\ j.phase = "sent" =>
               Tells(j.result.state, j.result.disposition, res[j.item])
  BY <1>5, <1>6, <1>8, QueueFound
<1> QED BY <1>1, <1>3, <1>9, <1>10, QueueMoves

\* Renewals, completions, leases that run out and crashes: a row takes over
\* what a completion of its item said, and nothing else.
LEMMA QueueStepInv ==
  ASSUME ExpiryInv, QueueStep
  PROVE  ExpiryInv'
<1>1. UNCHANGED <<now, res, tenant, paid, expired>>
  BY DEF QueueStep
<1>2. ASSUME NEW j \in jobs, RenewFails(j) PROVE ExpiryInv'
  <2> DEFINE k == [j EXCEPT !.lost = TRUE]
  <2>1. j \in JobRecord /\ j.item \in expired
    BY QueueFound
  <2>2. jobs' = (jobs \ {j}) \cup {k} /\ j.phase = "handling" /\ work' = work
    BY <1>2 DEF RenewFails
  <2>3. k.item = j.item /\ k.phase = j.phase
    BY <2>1 DEF JobRecord
  <2> HIDE DEF k
  <2>4. LeasesInv'
    BY <1>2, RenewFailsInv DEF ExpiryInv
  <2>5. \A i \in jobs' :
          /\ i.item \in expired
          /\ i.phase = "sent" =>
                Tells(i.result.state, i.result.disposition, res[i.item])
    BY <2>1, <2>2, <2>3, QueueFound
  <2> QED BY <1>1, <2>2, <2>4, <2>5, QueueFound, QueueMoves
<1>3. ASSUME NEW j \in jobs, Complete(j) PROVE ExpiryInv'
  <2>1. /\ j \in JobRecord /\ j.item \in expired /\ j.item \in Requests
        /\ Tells(j.result.state, j.result.disposition, res[j.item])
    BY <1>3, QueueFound DEF Complete
  <2>2. LeasesInv' /\ jobs' \subseteq jobs
    BY <1>3, CompleteInv DEF ExpiryInv, Complete
  <2>3. \A r \in Requests :
          /\ work'[r].state # "NONE" => r \in expired
          /\ Tells(work'[r].state, work'[r].disposition, res[r])
    <3>1. CASE ~Acknowledges(j)
      BY <1>3, <3>1, QueueFound DEF Complete
    <3>2. CASE Acknowledges(j)
      <4> DEFINE row == work[j.item]
                 new == [row EXCEPT !.state = j.result.state, !.owner = NoToken,
                           !.live = FALSE, !.disposition = j.result.disposition]
      <4>1. work' = [work EXCEPT ![j.item] = new]
        BY <1>3, <3>2, Zenon DEF Complete
      <4>2. row \in WorkRecord
        BY <2>1, QueueFound
      <4>3. new.state = j.result.state /\ new.disposition = j.result.disposition
        BY <4>2, SMT DEF WorkRecord
      <4> HIDE DEF new, row
      <4>4. \A r \in Requests : work'[r] = IF r = j.item THEN new ELSE work[r]
        BY <4>1, QueueFound
      <4> QED BY <2>1, <4>3, <4>4, QueueFound
    <3> QED BY <3>1, <3>2
  <2> QED BY <1>1, <2>2, <2>3, QueueFound, QueueMoves
<1>4. ASSUME NEW i \in Items, LeaseExpires(i) PROVE ExpiryInv'
  <2> DEFINE new == [work[i] EXCEPT !.live = FALSE]
  <2>1. work' = [work EXCEPT ![i] = new] /\ jobs' = jobs
    BY <1>4, Zenon DEF LeaseExpires
  <2>2. work[i] \in WorkRecord
    BY QueueFound, ItemsAreRequests
  <2>3. new.state = work[i].state /\ new.disposition = work[i].disposition
    BY <2>2, SMT DEF WorkRecord
  <2> HIDE DEF new
  <2>4. \A r \in Requests : work'[r] = IF r = i THEN new ELSE work[r]
    BY <2>1, QueueFound
  <2>5. LeasesInv'
    BY <1>4, LeaseExpiresInv DEF ExpiryInv
  <2>6. \A r \in Requests :
          /\ work'[r].state # "NONE" => r \in expired
          /\ Tells(work'[r].state, work'[r].disposition, res[r])
    BY <2>3, <2>4, QueueFound
  <2> QED BY <1>1, <2>1, <2>5, <2>6, QueueFound, QueueMoves
<1>5. ASSUME NEW w \in Workers, NEW F \in SUBSET jobs, Crash(w, F) PROVE ExpiryInv'
  <2>1. LeasesInv' /\ jobs' \subseteq jobs /\ work' = work
    BY <1>5, CrashInv DEF ExpiryInv, Crash
  <2> QED BY <1>1, <2>1, QueueFound, QueueMoves
<1> QED BY <1>2, <1>3, <1>4, <1>5 DEF QueueStep

\* normalizeResult claims no more than the handler did.
LEMMA NormalizeTells ==
  ASSUME NEW j, NEW result \in Results, NEW r,
         Tells(result.state, result.disposition, r)
  PROVE  Tells(Normalize(j, result).state, Normalize(j, result).disposition, r)
BY DEF Tells, Normalize, NoResult, Results

\* The end of a process call whose result is true of the reservation as the
\* handler's transaction left it.
LEMMA FinishTells ==
  ASSUME ExpiryInv, NEW j \in jobs, NEW result \in Results, Finish(j, result),
         UNCHANGED <<work, crashes, stalls, expired>>,
         IInv', \A q \in Requests : Onward(res[q], res'[q]),
         Tells(result.state, result.disposition, res'[j.item])
  PROVE  ExpiryInv'
<1> DEFINE n == Normalize(j, result)
           k == [j EXCEPT !.phase = "sent", !.result = n]
<1>1. LeasesInv'
  BY FinishInv DEF ExpiryInv
<1>2. jobs' \subseteq (jobs \ {j}) \cup {k}
  BY Zenon DEF Finish
<1>3. j \in JobRecord /\ j.item \in expired /\ j.item \in Requests
  BY QueueFound
<1>4. Tells(n.state, n.disposition, res'[j.item])
  BY NormalizeTells
<1> HIDE DEF n
<1>5. k.item = j.item /\ k.result = n
  BY <1>3, SMT DEF JobRecord
<1> HIDE DEF k
<1>6. QueuedHaveExpired'
  BY <1>2, <1>3, <1>5 DEF ExpiryInv, QueuedHaveExpired, Onward
<1>7. RowsTell'
  BY TellsOnward DEF ExpiryInv, RowsTell
<1>8. JobsTell'
  <2> SUFFICES ASSUME NEW i \in jobs', i.phase = "sent"
               PROVE  Tells(i.result.state, i.result.disposition, res'[i.item])
    BY DEF JobsTell
  <2>1. CASE i = k
    BY <1>4, <1>5, <2>1
  <2>2. CASE i \in jobs
    BY <2>2, QueueFound, TellsOnward
  <2> QED BY <1>2, <2>1, <2>2
<1> QED BY <1>1, <1>6, <1>7, <1>8 DEF ExpiryInv

\* The handler's transaction deals with every reservation it selects, and the
\* item's own reservation, which has expired, was dealt with before if it does
\* not select it.
LEMMA HandleExpiryInv ==
  ASSUME ExpiryInv, NEW j \in jobs, HandleExpiry(j)
  PROVE  ExpiryInv'
<1> DEFINE S == ReconciledNow
           d == Disposition(j, S)
           result == [state |-> "COMPLETED", disposition |-> d]
<1>1. /\ IF S = {} THEN UNCHANGED <<now, res, tenant, paid>> ELSE ReconcileExpired(S)
      /\ Finish(j, result)
      /\ UNCHANGED <<work, crashes, stalls, expired>>
  BY DEF HandleExpiry
<1>2. S \subseteq Requests /\ IInv
  BY DEF ReconciledNow, ExpiryInv, QueuedHaveExpired
<1>3. /\ j.item \in expired /\ j.item \in Requests
      /\ res[j.item] \in ReservationRecord /\ res[j.item].state # Absent
  BY QueueFound DEF ExpiryInv, QueuedHaveExpired, IInv, Good
<1>4. IInv' /\ \A q \in Requests : Onward(res[q], res'[q])
  <2>1. CASE S = {}
    BY <1>1, <1>2, <2>1 DEF IInv, Onward
  <2>2. CASE S # {}
    BY <1>1, <1>2, <2>2, ReconcileStep, LedgerOnward
  <2> QED BY <2>1, <2>2
<1>5. Tells("COMPLETED", d, res'[j.item])
  <2>1. CASE j.item \in S
    <3>1. res'[j.item] = ApplyExpiry(res[j.item])
      BY <1>1, <1>3, <2>1 DEF ReconcileExpired
    <3>2. /\ res'[j.item].state \in {"EXPIRED_UNDISPATCHED", "UNRESOLVED"}
          /\ res[j.item].state = "RESERVED" =>
                res'[j.item].state = "EXPIRED_UNDISPATCHED"
      BY <1>3, <3>1 DEF ApplyExpiry, ReservationRecord
    <3> QED BY <3>2 DEF Disposition, Tells, DealtWith, LetGo, Absent
  <2>2. CASE j.item \notin S
    <3>1. DealtWith(res[j.item])
      BY <1>2, <1>3, <2>2, DealtIsNotExpirable DEF ReconciledNow
    <3>2. d = "PRESERVE"
      BY <2>2 DEF Disposition
    <3> QED BY <1>3, <1>4, <3>1, <3>2 DEF Tells, Onward
  <2> QED BY <2>1, <2>2
<1>6. d \in Dispositions
  BY DEF Disposition, Dispositions
<1> HIDE DEF d
<1>7. /\ result \in Results
      /\ result.state = "COMPLETED" /\ result.disposition = d
  BY <1>6 DEF Results, Outcomes
<1> HIDE DEF result
<1> QED BY <1>1, <1>4, <1>5, <1>7, FinishTells

\* A handler whose transaction failed claims nothing.
LEMMA HandleFailsInv ==
  ASSUME ExpiryInv, NEW j \in jobs, HandleFails(j)
  PROVE  ExpiryInv'
<1> DEFINE result == [state |-> "RETRY", disposition |-> "PRESERVE"]
<1>1. /\ Finish(j, result)
      /\ UNCHANGED <<now, res, tenant, paid, work, crashes, stalls, expired>>
  BY DEF HandleFails
<1>2. IInv' /\ \A q \in Requests : Onward(res[q], res'[q])
  BY <1>1 DEF ExpiryInv, IInv, Onward
<1>3. /\ result \in Results
      /\ Tells(result.state, result.disposition, res'[j.item])
  BY DEF Results, Outcomes, Dispositions, Tells
<1> HIDE DEF result
<1> QED BY <1>1, <1>2, <1>3, FinishTells

\* Every step of the composition keeps the invariant.
LEMMA ExpiryNextInv == ExpiryInv /\ [ExpiryNext]_expiryVars => ExpiryInv'
<1> SUFFICES ASSUME ExpiryInv, [ExpiryNext]_expiryVars
             PROVE  ExpiryInv'
  OBVIOUS
<1>1. CASE GatewayStep
  <2>1. UNCHANGED <<work, jobs, crashes, stalls, expired>>
    BY <1>1 DEF GatewayStep
  <2>2. IInv'
    BY <1>1, AdmitStep, DispatchStep, SettleStep, CancelStep DEF GatewayStep, ExpiryInv
  <2>3. \A q \in Requests : Onward(res[q], res'[q])
    BY <1>1, LedgerOnward DEF GatewayStep, ExpiryInv
  <2> QED BY <2>1, <2>2, <2>3, LedgerMoves
<1>2. ASSUME NEW r \in Requests, Expire(r) PROVE ExpiryInv'
  <2>1. /\ res[r].state # Absent /\ expired' = expired \cup {r}
        /\ UNCHANGED <<now, res, tenant, paid, work, jobs, crashes, stalls>>
    BY <1>2 DEF Expire
  <2>2. LeasesInv' /\ IInv'
    BY <2>1 DEF ExpiryInv, IInv, LeasesInv, LeasesTypeOK, JobsMatch, TokensPast,
                ResultsNormal, RetryBelowLimit, ReleaseIsAuthorised
  <2>3. QueuedHaveExpired' /\ RowsTell' /\ JobsTell'
    BY <2>1 DEF ExpiryInv, QueuedHaveExpired, RowsTell, JobsTell
  <2> QED BY <2>2, <2>3 DEF ExpiryInv
<1>3. CASE UNCHANGED expiryVars
  BY <1>3 DEF expiryVars, ExpiryInv, IInv, LeasesInv, LeasesTypeOK, JobsMatch, TokensPast,
              ResultsNormal, RetryBelowLimit, ReleaseIsAuthorised, QueuedHaveExpired,
              RowsTell, JobsTell
<1> QED BY <1>1, <1>2, <1>3, QueueStepInv, EnqueueExpiredInv, ClaimExpiredInv,
           HandleExpiryInv, HandleFailsInv DEF ExpiryNext

\* The composition starts with an empty ledger and an empty queue.
LEMMA ExpiryInitInv == ExpiryInit => ExpiryInv
<1> SUFFICES ASSUME ExpiryInit PROVE ExpiryInv
  OBVIOUS
<1>1. LeasesInv /\ IInv
  BY LeasesInitInv, InitIInv DEF ExpiryInit
<1>2. \A r \in Requests : work[r].state = "NONE" /\ work[r].disposition = "PRESERVE"
  BY ItemsAreRequests DEF ExpiryInit, LeasesInit, NoWork
<1>3. jobs = {} /\ expired = {}
  BY DEF ExpiryInit, LeasesInit
<1> QED BY <1>1, <1>2, <1>3 DEF ExpiryInv, QueuedHaveExpired, RowsTell, JobsTell, Tells

\* Ledger, queue and worker manager together keep their inductive invariant.
THEOREM ExpiryInvariant == ExpirySpec => []ExpiryInv
BY ExpiryInitInv, ExpiryNextInv, PTL DEF ExpirySpec

\* What a row of govar_work_items says is true of its reservation when it is
\* written and stays true, whatever takeovers, crashes, stalls and gateway
\* events come between the handler's transaction and CompleteWork's.
THEOREM OutcomesAreTrue == ExpirySpec => []OutcomeIsTrue
<1>1. ExpiryInv => OutcomeIsTrue
  <2> SUFFICES ASSUME ExpiryInv PROVE OutcomeIsTrue
    OBVIOUS
  <2>1. IInv /\ ReleaseIsAuthorised
    BY DEF ExpiryInv, LeasesInv
  <2> QED BY <2>1, DealtIsNotExpirable DEF ExpiryInv, RowsTell, Tells, LetGo,
             OutcomeIsTrue, CompletedIsReconciled, RecordedReleaseHappened
<1> QED BY <1>1, ExpiryInvariant, PTL

\* In the composition too a row leaves its lease only through a completion of
\* its latest claim.
THEOREM ExpiryAcksLatest == ExpirySpec => AckIsOfLatestClaim
<1>1. ExpiryInv /\ [ExpiryNext]_expiryVars => [AckOfLatestClaim]_leaseVars
  <2> SUFFICES ASSUME ExpiryInv, [ExpiryNext]_expiryVars, ~UNCHANGED leaseVars
               PROVE  AckOfLatestClaim
    OBVIOUS
  <2>1. LeasesInv
    BY DEF ExpiryInv
  <2>2. work' = work => AckOfLatestClaim
    BY <2>1, OthersAckNothing
  <2>3. CASE QueueStep
    <3>1. ASSUME NEW w \in Workers, NEW F \in SUBSET jobs, Crash(w, F)
          PROVE  AckOfLatestClaim
      BY <2>2, <3>1 DEF Crash
    <3>2. ASSUME NEW j \in jobs, RenewFails(j)
          PROVE  AckOfLatestClaim
      BY <2>2, <3>2 DEF RenewFails
    <3> QED BY <2>1, <2>3, <3>1, <3>2, CompleteAcks, OthersAckNothing DEF QueueStep
  <2>4. ASSUME NEW C \in SUBSET Overdue, EnqueueExpired(C)
        PROVE  AckOfLatestClaim
    <3>1. \A i \in Items : work[i].state = "LEASED" => work'[i] = work[i]
      BY <2>4, ItemsAreRequests DEF EnqueueExpired
    <3> QED BY <2>1, <3>1, OthersAckNothing
  <2>5. ASSUME NEW w \in Workers, NEW B \in SUBSET Items, ClaimExpired(w, B)
        PROVE  AckOfLatestClaim
    BY <2>1, <2>5, OthersAckNothing DEF ClaimExpired
  <2>6. CASE GatewayStep \/ \E r \in Requests : Expire(r)
    BY <2>2, <2>6 DEF GatewayStep, Expire
  <2>7. ASSUME NEW j \in jobs, HandleExpiry(j) \/ HandleFails(j)
        PROVE  AckOfLatestClaim
    BY <2>2, <2>7 DEF HandleExpiry, HandleFails
  <2> QED BY <2>3, <2>4, <2>5, <2>6, <2>7 DEF ExpiryNext, expiryVars, leaseVars
<1> QED BY <1>1, ExpiryInvariant, PTL DEF ExpirySpec, AckIsOfLatestClaim

\* The ledger the composition runs on is GovarLedger, so that everything proved
\* of it holds: expiry goes through the ledger's own transaction only.
THEOREM ExpiryImplementsLedger == ExpirySpec => Spec
<1>1. ExpiryInit => Init
  BY DEF ExpiryInit
<1>2. ExpiryInv /\ [ExpiryNext]_expiryVars => [Next]_vars
  <2> SUFFICES ASSUME ExpiryInv, [ExpiryNext]_expiryVars, ~UNCHANGED vars
               PROVE  Next
    OBVIOUS
  <2>1. CASE GatewayStep
    BY <2>1 DEF GatewayStep, Next
  <2>2. ASSUME NEW j \in jobs, HandleExpiry(j) PROVE Next
    <3>1. ReconciledNow \in SUBSET Requests
      BY DEF ReconciledNow, ExpiryInv, QueuedHaveExpired
    <3>2. ReconcileExpired(ReconciledNow)
      BY <2>2 DEF HandleExpiry, vars
    <3> QED BY <3>1, <3>2 DEF Next
  <2> QED BY <2>1, <2>2 DEF ExpiryNext, QueueStep, Expire, EnqueueExpired, ClaimExpired,
             HandleFails, expiryVars, vars
<1> QED BY <1>1, <1>2, ExpiryInvariant, PTL DEF ExpirySpec, Spec

-----------------------------------------------------------------------------
(* The gateway: the inductive invariant *)

Ops == {"none", "admit", "claim", "delivered", "settle"}

EventRecord == [op : Ops, usage : Settlements \cup {NoUsage}]

PostRecord ==
    [op : Ops, usage : Settlements \cup {NoUsage}, answer : Answers]

GatewayTypes == /\ phase \in [Streams -> Phases]
                /\ post \in [Streams -> PostRecord]
                /\ inbox \in [Requests -> SUBSET EventRecord]
                /\ called \in [Requests -> Nat]

\* What a stream has last posted in each phase.
OpOf(p) == CASE p = "started" -> "none"
             [] p = "admitting" -> "admit"
             [] p \in {"claiming", "forwarded"} -> "claim"
             [] p \in {"delivering", "responding"} -> "delivered"
             [] OTHER -> "settle"

InStep ==
    \A s \in Streams :
        /\ phase[s] # "ended" => post[s].op = OpOf(phase[s])
        /\ phase[s] = "answered" => post[s].answer = "ok"
        /\ post[s].op = "settle" => /\ post[s].usage \in Settlements
                                    /\ post[s].usage.version = 1

\* The stream's admission has been granted.
Holder(s) == \/ post[s].op = "admit" /\ post[s].answer = "ok"
             \/ post[s].op \in {"claim", "delivered", "settle"}

HoldersAdmitted ==
    \A s \in Streams : Holder(s) => res[RequestOf[s]].state # Absent

OneHolder ==
    \A s, t \in Streams :
        Holder(s) /\ Holder(t) /\ RequestOf[s] = RequestOf[t] => s = t

\* The stream has been through the provider call, if it ever made one.
Past(s) == phase[s] \notin {"started", "admitting", "claiming"}

\* A call was made by a stream that holds the request and cannot call again.
CallsHeld ==
    \A r \in Requests :
        /\ called[r] <= 1
        /\ called[r] > 0 =>
              \E s \in Streams : RequestOf[s] = r /\ Holder(s) /\ Past(s)

HasEvent(I, r, op) == \E e \in I[r] : e.op = op

Taken(q) == q.outbox \in {"CLAIMED", "DELIVERED"}

UsageKept(q, u) ==
    q.version = 1 /\ q.provisional = u.actual /\ q.finalized = u.final

\* What the inbox says of a reservation is so.
InboxTrue(R, I, r) ==
    /\ HasEvent(I, r, "claim") => Taken(R[r])
    /\ R[r].version # 0 => HasEvent(I, r, "settle")
    /\ \A e \in I[r] : e.op = "settle" => UsageKept(R[r], e.usage)

InboxRecorded == \A r \in Requests : InboxTrue(res, inbox, r)

\* What was answered and what was called is in the inbox.
AnswersRecorded ==
    /\ \A s \in Streams :
          post[s].op \in {"claim", "settle"} /\ post[s].answer = "ok" =>
              [op |-> post[s].op, usage |-> post[s].usage]
                  \in inbox[RequestOf[s]]
    /\ \A r \in Requests : called[r] > 0 => HasEvent(inbox, r, "claim")

\* The inductive invariant, next to the ledger's.
GInv == /\ GatewayTypes /\ InStep /\ HoldersAdmitted /\ OneHolder
        /\ CallsHeld /\ InboxRecorded /\ AnswersRecorded

-----------------------------------------------------------------------------
(* The ledger under the gateway *)

\* A gateway step is a ledger step or leaves the ledger alone.
LEMMA GatewayStepLedger ==
  ASSUME [GatewayNext]_gatewayVars, InStep
  PROVE  [Next]_vars
<1>1. CASE UNCHANGED gatewayVars
  BY <1>1 DEF gatewayVars, vars
<1>2. ASSUME NEW s \in Streams, Process(s)
      PROVE  UNCHANGED vars
  BY <1>2 DEF Process, RequestBody, ClaimAdmitted, Forward, ResponseHeaders,
     PassHeaders, ResponseBody, PassBody, End, Post, vars
<1>3. ASSUME NEW s \in Streams, ServeAdmit(s)
      PROVE  [Next]_vars
  <2>1. RequestOf[s] \in Requests
    BY RequestOfType
  <2> QED BY <1>3, <2>1 DEF ServeAdmit, Next, ledgerVars, vars
<1>4. ASSUME NEW s \in Streams, ServeEvent(s)
      PROVE  [Next]_vars
  <2>1. RequestOf[s] \in Requests
    BY RequestOfType
  <2>2. post[s].op = "settle" => post[s].usage \in Settlements
    BY DEF InStep
  <2>3. UNCHANGED vars \/ Transition(s)
    BY <1>4 DEF ServeEvent, vars
  <2> QED BY <2>1, <2>2, <2>3 DEF Transition, Next, DispatchStatuses
<1>5. ASSUME NEW s \in Streams, ServeError(s)
      PROVE  UNCHANGED vars
  BY <1>5 DEF ServeError, vars
<1>6. ASSUME NEW r \in Requests, ServeCancel(r)
      PROVE  Next
  BY <1>6 DEF ServeCancel, Next
<1>7. CASE Background
  BY <1>7 DEF Background, Next
<1> QED BY <1>1, <1>2, <1>3, <1>4, <1>5, <1>6, <1>7 DEF GatewayNext, Serve

-----------------------------------------------------------------------------
(* What a ledger step may do to a reservation *)

SameUsage(x, y) == /\ y.version = x.version /\ y.provisional = x.provisional
                   /\ y.finalized = x.finalized

\* y is still admitted, and claimed, if x was.
Stays(x, y) == /\ x.state # Absent => y.state # Absent
               /\ Taken(x) => Taken(y)

\* Rolling a window over changes nothing but guards.
LEMMA AdvancedSame ==
  ASSUME IInv, NEW o \in Tenants, NEW q \in Requests
  PROVE  LET x == AdvancedRes(o)[q]
         IN  /\ x.state = res[q].state /\ x.outbox = res[q].outbox
             /\ SameUsage(res[q], x)
<1>1. res \in [Requests -> ReservationRecord]
  BY DEF IInv, Good
<1>2. res[q] \in ReservationRecord
  BY <1>1
<1>3. CASE tenant[o].window \in {0, now}
  BY <1>3 DEF AdvancedRes, SameUsage
<1>4. CASE tenant[o].window \notin {0, now}
  <2>1. \/ AdvancedRes(o)[q] = res[q]
        \/ AdvancedRes(o)[q] = [res[q] EXCEPT !.guard = @ + res[q].provisional]
    BY <1>1, <1>4 DEF AdvancedRes, RolledRes
  <2> QED BY <1>2, <2>1 DEF ReservationRecord, SameUsage
<1> QED BY <1>3, <1>4

\* Dispatch never unclaims.
LEMMA DispatchStays ==
  ASSUME NEW x \in ReservationRecord, NEW status \in DispatchStatuses,
         DispatchAccepted(x, status)
  PROVE  LET y == ApplyDispatch(x, status)
         IN  Stays(x, y) /\ SameUsage(x, y)
<1>1. /\ x.state # Absent
      /\ status \in {"CLAIMED", "DELIVERED", "AMBIGUOUS"}
  BY DEF DispatchAccepted, Absent
<1>2. CASE status = "CLAIMED"
  BY <1>2 DEF ApplyDispatch, ReservationRecord, Stays, SameUsage, Taken, Absent
<1>3. CASE status = "DELIVERED"
  BY <1>3 DEF ApplyDispatch, ReservationRecord, Stays, SameUsage, Taken, Absent
<1>4. CASE status = "AMBIGUOUS"
  BY <1>4 DEF ApplyDispatch, ReservationRecord, Stays, SameUsage, Taken, Absent
<1> QED BY <1>1, <1>2, <1>3, <1>4

\* A cancellation that declares nothing unbilled does not withdraw a claimed
\* attempt.
LEMMA CancelStays ==
  ASSUME NEW x \in ReservationRecord, NEW t \in TenantRecord,
         Shape(x, t.window), CancelAccepted(x)
  PROVE  LET y == ApplyCancel(x, t, FALSE).res
         IN  Stays(x, y) /\ SameUsage(x, y)
<1>1. x.state = "RESERVED" => ~Taken(x)
  BY DEF Shape, OutboxFits, Taken
<1>2. CASE x.state = "RESERVED"
  BY <1>1, <1>2 DEF ApplyCancel, Release, ReservationRecord, Stays, SameUsage,
     Absent
<1>3. CASE x.state # "RESERVED"
  BY <1>3 DEF ApplyCancel, ReservationRecord, Stays, SameUsage, Taken, Absent
<1> QED BY <1>2, <1>3

\* What a branch hands back is stamped with the report's cost and version.
LEMMA StampedUsage ==
  ASSUME NEW s, NEW u, NEW q \in ReservationRecord, DOMAIN s.res = DOMAIN q
  PROVE  /\ Reported(s, u).res.provisional = u.actual
         /\ Reported(s, u).res.version = u.version
<1> DEFINE b == s.res
<1>1. {"provisional", "version"} \subseteq DOMAIN b
  BY DEF ReservationRecord
<1>2. Reported(s, u).res =
        [b EXCEPT !.provisional = u.actual, !.version = u.version]
  BY DEF Reported
<1> HIDE DEF b
<1> QED BY <1>1, <1>2

\* The first usage report is recorded as it is.
LEMMA FirstUsage ==
  ASSUME NEW x \in ReservationRecord, NEW t \in TenantRecord,
         Shape(x, t.window), NEW u \in Settlements, u.version = 1,
         x.version = 0, SettleAccepted(x, u)
  PROVE  LET y == ApplySettlement(x, t, u).res
         IN  UsageKept(y, u) /\ Taken(y) /\ y.state # Absent
<1> DEFINE w == RecordUsage(x, t, u)
           y == ApplySettlement(x, t, u).res
           q == Delivered(x, u)
           late == x.state = "UNRESOLVED" \/ t.window # x.origin
<1> SUFFICES UsageKept(y, u) /\ Taken(y) /\ y.state # Absent
  OBVIOUS
<1>1. /\ ~x.finalized /\ ~x.carried /\ x.enforcement = x.origin
      /\ u.version = x.version + 1 /\ u.version # x.version
  BY DEF Shape, Unused, UnusedShape, Absent
<1>2. Recorded(x, t, u, w)
  BY <1>1, RecordUsageSound
<1>3. q \in ReservationRecord /\ ~q.carried /\ q.enforcement = x.enforcement
  BY <1>1, DeliveredFields
<1>4. w.res.provisional = u.actual /\ w.res.version = 1
  <2>1. CASE late
    <3>1. w = Reported(UsageFirstLate(q, t, u), u)
      BY <2>1 DEF RecordUsage, Reported, Delivered
    <3>2. DOMAIN UsageFirstLate(q, t, u).res = DOMAIN q
      BY DEF UsageFirstLate
    <3> QED BY <1>3, <3>1, <3>2, StampedUsage
  <2>2. CASE ~late
    <3>1. w = Reported(UsageOnTime(q, t, u), u)
      BY <1>1, <1>3, <2>2 DEF RecordUsage, Reported, Delivered
    <3>2. DOMAIN UsageOnTime(q, t, u).res = DOMAIN q
      BY DEF UsageOnTime
    <3> QED BY <1>3, <3>1, <3>2, StampedUsage
  <2> QED BY <2>1, <2>2
<1>5. w.res \in ReservationRecord /\ w.res.outbox = "DELIVERED"
      /\ ~w.res.finalized
  BY <1>2 DEF Recorded
<1>6. y = FinishSettlement(w.res, w.ten, u).res
  BY <1>1 DEF ApplySettlement
<1>7. u.final \in BOOLEAN
  BY DEF Settlements
<1> HIDE DEF w, y
<1>8. CASE u.final
  BY <1>4, <1>5, <1>6, <1>8
     DEF FinishSettlement, Release, ReservationRecord, UsageKept, Taken, Absent
<1>9. CASE ~u.final
  <2>1. y = [w.res EXCEPT !.state = ProvisionalState(w.res, w.ten, u)]
    BY <1>6, <1>9 DEF FinishSettlement
  <2>2. ProvisionalState(w.res, w.ten, u) # Absent
    BY DEF ProvisionalState, Absent
  <2> QED BY <1>4, <1>5, <1>7, <1>9, <2>1, <2>2
             DEF ReservationRecord, UsageKept, Taken
<1> QED BY <1>7, <1>8, <1>9

-----------------------------------------------------------------------------
(* The same of the ledger's actions *)

\* The step neither forgets nor unclaims q and reports no usage of it.
Keeps(q) == Stays(res[q], res'[q]) /\ SameUsage(res[q], res'[q])

\* A step that only rolls a tenant's window over keeps every reservation.
LEMMA AdvanceKeeps ==
  ASSUME IInv, NEW o \in Tenants, NEW q \in Requests,
         res'[q] = AdvancedRes(o)[q]
  PROVE  Keeps(q)
BY AdvancedSame DEF Keeps, Stays, Taken

\* An event changes the reservation it is about as its transition says.
LEMMA MutateKeeps ==
  ASSUME IInv, NEW r \in Requests, NEW s, Mutate(r, s)
  PROVE  res'[r] = s.res /\ \A q \in Requests \ {r} : Keeps(q)
<1>1. Owner[r] \in Tenants
  BY OwnerType
<1>2. DOMAIN AdvancedRes(Owner[r]) = Requests
  BY DEF AdvancedRes, RolledRes, IInv, Good
<1>3. res' = [AdvancedRes(Owner[r]) EXCEPT ![r] = s.res]
  BY DEF Mutate
<1>4. ASSUME NEW q \in Requests \ {r} PROVE Keeps(q)
  <2>1. res'[q] = AdvancedRes(Owner[r])[q]
    BY <1>2, <1>3
  <2> QED BY <1>1, <2>1, AdvanceKeeps
<1> QED BY <1>2, <1>3, <1>4

\* The reservation an event is about, once the window has been advanced.
LEMMA EventReservation ==
  ASSUME IInv, NEW r \in Requests, ClockServes(Owner[r])
  PROVE  LET x == AdvancedRes(Owner[r])[r]
             t == AdvancedTenant(Owner[r])
         IN  /\ x \in ReservationRecord /\ t \in TenantRecord
             /\ Shape(x, t.window)
             /\ \A y : Stays(x, y) => Stays(res[r], y)
             /\ \A y : SameUsage(x, y) => SameUsage(res[r], y)
             /\ x.version = res[r].version
<1>1. tenant[Owner[r]].window <= now /\ Owner[r] \in Tenants
  BY OwnerType DEF ClockServes
<1>2. LET x == AdvancedRes(Owner[r])[r]
      IN  /\ x.state = res[r].state /\ x.outbox = res[r].outbox
          /\ SameUsage(res[r], x)
  BY <1>1, AdvancedSame
<1> QED BY <1>1, <1>2, AdvancedReservation DEF Stays, SameUsage, Taken

\* A dispatch event keeps every reservation, and claims or delivers its own.
LEMMA DispatchKeeps ==
  ASSUME IInv, NEW r \in Requests, NEW status \in DispatchStatuses,
         Dispatch(r, status)
  PROVE  /\ \A q \in Requests : Keeps(q)
         /\ status \in {"CLAIMED", "DELIVERED"} => Taken(res'[r])
<1> DEFINE x == AdvancedRes(Owner[r])[r]
           y == ApplyDispatch(x, status)
<1>1. /\ ClockServes(Owner[r]) /\ DispatchAccepted(x, status)
      /\ Mutate(r, [res |-> y, ten |-> AdvancedTenant(Owner[r])])
  BY DEF Dispatch
<1>2. res'[r] = y /\ \A q \in Requests \ {r} : Keeps(q)
  BY <1>1, MutateKeeps
<1>3. /\ x \in ReservationRecord
      /\ Stays(x, y) => Stays(res[r], y)
      /\ SameUsage(x, y) => SameUsage(res[r], y)
  BY <1>1, EventReservation
<1> HIDE DEF x
<1>4. Stays(x, y) /\ SameUsage(x, y)
  BY <1>1, <1>3, DispatchStays
<1>5. status \in {"CLAIMED", "DELIVERED"} => Taken(y)
  BY <1>3 DEF ApplyDispatch, ReservationRecord, Taken
<1> QED BY <1>2, <1>3, <1>4, <1>5 DEF Keeps

\* A cancellation by a gateway keeps every reservation.
LEMMA CancelKeeps ==
  ASSUME IInv, NEW r \in Requests, Cancel(r, FALSE), NEW q \in Requests
  PROVE  Keeps(q)
<1> DEFINE x == AdvancedRes(Owner[r])[r]
           t == AdvancedTenant(Owner[r])
           s == ApplyCancel(x, t, FALSE)
<1>1. ClockServes(Owner[r]) /\ CancelAccepted(x) /\ Mutate(r, s)
  BY DEF Cancel
<1>2. /\ x \in ReservationRecord /\ t \in TenantRecord /\ Shape(x, t.window)
      /\ Stays(x, s.res) => Stays(res[r], s.res)
      /\ SameUsage(x, s.res) => SameUsage(res[r], s.res)
  BY <1>1, EventReservation
<1> HIDE DEF x, t
<1>3. Stays(x, s.res) /\ SameUsage(x, s.res)
  BY <1>1, <1>2, CancelStays
<1> HIDE DEF s
<1>4. res'[r] = s.res /\ \A p \in Requests \ {r} : Keeps(p)
  BY <1>1, MutateKeeps
<1> QED BY <1>2, <1>3, <1>4 DEF Keeps

\* A first usage report records the usage and keeps the other reservations.
LEMMA SettleKeeps ==
  ASSUME IInv, NEW r \in Requests, NEW u \in Settlements, u.version = 1,
         res[r].version = 0, Settle(r, u)
  PROVE  /\ \A q \in Requests \ {r} : Keeps(q)
         /\ UsageKept(res'[r], u) /\ Taken(res'[r])
         /\ res'[r].state # Absent
<1> DEFINE x == AdvancedRes(Owner[r])[r]
           t == AdvancedTenant(Owner[r])
           s == ApplySettlement(x, t, u)
<1>1. ClockServes(Owner[r]) /\ SettleAccepted(x, u) /\ Mutate(r, s)
  BY DEF Settle
<1>2. /\ x \in ReservationRecord /\ t \in TenantRecord /\ Shape(x, t.window)
      /\ x.version = 0
  BY <1>1, EventReservation
<1> HIDE DEF x, t
<1>3. UsageKept(s.res, u) /\ Taken(s.res) /\ s.res.state # Absent
  BY <1>1, <1>2, FirstUsage
<1> HIDE DEF s
<1> QED BY <1>1, <1>3, MutateKeeps

\* An admission keeps every reservation and makes its own.
LEMMA AdmitKeeps ==
  ASSUME IInv, NEW r \in Requests, NEW p \in Policies, NEW c \in Costs,
         Admit(r, p, c)
  PROVE  /\ \A q \in Requests : Keeps(q)
         /\ res[r].state = Absent /\ res'[r].state # Absent
<1> DEFINE o == Owner[r]
<1>1. o \in Tenants
  BY OwnerType
<1>2. DOMAIN AdvancedRes(o) = Requests
  BY DEF AdvancedRes, RolledRes, IInv, Good
<1>3. /\ res[r].state = Absent
      /\ res' = [AdvancedRes(o) EXCEPT ![r] = NewReservation(c, now)]
  BY DEF Admit
<1>4. Shape(res[r], tenant[o].window)
  BY <1>1 DEF IInv, Good, Account, RequestsOf
<1>5. /\ ~Taken(res[r]) /\ res[r].version = 0 /\ res[r].provisional = 0
      /\ res[r].finalized = FALSE
  <2>1. res[r] \in ReservationRecord
    BY DEF IInv, Good
  <2>2. res[r].finalized \in BOOLEAN
    BY <2>1 DEF ReservationRecord
  <2> QED BY <1>3, <1>4, <2>2
             DEF Shape, OutboxFits, Unused, UnusedShape, Absent, Taken
<1>6. /\ res'[r].state = "RESERVED" /\ res'[r].version = 0
      /\ res'[r].provisional = 0 /\ res'[r].finalized = FALSE
  BY <1>2, <1>3 DEF NewReservation
<1>7. Keeps(r)
  BY <1>5, <1>6 DEF Keeps, Stays, SameUsage, Absent
<1>8. ASSUME NEW q \in Requests \ {r} PROVE Keeps(q)
  <2>1. res'[q] = AdvancedRes(o)[q]
    BY <1>2, <1>3
  <2> QED BY <1>1, <2>1, AdvanceKeeps
<1> QED BY <1>3, <1>6, <1>7, <1>8 DEF Absent

\* A refused admission keeps every reservation.
LEMMA AdmitRefusedKeeps ==
  ASSUME IInv, NEW r \in Requests, NEW p \in Policies, AdmitRefused(r, p),
         NEW q \in Requests
  PROVE  Keeps(q)
BY OwnerType, AdvanceKeeps DEF AdmitRefused

\* So does an expiry, which withdraws unclaimed attempts only.
LEMMA ReconcileKeeps ==
  ASSUME IInv, NEW S \in SUBSET Requests, ReconcileExpired(S),
         NEW q \in Requests
  PROVE  Keeps(q)
<1>1. res[q] \in ReservationRecord /\ OutboxFits(res[q])
  BY OwnerType DEF IInv, Good, Account, RequestsOf, Shape
<1>2. \/ res'[q] = res[q]
      \/ Expirable(res[q]) /\ res'[q] = ApplyExpiry(res[q])
  BY DEF ReconcileExpired
<1>3. CASE res'[q] = res[q]
  BY <1>3 DEF Keeps, Stays, SameUsage
<1>4. CASE Expirable(res[q]) /\ res'[q] = ApplyExpiry(res[q])
  <2>1. res[q].state = "RESERVED" => ~Taken(res[q])
    BY <1>1 DEF OutboxFits, Taken
  <2> QED BY <1>1, <1>4, <2>1 DEF ApplyExpiry, ReservationRecord, Keeps, Stays,
             SameUsage, Taken, Absent
<1> QED BY <1>2, <1>3, <1>4

\* What happens in the background keeps every reservation.
LEMMA BackgroundKeeps ==
  ASSUME IInv, Background, NEW q \in Requests
  PROVE  Keeps(q)
<1>1. ASSUME NEW o \in Tenants, Liability(o) PROVE Keeps(q)
  BY <1>1, AdvanceKeeps DEF Liability
<1>2. ASSUME NEW o \in Tenants, NEW b \in Adjusted, NEW d \in Payments,
             AdjustBudget(o, b, d)
      PROVE  Keeps(q)
  BY <1>2, AdvanceKeeps DEF AdjustBudget
<1>3. ASSUME NEW w \in Windows, Clock(w) PROVE Keeps(q)
  BY <1>3 DEF Clock, Keeps, Stays, SameUsage
<1> QED BY <1>1, <1>2, <1>3, ReconcileKeeps DEF Background

-----------------------------------------------------------------------------
(* The streams' part of the invariant *)

\* The step is in order as far as streams and posts go: none becomes a holder,
\* and one that holds a request and is past its call remains so.
StreamsInOrder ==
    /\ GatewayTypes' /\ InStep'
    /\ \A t \in Streams : Holder(t)' => Holder(t)
    /\ \A t \in Streams : Holder(t) /\ Past(t) => Holder(t)' /\ Past(t)'

\* A step in order that keeps every reservation keeps the invariant.
LEMMA OrderlyStep ==
  ASSUME GInv, StreamsInOrder, UNCHANGED <<inbox, called>>,
         \A q \in Requests : Keeps(q), AnswersRecorded'
  PROVE  GInv'
<1>1. HoldersAdmitted'
  BY RequestOfType DEF GInv, HoldersAdmitted, StreamsInOrder, Keeps, Stays
<1>2. OneHolder'
  BY DEF GInv, OneHolder, StreamsInOrder
<1>3. CallsHeld'
  BY DEF GInv, CallsHeld, StreamsInOrder
<1>4. InboxRecorded'
  BY DEF GInv, InboxRecorded, InboxTrue, HasEvent, UsageKept, Keeps, Stays,
     SameUsage
<1> QED BY <1>1, <1>2, <1>3, <1>4 DEF GInv, StreamsInOrder

\* A new post is in order when the stream already held its request or does not
\* claim to hold it.
LEMMA PostInOrder ==
  ASSUME GInv, NEW s \in Streams, NEW p \in Phases, NEW op \in Ops,
         NEW u \in Settlements \cup {NoUsage}, Post(s, p, op, u),
         p # "ended" => op = OpOf(p), p # "answered",
         op = "settle" => u \in Settlements /\ u.version = 1,
         \/ op = "admit" /\ ~Past(s)
         \/ /\ op \in {"claim", "delivered", "settle"}
            /\ Holder(s) /\ (Past(s) => p \notin {"started", "admitting", "claiming"})
  PROVE  GInv'
<1> DEFINE x == [op |-> op, usage |-> u, answer |-> "none"]
<1>1. /\ phase \in [Streams -> Phases] /\ post \in [Streams -> PostRecord]
      /\ InStep /\ AnswersRecorded
  BY DEF GInv, GatewayTypes
<1>2. x \in PostRecord
  BY DEF PostRecord, Answers
<1>3. /\ phase'[s] = p /\ post'[s] = x
      /\ \A t \in Streams \ {s} : phase'[t] = phase[t] /\ post'[t] = post[t]
      /\ phase' \in [Streams -> Phases] /\ post' \in [Streams -> PostRecord]
  BY <1>1, <1>2 DEF Post
<1>4. UNCHANGED <<now, res, tenant, paid, inbox, called>>
  BY DEF Post
<1>5. GatewayTypes'
  BY <1>3, <1>4 DEF GInv, GatewayTypes
<1>6. InStep'
  <2>1. ASSUME NEW t \in Streams
        PROVE  /\ phase'[t] # "ended" => post'[t].op = OpOf(phase'[t])
               /\ phase'[t] = "answered" => post'[t].answer = "ok"
               /\ post'[t].op = "settle" => /\ post'[t].usage \in Settlements
                                            /\ post'[t].usage.version = 1
    <3>1. CASE t = s
      BY <1>3, <3>1
    <3>2. CASE t # s
      BY <1>1, <1>3, <3>2 DEF InStep
    <3> QED BY <3>1, <3>2
  <2> QED BY <2>1 DEF InStep
<1>7. StreamsInOrder
  <2>1. \A t \in Streams : Holder(t)' => Holder(t)
    BY <1>3 DEF Holder
  <2>2. \A t \in Streams : Holder(t) /\ Past(t) => Holder(t)' /\ Past(t)'
    BY <1>3 DEF Holder, Past
  <2> QED BY <1>5, <1>6, <2>1, <2>2 DEF StreamsInOrder
<1>8. AnswersRecorded'
  <2>1. ASSUME NEW t \in Streams, post'[t].op \in {"claim", "settle"},
               post'[t].answer = "ok"
        PROVE  post'[t] = post[t]
    BY <1>3, <2>1
  <2> QED BY <1>1, <1>4, <2>1 DEF AnswersRecorded, HasEvent
<1>9. \A q \in Requests : Keeps(q)
  BY <1>4 DEF Keeps, Stays, SameUsage
<1> QED BY <1>4, <1>7, <1>8, <1>9, OrderlyStep

\* A stream may move on to phase p without a post.
LEMMA MoveInOrder ==
  ASSUME GInv, NEW s \in Streams, NEW p \in Phases,
         phase' = [phase EXCEPT ![s] = p],
         UNCHANGED <<now, res, tenant, paid, post, inbox, called>>,
         p # "ended" => post[s].op = OpOf(p),
         p = "answered" => post[s].answer = "ok",
         Past(s) => p \notin {"started", "admitting", "claiming"}
  PROVE  GInv'
<1>1. /\ phase \in [Streams -> Phases] /\ InStep /\ AnswersRecorded
  BY DEF GInv, GatewayTypes
<1>2. /\ phase'[s] = p /\ phase' \in [Streams -> Phases]
      /\ \A t \in Streams \ {s} : phase'[t] = phase[t]
  BY <1>1
<1>3. GatewayTypes'
  BY <1>2 DEF GInv, GatewayTypes
<1>4. InStep'
  BY <1>1, <1>2 DEF InStep
<1>5. StreamsInOrder
  BY <1>2, <1>3, <1>4 DEF StreamsInOrder, Holder, Past
<1>6. AnswersRecorded'
  BY <1>1 DEF AnswersRecorded, HasEvent
<1>7. \A q \in Requests : Keeps(q)
  BY DEF Keeps, Stays, SameUsage
<1> QED BY <1>5, <1>6, <1>7, OrderlyStep

\* The provider call: the caller holds the request and no holder has called.
LEMMA ForwardGInv ==
  ASSUME GInv, NEW s \in Streams, Forward(s)
  PROVE  GInv'
<1> DEFINE r == RequestOf[s]
<1>1. /\ phase \in [Streams -> Phases] /\ called \in [Requests -> Nat]
      /\ InStep /\ AnswersRecorded /\ OneHolder /\ CallsHeld
      /\ r \in Requests
  BY RequestOfType DEF GInv, GatewayTypes
<1>2. /\ phase[s] = "claiming" /\ post[s].answer = "ok"
      /\ phase' = [phase EXCEPT ![s] = "forwarded"]
      /\ called' = [called EXCEPT ![r] = @ + 1]
      /\ UNCHANGED <<now, res, tenant, paid, post, inbox>>
  BY DEF Forward
<1>3. post[s].op = "claim" /\ Holder(s) /\ ~Past(s)
  BY <1>1, <1>2 DEF InStep, OpOf, Holder, Past
<1>4. called[r] = 0
  <2>1. \A t \in Streams : RequestOf[t] = r /\ Holder(t) => ~Past(t)
    BY <1>1, <1>3 DEF OneHolder
  <2> QED BY <1>1, <2>1 DEF CallsHeld
<1>5. /\ phase'[s] = "forwarded" /\ phase' \in [Streams -> Phases]
      /\ \A t \in Streams \ {s} : phase'[t] = phase[t]
      /\ called'[r] = 1 /\ called' \in [Requests -> Nat]
      /\ \A q \in Requests \ {r} : called'[q] = called[q]
  BY <1>1, <1>2, <1>4 DEF Phases
<1>6. GatewayTypes'
  BY <1>2, <1>5 DEF GInv, GatewayTypes
<1>7. InStep'
  BY <1>1, <1>2, <1>3, <1>5 DEF InStep, OpOf
<1>8. HoldersAdmitted' /\ OneHolder' /\ InboxRecorded'
  BY <1>2 DEF GInv, HoldersAdmitted, OneHolder, Holder, InboxRecorded, InboxTrue,
     HasEvent
<1>9. CallsHeld'
  <2>1. \A t \in Streams : Holder(t) /\ Past(t) => Holder(t)' /\ Past(t)'
    BY <1>2, <1>3, <1>5 DEF Holder, Past
  <2>2. Holder(s)' /\ Past(s)'
    BY <1>2, <1>3, <1>5 DEF Holder, Past
  <2>3. ASSUME NEW q \in Requests
        PROVE  /\ called'[q] <= 1
               /\ called'[q] > 0 =>
                    \E t \in Streams : RequestOf[t] = q /\ Holder(t)' /\ Past(t)'
    <3>1. CASE q = r
      BY <1>5, <2>2, <3>1
    <3>2. CASE q # r
      BY <1>1, <1>5, <2>1, <3>2 DEF CallsHeld
    <3> QED BY <3>1, <3>2
  <2> QED BY <2>3 DEF CallsHeld
<1>10. AnswersRecorded'
  <2>1. HasEvent(inbox, r, "claim")
    BY <1>1, <1>2, <1>3 DEF AnswersRecorded, HasEvent
  <2> QED BY <1>1, <1>2, <1>5, <2>1 DEF AnswersRecorded, HasEvent
<1> QED BY <1>6, <1>7, <1>8, <1>9, <1>10 DEF GInv

\* Everything Process does keeps the invariant.
LEMMA ProcessGInv ==
  ASSUME GInv, NEW s \in Streams, Process(s)
  PROVE  GInv'
<1>1. /\ phase[s] \in Phases /\ NoUsage \in Settlements \cup {NoUsage}
      /\ InStep
  BY DEF GInv, GatewayTypes
<1>2. CASE RequestBody(s)
  BY <1>1, <1>2, PostInOrder DEF RequestBody, Phases, Ops, OpOf, Past
<1>3. CASE ClaimAdmitted(s)
  <2>1. /\ phase[s] = "admitting" /\ post[s].answer = "ok"
        /\ Post(s, "claiming", "claim", NoUsage)
    BY <1>3 DEF ClaimAdmitted, Admitted
  <2>2. Holder(s) /\ ~Past(s)
    BY <1>1, <2>1 DEF InStep, OpOf, Holder, Past
  <2> QED BY <1>1, <2>1, <2>2, PostInOrder DEF Phases, Ops, OpOf
<1>4. CASE Forward(s)
  BY <1>4, ForwardGInv
<1>5. CASE ResponseHeaders(s)
  <2>1. /\ phase[s] = "forwarded"
        /\ Post(s, "delivering", "delivered", NoUsage)
    BY <1>5 DEF ResponseHeaders
  <2>2. Holder(s)
    BY <1>1, <2>1 DEF InStep, OpOf, Holder
  <2> QED BY <1>1, <2>1, <2>2, PostInOrder DEF Phases, Ops, OpOf
<1>6. CASE PassHeaders(s)
  <2>1. phase[s] = "delivering" /\ phase' = [phase EXCEPT ![s] = "responding"]
        /\ UNCHANGED <<now, res, tenant, paid, post, inbox, called>>
    BY <1>6 DEF PassHeaders
  <2>2. post[s].op = OpOf("responding")
    BY <1>1, <2>1 DEF InStep, OpOf
  <2> QED BY <2>1, <2>2, MoveInOrder DEF Phases
<1>7. CASE ResponseBody(s)
  <2>1. PICK u \in Settlements : /\ u.version = 1
                                 /\ Post(s, "settling", "settle", u)
    BY <1>7 DEF ResponseBody, Reports
  <2>2. phase[s] = "responding" /\ Holder(s)
    BY <1>1, <1>7 DEF ResponseBody, InStep, OpOf, Holder
  <2> QED BY <2>1, <2>2, PostInOrder DEF Phases, Ops, OpOf
<1>8. CASE PassBody(s)
  <2>1. phase[s] = "settling" /\ phase' = [phase EXCEPT ![s] = "answered"]
        /\ post[s].answer = "ok"
        /\ UNCHANGED <<now, res, tenant, paid, post, inbox, called>>
    BY <1>8 DEF PassBody
  <2>2. post[s].op = OpOf("answered")
    BY <1>1, <2>1 DEF InStep, OpOf
  <2> QED BY <2>1, <2>2, MoveInOrder DEF Phases
<1>9. CASE End(s)
  BY <1>9, MoveInOrder DEF End, Phases
<1> QED BY <1>2, <1>3, <1>4, <1>5, <1>6, <1>7, <1>8, <1>9 DEF Process

-----------------------------------------------------------------------------
(* The service's part *)

\* An answer other than a granted admission is in order, and once the inbox
\* has what it says, recorded.
LEMMA AnswerInOrder ==
  ASSUME GInv, NEW s \in Streams, NEW a \in Answers, post[s].answer = "none",
         Answer(s, a)
  PROVE  /\ phase' = phase /\ called' = called
         /\ post' \in [Streams -> PostRecord] /\ InStep'
         /\ post'[s].op = post[s].op /\ post'[s].usage = post[s].usage
         /\ post'[s].answer = a
         /\ \A t \in Streams \ {s} : post'[t] = post[t]
         /\ \A t \in Streams : Holder(t) /\ Past(t) => Holder(t)' /\ Past(t)'
         /\ post[s].op # "admit" \/ a # "ok" =>
               \A t \in Streams : Holder(t)' => Holder(t)
<1>1. /\ post \in [Streams -> PostRecord] /\ InStep
  BY DEF GInv, GatewayTypes
<1>2. post' = [post EXCEPT ![s] = [post[s] EXCEPT !.answer = a]]
      /\ phase' = phase /\ called' = called
  BY DEF Answer
<1>3. post[s] \in PostRecord
  BY <1>1
<1> DEFINE x == [post[s] EXCEPT !.answer = a]
<1>4. x \in PostRecord /\ x.op = post[s].op /\ x.usage = post[s].usage
      /\ x.answer = a
  BY <1>3 DEF PostRecord
<1> HIDE DEF x
<1>5. /\ post'[s] = x /\ post' \in [Streams -> PostRecord]
      /\ \A t \in Streams \ {s} : post'[t] = post[t]
  BY <1>1, <1>2, <1>4 DEF x
<1>6. InStep'
  BY <1>1, <1>2, <1>4, <1>5 DEF InStep
<1> QED BY <1>2, <1>4, <1>5, <1>6 DEF Holder, Past

\* An answer that grants nothing new keeps the invariant, if the reservations
\* are kept and the inbox is as before.
LEMMA PlainAnswer ==
  ASSUME GInv, NEW s \in Streams, NEW a \in Answers, post[s].answer = "none",
         Answer(s, a), inbox' = inbox, \A q \in Requests : Keeps(q),
         a # "ok" \/ Event(s) \in inbox[RequestOf[s]],
         post[s].op # "admit" \/ a # "ok"
  PROVE  GInv'
<1>1. /\ phase' = phase /\ called' = called
      /\ post' \in [Streams -> PostRecord] /\ InStep'
      /\ post'[s].op = post[s].op /\ post'[s].usage = post[s].usage
      /\ post'[s].answer = a
      /\ \A t \in Streams \ {s} : post'[t] = post[t]
      /\ \A t \in Streams : Holder(t) /\ Past(t) => Holder(t)' /\ Past(t)'
      /\ \A t \in Streams : Holder(t)' => Holder(t)
  BY AnswerInOrder
<1>2. GatewayTypes'
  BY <1>1 DEF GInv, GatewayTypes
<1>3. AnswersRecorded'
  BY <1>1 DEF GInv, AnswersRecorded, HasEvent, Event
<1> QED BY <1>1, <1>2, <1>3, OrderlyStep DEF StreamsInOrder

\* A granted admission: nobody else holds the request, for it had no
\* reservation.
LEMMA GrantGInv ==
  ASSUME IInv, GInv, NEW s \in Streams, Waiting(s, "admit"),
         NEW p \in Policies, NEW c \in Costs, Admit(RequestOf[s], p, c),
         Answer(s, "ok"), inbox' = inbox
  PROVE  GInv'
<1> DEFINE r == RequestOf[s]
<1>1. r \in Requests /\ post[s].op = "admit" /\ post[s].answer = "none"
  BY RequestOfType DEF Waiting
<1>2. /\ phase' = phase /\ called' = called
      /\ post' \in [Streams -> PostRecord] /\ InStep'
      /\ post'[s].op = "admit"
      /\ \A t \in Streams \ {s} : post'[t] = post[t]
      /\ \A t \in Streams : Holder(t) /\ Past(t) => Holder(t)' /\ Past(t)'
  BY <1>1, AnswerInOrder DEF Answers
<1>3. /\ \A q \in Requests : Keeps(q)
      /\ res[r].state = Absent /\ res'[r].state # Absent
  BY <1>1, AdmitKeeps
<1>4. \A t \in Streams : RequestOf[t] = r => ~Holder(t)
  BY <1>3 DEF GInv, HoldersAdmitted
<1>5. \A t \in Streams \ {s} : Holder(t)' <=> Holder(t)
  BY <1>2 DEF Holder
<1>6. HoldersAdmitted'
  <2>1. ASSUME NEW t \in Streams, Holder(t)'
        PROVE  res'[RequestOf[t]].state # Absent
    <3>1. CASE t = s
      BY <1>3, <3>1
    <3>2. CASE t # s
      BY <1>3, <1>5, <2>1, <3>2, RequestOfType
         DEF GInv, HoldersAdmitted, Keeps, Stays
    <3> QED BY <3>1, <3>2
  <2> QED BY <2>1 DEF HoldersAdmitted
<1>7. OneHolder'
  BY <1>4, <1>5 DEF GInv, OneHolder
<1>8. CallsHeld'
  BY <1>2 DEF GInv, CallsHeld
<1>9. InboxRecorded'
  BY <1>3 DEF GInv, InboxRecorded, InboxTrue, HasEvent, UsageKept, Keeps, Stays,
     SameUsage
<1>10. AnswersRecorded' /\ GatewayTypes'
  BY <1>2 DEF GInv, AnswersRecorded, GatewayTypes, HasEvent
<1> QED BY <1>2, <1>6, <1>7, <1>8, <1>9, <1>10 DEF GInv

\* Admission requests keep the invariant.
LEMMA ServeAdmitGInv ==
  ASSUME IInv, GInv, NEW s \in Streams, ServeAdmit(s)
  PROVE  GInv'
<1>1. /\ RequestOf[s] \in Requests /\ Waiting(s, "admit") /\ inbox' = inbox
      /\ post[s].answer = "none"
  BY RequestOfType DEF ServeAdmit, Waiting
<1>2. ASSUME NEW p \in Policies, NEW c \in Costs, Admit(RequestOf[s], p, c),
             Answer(s, "ok")
      PROVE  GInv'
  BY <1>1, <1>2, GrantGInv
<1>3. ASSUME NEW p \in Policies, AdmitRefused(RequestOf[s], p),
             Answer(s, "refused")
      PROVE  GInv'
  <2>1. \A q \in Requests : Keeps(q)
    BY <1>1, <1>3, AdmitRefusedKeeps
  <2> QED BY <1>1, <1>3, <2>1, PlainAnswer DEF Answers
<1>4. ASSUME UNCHANGED ledgerVars, Answer(s, "duplicate_request")
      PROVE  GInv'
  <2>1. \A q \in Requests : Keeps(q)
    BY <1>4 DEF ledgerVars, Keeps, Stays, SameUsage
  <2> QED BY <1>1, <1>4, <2>1, PlainAnswer DEF Answers
<1> QED BY <1>2, <1>3, <1>4 DEF ServeAdmit

\* An accepted event is recorded together with what it did.
LEMMA FreshEventGInv ==
  ASSUME IInv, GInv, NEW s \in Streams, post[s].answer = "none",
         Fresh(s), Transition(s), Answer(s, "ok"),
         inbox' = [inbox EXCEPT ![RequestOf[s]] = @ \cup {Event(s)}]
  PROVE  GInv'
<1> DEFINE r == RequestOf[s]
           e == Event(s)
<1>1. /\ r \in Requests /\ inbox \in [Requests -> SUBSET EventRecord]
      /\ post[s] \in PostRecord /\ InStep /\ InboxRecorded
      /\ post[s].op \in {"claim", "delivered", "settle"}
  BY RequestOfType DEF GInv, GatewayTypes, Transition
<1>2. /\ phase' = phase /\ called' = called
      /\ post' \in [Streams -> PostRecord] /\ InStep'
      /\ post'[s].op = post[s].op /\ post'[s].usage = post[s].usage
      /\ \A t \in Streams \ {s} : post'[t] = post[t]
      /\ \A t \in Streams : Holder(t) /\ Past(t) => Holder(t)' /\ Past(t)'
      /\ \A t \in Streams : Holder(t)' => Holder(t)
  BY <1>1, AnswerInOrder DEF Answers
<1>3. e \in EventRecord /\ e.op = post[s].op /\ e.usage = post[s].usage
  BY <1>1 DEF Event, EventRecord, PostRecord
<1>4. /\ inbox'[r] = inbox[r] \cup {e}
      /\ \A q \in Requests \ {r} : inbox'[q] = inbox[q]
      /\ inbox' \in [Requests -> SUBSET EventRecord]
  BY <1>1, <1>3
<1>5. /\ \A q \in Requests \ {r} : Keeps(q)
      /\ Stays(res[r], res'[r])
      /\ e.op = "claim" => Taken(res'[r])
      /\ e.op # "settle" => SameUsage(res[r], res'[r])
      /\ e.op = "settle" => UsageKept(res'[r], e.usage)
  <2>1. CASE post[s].op = "claim"
    <3>1. Dispatch(r, "CLAIMED")
      BY <2>1 DEF Transition
    <3> QED BY <1>1, <1>3, <2>1, <3>1, DispatchKeeps DEF DispatchStatuses, Keeps
  <2>2. CASE post[s].op = "delivered"
    <3>1. Dispatch(r, "DELIVERED")
      BY <2>2 DEF Transition
    <3> QED BY <1>1, <1>3, <2>2, <3>1, DispatchKeeps DEF DispatchStatuses, Keeps
  <2>3. CASE post[s].op = "settle"
    <3>1. /\ Settle(r, post[s].usage) /\ post[s].usage \in Settlements
          /\ post[s].usage.version = 1
      BY <1>1, <2>3 DEF Transition, InStep
    <3>2. res[r].version = 0
      BY <1>1, <2>3 DEF Fresh, InboxRecorded, InboxTrue, HasEvent
    <3> QED BY <1>1, <1>3, <2>3, <3>1, <3>2, SettleKeeps DEF Stays
  <2> QED BY <1>1, <2>1, <2>2, <2>3
<1> HIDE DEF e
<1>6. InboxRecorded'
  <2>1. ASSUME NEW q \in Requests PROVE InboxTrue(res', inbox', q)
    <3>1. CASE q # r
      BY <1>1, <1>4, <1>5, <3>1 DEF InboxRecorded, InboxTrue, HasEvent,
         UsageKept, Keeps, Stays, SameUsage
    <3>2. CASE q = r
      <4>1. HasEvent(inbox', r, "claim") => Taken(res'[r])
        BY <1>1, <1>4, <1>5 DEF InboxRecorded, InboxTrue, HasEvent, Stays
      <4>2. res'[r].version # 0 => HasEvent(inbox', r, "settle")
        BY <1>1, <1>4, <1>5 DEF InboxRecorded, InboxTrue, HasEvent, SameUsage
      <4>3. ASSUME NEW f \in inbox'[r], f.op = "settle"
            PROVE  UsageKept(res'[r], f.usage)
        <5>1. CASE f = e
          BY <1>5, <4>3, <5>1
        <5>2. CASE f # e
          <6>1. f \in inbox[r] /\ UsageKept(res[r], f.usage)
            BY <1>1, <1>4, <4>3, <5>2 DEF InboxRecorded, InboxTrue
          <6>2. e.op # "settle"
            BY <1>3, <4>3, <6>1 DEF Fresh
          <6> QED BY <1>5, <6>1, <6>2 DEF UsageKept, SameUsage
        <5> QED BY <5>1, <5>2
      <4> QED BY <3>2, <4>1, <4>2, <4>3 DEF InboxTrue
    <3> QED BY <3>1, <3>2
  <2> QED BY <2>1 DEF InboxRecorded
<1>7. HoldersAdmitted' /\ OneHolder'
  <2>1. \A q \in Requests : res[q].state # Absent => res'[q].state # Absent
    BY <1>5 DEF Keeps, Stays
  <2> QED BY <1>2, <2>1, RequestOfType DEF GInv, HoldersAdmitted, OneHolder
<1>8. CallsHeld'
  BY <1>2 DEF GInv, CallsHeld
<1>9. AnswersRecorded'
  <2>1. \A q \in Requests : inbox[q] \subseteq inbox'[q]
    BY <1>4
  <2>2. ASSUME NEW t \in Streams, post'[t].op \in {"claim", "settle"},
               post'[t].answer = "ok"
        PROVE  [op |-> post'[t].op, usage |-> post'[t].usage]
                   \in inbox'[RequestOf[t]]
    <3>1. CASE t = s
      BY <1>2, <1>4, <3>1 DEF e, Event
    <3>2. CASE t # s
      BY <1>2, <2>1, <2>2, <3>2, RequestOfType DEF GInv, AnswersRecorded
    <3> QED BY <3>1, <3>2
  <2>3. ASSUME NEW q \in Requests, called'[q] > 0
        PROVE  HasEvent(inbox', q, "claim")
    BY <1>2, <2>1, <2>3 DEF GInv, AnswersRecorded, HasEvent
  <2> QED BY <2>2, <2>3 DEF AnswersRecorded
<1>10. GatewayTypes'
  BY <1>2, <1>4 DEF GInv, GatewayTypes
<1> QED BY <1>2, <1>6, <1>7, <1>8, <1>9, <1>10 DEF GInv

\* Every gateway step keeps the invariant.
LEMMA GatewayStepGInv ==
  ASSUME IInv, GInv, [GatewayNext]_gatewayVars
  PROVE  GInv'
<1>1. CASE UNCHANGED gatewayVars
  <2>1. GatewayTypes' /\ InStep'
    BY <1>1 DEF gatewayVars, GInv, GatewayTypes, InStep
  <2>2. HoldersAdmitted' /\ OneHolder'
    BY <1>1 DEF gatewayVars, GInv, HoldersAdmitted, OneHolder, Holder, Past
  <2>3. CallsHeld'
    BY <1>1 DEF gatewayVars, GInv, CallsHeld, Holder, Past
  <2>4. InboxRecorded'
    BY <1>1 DEF gatewayVars, GInv, InboxRecorded, InboxTrue, HasEvent
  <2>5. AnswersRecorded'
    BY <1>1 DEF gatewayVars, GInv, AnswersRecorded, HasEvent
  <2> QED BY <2>1, <2>2, <2>3, <2>4, <2>5 DEF GInv
<1>2. ASSUME NEW s \in Streams, ServeEvent(s)
      PROVE  GInv'
  <2>1. /\ post[s].op \in {"claim", "delivered", "settle"}
        /\ post[s].answer = "none" /\ Answer(s, "ok")
    BY <1>2 DEF ServeEvent
  <2>2. CASE Seen(s) /\ UNCHANGED <<now, res, tenant, paid, inbox>>
    <3>1. \A q \in Requests : Keeps(q)
      BY <2>2 DEF Keeps, Stays, SameUsage
    <3> QED BY <2>1, <2>2, <3>1, PlainAnswer DEF Seen, Answers
  <2> QED BY <1>2, <2>1, <2>2, FreshEventGInv DEF ServeEvent
<1>3. ASSUME NEW s \in Streams, ServeError(s)
      PROVE  GInv'
  <2>1. \A q \in Requests : Keeps(q)
    BY <1>3 DEF ServeError, Keeps, Stays, SameUsage
  <2> QED BY <1>3, <2>1, PlainAnswer DEF ServeError, Answers
<1>4. ASSUME UNCHANGED <<phase, post, inbox, called>>,
             \A q \in Requests : Keeps(q)
      PROVE  GInv'
  <2>1. StreamsInOrder
    BY <1>4 DEF GInv, StreamsInOrder, GatewayTypes, InStep, Holder, Past
  <2>2. AnswersRecorded'
    BY <1>4 DEF GInv, AnswersRecorded, HasEvent
  <2> QED BY <1>4, <2>1, <2>2, OrderlyStep
<1>5. ASSUME NEW r \in Requests, ServeCancel(r)
      PROVE  GInv'
  BY <1>4, <1>5, CancelKeeps DEF ServeCancel
<1>6. CASE Background
  <2>1. UNCHANGED <<phase, post, inbox, called>>
    BY <1>6 DEF Background
  <2> QED BY <1>4, <1>6, <2>1, BackgroundKeeps
<1> QED BY <1>1, <1>2, <1>3, <1>5, <1>6, ProcessGInv, ServeAdmitGInv
        DEF GatewayNext, Serve

\* The invariant holds initially.
LEMMA GatewayInitGInv ==
  ASSUME GatewayInit
  PROVE  IInv /\ GInv
<1>1. IInv
  BY InitIInv DEF GatewayInit
<1>2. NoPost \in PostRecord /\ NoPost.op = "none" /\ NoPost.answer = "none"
  BY DEF NoPost, PostRecord, Ops, Answers
<1>3. /\ \A s \in Streams : phase[s] = "started" /\ post[s] = NoPost
      /\ \A r \in Requests : /\ inbox[r] = {} /\ called[r] = 0
                             /\ res[r] = NoReservation
      /\ phase \in [Streams -> Phases] /\ post \in [Streams -> PostRecord]
      /\ inbox \in [Requests -> SUBSET EventRecord]
      /\ called \in [Requests -> Nat]
  BY <1>2 DEF GatewayInit, Init, Phases
<1>4. GatewayTypes /\ InStep
  BY <1>2, <1>3 DEF GatewayTypes, InStep, OpOf
<1>5. \A s \in Streams : ~Holder(s)
  BY <1>2, <1>3 DEF Holder
<1>6. HoldersAdmitted /\ OneHolder /\ CallsHeld
  BY <1>3, <1>5 DEF HoldersAdmitted, OneHolder, CallsHeld
<1>7. InboxRecorded
  BY <1>3 DEF InboxRecorded, InboxTrue, HasEvent, NoReservation, NewReservation
<1>8. AnswersRecorded
  BY <1>2, <1>3 DEF AnswersRecorded
<1> QED BY <1>1, <1>4, <1>6, <1>7, <1>8 DEF GInv

-----------------------------------------------------------------------------
\* The ledger's invariant and the gateway's hold together.
THEOREM GatewayInvariant == GatewaySpec => [](IInv /\ GInv)
<1>1. GatewayInit => IInv /\ GInv
  BY GatewayInitGInv
<1>2. IInv /\ GInv /\ [GatewayNext]_gatewayVars => (IInv /\ GInv)'
  <2>1. ASSUME IInv, GInv, [GatewayNext]_gatewayVars
        PROVE  IInv' /\ GInv'
    <3>1. [Next]_vars
      BY <2>1, GatewayStepLedger DEF GInv
    <3> QED BY <2>1, <3>1, NextIInv, GatewayStepGInv
  <2> QED BY <2>1
<1> QED BY <1>1, <1>2, PTL DEF GatewaySpec

\* Streams and handlers together only do to the ledger what GovarLedger allows:
\* every theorem about the ledger holds of governed requests.
THEOREM GatewayImplementsLedger == GatewaySpec => Spec
<1>1. GatewayInit => Init
  BY DEF GatewayInit
<1>2. GInv /\ [GatewayNext]_gatewayVars => [Next]_vars
  BY GatewayStepLedger DEF GInv
<1> QED BY <1>1, <1>2, GatewayInvariant, PTL DEF GatewaySpec, Spec

\* No request ever leads to two provider calls.
THEOREM AtMostOneCall == GatewaySpec => []OneProviderCall
<1>1. GInv => OneProviderCall
  BY DEF GInv, CallsHeld, OneProviderCall
<1> QED BY <1>1, GatewayInvariant, PTL

\* A request whose provider may have been called is never released.
THEOREM CallsStayLiable == GatewaySpec => []CalledIsNeverReleased
<1>1. ASSUME IInv, GInv, NEW r \in Requests, called[r] > 0
      PROVE  /\ res[r].outbox \in {"CLAIMED", "DELIVERED"}
             /\ res[r].state \notin {Absent, "RESERVED"}
             /\ Active(res[r]) \/ res[r].finalized
  <2>1. Taken(res[r])
    BY <1>1 DEF GInv, AnswersRecorded, InboxRecorded, InboxTrue
  <2>2. Shape(res[r], tenant[Owner[r]].window) /\ res[r] \in ReservationRecord
    BY <1>1, OwnerType DEF IInv, Good, Account, RequestsOf
  <2> QED BY <2>1, <2>2 DEF Taken, Shape, OutboxFits, Active, Absent
<1>2. IInv /\ GInv => CalledIsNeverReleased
  BY <1>1 DEF CalledIsNeverReleased
<1> QED BY <1>2, GatewayInvariant, PTL

\* No response reaches its caller before its cost is in the ledger.
THEOREM ResponsesAreSettled == GatewaySpec => []AnsweredIsSettled
<1>1. ASSUME GInv, NEW s \in Streams, phase[s] = "answered"
      PROVE  UsageKept(res[RequestOf[s]], post[s].usage)
  <2>1. post[s].op = "settle" /\ post[s].answer = "ok"
    BY <1>1 DEF GInv, InStep, OpOf
  <2>2. [op |-> post[s].op, usage |-> post[s].usage] \in inbox[RequestOf[s]]
    BY <1>1, <2>1 DEF GInv, AnswersRecorded
  <2> QED BY <1>1, <2>1, <2>2, RequestOfType DEF GInv, InboxRecorded, InboxTrue
<1>2. GInv => AnsweredIsSettled
  BY <1>1 DEF AnsweredIsSettled, UsageKept
<1> QED BY <1>2, GatewayInvariant, PTL

=============================================================================
