------------------------ MODULE ChangeControlProofs ------------------------
(***************************************************************************)
(* Two-person control holds for every set of users, reviewers and names,   *)
(* and for any number of objects, edits and ticks: the evidence a status   *)
(* carries and the admission that relies on it are what a reviewer other   *)
(* than the requester decided.  Nothing is assumed of None.               *)
(***************************************************************************)
EXTENDS ChangeControl, TLAPS

-----------------------------------------------------------------------------
(* The inductive invariant *)

\* The fields of an AIChangeRequest and of its status.
IsChange(c) ==
    c = [uid |-> c.uid, gen |-> c.gen, scope |-> c.scope,
         scopeDigest |-> c.scopeDigest, requestedBy |-> c.requestedBy,
         proposalDigest |-> c.proposalDigest, approval |-> c.approval,
         decision |-> c.decision, status |-> c.status]

IsStatus(s) ==
    s = [phase |-> s.phase, observed |-> s.observed, expiresAt |-> s.expiresAt,
         approvedScope |-> s.approvedScope, approvedDecision |-> s.approvedDecision,
         approvedBy |-> s.approvedBy]

WellFormed(c) == IsChange(c) /\ IsStatus(c.status)

\* Who created and who decided each object ever created.
ScopeRecords == [refs : [Kinds -> Nat], validUntil : Nat]
Acts == [creator : Users, decider : Users \cup {None}, scope : ScopeRecords \cup {None}]

Shapes ==
    /\ live \in [Kinds -> Nat]
    /\ change = [n \in Names |-> change[n]]
    /\ work = [n \in Names |-> work[n]]
    /\ uids \in Nat
    /\ acts \in Seq(Acts)
    /\ Len(acts) = uids

\* The status s claims no approval but the one the object c carries.
Vouches(c, s) ==
    s.phase = "Approved" =>
        /\ c.approval = "Approved"
        /\ s.observed = c.gen
        /\ s.approvedBy = c.decision.record.reviewer
        /\ s.approvedScope = ScopeDigest(c.scope)

\* What was done to the object c is its decision by the reviewer it names.
Reviewed(c, act) ==
    /\ c.decision # None
    /\ act.decider = c.decision.record.reviewer
    /\ act.decider \in Reviewers
    /\ act.decider # act.creator
    /\ act.scope = c.scope

\* What holds of a stored object, given what was done to it.
Genuine(c, act) ==
    /\ WellFormed(c)
    /\ c.scope \in ScopeRecords
    /\ c.requestedBy = act.creator
    /\ c.approval = "Pending" => c.decision = None
    /\ c.approval # "Pending" => Reviewed(c, act)
    /\ Vouches(c, c.status)

Stored ==
    \A n \in Names : change[n] # Absent =>
        /\ change[n].uid \in 1 .. uids
        /\ Genuine(change[n], acts[change[n].uid])

\* No two stored objects have the same UID.
OwnUid ==
    \A m, n \in Names :
        change[m] # Absent /\ change[n] # Absent /\ change[m].uid = change[n].uid => m = n

\* An update in flight changes something, and neither identity nor status.
Altered(old, next) ==
    /\ IsChange(next)
    /\ next # old
    /\ next.uid = old.uid
    /\ next.gen = old.gen
    /\ next.status = old.status

InFlight ==
    review # None => /\ review.name \in Names
                     /\ review.old.uid # 0
                     /\ Altered(review.old, review.next)

\* A reconcile in flight: the copy it read, not yet terminal once it is past
\* the check, and the status it is about to store.
Busy(w) ==
    /\ w.stage \in {"idle", "read", "checked", "store"}
    /\ w.stage # "idle" => w.obj.uid # 0 /\ WellFormed(w.obj)
    /\ w.stage \in {"checked", "store"} =>
          /\ w.obj.status.phase \notin Terminal
          /\ IsStatus(w.status)
    /\ w.stage = "checked" => w.status.observed = w.obj.gen
    /\ w.stage = "store" => Vouches(w.obj, w.status)

Reconciling == \A n \in Names : Busy(work[n])

\* What the request in progress has read was live during the request.
ReadSoFar(stage) ==
    CASE stage = "policy" -> {"policy"}
      [] stage = "model" -> {"policy", "model"}
      [] stage = "provider" -> {"policy", "model", "provider"}

Reading ==
    request # Idle =>
        /\ request = [stage |-> request.stage, seen |-> request.seen,
                      during |-> request.during]
        /\ request.stage \in Kinds
        /\ request.seen = [k \in ReadSoFar(request.stage) |-> request.seen[k]]
        /\ live \in request.during
        /\ \A k \in ReadSoFar(request.stage) :
              \E l \in request.during : l[k] = request.seen[k]

\* The last admission rests on a decision that is still on record, and no
\* stored object of that UID can be decided again.
Rests ==
    admitted # None =>
        /\ admitted.uid \in 1 .. uids
        /\ AdmittedIsReviewed
        /\ AdmittedScopeWasCurrent
        /\ \A n \in Names : change[n] # Absent /\ change[n].uid = admitted.uid
                                => change[n].approval # "Pending"

ChangeInv ==
    /\ Shapes
    /\ Stored
    /\ OwnUid
    /\ InFlight
    /\ Reconciling
    /\ Reading
    /\ Rests

-----------------------------------------------------------------------------
LEMMA InitHolds == ChangeInit => ChangeInv
<1> SUFFICES ASSUME ChangeInit PROVE ChangeInv
  OBVIOUS
<1>1. Shapes
  BY DEF ChangeInit, Shapes, Kinds
<1>2. Stored /\ OwnUid /\ InFlight /\ Rests
  BY DEF ChangeInit, Stored, OwnUid, InFlight, Rests
<1>3. Reconciling
  BY DEF ChangeInit, Reconciling, Busy, Idle
<1>4. Reading
  BY DEF ChangeInit, Reading
<1> QED BY <1>1, <1>2, <1>3, <1>4 DEF ChangeInv

-----------------------------------------------------------------------------
(* What a step leaves alone, it preserves. *)

LEMMA ShapesKept ==
    Shapes /\ UNCHANGED <<live, change, work, uids, acts>> => Shapes'
BY DEF Shapes

LEMMA ObjectsKept ==
    Stored /\ OwnUid /\ UNCHANGED <<change, uids, acts>> => Stored' /\ OwnUid'
BY DEF Stored, OwnUid, Genuine, Reviewed

LEMMA InFlightKept == InFlight /\ UNCHANGED review => InFlight'
BY DEF InFlight

LEMMA ReconcilingKept == Reconciling /\ UNCHANGED work => Reconciling'
BY DEF Reconciling

LEMMA ReadingKept == Reading /\ UNCHANGED <<live, request>> => Reading'
BY DEF Reading

LEMMA RestsKept ==
    Rests /\ UNCHANGED <<change, uids, acts, admitted>> => Rests'
BY DEF Rests, AdmittedIsReviewed, AdmittedScopeWasCurrent

\* An object whose UID, scope and decision stay, and whose new status vouches
\* for no more than its decision, stays genuine.
LEMMA StatusWriteIsGenuine ==
    ASSUME NEW c, NEW s, NEW act, Genuine(c, act), IsStatus(s), Vouches(c, s)
    PROVE  Genuine([c EXCEPT !.status = s], act)
<1> DEFINE d == [c EXCEPT !.status = s]
<1>1. /\ d.uid = c.uid /\ d.gen = c.gen /\ d.scope = c.scope
      /\ d.requestedBy = c.requestedBy /\ d.approval = c.approval
      /\ d.decision = c.decision /\ d.status = s
      /\ d.scopeDigest = c.scopeDigest /\ d.proposalDigest = c.proposalDigest
  BY DEF Genuine, WellFormed, IsChange
<1>2. IsChange(d)
  BY DEF Genuine, WellFormed, IsChange
<1> HIDE DEF d
<1>3. Genuine(d, act)
  BY <1>1, <1>2 DEF Genuine, WellFormed, Reviewed, Vouches
<1> QED BY <1>3 DEF d

\* The write of a status that vouches for the stored object.
LEMMA StatusWrite ==
    ASSUME Stored, OwnUid, Rests, Shapes, UNCHANGED <<uids, acts, admitted>>,
           NEW n \in Names, NEW s, change[n] # Absent, IsStatus(s),
           Vouches(change[n], s),
           change' = [change EXCEPT ![n] = [change[n] EXCEPT !.status = s]]
    PROVE  Stored' /\ OwnUid' /\ Rests' /\ change' = [m \in Names |-> change'[m]]
<1> DEFINE d == [change[n] EXCEPT !.status = s]
<1>1. Genuine(change[n], acts[change[n].uid]) /\ change[n].uid \in 1 .. uids
  BY DEF Stored
<1>2. Genuine(d, acts[change[n].uid])
  BY <1>1, StatusWriteIsGenuine
<1>3. d.uid = change[n].uid /\ d.approval = change[n].approval
  BY <1>1 DEF Genuine, WellFormed, IsChange
<1> HIDE DEF d
<1>4. change' = [change EXCEPT ![n] = d]
  BY DEF d
<1>5. \A m \in Names : change'[m] = IF m = n THEN d ELSE change[m]
  BY <1>4 DEF Shapes
<1>7. Stored'
  BY <1>1, <1>2, <1>3, <1>5 DEF Stored
<1>8. OwnUid'
  BY <1>3, <1>5 DEF OwnUid
<1>9. Rests'
  BY <1>3, <1>5 DEF Rests, AdmittedIsReviewed, AdmittedScopeWasCurrent
<1>10. change' = [m \in Names |-> change'[m]]
  BY <1>4 DEF Shapes
<1> QED BY <1>7, <1>8, <1>9, <1>10

-----------------------------------------------------------------------------
(* Clients *)

LEMMA TickHolds == ChangeInv /\ Tick => ChangeInv'
BY ShapesKept, ObjectsKept, InFlightKept, ReconcilingKept, ReadingKept, RestsKept
   DEF ChangeInv, Tick

LEMMA DeleteHolds ==
    ASSUME ChangeInv, NEW n \in Names, Delete(n)
    PROVE  ChangeInv'
<1> USE DEF ChangeInv, Delete
<1>1. \A m \in Names : change'[m] = IF m = n THEN Absent ELSE change[m]
  BY DEF Shapes
<1>2. Shapes'
  BY DEF Shapes
<1>3. Stored' /\ OwnUid'
  BY <1>1 DEF Stored, OwnUid, Genuine, Reviewed
<1>4. Rests'
  BY <1>1 DEF Rests, AdmittedIsReviewed, AdmittedScopeWasCurrent
<1> QED BY <1>2, <1>3, <1>4, InFlightKept, ReconcilingKept, ReadingKept

LEMMA CreateHolds ==
    ASSUME ChangeInv, ChangeAssumption, NEW user \in Users, NEW n \in Names,
           NEW scope \in Scopes, NEW digest, Create(user, n, scope, digest)
    PROVE  ChangeInv'
<1> DEFINE c == NewChange(user, scope, digest)
           stamped == [c EXCEPT !.proposalDigest = ProposalDigest(c)]
           act == [creator |-> user, decider |-> None, scope |-> None]
<1>1. /\ change[n] = Absent
      /\ change' = [change EXCEPT ![n] = stamped]
      /\ uids' = uids + 1
      /\ acts' = Append(acts, act)
      /\ UNCHANGED <<now, live, review, work, request, admitted>>
  BY DEF Create
<1>2. IsChange(stamped) /\ stamped.uid = uids + 1 /\ stamped.approval = "Pending"
      /\ stamped.decision = None /\ stamped.requestedBy = user
      /\ stamped.scope = scope /\ stamped.status = EmptyStatus
  BY DEF NewChange, IsChange
<1>3. IsStatus(EmptyStatus) /\ EmptyStatus.phase # "Approved"
  BY DEF EmptyStatus, IsStatus
<1>4. scope \in ScopeRecords
  BY DEF Scopes, ScopeRecords, ChangeInv, Shapes, ChangeAssumption
<1>5. act \in Acts
  BY DEF Acts
<1> HIDE DEF c, stamped, act
<1>6. \A m \in Names : change'[m] = IF m = n THEN stamped ELSE change[m]
  BY <1>1 DEF ChangeInv, Shapes
<1>7. acts' \in Seq(Acts) /\ Len(acts') = uids + 1
      /\ acts'[uids + 1] = act /\ \A i \in 1 .. uids : acts'[i] = acts[i]
  BY <1>1, <1>5 DEF ChangeInv, Shapes
<1>8. uids \in Nat
  BY DEF ChangeInv, Shapes
<1>9. Shapes'
  <2>1. change' = [m \in Names |-> change'[m]]
    BY <1>1 DEF ChangeInv, Shapes
  <2> QED BY <2>1, <1>1, <1>7, <1>8 DEF ChangeInv, Shapes
<1>10. Stored'
  <2> SUFFICES ASSUME NEW m \in Names, change'[m] # Absent
               PROVE  /\ change'[m].uid \in 1 .. uids'
                      /\ Genuine(change'[m], acts'[change'[m].uid])
    BY DEF Stored
  <2>1. CASE m = n
    <3>1. change'[m] = stamped
      BY <1>6, <2>1
    <3>2. act.creator = user
      BY DEF act
    <3>3. Genuine(stamped, act)
      BY <3>2, <1>2, <1>3, <1>4 DEF Genuine, WellFormed, Vouches
    <3> QED BY <3>1, <3>3, <1>1, <1>2, <1>7, <1>8
  <2>2. CASE m # n
    <3>1. /\ change'[m] = change[m] /\ change[m].uid \in 1 .. uids
          /\ Genuine(change[m], acts[change[m].uid])
      BY <1>6, <2>2 DEF ChangeInv, Stored
    <3> QED BY <3>1, <1>1, <1>7, <1>8
  <2> QED BY <2>1, <2>2
<1>11. \A m \in Names : change[m] # Absent => change[m].uid \in 1 .. uids
  BY DEF ChangeInv, Stored
<1>12. OwnUid'
  BY <1>2, <1>6, <1>8, <1>11 DEF ChangeInv, OwnUid
<1>13. Rests'
  BY <1>1, <1>2, <1>6, <1>7, <1>8, <1>11
     DEF ChangeInv, Rests, AdmittedIsReviewed, AdmittedScopeWasCurrent
<1> QED BY <1>1, <1>9, <1>10, <1>12, <1>13, InFlightKept, ReconcilingKept, ReadingKept
        DEF ChangeInv

\* What a client may submit differs from the stored object in its proposal and
\* its decision at most.
SameIdentity(c, x) ==
    IsChange(x) /\ x.uid = c.uid /\ x.gen = c.gen /\ x.status = c.status

LEMMA DecidedKeepsIdentity ==
    ASSUME NEW c, NEW x, SameIdentity(c, x), NEW a, NEW d
    PROVE  SameIdentity(c, Decided(x, a, d))
<1> DEFINE y == [x EXCEPT !.approval = a]
<1>1. SameIdentity(c, y)
  BY DEF SameIdentity, IsChange
<1>2. Decided(x, a, d) = [y EXCEPT !.decision = d]
  BY DEF Decided
<1> HIDE DEF y
<1>3. SameIdentity(c, [y EXCEPT !.decision = d])
  BY <1>1 DEF SameIdentity, IsChange
<1> QED BY <1>2, <1>3

LEMMA ProlongedKeepsIdentity ==
    ASSUME NEW c, NEW x, SameIdentity(c, x)
    PROVE  SameIdentity(c, Prolonged(x))
<1> DEFINE longer == [x.scope EXCEPT !.validUntil = @ + 1]
           y == [x EXCEPT !.scope = longer]
           moved == [x EXCEPT !.scope = longer, !.scopeDigest = ScopeDigest(longer)]
<1>1. Prolonged(x) = [moved EXCEPT !.proposalDigest = ProposalDigest(moved)]
  BY Zenon DEF Prolonged
<1>2. moved = [y EXCEPT !.scopeDigest = ScopeDigest(longer)]
  OBVIOUS
<1> HIDE DEF moved, longer
<1>3. SameIdentity(c, y)
  BY DEF SameIdentity, IsChange
<1> HIDE DEF y
<1>4. SameIdentity(c, [y EXCEPT !.scopeDigest = ScopeDigest(longer)])
  BY <1>3 DEF SameIdentity, IsChange
<1>5. SameIdentity(c, moved)
  BY <1>2, <1>4
<1>6. SameIdentity(c, [moved EXCEPT !.proposalDigest = ProposalDigest(moved)])
  BY <1>5 DEF SameIdentity, IsChange
<1> QED BY <1>1, <1>6

LEMMA SubmissionKeepsIdentity ==
    ASSUME NEW c, IsChange(c), NEW next \in Submissions(c)
    PROVE  SameIdentity(c, next)
<1> DEFINE forged == {Decision(c, o, r, now) : o \in Outcomes, r \in Reviewers}
           asked == Outcomes \cup {"Pending"}
           given == {None, c.decision} \cup forged
           plain == {Decided(c, a, d) : a \in asked, d \in given}
<1>1. next \in plain \/ \E x \in plain : next = Prolonged(x)
  <2>1. Submissions(c) = plain \cup {Prolonged(x) : x \in plain}
    BY DEF Submissions
  <2> HIDE DEF plain
  <2> QED BY <2>1
<1> HIDE DEF asked, given
<1>2. SameIdentity(c, c)
  BY DEF SameIdentity
<1>3. \A x \in plain : SameIdentity(c, x)
  BY <1>2, DecidedKeepsIdentity
<1> HIDE DEF plain
<1> QED BY <1>1, <1>3, ProlongedKeepsIdentity

LEMMA SubmitHolds ==
    ASSUME ChangeInv, NEW user \in Users, NEW n \in Names, change[n] # Absent,
           NEW next \in Submissions(change[n]), Submit(user, n, next)
    PROVE  ChangeInv'
<1> DEFINE old == change[n]
           decided == [next EXCEPT !.decision = Decision(old, next.approval, user, now)]
<1>1. IsChange(old)
  BY DEF ChangeInv, Stored, Genuine, WellFormed
<1>2. /\ IsChange(next)
      /\ next.uid = old.uid /\ next.gen = old.gen /\ next.status = old.status
  BY <1>1, SubmissionKeepsIdentity DEF SameIdentity
<1>3. next # old
  BY DEF Submit
<1>4. Altered(old, next)
  BY <1>2, <1>3 DEF Altered
<1>5. next.approval # old.approval => Altered(old, decided)
  <2>1. /\ IsChange(decided) /\ decided.approval = next.approval
        /\ decided.uid = next.uid /\ decided.gen = next.gen
        /\ decided.status = next.status
    BY <1>2 DEF IsChange
  <2> HIDE DEF decided
  <2> QED BY <1>2, <2>1 DEF Altered
<1>6. \/ review' = [name |-> n, user |-> user, old |-> old, next |-> next]
      \/ /\ next.approval # old.approval
         /\ review' = [name |-> n, user |-> user, old |-> old, next |-> decided]
  BY DEF Submit, DecidingUpdateMutated, Outcomes
<1>9. old.uid # 0
  BY DEF ChangeInv, Stored, Shapes
<1> HIDE DEF old, decided
<1>7. InFlight'
  BY <1>4, <1>5, <1>6, <1>9 DEF InFlight
<1>8. UNCHANGED <<now, live, change, work, request, uids, acts, admitted>>
  BY DEF Submit
<1> QED BY <1>7, <1>8, ShapesKept, ObjectsKept, ReconcilingKept, ReadingKept, RestsKept
        DEF ChangeInv

LEMMA EditHolds ==
    ASSUME ChangeInv, NEW k \in Kinds, Edit(k)
    PROVE  ChangeInv'
<1>1. UNCHANGED <<now, change, review, work, uids, acts, admitted>>
  BY DEF Edit
<1>2. live' \in [Kinds -> Nat]
  BY DEF Edit, ChangeInv, Shapes
<1>3. Shapes'
  BY <1>1, <1>2 DEF ChangeInv, Shapes
<1>4. Reading'
  <2>1. CASE request = Idle
    BY <2>1 DEF Edit, Reading, Idle
  <2>2. CASE request # Idle
    <3>1. request' = [request EXCEPT !.during = request.during \cup {live'}]
      BY <2>2 DEF Edit
    <3>2. request = [stage |-> request.stage, seen |-> request.seen,
                     during |-> request.during]
      BY <2>2 DEF ChangeInv, Reading
    <3>3. /\ request' = [stage |-> request'.stage, seen |-> request'.seen,
                         during |-> request'.during]
          /\ request'.stage = request.stage /\ request'.seen = request.seen
          /\ request'.during = request.during \cup {live'}
      BY <3>1, <3>2
    <3> QED BY <2>2, <3>3 DEF ChangeInv, Reading
  <2> QED BY <2>1, <2>2
<1> QED BY <1>1, <1>3, <1>4, ObjectsKept, InFlightKept, ReconcilingKept, RestsKept
        DEF ChangeInv

\* A decided object admits no update: every field a client may change is bound
\* by the decision or by an immutability rule.
LEMMA DecidedIsImmutable ==
    ASSUME NEW old, NEW next, IsChange(old), Altered(old, next), RulesHold(old, next),
           old.approval # "Pending", old.decision # None
    PROVE  FALSE
<1>1. /\ next.scope = old.scope /\ next.scopeDigest = old.scopeDigest
      /\ next.requestedBy = old.requestedBy
      /\ next.proposalDigest = old.proposalDigest
      /\ next.decision = old.decision /\ next.approval = old.approval
  BY DEF RulesHold
<1>2. next = old
  BY <1>1 DEF Altered, IsChange
<1> QED BY <1>2 DEF Altered

\* The update the API server stores, and what it makes of the stored object.
Stores ==
    /\ change[review.name] = review.old
    /\ UpdateValidated(review.user, review.old, review.next)
    /\ RulesHold(review.old, review.next)

LEMMA PersistHolds ==
    ASSUME ChangeInv, Persist
    PROVE  ChangeInv'
<1> DEFINE n == review.name
           old == review.old
           next == review.next
           stored == [next EXCEPT !.gen = @ + 1]
<1>1. review # None /\ review' = None
      /\ UNCHANGED <<now, live, work, request, uids, admitted>>
  BY DEF Persist
<1>2. n \in Names /\ old.uid # 0 /\ Altered(old, next)
  BY <1>1 DEF ChangeInv, InFlight
<1>3. InFlight'
  BY <1>1 DEF InFlight
<1>4. ~Stores => UNCHANGED <<change, acts>>
  BY DEF Persist, Stores, Matches
<1>5. CASE ~Stores
  BY <1>1, <1>3, <1>4, <1>5, ShapesKept, ObjectsKept, ReconcilingKept, ReadingKept,
     RestsKept DEF ChangeInv
<1>6. CASE Stores
  <2>1. /\ change' = [change EXCEPT ![n] = stored]
        /\ acts' = IF next.approval = old.approval THEN acts
                   ELSE [acts EXCEPT ![old.uid].decider = review.user,
                                  ![old.uid].scope = old.scope]
    BY <1>6 DEF Persist, Stores
  <2>2. /\ change[n] = old
        /\ UpdateValidated(review.user, old, next)
        /\ RulesHold(old, next)
    BY <1>6 DEF Stores
  <2>3. /\ change[n] # Absent
        /\ old.uid \in 1 .. uids
        /\ Genuine(old, acts[old.uid])
    BY <1>2, <2>2 DEF ChangeInv, Stored, Absent
  <2>4. /\ IsChange(stored) /\ stored.uid = old.uid /\ stored.status = old.status
        /\ stored.scope = next.scope /\ stored.requestedBy = next.requestedBy
        /\ stored.approval = next.approval /\ stored.decision = next.decision
    BY <1>2 DEF Altered, IsChange
  <2>5. old.approval = "Pending" /\ old.decision = None
    BY <1>2, <2>2, <2>3, DecidedIsImmutable DEF Genuine, WellFormed, Reviewed
  <2>6. /\ next.scope = old.scope /\ next.requestedBy = old.requestedBy
        /\ next.approval = "Pending" => next.decision = None
        /\ next.approval # "Pending" => next.decision # None
    BY <2>2 DEF RulesHold
  <2>7. old.status.phase # "Approved"
    BY <2>3, <2>5 DEF Genuine, Vouches
  <2> HIDE DEF stored
  <2>8. \A m \in Names : change'[m] = IF m = n THEN stored ELSE change[m]
    BY <2>1 DEF ChangeInv, Shapes
  <2>9. change' = [m \in Names |-> change'[m]]
    BY <2>1 DEF ChangeInv, Shapes
  <2>10. acts \in Seq(Acts) /\ Len(acts) = uids /\ uids \in Nat
    BY DEF ChangeInv, Shapes
  <2>11. \A m \in Names : m # n /\ change[m] # Absent => change[m].uid # old.uid
    BY <1>2, <2>2, <2>3 DEF ChangeInv, OwnUid
  <2>12. CASE next.approval = old.approval
    <3>1. acts' = acts
      BY <2>1, <2>12
    <3>2. Genuine(stored, acts[old.uid])
      BY <2>3, <2>4, <2>5, <2>6, <2>7, <2>12 DEF Genuine, WellFormed, Vouches
    <3>3. Stored'
      BY <1>1, <2>3, <2>4, <2>8, <3>1, <3>2 DEF ChangeInv, Stored
    <3>4. OwnUid'
      BY <2>2, <2>3, <2>4, <2>8 DEF ChangeInv, OwnUid
    <3>5. Rests'
      BY <1>1, <2>2, <2>3, <2>4, <2>5, <2>8, <2>12, <3>1
         DEF ChangeInv, Rests, AdmittedIsReviewed, AdmittedScopeWasCurrent
    <3>6. Shapes'
      BY <1>1, <2>9, <3>1 DEF ChangeInv, Shapes
    <3> QED BY <1>1, <1>3, <3>3, <3>4, <3>5, <3>6, ReconcilingKept, ReadingKept
            DEF ChangeInv
  <2>13. CASE next.approval # old.approval
    <3> DEFINE act == [acts[old.uid] EXCEPT !.decider = review.user, !.scope = old.scope]
    <3>1. acts' = [acts EXCEPT ![old.uid] = act]
      BY <2>1, <2>13
    <3>2. /\ review.user \in Reviewers /\ review.user # old.requestedBy
          /\ next.approval \in Outcomes
          /\ next.decision.record.reviewer = review.user
      BY <2>2, <2>5, <2>13 DEF UpdateValidated, UndecidedUpdateAllowed,
         IndependentReviewer, ValidTransitionDecision
    <3>3. acts[old.uid] \in Acts /\ old.scope \in ScopeRecords
      BY <2>3, <2>10 DEF Genuine
    <3>4. act \in Acts /\ act.creator = acts[old.uid].creator
          /\ act.decider = review.user /\ act.scope = old.scope
      BY <3>2, <3>3, ChangeAssumption DEF Acts, ChangeAssumption
    <3> HIDE DEF act
    <3>5. acts' \in Seq(Acts) /\ Len(acts') = uids
          /\ acts'[old.uid] = act
          /\ \A i \in 1 .. uids : i # old.uid => acts'[i] = acts[i]
      BY <2>3, <2>10, <3>1, <3>4
    <3>6. Genuine(stored, act)
      BY <2>3, <2>4, <2>5, <2>6, <2>7, <2>13, <3>2, <3>4
         DEF Genuine, WellFormed, Vouches, Reviewed
    <3>7. Stored'
      BY <1>1, <2>3, <2>4, <2>8, <2>11, <3>5, <3>6 DEF ChangeInv, Stored
    <3>8. OwnUid'
      BY <2>2, <2>3, <2>4, <2>8 DEF ChangeInv, OwnUid
    <3>9. admitted # None => admitted.uid # old.uid
      BY <1>2, <2>2, <2>3, <2>5 DEF ChangeInv, Rests
    <3>10. Rests'
      BY <1>1, <2>4, <2>8, <3>5, <3>9
         DEF ChangeInv, Rests, AdmittedIsReviewed, AdmittedScopeWasCurrent
    <3>11. Shapes'
      BY <1>1, <2>9, <2>10, <3>5 DEF ChangeInv, Shapes
    <3> QED BY <1>1, <1>3, <3>7, <3>8, <3>10, <3>11, ReconcilingKept, ReadingKept
            DEF ChangeInv
  <2> QED BY <2>12, <2>13
<1> QED BY <1>5, <1>6

-----------------------------------------------------------------------------
(* The controller *)

\* A step of one reconcile that leaves the others alone.
LEMMA WorkWrite ==
    ASSUME Reconciling, Shapes, NEW n \in Names, NEW w, Busy(w),
           work' = [work EXCEPT ![n] = w]
    PROVE  Reconciling' /\ work' = [m \in Names |-> work'[m]]
<1>1. \A m \in Names : work'[m] = IF m = n THEN w ELSE work[m]
  BY DEF Shapes
<1>2. Reconciling'
  BY <1>1 DEF Reconciling
<1>3. work' = [m \in Names |-> work'[m]]
  BY DEF Shapes
<1> QED BY <1>2, <1>3

LEMMA IdleIsBusy == Busy(Idle)
BY DEF Busy, Idle

LEMMA ReconcileReadHolds ==
    ASSUME ChangeInv, NEW n \in Names, ReconcileRead(n)
    PROVE  ChangeInv'
<1> DEFINE w == [stage |-> "read", obj |-> change[n]]
<1>1. change[n].uid # 0 /\ WellFormed(change[n])
  BY DEF ReconcileRead, ChangeInv, Stored, Genuine, Shapes
<1>2. Busy(w)
  BY <1>1 DEF Busy
<1>3. work' = [work EXCEPT ![n] = w]
      /\ UNCHANGED <<now, live, change, review, request, uids, acts, admitted>>
  BY DEF ReconcileRead
<1> HIDE DEF w
<1>4. Reconciling' /\ work' = [m \in Names |-> work'[m]]
  BY <1>2, <1>3, WorkWrite DEF ChangeInv
<1>5. Shapes'
  BY <1>3, <1>4 DEF ChangeInv, Shapes
<1> QED BY <1>3, <1>4, <1>5, ObjectsKept, InFlightKept, ReadingKept, RestsKept
        DEF ChangeInv

\* What the writes of a status do to its phase and to the rest.
LEMMA PhaseIsStatus ==
    ASSUME NEW s, IsStatus(s), NEW phase
    PROVE  IsStatus(Phase(s, phase)) /\ Phase(s, phase).phase = phase
<1> DEFINE s1 == [s EXCEPT !.phase = phase]
           s2 == [s1 EXCEPT !.approvedScope = None]
           s3 == [s2 EXCEPT !.approvedDecision = None]
           s4 == [s3 EXCEPT !.approvedBy = None]
<1>1. Phase(s, phase) = s4
  BY DEF Phase
<1>2. IsStatus(s1) /\ s1.phase = phase
  BY DEF IsStatus
<1> HIDE DEF s1
<1>3. IsStatus(s2) /\ s2.phase = phase
  BY <1>2 DEF IsStatus
<1> HIDE DEF s2
<1>4. IsStatus(s3) /\ s3.phase = phase
  BY <1>3 DEF IsStatus
<1> HIDE DEF s3
<1>5. IsStatus(s4) /\ s4.phase = phase
  BY <1>4 DEF IsStatus
<1> QED BY <1>1, <1>5

\* The status that records the generation and the expiry of the object c.
Seen(c) == [c.status EXCEPT !.observed = c.gen, !.expiresAt = c.scope.validUntil]

LEMMA SeenIsStatus ==
    ASSUME NEW c, WellFormed(c)
    PROVE  /\ IsStatus(Seen(c))
           /\ Seen(c).phase = c.status.phase /\ Seen(c).observed = c.gen
           /\ Seen(c).approvedBy = c.status.approvedBy
           /\ Seen(c).approvedScope = c.status.approvedScope
<1> DEFINE s1 == [c.status EXCEPT !.observed = c.gen]
           s2 == [s1 EXCEPT !.expiresAt = c.scope.validUntil]
<1>1. Seen(c) = s2
  BY DEF Seen
<1>2. /\ IsStatus(s1) /\ s1.phase = c.status.phase /\ s1.observed = c.gen
      /\ s1.approvedBy = c.status.approvedBy
      /\ s1.approvedScope = c.status.approvedScope
  BY DEF WellFormed, IsStatus
<1> HIDE DEF s1
<1>3. /\ IsStatus(s2) /\ s2.phase = c.status.phase /\ s2.observed = c.gen
      /\ s2.approvedBy = c.status.approvedBy
      /\ s2.approvedScope = c.status.approvedScope
  BY <1>2 DEF IsStatus
<1> HIDE DEF s2
<1> QED BY <1>1, <1>3

LEMMA ReconcileCheckHolds ==
    ASSUME ChangeInv, NEW n \in Names, ReconcileCheck(n)
    PROVE  ChangeInv'
<1> DEFINE obj == work[n].obj
           s == Seen(obj)
           seen == [obj EXCEPT !.status = s]
           recorded == obj.status.expiresAt = s.expiresAt
           conflict == ~recorded /\ change[n] # obj
           copy == IF recorded THEN obj ELSE seen
           expiring == [stage |-> "store", obj |-> copy, status |-> Phase(s, "Expired")]
           checked == [stage |-> "checked", obj |-> copy, status |-> s]
           after == IF conflict \/ s.phase \in Terminal THEN Idle
                    ELSE IF Lapsed(s) THEN expiring ELSE checked
<1>1. /\ work[n].stage = "read"
      /\ change' = IF recorded \/ conflict THEN change
                   ELSE [change EXCEPT ![n] = seen]
      /\ work' = [work EXCEPT ![n] = after]
      /\ UNCHANGED <<now, live, review, request, uids, acts, admitted>>
  BY DEF ReconcileCheck, Seen
<1>2. obj.uid # 0 /\ WellFormed(obj)
  BY <1>1 DEF ChangeInv, Reconciling, Busy
<1>3. /\ IsStatus(s) /\ s.phase = obj.status.phase /\ s.observed = obj.gen
      /\ s.approvedBy = obj.status.approvedBy
      /\ s.approvedScope = obj.status.approvedScope
  BY <1>2, SeenIsStatus
<1> HIDE DEF s
<1>4. /\ seen.uid = obj.uid /\ seen.gen = obj.gen /\ seen.status = s
      /\ WellFormed(seen)
  BY <1>2, <1>3 DEF WellFormed, IsChange
<1>5. /\ copy.uid # 0 /\ WellFormed(copy) /\ copy.gen = obj.gen
      /\ copy.status.phase = obj.status.phase
  BY <1>2, <1>3, <1>4
<1> HIDE DEF copy
<1>6. IsStatus(Phase(s, "Expired")) /\ Phase(s, "Expired").phase = "Expired"
  BY <1>3, PhaseIsStatus
<1>7. s.phase \notin Terminal => Busy(expiring) /\ Busy(checked)
  BY <1>3, <1>5, <1>6 DEF Busy, Vouches
<1>8. Busy(after)
  BY <1>7, IdleIsBusy
<1> HIDE DEF after
<1>9. Reconciling' /\ work' = [m \in Names |-> work'[m]]
  BY <1>1, <1>8, WorkWrite DEF ChangeInv
<1>10. Stored' /\ OwnUid' /\ Rests' /\ change' = [m \in Names |-> change'[m]]
  <2>1. CASE recorded \/ conflict
    BY <1>1, <2>1, ObjectsKept, RestsKept DEF ChangeInv, Shapes
  <2>2. CASE ~(recorded \/ conflict)
    <3>1. change[n] = obj /\ change[n] # Absent
      BY <1>2, <2>2 DEF Absent
    <3>2. Vouches(change[n], s)
      BY <1>3, <3>1 DEF ChangeInv, Stored, Genuine, Vouches
    <3>3. change' = [change EXCEPT ![n] = [change[n] EXCEPT !.status = s]]
      BY <1>1, <2>2, <3>1
    <3> QED BY <1>1, <1>3, <3>1, <3>2, <3>3, StatusWrite DEF ChangeInv
  <2> QED BY <2>1, <2>2
<1>11. Shapes'
  BY <1>1, <1>9, <1>10 DEF ChangeInv, Shapes
<1> QED BY <1>1, <1>9, <1>10, <1>11, InFlightKept, ReadingKept DEF ChangeInv

\* The status the controller derives for an approved object vouches for it.
LEMMA ApproveStatusVouches ==
    ASSUME NEW c, NEW s, IsStatus(s), s.observed = c.gen, c.approval = "Approved"
    PROVE  IsStatus(ApproveStatus(c, s)) /\ Vouches(c, ApproveStatus(c, s))
<1> DEFINE s1 == [s EXCEPT !.phase = "Approved"]
           s2 == [s1 EXCEPT !.approvedScope = c.scopeDigest]
           s3 == [s2 EXCEPT !.approvedDecision = c.decision.digest]
           s4 == [s3 EXCEPT !.approvedBy = c.decision.record.reviewer]
<1>1. \/ ApproveStatus(c, s) \in {Phase(s, "Failed"), Phase(s, "Expired")}
      \/ c.scopeDigest = ScopeDigest(c.scope) /\ ApproveStatus(c, s) = s4
  BY DEF ApproveStatus
<1>2. IsStatus(s1) /\ s1.phase = "Approved" /\ s1.observed = c.gen
  BY DEF IsStatus
<1> HIDE DEF s1
<1>3. /\ IsStatus(s2) /\ s2.phase = "Approved" /\ s2.observed = c.gen
      /\ s2.approvedScope = c.scopeDigest
  BY <1>2 DEF IsStatus
<1> HIDE DEF s2
<1>4. /\ IsStatus(s3) /\ s3.phase = "Approved" /\ s3.observed = c.gen
      /\ s3.approvedScope = c.scopeDigest
  BY <1>3 DEF IsStatus
<1> HIDE DEF s3
<1>5. /\ IsStatus(s4) /\ s4.phase = "Approved" /\ s4.observed = c.gen
      /\ s4.approvedScope = c.scopeDigest /\ s4.approvedBy = c.decision.record.reviewer
  BY <1>4 DEF IsStatus
<1> HIDE DEF s4
<1> QED BY <1>1, <1>5, PhaseIsStatus DEF Vouches

LEMMA ReconcileDecideHolds ==
    ASSUME ChangeInv, NEW n \in Names, ReconcileDecide(n)
    PROVE  ChangeInv'
<1> DEFINE obj == work[n].obj
           s == work[n].status
           next == CASE obj.approval = "Rejected" ->
                          Phase(s, IF ValidateGOVARDecision(obj) THEN "Rejected" ELSE "Failed")
                     [] obj.approval = "Approved" -> ApproveStatus(obj, s)
                     [] OTHER -> Phase(s, "Pending")
           w == [stage |-> "store", obj |-> obj, status |-> next]
<1>1. /\ work[n].stage = "checked"
      /\ work' = [work EXCEPT ![n] = w]
      /\ UNCHANGED <<now, live, change, review, request, uids, acts, admitted>>
  BY DEF ReconcileDecide
<1>2. /\ obj.uid # 0 /\ WellFormed(obj) /\ obj.status.phase \notin Terminal
      /\ IsStatus(s) /\ s.observed = obj.gen
  BY <1>1 DEF ChangeInv, Reconciling, Busy
<1>3. IsStatus(next) /\ Vouches(obj, next)
  <2>1. CASE obj.approval = "Approved"
    BY <1>2, <2>1, ApproveStatusVouches
  <2>2. CASE obj.approval # "Approved"
    <3>1. PICK phase \in {"Rejected", "Failed", "Pending"} : next = Phase(s, phase)
      BY <2>2
    <3> HIDE DEF next
    <3> QED BY <1>2, <3>1, PhaseIsStatus DEF Vouches
  <2> QED BY <2>1, <2>2
<1> HIDE DEF next
<1>4. Busy(w)
  BY <1>2, <1>3 DEF Busy
<1> HIDE DEF w
<1>5. Reconciling' /\ work' = [m \in Names |-> work'[m]]
  BY <1>1, <1>4, WorkWrite DEF ChangeInv
<1>6. Shapes'
  BY <1>1, <1>5 DEF ChangeInv, Shapes
<1> QED BY <1>1, <1>5, <1>6, ObjectsKept, InFlightKept, ReadingKept, RestsKept
        DEF ChangeInv

LEMMA ReconcileStoreHolds ==
    ASSUME ChangeInv, NEW n \in Names, ReconcileStore(n)
    PROVE  ChangeInv'
<1> DEFINE obj == work[n].obj
           s == work[n].status
<1>1. /\ work[n].stage = "store"
      /\ change' = IF change[n] = obj THEN [change EXCEPT ![n].status = s] ELSE change
      /\ work' = [work EXCEPT ![n] = Idle]
      /\ UNCHANGED <<now, live, review, request, uids, acts, admitted>>
  BY DEF ReconcileStore, Unchanged
<1>2. obj.uid # 0 /\ IsStatus(s) /\ Vouches(obj, s)
  BY <1>1 DEF ChangeInv, Reconciling, Busy
<1>3. Reconciling' /\ work' = [m \in Names |-> work'[m]]
  BY <1>1, IdleIsBusy, WorkWrite DEF ChangeInv
<1>4. Stored' /\ OwnUid' /\ Rests' /\ change' = [m \in Names |-> change'[m]]
  <2>1. CASE change[n] # obj
    BY <1>1, <2>1, ObjectsKept, RestsKept DEF ChangeInv, Shapes
  <2>2. CASE change[n] = obj
    <3>1. change[n] # Absent
      BY <1>2, <2>2 DEF Absent
    <3>2. change' = [change EXCEPT ![n] = [change[n] EXCEPT !.status = s]]
      BY <1>1, <2>2
    <3> QED BY <1>1, <1>2, <2>2, <3>1, <3>2, StatusWrite DEF ChangeInv
  <2> QED BY <2>1, <2>2
<1>5. Shapes'
  BY <1>1, <1>3, <1>4 DEF ChangeInv, Shapes
<1> QED BY <1>1, <1>3, <1>4, <1>5, InFlightKept, ReadingKept DEF ChangeInv

-----------------------------------------------------------------------------
(* gov-ar-admission *)

LEMMA AdmitBeginHolds == ChangeInv /\ AdmitBegin => ChangeInv'
<1> SUFFICES ASSUME ChangeInv, AdmitBegin PROVE ChangeInv'
  OBVIOUS
<1>1. UNCHANGED <<now, live, change, review, work, uids, acts>> /\ admitted' = None
  BY DEF AdmitBegin
<1>2. Reading'
  BY <1>1 DEF AdmitBegin, Reading, ReadSoFar, Kinds
<1>3. Rests'
  BY <1>1 DEF Rests
<1> QED BY <1>1, <1>2, <1>3, ShapesKept, ObjectsKept, InFlightKept, ReconcilingKept
        DEF ChangeInv

LEMMA AdmitReadHolds ==
    ASSUME ChangeInv, NEW from, NEW to, AdmitRead(from, to),
           <<from, to>> \in {<<"policy", "model">>, <<"model", "provider">>}
    PROVE  ChangeInv'
<1>1. UNCHANGED <<now, live, change, review, work, uids, acts, admitted>>
  BY DEF AdmitRead
<1>2. Reading'
  <2>1. request.stage = from /\ request # Idle
    BY DEF AdmitRead, Idle
  <2>2. /\ request = [stage |-> request.stage, seen |-> request.seen,
                      during |-> request.during]
        /\ request.seen = [k \in ReadSoFar(from) |-> request.seen[k]]
        /\ live \in request.during
        /\ \A k \in ReadSoFar(from) :
              \E l \in request.during : l[k] = request.seen[k]
    BY <2>1 DEF ChangeInv, Reading
  <2>3. to \in Kinds /\ ReadSoFar(to) = ReadSoFar(from) \cup {to}
        /\ to \notin ReadSoFar(from)
    BY DEF ReadSoFar, Kinds
  <2> DEFINE seen == [k \in DOMAIN request.seen \cup {to} |->
                         IF k = to THEN live[k] ELSE request.seen[k]]
  <2>4. request' = [request EXCEPT !.stage = to, !.seen = seen]
    BY DEF AdmitRead
  <2>5. DOMAIN request.seen = ReadSoFar(from)
    BY <2>2
  <2>6. seen = [k \in ReadSoFar(to) |-> seen[k]]
    BY <2>3, <2>5
  <2>7. \A k \in ReadSoFar(to) : \E l \in request.during : l[k] = seen[k]
    <3> SUFFICES ASSUME NEW k \in ReadSoFar(to)
                 PROVE  \E l \in request.during : l[k] = seen[k]
      OBVIOUS
    <3>1. CASE k = to
      BY <2>2, <3>1
    <3>2. CASE k # to
      BY <2>2, <2>3, <2>5, <3>2
    <3> QED BY <3>1, <3>2
  <2> HIDE DEF seen
  <2>8. /\ request' = [stage |-> request'.stage, seen |-> request'.seen,
                       during |-> request'.during]
        /\ request'.stage = to /\ request'.seen = seen
        /\ request'.during = request.during
    BY <2>2, <2>4
  <2> QED BY <1>1, <2>2, <2>3, <2>6, <2>7, <2>8 DEF Reading
<1> QED BY <1>1, <1>2, ShapesKept, ObjectsKept, InFlightKept, ReconcilingKept, RestsKept
        DEF ChangeInv

LEMMA AdmitResolveHolds ==
    ASSUME ChangeInv, NEW ref, NEW feasible, AdmitResolve(ref, feasible)
    PROVE  ChangeInv'
<1>1. /\ UNCHANGED <<now, live, change, review, work, uids, acts>>
      /\ request.stage = "provider" /\ request' = Idle
  BY DEF AdmitResolve
<1>2. Reading'
  BY <1>1 DEF Reading
<1>3. Rests'
  <2>1. CASE Resolved(ref, feasible) = {}
    BY <2>1 DEF AdmitResolve, Rests
  <2>2. CASE Resolved(ref, feasible) # {}
    <3> DEFINE n == CHOOSE m \in Resolved(ref, feasible) : TRUE
               c == change[n]
    <3>1. n \in Resolved(ref, feasible)
      BY <2>2
    <3>2. admitted' = [uid |-> c.uid, scope |-> c.scope, at |-> now,
                       during |-> request.during]
      BY <2>2 DEF AdmitResolve
    <3> HIDE DEF n
    <3>3. /\ n \in Names /\ c # Absent
          /\ ValidateGOVARRouteApproval(c, request.seen, feasible)
      BY <3>1 DEF Resolved
    <3>4. /\ c.approval = "Approved" /\ now < c.scope.validUntil
          /\ \A k \in Kinds : c.scope.refs[k] = request.seen[k]
      BY <3>3 DEF ValidateGOVARRouteApproval, ApprovedCandidate, Kinds
    <3>5. c.uid \in 1 .. uids /\ Genuine(c, acts[c.uid])
      BY <3>3 DEF ChangeInv, Stored
    <3>6. Reviewed(c, acts[c.uid])
      BY <3>4, <3>5 DEF Genuine
    <3>7. \A k \in Kinds : \E l \in request.during : l[k] = request.seen[k]
      BY <1>1 DEF ChangeInv, Reading, ReadSoFar, Kinds, Idle
    <3>8. \A m \in Names : change[m] # Absent /\ change[m].uid = c.uid
                               => change[m].approval # "Pending"
      BY <3>3, <3>4 DEF ChangeInv, OwnUid
    <3>9. /\ admitted'.uid = c.uid /\ admitted'.scope = c.scope
          /\ admitted'.at = now /\ admitted'.during = request.during
      BY <3>2
    <3> HIDE DEF c
    <3>10. AdmittedIsReviewed'
      BY <1>1, <3>4, <3>6, <3>9 DEF AdmittedIsReviewed, Reviewed
    <3>11. AdmittedScopeWasCurrent'
      BY <3>4, <3>7, <3>9 DEF AdmittedScopeWasCurrent
    <3> QED BY <1>1, <3>5, <3>8, <3>9, <3>10, <3>11 DEF Rests
  <2> QED BY <2>1, <2>2
<1> QED BY <1>1, <1>2, <1>3, ShapesKept, ObjectsKept, InFlightKept, ReconcilingKept
        DEF ChangeInv

-----------------------------------------------------------------------------
(* The theorems *)

LEMMA StepHolds == ChangeInv /\ [ChangeNext]_changeVars => ChangeInv'
<1> SUFFICES ASSUME ChangeInv, [ChangeNext]_changeVars PROVE ChangeInv'
  OBVIOUS
<1>1. CASE Tick
  BY <1>1, TickHolds
<1>2. CASE Persist
  BY <1>2, PersistHolds
<1>3. CASE AdmitBegin
  BY <1>3, AdmitBeginHolds
<1>4. CASE AdmitRead("policy", "model") \/ AdmitRead("model", "provider")
  BY <1>4, AdmitReadHolds
<1>5. CASE \E k \in Kinds : Edit(k)
  BY <1>5, EditHolds
<1>6. CASE \E ref \in Names \cup {None}, feasible \in BOOLEAN : AdmitResolve(ref, feasible)
  BY <1>6, AdmitResolveHolds
<1>7. ASSUME NEW n \in Names, Delete(n) \/ ReconcileRead(n) \/ ReconcileCheck(n)
                                \/ ReconcileDecide(n) \/ ReconcileStore(n)
      PROVE  ChangeInv'
  BY <1>7, DeleteHolds, ReconcileReadHolds, ReconcileCheckHolds, ReconcileDecideHolds,
     ReconcileStoreHolds
<1>8. ASSUME NEW n \in Names, NEW user \in Users, NEW scope \in Scopes,
             NEW digest \in {ScopeDigest(scope), None}, Create(user, n, scope, digest)
      PROVE  ChangeInv'
  BY <1>8, CreateHolds, ChangeAssumption
<1>9. ASSUME NEW n \in Names, NEW user \in Users, change[n] # Absent,
             NEW next \in Submissions(change[n]), Submit(user, n, next)
      PROVE  ChangeInv'
  BY <1>9, SubmitHolds
<1>10. CASE UNCHANGED changeVars
  BY <1>10, ShapesKept, ObjectsKept, InFlightKept, ReconcilingKept, ReadingKept, RestsKept
     DEF changeVars, ChangeInv
<1> QED BY <1>1, <1>2, <1>3, <1>4, <1>5, <1>6, <1>7, <1>8, <1>9, <1>10 DEF ChangeNext

LEMMA ChangeInvariant == ChangeSpec => []ChangeInv
BY InitHolds, StepHolds, PTL DEF ChangeSpec

LEMMA InvIsGenuine == ChangeInv => ApprovalIsGenuine
<1> SUFFICES ASSUME ChangeInv PROVE ApprovalIsGenuine
  OBVIOUS
<1>1. AdmittedIsReviewed
  BY DEF ChangeInv, Rests, AdmittedIsReviewed
<1>2. ApprovedStatusIsOwn
  <2> SUFFICES ASSUME NEW n \in Names, change[n] # Absent,
                      change[n].status.phase = "Approved"
               PROVE  /\ change[n].approval = "Approved"
                      /\ change[n].status.observed = change[n].gen
                      /\ change[n].status.approvedBy = acts[change[n].uid].decider
                      /\ change[n].status.approvedScope
                            = ScopeDigest(acts[change[n].uid].scope)
    BY DEF ApprovedStatusIsOwn
  <2>1. Genuine(change[n], acts[change[n].uid])
    BY DEF ChangeInv, Stored
  <2> QED BY <2>1 DEF Genuine, Vouches, Reviewed
<1> QED BY <1>1, <1>2 DEF ApprovalIsGenuine

\* Every admission rests on a scope that a reviewer other than its requester
\* decided, and every Approved status reports such a decision about its own
\* object, whatever validateGOVARRouteApproval, the webhooks and the reconciler
\* interleave with edits, deletions and recreations by clients.
THEOREM ApprovalsAreGenuine == ChangeSpec => []ApprovalIsGenuine
BY ChangeInvariant, InvIsGenuine, PTL

\* handleAdmit reads policy, model and provider one after the other; each of
\* the versions the approval names was live during the request all the same.
THEOREM AdmissionsAreCurrent == ChangeSpec => []AdmittedScopeWasCurrent
<1>1. ChangeInv => AdmittedScopeWasCurrent
  BY DEF ChangeInv, Rests, AdmittedScopeWasCurrent
<1> QED BY <1>1, ChangeInvariant, PTL

\* No step changes more than the status of a decided object.
LEMMA DecidedOnlyChangesStatus ==
    ASSUME ChangeInv, [ChangeNext]_changeVars, NEW n \in Names, Kept(n)
    PROVE  /\ change[n].decision # None =>
                  change'[n] = [change[n] EXCEPT !.status = change'[n].status]
           /\ change[n].status.phase \in {"Rejected", "Expired"} =>
                  change'[n].status.phase = change[n].status.phase
<1> DEFINE Final == /\ change[n].decision # None =>
                          change'[n] = [change[n] EXCEPT !.status = change'[n].status]
                    /\ change[n].status.phase \in {"Rejected", "Expired"} =>
                          change'[n].status.phase = change[n].status.phase
<1>1. change[n] # Absent /\ change'[n] # Absent /\ change[n].uid = change'[n].uid
  BY DEF Kept
<1>2. WellFormed(change[n]) /\ Genuine(change[n], acts[change[n].uid])
      /\ change[n].uid \in 1 .. uids
  BY <1>1 DEF ChangeInv, Stored, Genuine
<1>3. change'[n] = change[n] => Final
  BY <1>2 DEF WellFormed, IsChange
<1>4. ASSUME UNCHANGED change PROVE Final
  BY <1>3, <1>4
<1>5. ASSUME Persist PROVE Final
  <2>1. CASE ~Stores
    BY <1>4, <1>5, <2>1 DEF Persist, Stores, Matches
  <2>2. CASE Stores /\ review.name # n
    BY <1>3, <1>5, <2>2 DEF Persist, ChangeInv, Shapes
  <2>3. CASE Stores /\ review.name = n
    <3> DEFINE old == review.old
               next == review.next
               stored == [next EXCEPT !.gen = @ + 1]
    <3>1. /\ change[n] = old /\ RulesHold(old, next) /\ Altered(old, next)
      BY <1>5, <2>3 DEF Stores, Persist, ChangeInv, InFlight
    <3>2. change'[n] = stored
      BY <1>5, <2>3 DEF Persist, Stores, ChangeInv, Shapes
    <3>3. stored.status = old.status
      BY <3>1 DEF Altered, IsChange
    <3>4. old.decision = None
      BY <1>2, <3>1, DecidedIsImmutable DEF Genuine, WellFormed
    <3> HIDE DEF stored
    <3> QED BY <3>1, <3>2, <3>3, <3>4
  <2> QED BY <2>1, <2>2, <2>3
<1>6. ASSUME NEW m \in Names, Delete(m) PROVE Final
  BY <1>1, <1>3, <1>6 DEF Delete, ChangeInv, Shapes
<1>7. ASSUME NEW m \in Names, NEW user \in Users, NEW scope \in Scopes, NEW digest,
             Create(user, m, scope, digest)
      PROVE  Final
  BY <1>1, <1>3, <1>7 DEF Create, ChangeInv, Shapes
<1>8. ASSUME NEW s, change'[n] = [change[n] EXCEPT !.status = s],
             s.phase = change[n].status.phase \/ change[n].status.phase \notin Terminal
      PROVE  Final
  <2>1. change'[n].status = s
    BY <1>2, <1>8 DEF WellFormed, IsChange
  <2> QED BY <1>8, <2>1 DEF Terminal
<1>9. ASSUME NEW m \in Names, ReconcileCheck(m) PROVE Final
  <2> DEFINE obj == work[m].obj
  <2>1. /\ work[m].stage = "read"
        /\ \/ UNCHANGED change
           \/ /\ change[m] = obj
              /\ change' = [change EXCEPT ![m] = [obj EXCEPT !.status = Seen(obj)]]
    BY <1>9 DEF ReconcileCheck, Seen
  <2>2. CASE m = n /\ change[m] = obj
             /\ change' = [change EXCEPT ![m] = [obj EXCEPT !.status = Seen(obj)]]
    <3>1. change'[n] = [change[n] EXCEPT !.status = Seen(obj)]
      BY <2>2 DEF ChangeInv, Shapes
    <3>2. Seen(obj).phase = change[n].status.phase
      BY <1>2, <2>2, SeenIsStatus
    <3> QED BY <1>8, <3>1, <3>2
  <2>3. CASE m # n
             /\ change' = [change EXCEPT ![m] = [obj EXCEPT !.status = Seen(obj)]]
    BY <1>3, <2>3 DEF ChangeInv, Shapes
  <2> QED BY <1>4, <2>1, <2>2, <2>3
<1>10. ASSUME NEW m \in Names, ReconcileStore(m) PROVE Final
  <2>1. CASE UNCHANGED change
    BY <1>4, <2>1
  <2>2. CASE change[m] = work[m].obj
             /\ change' = [change EXCEPT ![m].status = work[m].status]
    <3>1. CASE m = n
      <4>1. change'[n] = [change[n] EXCEPT !.status = work[m].status]
        BY <2>2, <3>1 DEF ChangeInv, Shapes
      <4>2. change[n].status.phase \notin Terminal
        BY <1>10, <2>2, <3>1 DEF ReconcileStore, ChangeInv, Reconciling, Busy
      <4> QED BY <1>8, <4>1, <4>2
    <3>2. CASE m # n
      BY <1>3, <2>2, <3>2 DEF ChangeInv, Shapes
    <3> QED BY <3>1, <3>2
  <2> QED BY <1>10, <2>1, <2>2 DEF ReconcileStore, Unchanged
<1> HIDE DEF Final
<1>11. ASSUME \/ Tick \/ AdmitBegin
              \/ AdmitRead("policy", "model") \/ AdmitRead("model", "provider")
              \/ \E k \in Kinds : Edit(k)
              \/ \E ref \in Names \cup {None}, feasible \in BOOLEAN :
                    AdmitResolve(ref, feasible)
              \/ \E m \in Names : ReconcileRead(m) \/ ReconcileDecide(m)
              \/ \E m \in Names, user \in Users : change[m] # Absent
                    /\ \E next \in Submissions(change[m]) : Submit(user, m, next)
              \/ UNCHANGED changeVars
       PROVE  Final
  <2>1. UNCHANGED change
    BY <1>11 DEF Tick, AdmitBegin, AdmitRead, Edit, AdmitResolve, ReconcileRead,
       ReconcileDecide, Submit, changeVars
  <2> QED BY <1>4, <2>1
<1>12. Final
  BY <1>5, <1>6, <1>7, <1>9, <1>10, <1>11 DEF ChangeNext
<1> QED BY <1>12 DEF Final

\* A stored decision and the proposal it binds never change, and a Rejected or
\* Expired phase is never left: the CEL rules, the webhooks and the terminal
\* test of Reconcile hold against every interleaving of stale reconciles.
THEOREM DecisionsAreFinal == ChangeSpec => DecisionIsFinal
<1>1. ChangeInv /\ [ChangeNext]_changeVars =>
        [\A n \in Names : Kept(n) =>
          /\ change[n].decision # None =>
                 change'[n] = [change[n] EXCEPT !.status = change'[n].status]
          /\ change[n].status.phase \in {"Rejected", "Expired"} =>
                 change'[n].status.phase = change[n].status.phase]_changeVars
  BY DecidedOnlyChangesStatus
<1> QED BY <1>1, ChangeInvariant, PTL DEF ChangeSpec, DecisionIsFinal

=============================================================================
