--------------------------- MODULE ChangeControl ---------------------------
(***************************************************************************)
(* Two-person control of a GOV-AR route.  An AIChangeRequest of action     *)
(* authorize-gov-ar-route is created by a requester and decided by a       *)
(* reviewer through the admission webhooks of                              *)
(* internal/webhook/changeapproval; the controller of                      *)
(* internal/controller/aichangerequest_controller.go turns the decision    *)
(* into status evidence; gov-ar-admission re-validates that evidence       *)
(* against the live routing policy, model and provider for every request.  *)
(*                                                                         *)
(* A digest is the value it is computed from: it matches exactly when the  *)
(* value does.  Anybody can compute one, so a client may submit any        *)
(* decision record it likes.  Optimistic concurrency compares the object   *)
(* itself instead of its resourceVersion.                                  *)
(***************************************************************************)
EXTENDS Integers, FiniteSets, Sequences

CONSTANTS
    None,         \* an absent value
    Users,        \* authenticated Kubernetes users
    Reviewers,    \* the members of GOVARApprovalReviewerGroup
    Names,        \* names of change requests, in the order the listing sorts them
    Ends,         \* the validUntil instants clients ask for
    MaxTime,      \* bound on the clock
    MaxUid,       \* bound on the objects ever created
    MaxEdits,     \* bound on the edits of the referenced objects
    StaleAfter    \* ticks after which a decision being admitted is stale (30 s)

ASSUME ChangeAssumption ==
    /\ Reviewers \subseteq Users
    /\ Names \cup Ends \subseteq Nat
    /\ {MaxTime, MaxUid, MaxEdits, StaleAfter} \subseteq Nat

VARIABLES
    now,         \* the clock every part reads
    live,        \* the UID and generation, as one version, of each referenced object
    change,      \* the stored AIChangeRequest of each name, or Absent
    review,      \* the update the API server is admitting, or None
    work,        \* the controller's reconcile of each name
    request,     \* the admission request in progress
    uids,        \* the objects created so far
    acts,        \* history: who really created and decided each object
    admitted     \* history: the admission granted by the last request, or None

changeVars == <<now, live, change, review, work, request, uids, acts, admitted>>

Kinds == {"policy", "model", "provider"}
Outcomes == {"Approved", "Rejected"}

\* Mutant of Terminal: a rejected request is reconciled again.
RejectedIsRetried == {"Actuated", "Expired"}

\* The phases after which Reconcile does nothing.
Terminal == {"Actuated", "Rejected", "Expired"}

\* The GOVARRouteApprovalScopes, without their digest, a client may ask for.
\* The route snapshot digest commits to the model and the provider, which are
\* listed here anyway, and a model that names another provider is a new version
\* of the model.
Scopes == {[refs |-> live, validUntil |-> t] : t \in Ends}

\* GOVARRouteApprovalScope.ComputeDigest, AIChangeRequestSpec's
\* ComputeProposalDigest and GOVARRouteApprovalDecision.ComputeDigest
ScopeDigest(scope) == <<"scope", scope>>
ProposalDigest(c) == <<"proposal", c.scope, c.scopeDigest, c.requestedBy>>
DecisionDigest(d, requestedBy) ==
    <<"decision", d.outcome, d.reviewer, d.at, d.validUntil, d.uid,
      d.proposal, d.scope, requestedBy>>

\* The decision record of a reviewer on the stored object c.
Decision(c, outcome, reviewer, at) ==
    LET d == [outcome |-> outcome, reviewer |-> reviewer, at |-> at,
              validUntil |-> c.scope.validUntil, uid |-> c.uid,
              proposal |-> c.proposalDigest, scope |-> c.scopeDigest]
    IN  [record |-> d, digest |-> DecisionDigest(d, c.requestedBy)]

EmptyStatus == [phase |-> "", observed |-> 0, expiresAt |-> None,
                approvedScope |-> None, approvedDecision |-> None, approvedBy |-> None]

\* setPhase together with the clearing of the approval evidence
Phase(s, phase) == [s EXCEPT !.phase = phase, !.approvedScope = None,
                             !.approvedDecision = None, !.approvedBy = None]

\* The Ready condition that setPhase derives from the phase.
Ready(s) == s.phase \notin {"Failed", "Expired", "Rejected"}

Idle == [stage |-> "idle"]

\* No object of that name: UIDs start at 1.
Absent == [uid |-> 0]

ChangeInit ==
    /\ now = 0
    /\ live = [k \in Kinds |-> 0]
    /\ change = [n \in Names |-> Absent]
    /\ review = None
    /\ work = [n \in Names |-> Idle]
    /\ request = Idle
    /\ uids = 0
    /\ acts = <<>>
    /\ admitted = None

-----------------------------------------------------------------------------
(* The admission webhooks *)

\* Matches: the root resource is seen by both handlers, at every operation.
Matches(operation) == operation \in {"create", "update"}

\* validProposal
ValidProposal(c) ==
    /\ c.requestedBy # None
    /\ c.scopeDigest = ScopeDigest(c.scope)
    /\ c.proposalDigest = ProposalDigest(c)

\* sameProposal
SameProposal(old, next) ==
    /\ old.uid = next.uid
    /\ old.requestedBy = next.requestedBy
    /\ old.proposalDigest = next.proposalDigest
    /\ old.proposalDigest = ProposalDigest(old)
    /\ next.proposalDigest = ProposalDigest(next)

\* Mutant of IndependentReviewer: any other user may decide.
OtherUser(user, old) == user # old.requestedBy

\* What both handlers ask of the actor of a Pending -> decided transition.
IndependentReviewer(user, old) == user # old.requestedBy /\ user \in Reviewers

\* The part of an update the two handlers treat alike: nothing is decided.
UndecidedUpdateAllowed(old, next) ==
    /\ ValidProposal(old)
    /\ SameProposal(old, next)
    /\ \/ old.approval # "Pending" /\ next.approval = old.approval
                                   /\ next.decision = old.decision
       \/ old.approval = "Pending" /\ next.approval = "Pending" /\ next.decision = None

\* MutationHandler.Handle, update that decides: the handler refuses a decision
\* record of the client's own and stamps one.
DecidingUpdateMutated(user, old, next) ==
    /\ ValidProposal(old)
    /\ SameProposal(old, next)
    /\ old.approval = "Pending" /\ next.approval \in Outcomes
    /\ next.decision = None
    /\ IndependentReviewer(user, old)
    /\ now < old.scope.validUntil

\* validTransitionDecision.  One clock: a decision is never in the future.
ValidTransitionDecision(user, old, next) ==
    /\ next.decision # None /\ next.approval \in Outcomes
    /\ LET d == next.decision.record
       IN  /\ d.outcome = next.approval
           /\ d.reviewer = user /\ d.reviewer # old.requestedBy
           /\ d.uid = old.uid
           /\ d.proposal = old.proposalDigest
           /\ d.scope = old.scopeDigest
           /\ d.validUntil = old.scope.validUntil
           /\ next.decision.digest = DecisionDigest(d, old.requestedBy)
           /\ d.at + StaleAfter >= now
           /\ d.at < d.validUntil
           /\ now < d.validUntil

\* ValidationHandler.Handle, update
UpdateValidated(user, old, next) ==
    \/ UndecidedUpdateAllowed(old, next)
    \/ /\ ValidProposal(old)
       /\ SameProposal(old, next)
       /\ old.approval = "Pending" /\ next.approval # "Pending"
       /\ IndependentReviewer(user, old)
       /\ ValidTransitionDecision(user, old, next)

\* The CEL rules of the AIChangeRequestSpec type, on an update
RulesHold(old, next) ==
    /\ next.scope = old.scope /\ next.scopeDigest = old.scopeDigest
    /\ next.requestedBy = old.requestedBy
    /\ next.proposalDigest = old.proposalDigest
    /\ old.decision # None => next.decision = old.decision
    /\ old.approval = "Pending" \/ next.approval = old.approval
    /\ next.approval = "Pending" => next.decision = None
    /\ next.approval # "Pending" =>
          /\ next.decision # None
          /\ LET d == next.decision.record
             IN  /\ d.outcome = next.approval
                 /\ d.proposal = next.proposalDigest
                 /\ d.scope = next.scopeDigest
                 /\ d.validUntil = next.scope.validUntil
                 /\ d.reviewer # next.requestedBy

-----------------------------------------------------------------------------
(* Clients *)

\* An AIChangeRequest as its requester submits it.
NewChange(user, scope, digest) ==
    [uid |-> uids + 1, gen |-> 1, scope |-> scope, scopeDigest |-> digest,
     requestedBy |-> user, proposalDigest |-> None, approval |-> "Pending",
     decision |-> None, status |-> EmptyStatus]

\* A create request and both handlers on it: the requester is stamped, the
\* object is Pending, and the client's scope digest must be right.
Create(user, n, scope, digest) ==
    LET c == NewChange(user, scope, digest)
        stamped == [c EXCEPT !.proposalDigest = ProposalDigest(c)]
    IN  /\ change[n] = Absent
        /\ uids < MaxUid
        /\ Matches("create") => ValidProposal(stamped)
        /\ change' = [change EXCEPT ![n] = stamped]
        /\ uids' = uids + 1
        /\ acts' = Append(acts, [creator |-> user, decider |-> None, scope |-> None])
        /\ UNCHANGED <<now, live, review, work, request, admitted>>

\* The object c with another approval and decision, and with a later end as
\* well, every digest a client can compute made to match.
Decided(c, approval, decision) ==
    [c EXCEPT !.approval = approval, !.decision = decision]
Prolonged(c) ==
    LET longer == [c.scope EXCEPT !.validUntil = @ + 1]
        moved == [c EXCEPT !.scope = longer, !.scopeDigest = ScopeDigest(longer)]
    IN  [moved EXCEPT !.proposalDigest = ProposalDigest(moved)]

\* Objects a client may submit as an update of the stored object c.
Submissions(c) ==
    LET forged == {Decision(c, o, r, now) : o \in Outcomes, r \in Reviewers}
        plain == {Decided(c, a, d) :
                     a \in Outcomes \cup {"Pending"}, d \in {None, c.decision} \cup forged}
    IN  plain \cup {Prolonged(x) : x \in plain}

\* An update request and the mutating handler on it.
Submit(user, n, next) ==
    LET old == change[n]
    IN  /\ review = None
        /\ old # Absent
        /\ next # old
        /\ \/ /\ Matches("update") => UndecidedUpdateAllowed(old, next)
              /\ review' = [name |-> n, user |-> user, old |-> old, next |-> next]
           \/ /\ Matches("update")
              /\ DecidingUpdateMutated(user, old, next)
              /\ review' = [name |-> n, user |-> user, old |-> old, next |->
                    [next EXCEPT !.decision = Decision(old, next.approval, user, now)]]
        /\ UNCHANGED <<now, live, change, work, request, uids, acts, admitted>>

\* The validating handler, the CEL rules and the write of an update.  The
\* object is written when it is still the one the request was admitted against.
Persist ==
    /\ review # None
    /\ review' = None
    /\ LET n == review.name
           old == review.old
           next == review.next
           stored == [next EXCEPT !.gen = @ + 1]
       IN  IF /\ change[n] = old
              /\ Matches("update") => UpdateValidated(review.user, old, next)
              /\ RulesHold(old, next)
           THEN /\ change' = [change EXCEPT ![n] = stored]
                /\ acts' = IF next.approval = old.approval THEN acts
                           ELSE [acts EXCEPT ![old.uid].decider = review.user,
                                          ![old.uid].scope = old.scope]
           ELSE UNCHANGED <<change, acts>>
    /\ UNCHANGED <<now, live, work, request, uids, admitted>>

\* A client deletes the object; nothing holds it back.
Delete(n) ==
    /\ change[n] # Absent
    /\ change' = [change EXCEPT ![n] = Absent]
    /\ UNCHANGED <<now, live, review, work, request, uids, acts, admitted>>

\* A referenced object is edited or recreated.
Edit(k) ==
    /\ \A j \in Kinds : live[j] < MaxEdits
    /\ live' = [live EXCEPT ![k] = @ + 1]
    /\ request' = IF request = Idle THEN Idle
                  ELSE [request EXCEPT !.during = @ \cup {live'}]
    /\ UNCHANGED <<now, change, review, work, uids, acts, admitted>>

Tick ==
    /\ now < MaxTime
    /\ now' = now + 1
    /\ UNCHANGED <<live, change, review, work, request, uids, acts, admitted>>

-----------------------------------------------------------------------------
(* The controller *)

\* AIChangeRequest.ValidateGOVARDecision
ValidateGOVARDecision(c) ==
    /\ c.requestedBy # None
    /\ c.proposalDigest = ProposalDigest(c)
    /\ c.decision # None
    /\ LET d == c.decision.record
       IN  /\ d.outcome = c.approval /\ d.outcome \in Outcomes
           /\ d.reviewer # c.requestedBy
           /\ d.uid = c.uid
           /\ d.proposal = c.proposalDigest
           /\ d.scope = c.scopeDigest
           /\ d.validUntil = c.scope.validUntil
           /\ c.decision.digest = DecisionDigest(d, c.requestedBy)
           /\ d.at <= now
           /\ d.at < d.validUntil
           /\ now < d.validUntil

\* validateGOVARRouteReferences
ReferencesCurrent(scope) == scope.refs = live

\* Reconcile reads the object.  The manager's resync may start one at any time.
ReconcileRead(n) ==
    /\ work[n] = Idle
    /\ change[n] # Absent
    /\ work' = [work EXCEPT ![n] = [stage |-> "read", obj |-> change[n]]]
    /\ UNCHANGED <<now, live, change, review, request, uids, acts, admitted>>

\* Mutant of Lapsed: the boundary instant is still valid.
LapsedLater(s) == now > s.expiresAt

\* Not Before(ExpiresAt): the boundary itself is too late.
Lapsed(s) == now >= s.expiresAt

\* Reconcile up to the expiry check: the expiry is recorded by a write of its
\* own, a terminal phase ends the reconcile, a lapsed object is to expire.
ReconcileCheck(n) ==
    LET obj == work[n].obj
        s == [obj.status EXCEPT !.observed = obj.gen, !.expiresAt = obj.scope.validUntil]
        seen == [obj EXCEPT !.status = s]
        recorded == obj.status.expiresAt = s.expiresAt
        conflict == ~recorded /\ change[n] # obj
        after == IF conflict \/ s.phase \in Terminal THEN Idle
                 ELSE IF Lapsed(s)
                 THEN [stage |-> "store", obj |-> IF recorded THEN obj ELSE seen,
                       status |-> Phase(s, "Expired")]
                 ELSE [stage |-> "checked", obj |-> IF recorded THEN obj ELSE seen,
                       status |-> s]
    IN  /\ work[n].stage = "read"
        /\ change' = IF recorded \/ conflict THEN change
                     ELSE [change EXCEPT ![n] = seen]
        /\ work' = [work EXCEPT ![n] = after]
        /\ UNCHANGED <<now, live, review, request, uids, acts, admitted>>

\* approveGOVARRoute: the status to be written for an approved object.
ApproveStatus(c, s) ==
    IF c.scopeDigest # ScopeDigest(c.scope) THEN Phase(s, "Failed")
    ELSE IF ~ValidateGOVARDecision(c) THEN Phase(s, "Failed")
    ELSE IF now >= c.scope.validUntil THEN Phase(s, "Expired")
    ELSE IF ~ReferencesCurrent(c.scope) THEN Phase(s, "Failed")
    ELSE [s EXCEPT !.phase = "Approved", !.approvedScope = c.scopeDigest,
                   !.approvedDecision = c.decision.digest,
                   !.approvedBy = c.decision.record.reviewer]

\* The switch of Reconcile on the approval.
ReconcileDecide(n) ==
    LET obj == work[n].obj
        s == work[n].status
        next == CASE obj.approval = "Rejected" ->
                       Phase(s, IF ValidateGOVARDecision(obj) THEN "Rejected" ELSE "Failed")
                  [] obj.approval = "Approved" -> ApproveStatus(obj, s)
                  [] OTHER -> Phase(s, "Pending")
    IN  /\ work[n].stage = "checked"
        /\ work' = [work EXCEPT ![n] = [stage |-> "store", obj |-> obj, status |-> next]]
        /\ UNCHANGED <<now, live, change, review, request, uids, acts, admitted>>

\* Mutant of Unchanged: the status is patched onto whatever has the name.
UnchangedName(n, obj) == change[n] # Absent

\* The API server refuses a status write against an object it no longer holds.
Unchanged(n, obj) == change[n] = obj

\* The closing Status().Update of Reconcile; a conflict leaves it to a retry.
ReconcileStore(n) ==
    /\ work[n].stage = "store"
    /\ change' = IF Unchanged(n, work[n].obj)
                 THEN [change EXCEPT ![n].status = work[n].status] ELSE change
    /\ work' = [work EXCEPT ![n] = Idle]
    /\ UNCHANGED <<now, live, review, request, uids, acts, admitted>>

-----------------------------------------------------------------------------
(* gov-ar-admission, for a routing policy whose canary is enabled *)

\* Mutant of ApprovedCandidate: the model's version is not compared.
ApprovedProvider(c, seen, feasible) ==
    feasible /\ c.scope.refs["provider"] = seen["provider"]

\* The candidate read for this request is feasible and is the approved one.
ApprovedCandidate(c, seen, feasible) ==
    /\ feasible
    /\ \A k \in {"model", "provider"} : c.scope.refs[k] = seen[k]

\* validateGOVARRouteApproval of the object c against the policy and the
\* candidate read for this request.
ValidateGOVARRouteApproval(c, seen, feasible) ==
    LET s == c.status
    IN  /\ c.approval = "Approved"
        /\ s.phase = "Approved" /\ Ready(s)
        /\ s.observed = c.gen
        /\ c.scopeDigest = ScopeDigest(c.scope)
        /\ s.approvedScope = c.scopeDigest
        /\ s.expiresAt = c.scope.validUntil
        /\ now < c.scope.validUntil
        /\ c.decision # None
        /\ s.approvedDecision = c.decision.digest
        /\ s.approvedBy = c.decision.record.reviewer
        /\ ValidateGOVARDecision(c)
        /\ c.scope.refs["policy"] = seen["policy"]
        /\ ApprovedCandidate(c, seen, feasible)

\* handleAdmit reads the routing policy, then the models, then the providers.
AdmitBegin ==
    /\ request = Idle
    /\ request' = [stage |-> "policy", seen |-> [k \in {"policy"} |-> live["policy"]],
                   during |-> {live}]
    /\ admitted' = None
    /\ UNCHANGED <<now, live, change, review, work, uids, acts>>

AdmitRead(from, to) ==
    /\ request.stage = from
    /\ request' = [request EXCEPT !.stage = to,
                       !.seen = [k \in DOMAIN @ \cup {to} |->
                                   IF k = to THEN live[k] ELSE @[k]]]
    /\ UNCHANGED <<now, live, change, review, work, uids, acts, admitted>>

\* resolveGOVARRouteApproval: the object the client names, or the first of the
\* namespace, by name, that validates.
Resolved(ref, feasible) ==
    LET valid(n) == change[n] # Absent
                    /\ ValidateGOVARRouteApproval(change[n], request.seen, feasible)
        named == IF ref = None THEN {n \in Names : valid(n) /\ \A m \in Names : m < n => ~valid(m)}
                 ELSE {n \in Names : n = ref /\ valid(n)}
    IN  named

\* The end of handleAdmit: the reservation is made under the resolved approval,
\* or the request ends with an approval error.
AdmitResolve(ref, feasible) ==
    /\ request.stage = "provider"
    /\ request' = Idle
    /\ admitted' = IF Resolved(ref, feasible) = {} THEN None
                   ELSE LET n == CHOOSE m \in Resolved(ref, feasible) : TRUE
                        IN  [uid |-> change[n].uid, scope |-> change[n].scope,
                             at |-> now, during |-> request.during]
    /\ UNCHANGED <<now, live, change, review, work, uids, acts>>

-----------------------------------------------------------------------------
(* The specification *)

ChangeNext ==
    \/ Tick
    \/ Persist
    \/ AdmitBegin
    \/ AdmitRead("policy", "model")
    \/ AdmitRead("model", "provider")
    \/ \E k \in Kinds : Edit(k)
    \/ \E ref \in Names \cup {None}, feasible \in BOOLEAN : AdmitResolve(ref, feasible)
    \/ \E n \in Names :
          \/ Delete(n)
          \/ ReconcileRead(n)
          \/ ReconcileCheck(n)
          \/ ReconcileDecide(n)
          \/ ReconcileStore(n)
          \/ \E user \in Users :
                \/ \E scope \in Scopes :
                      \E digest \in {ScopeDigest(scope), None} :
                         Create(user, n, scope, digest)
                \/ change[n] # Absent
                   /\ \E next \in Submissions(change[n]) : Submit(user, n, next)

ChangeSpec == ChangeInit /\ [][ChangeNext]_changeVars

\* The controller's work queue serves every object, resyncs included.
ChangeFairness ==
    \A n \in Names : /\ WF_changeVars(ReconcileRead(n))
                     /\ WF_changeVars(ReconcileCheck(n))
                     /\ WF_changeVars(ReconcileDecide(n))
                     /\ WF_changeVars(ReconcileStore(n))

ChangeLiveSpec == ChangeSpec /\ ChangeFairness

-----------------------------------------------------------------------------
(* Properties *)

\* A request is admitted only under a scope that a member of the reviewer
\* group other than its creator really decided, unchanged since and not yet
\* lapsed, whatever clients submit, delete and recreate in between.
AdmittedIsReviewed ==
    admitted # None =>
        LET a == acts[admitted.uid]
        IN  /\ a.decider \in Reviewers
            /\ a.decider # a.creator
            /\ a.scope = admitted.scope
            /\ admitted.at < a.scope.validUntil

\* Every object the approved scope names was, in the version named, live at
\* some moment of the request, although the three are read one by one.
AdmittedScopeWasCurrent ==
    admitted # None =>
        \A k \in Kinds : \E l \in admitted.during : l[k] = admitted.scope.refs[k]

\* Approval evidence in a status is evidence about that very object: the
\* reconcile of a deleted, recreated or since decided object leaves none.
ApprovedStatusIsOwn ==
    \A n \in Names : change[n] # Absent /\ change[n].status.phase = "Approved" =>
        LET c == change[n]
        IN  /\ c.approval = "Approved"
            /\ c.status.observed = c.gen
            /\ c.status.approvedBy = acts[c.uid].decider
            /\ c.status.approvedScope = ScopeDigest(acts[c.uid].scope)

\* What the workflow vouches for is what its reviewer decided, in the admission
\* that relies on it and in the status that reports it.
ApprovalIsGenuine == AdmittedIsReviewed /\ ApprovedStatusIsOwn

\* The same object before and after a step.
Kept(n) == change[n] # Absent /\ change'[n] # Absent /\ change[n].uid = change'[n].uid

\* A decision, once stored, and the proposal it binds stay as they are, and a
\* phase the controller calls terminal is never left.
DecisionIsFinal ==
    [][\A n \in Names : Kept(n) =>
          /\ change[n].decision # None =>
                 change'[n] = [change[n] EXCEPT !.status = change'[n].status]
          /\ change[n].status.phase \in {"Rejected", "Expired"} =>
                 change'[n].status.phase = change[n].status.phase]_changeVars

\* An object whose validity ended is eventually closed by the controller,
\* Expired or Rejected, whatever phase it was in, unless it is deleted.
LapsedIsClosed ==
    \A n \in Names : \A u \in 1 .. MaxUid :
        LET here == change[n] # Absent /\ change[n].uid = u
        IN  (here /\ now >= change[n].scope.validUntil)
                ~> (~here \/ change[n].status.phase \in {"Expired", "Rejected"})

=============================================================================
