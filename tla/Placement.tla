----------------------------- MODULE Placement -----------------------------
(***************************************************************************)
(* Attestation-aware placement: the pod webhooks annotate a pod with the   *)
(* hash of its ConfidentialInferencePolicy, the custom scheduler filters   *)
(* nodes by their evidence, reserves, checks again before binding, mints   *)
(* a placement token and binds (internal/scheduler).                       *)
(*                                                                         *)
(* The reads and the binding of SchedulePod are steps of their own, so     *)
(* that evidence, policy and pod may change between any two.  The          *)
(* scheduler has one worker and reads pods through a cache, which may      *)
(* still show a bound pod as pending.  A hash is the value that it is the  *)
(* hash of.  Pods have one namespace and one policy object; a name may be  *)
(* deleted and created again with another UID.                             *)
(***************************************************************************)
EXTENDS Attestation

CONSTANTS
    Nodes,
    NodeOf,     \* [Evidences -> Nodes], spec.subjectRef
    Pods,       \* pod names
    Specs,      \* policy specs: the accepted TEEs, and an age of at least 1
    InitialSpec, \* the policy at the start, if there is one
    MaxEdits    \* bound: edits of the policy object and deletions of pods

ASSUME PlacementAssumption ==
    /\ NodeOf \in [Evidences -> Nodes]
    /\ Specs \subseteq [tees : SUBSET TEEs, maxAge : Nat \ {0}]
    /\ InitialSpec \in Specs
    /\ MaxEdits \in Nat

VARIABLES
    policy,     \* spec of the ConfidentialInferencePolicy, or NoSpec
    edits,
    pod,        \* the pods
    cachedFree, \* names that the scheduler's cache shows pending and unbound
    sched,      \* SchedulePod in progress
    decision    \* the AIPlacementDecision of each pod name

placeVars == <<policy, edits, pod, cachedFree, sched, decision>>
vars == <<attVars, placeVars>>

NoSpec == [tees |-> {}, maxAge |-> Never]
NoToken == [uid |-> 0, node |-> "none"]
NoPod == [uid |-> 0, phase |-> "absent", hash |-> NoSpec,
          node |-> "none"]
NoDecision == [policyRef |-> FALSE, token |-> NoToken]

PlacementInit ==
    /\ AttestationInit
    /\ policy \in {InitialSpec, NoSpec}
    /\ edits = 0
    /\ pod = [p \in Pods |-> NoPod]
    /\ cachedFree = {}
    /\ sched = [pc |-> "idle"]
    /\ decision = [p \in Pods |-> NoDecision]

-----------------------------------------------------------------------------
(* Policies and pods *)

\* The policy object is edited, deleted or created again.
EditPolicy(s) ==
    /\ edits < MaxEdits /\ s # policy
    /\ policy' = s /\ edits' = edits + 1
    /\ UNCHANGED <<attVars, pod, cachedFree, sched, decision>>

\* mutateForConfidentialPolicy and annotateConfidentialPod: the hash (which
\* covers the expected evidence age) is the one of the policy now.  A pod that
\* carries no evidence annotation is gated until somebody outside this code
\* removes the gate: a delay before PreFilter like any other.
AdmitPod(p) ==
    /\ pod[p].phase = "absent"
    /\ pod' = [pod EXCEPT ![p] =
         [uid |-> pod[p].uid + 1, phase |-> "pending", hash |-> policy,
          node |-> "none"]]
    /\ cachedFree' = cachedFree \cup {p}
    /\ UNCHANGED <<attVars, policy, edits, sched, decision>>

\* A pod is deleted; its name is free for another pod.
DeletePod(p) ==
    /\ pod[p].phase # "absent" /\ edits < MaxEdits
    /\ edits' = edits + 1
    /\ pod' = [pod EXCEPT ![p] = [NoPod EXCEPT !.uid = pod[p].uid]]
    /\ cachedFree' = cachedFree \ {p}
    /\ UNCHANGED <<attVars, policy, sched, decision>>

\* The watch event of a binding reaches the scheduler's cache.
CacheSync(p) ==
    /\ p \in cachedFree /\ pod[p].phase = "bound"
    /\ cachedFree' = cachedFree \ {p}
    /\ UNCHANGED <<attVars, policy, edits, pod, sched, decision>>

-----------------------------------------------------------------------------
(* SchedulePod *)

Stop == [pc |-> "idle"]

\* Reconcile of the pod and preFilter.
PreFilter(p) ==
    /\ sched.pc = "idle"
    /\ p \in cachedFree
    /\ sched' = [pc |-> "filter", pod |-> p, uid |-> pod[p].uid,
                 policy |-> policy]
    /\ UNCHANGED <<attVars, policy, edits, pod, cachedFree, decision>>

Age(ev) == clock - ev.status.lastVerified

\* age > maxAge, where an absent time or limit is never exceeded.
TooOld(ev, maxAge) ==
    maxAge > 0 /\ ev.status.lastVerified # Never /\ Age(ev) > maxAge

\* nodeHasValidEvidence, for one evidence object.
Valid(ev, spec) ==
    /\ ev # NoEvidence
    /\ ~ev.status.revoked
    /\ ev.status.verified
    /\ spec # NoSpec =>
         /\ ~TooOld(ev, spec.maxAge)
         /\ spec.tees # {} => ev.tee \in spec.tees

Candidates(spec) == {e \in Evidences : Valid(evidence[e], spec)}

score(e, spec) ==
    LET ev == evidence[e] IN
    100 + (IF spec = NoSpec \/ ev.status.lastVerified = Never THEN 0
           ELSE IF spec.maxAge = 0 THEN 0
           ELSE ((spec.maxAge - Age(ev)) * 50) \div spec.maxAge)
        + (IF ev.simulated THEN 0 ELSE 20)
        + (IF ev.tee = "TDX" THEN 10 ELSE 5)

\* applyBaseDecision with the token annotation removed.  The policy reference
\* of an earlier attempt stays when there is no policy now, and the status
\* that the scheduler sets is dropped by the API server (a subresource).
BaseDecision(d) ==
    [d EXCEPT !.policyRef = @ \/ sched.policy # NoSpec, !.token = NoToken]

\* filter (again by permit until it finds a node), score and the choice (ties
\* are broken by the order of an unstable sort), and reserveTimed up to the
\* pending decision, which nobody else reads.
FilterAndReserve ==
    /\ sched.pc = "filter"
    /\ \E e \in Candidates(sched.policy) :
         /\ \A d \in Candidates(sched.policy) :
              score(d, sched.policy) <= score(e, sched.policy)
         /\ sched' = [pc |-> "prebind", pod |-> sched.pod, uid |-> sched.uid,
                      policy |-> sched.policy, evidence |-> e,
                      snapshot |-> evidence[e]]
    /\ decision' = [decision EXCEPT ![sched.pod] = BaseDecision(@)]
    /\ UNCHANGED <<attVars, policy, edits, pod, cachedFree>>

\* permit gives up: the reconcile fails and is tried again.
PermitTimeout ==
    /\ sched.pc = "filter" /\ Candidates(sched.policy) = {}
    /\ sched' = Stop
    /\ UNCHANGED <<attVars, policy, edits, pod, cachedFree, decision>>

\* Mutant: the evidence is not compared with the reserved one.
PreBindByName ==
    LET p == sched.pod
        hash == pod[p].hash IN
    /\ pod[p].phase # "absent"
    /\ decision[p].policyRef =>
         policy # NoSpec /\ hash # NoSpec /\ policy = hash
    /\ ~evidence[sched.evidence].status.revoked
    /\ hash # NoSpec => ~TooOld(evidence[sched.evidence], hash.maxAge)

\* preBind's conditions.  The pod is read by name, the annotated age limit is
\* the one of the annotated spec.
PreBindPasses ==
    LET p == sched.pod
        ev == evidence[sched.evidence]
        hash == pod[p].hash IN
    /\ pod[p].phase # "absent"
    /\ decision[p].policyRef =>
         policy # NoSpec /\ hash # NoSpec /\ policy = hash
    /\ ~ev.status.revoked
    /\ ev = sched.snapshot
    /\ hash # NoSpec => ~TooOld(ev, hash.maxAge)

\* token.Mint, with the two identities it binds.
MintedToken == [uid |-> sched.uid, node |-> NodeOf[sched.evidence]]

\* reserveTimed after the pending decision: preBind and, when it passes, the
\* token; otherwise the denied decision.
PreBindAndMint ==
    LET p == sched.pod
        passes == PreBindPasses IN
    /\ sched.pc = "prebind"
    /\ decision' = [decision EXCEPT ![p] =
         [BaseDecision(@) EXCEPT
            !.token = IF passes THEN MintedToken ELSE NoToken]]
    /\ sched' = IF passes
                THEN [pc |-> "bind", pod |-> p, evidence |-> sched.evidence,
                      check |-> [evidence |-> evidence[sched.evidence],
                                 under |-> sched.policy, policy |-> policy,
                                 hash |-> pod[p].hash, at |-> clock]]
                ELSE Stop
    /\ UNCHANGED <<attVars, policy, edits, pod, cachedFree>>

\* The Binding names the pod, not its UID; the API server refuses it for a pod
\* that is gone or bound.
Bind ==
    LET p == sched.pod IN
    /\ sched.pc = "bind"
    /\ IF pod[p].phase = "pending"
       THEN /\ pod' = [pod EXCEPT ![p].phase = "bound",
                                  ![p].node = NodeOf[sched.evidence]]
       ELSE UNCHANGED pod
    /\ sched' = Stop
    /\ UNCHANGED <<attVars, policy, edits, cachedFree, decision>>

\* The scheduler restarts, or an API call of the attempt fails.
SchedulerCrash ==
    /\ sched.pc # "idle" 
    /\ sched' = Stop
    /\ UNCHANGED <<attVars, policy, edits, pod, cachedFree, decision>>

-----------------------------------------------------------------------------
(* Properties *)

Binds(p) == pod[p].phase # "bound" /\ pod'[p].phase = "bound"

\* A pod is bound only after a PreBind check of evidence that was verified, not
\* revoked and, when the pod carries a policy, within its age.  A pod filtered
\* under a policy is bound only if the policy of the check is the very one it
\* was admitted with (nodeHasValidEvidence, preBind); a policy that appears
\* after PreFilter found none is not enforced.
BoundWasChecked ==
    [][\A p \in Pods : Binds(p) =>
         LET c == sched.check IN
         /\ c.evidence.status.verified /\ ~c.evidence.status.revoked
         /\ c.under # NoSpec => c.policy # NoSpec /\ c.policy = c.hash
         /\ c.hash # NoSpec =>
              c.at - c.evidence.status.lastVerified <= c.hash.maxAge]_vars

\* A report that the verifier may accept.
Acceptable(r) ==
    r.simulated \/ r.token.authentic

\* A pod is bound only to a node that attested itself, and a node whose
\* evidence is real did so recently: replaying a report cannot keep evidence
\* alive for longer than the policy's limit and the token's together
\* (VerifyMAAToken, nodeHasValidEvidence, preBind).  Recency needs a single
\* writer of the status: the legacy reconciler takes the verdict of a simulated
\* report for the real one whose spec was just written.
BoundNodeAttested ==
    [][\A p \in Pods : Binds(p) =>
         LET c == sched.check IN
         \E r \in reports :
           /\ NodeOf[r.of] = pod'[p].node /\ Acceptable(r)
           /\ (/\ c.hash # NoSpec /\ ~legacy
               /\ c.evidence.status.mode = "real")
                => c.at - r.token.issued <= MaxTokenAge + c.hash.maxAge]_vars

-----------------------------------------------------------------------------
SchedulerStep == \/ \E p \in Pods : PreFilter(p)
                 \/ FilterAndReserve \/ PermitTimeout
                 \/ PreBindAndMint \/ Bind

PlacementNext ==
    \/ AttestationNext /\ UNCHANGED placeVars
    \/ \E s \in Specs \cup {NoSpec} : EditPolicy(s)
    \/ \E p \in Pods :
         \/ AdmitPod(p) \/ DeletePod(p) \/ CacheSync(p)
    \/ SchedulerStep
    \/ SchedulerCrash

PlacementSpec == PlacementInit /\ [][PlacementNext]_vars

=============================================================================
