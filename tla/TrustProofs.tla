---------------------------- MODULE TrustProofs ----------------------------
(***************************************************************************)
(* What trust rests on: attestation-aware placement, the audit trail and   *)
(* the trace of an experiment.                                             *)
(*                                                                         *)
(* Placement, for every number of nodes, reports, pods, policies, edits    *)
(* and ticks: the types of the attestation objects, and what the scheduler *)
(* knows of a node when it binds a pod.                                    *)
(*                                                                         *)
(* The audit trail of a tenant, for any writers, any finite set of         *)
(* requests, any event identifiers and any batch size.  The invariant says *)
(* of what a transaction sees that every entry commits to the contents up  *)
(* to it, that the entries of a request follow one another up to the       *)
(* stored reservation, and that an identifier in the trail is spent: what  *)
(* it was used for cannot happen again, so no entry ever reuses one.       *)
(*                                                                         *)
(* The trace, for any list of tenants, any streams, usages, prices and     *)
(* settlement delays.  The invariant says that the recount of the rows so  *)
(* far is the state of the runner (the stage of every request, the         *)
(* ledgers, the pending requests, the snapshots), that a tenant's peak     *)
(* lies between what has settled and what was dispatched, and that the     *)
(* rows that do not agree are those of the disputed settlements.           *)
(***************************************************************************)
EXTENDS Placement, AuditChain, ExperimentTrace, SumTheorems, FiniteSetTheorems, WellFoundedInduction, TLAPS

-----------------------------------------------------------------------------
(* The inductive invariant: attestation *)

Objects ==
    /\ clock \in 0 .. MaxClock
    /\ reports \subseteq RawAttestationReport
    /\ evidence \in [Evidences -> AttestationEvidence \cup {NoEvidence}]
    /\ revokedUntil \in [Evidences -> Nat \cup {Never}]

\* What a report shows: at the time t it was acceptable, and its token fresh.
Fresh(r, t) == r.token.authentic /\ t - r.token.issued <= MaxTokenAge

\* The verifier between its two writes; no time passes there.
Verification ==
    \/ verifying = Idle
    \/ /\ verifying.report \in reports
       /\ verifying.outcome \in {"Verified", "Failed"}
       /\ evidence[verifying.report.of] \in AttestationEvidence
       /\ verifying.outcome = "Verified" /\ ~verifying.report.simulated
             => Fresh(verifying.report, clock)

\* The evidence ev of e claims no more than some report of e showed.
Attested(e, ev, known, old) ==
    /\ ev.simulated => \E r \in known : r.of = e /\ r.simulated
    /\ ev.status.verified =>
          /\ ev.status.lastVerified \in Nat
          /\ \E r \in known : r.of = e /\ Acceptable(r)
    /\ ev.status.verified /\ ev.status.mode = "real" /\ ~old =>
          \E r \in known : r.of = e /\ Fresh(r, ev.status.lastVerified)

Attestations == \A e \in Evidences : Attested(e, evidence[e], reports, legacy)

-----------------------------------------------------------------------------
(* The inductive invariant: placement *)

Pod == [uid : Nat, phase : {"absent", "pending", "bound"},
        hash : Specs \cup {NoSpec}, node : Nodes \cup {"none"}]

PlacementDecision ==
    [policyRef : BOOLEAN, token : [uid : Nat, node : Nodes \cup {"none"}]]

PodObjects ==
    /\ policy \in Specs \cup {NoSpec}
    /\ pod \in [Pods -> Pod]
    /\ cachedFree \subseteq Pods
    /\ decision \in [Pods -> PlacementDecision]

\* What PreBind established for the attempt that is about to bind.
Checked(c) ==
    /\ c.evidence.status.verified /\ ~c.evidence.status.revoked
    /\ c.under # NoSpec => c.policy # NoSpec /\ c.policy = c.hash
    /\ c.hash # NoSpec =>
          c.at - c.evidence.status.lastVerified <= c.hash.maxAge

Vouched(c, node, known, old) ==
    \E r \in known :
       /\ NodeOf[r.of] = node /\ Acceptable(r)
       /\ (/\ c.hash # NoSpec /\ ~old
           /\ c.evidence.status.mode = "real")
            => c.at - r.token.issued <= MaxTokenAge + c.hash.maxAge

Attempt ==
    /\ sched.pc \in {"idle", "filter", "prebind", "bind"}
    /\ sched.pc # "idle" => sched.pod \in Pods
    /\ sched.pc \in {"filter", "prebind"} =>
          sched.uid \in Nat /\ sched.policy \in Specs \cup {NoSpec}
    /\ sched.pc \in {"prebind", "bind"} => sched.evidence \in Evidences
    /\ sched.pc = "prebind" =>
          /\ sched.snapshot.status.verified
          /\ sched.policy # NoSpec => decision[sched.pod].policyRef
    /\ sched.pc = "bind" =>
          /\ Checked(sched.check)
          /\ Vouched(sched.check, NodeOf[sched.evidence], reports, legacy)

PlacementInv ==
    /\ Objects
    /\ Verification
    /\ Attestations
    /\ PodObjects
    /\ Attempt

-----------------------------------------------------------------------------
LEMMA PlacementInitHolds == PlacementInit => PlacementInv
<1> SUFFICES ASSUME PlacementInit PROVE PlacementInv
  OBVIOUS
<1> USE AttestationAssumption, PlacementAssumption
        DEF PlacementInit, AttestationInit
<1>1. Objects
  BY DEF Objects, AttestationAssumption
<1>2. Verification
  BY DEF Verification
<1>3. Attestations
  BY DEF Attestations, Attested, NoEvidence, NoStatus
<1>4. NoPod \in Pod /\ NoDecision \in PlacementDecision
  BY DEF NoPod, Pod, NoDecision, PlacementDecision, NoToken
<1>5. PodObjects
  BY <1>4 DEF PodObjects, PlacementAssumption
<1>6. Attempt
  BY DEF Attempt
<1> QED BY <1>1, <1>2, <1>3, <1>5, <1>6 DEF PlacementInv

\* What a step leaves alone, it preserves.
LEMMA PodObjectsKept ==
    PodObjects /\ UNCHANGED <<policy, pod, cachedFree, decision>> => PodObjects'
BY DEF PodObjects

\* Attestation holds while its objects stay as they are.
LEMMA AttestationKept ==
    Objects /\ Verification /\ Attestations /\ UNCHANGED attVars
        => Objects' /\ Verification' /\ Attestations'
BY DEF attVars, Objects, Verification, Attestations, Attested, Fresh

\* Reports are only added, and nothing the scheduler knows is forgotten.
LEMMA AttemptKept ==
    ASSUME Attempt, UNCHANGED <<sched, decision, legacy>>, reports \subseteq reports'
    PROVE  Attempt'
<1>1. ASSUME NEW c, NEW node, Vouched(c, node, reports, legacy)
      PROVE  Vouched(c, node, reports', legacy')
  BY <1>1 DEF Vouched
<1> QED BY <1>1 DEF Attempt

-----------------------------------------------------------------------------
(* Attestation *)

\* A raw report is created.
LEMMA CreateReportHolds ==
    ASSUME Objects, Verification, Attestations,
           NEW e \in Evidences, NEW sim \in BOOLEAN, NEW authentic \in BOOLEAN,
           CreateReport(e, sim, authentic)
    PROVE  /\ Objects' /\ Verification' /\ Attestations'
           /\ reports \subseteq reports' /\ UNCHANGED legacy
<1> DEFINE r == [of |-> e, simulated |-> sim,
                 token |-> [issued |-> IF sim THEN Never ELSE clock,
                            authentic |-> authentic]]
<1>1. reports' = reports \cup {r}
      /\ UNCHANGED <<clock, evidence, verifying, revokedUntil, legacy>>
  BY DEF CreateReport
<1>2. r \in RawAttestationReport
  BY AttestationAssumption DEF Objects, RawAttestationReport, Token, Never,
     AttestationAssumption
<1> HIDE DEF r
<1>3. Objects'
  BY <1>1, <1>2 DEF Objects
<1>4. Verification'
  BY <1>1 DEF Verification, Fresh
<1>5. Attestations'
  BY <1>1 DEF Attestations, Attested
<1> QED BY <1>1, <1>3, <1>4, <1>5

\* The verifier judges a report.
LEMMA VerifyReportHolds ==
    ASSUME Objects, Verification, Attestations,
           NEW r \in reports, NEW reachable \in BOOLEAN, VerifyReport(r, reachable)
    PROVE  /\ Objects' /\ Verification' /\ Attestations'
           /\ reports \subseteq reports' /\ UNCHANGED legacy
<1> DEFINE status == evidence[r.of].status
           ev == [tee |-> IF r.simulated THEN teeFromAttestationType(ExpectedTEE)
                                         ELSE "SEV-SNP",
                  simulated |-> r.simulated, status |-> status]
           outcome == IF r.simulated THEN "Verified"
                      ELSE VerifyMAAToken(r.token, reachable)
<1>1. /\ evidence' = [evidence EXCEPT ![r.of] = ev]
      /\ verifying' = [report |-> r, status |-> status, outcome |-> outcome]
      /\ UNCHANGED <<clock, reports, revokedUntil, legacy>>
  BY DEF VerifyReport
<1>2. r \in RawAttestationReport /\ r.of \in Evidences /\ r.simulated \in BOOLEAN
  BY DEF Objects, RawAttestationReport
<1>3. NoStatus \in EvidenceStatus
  BY DEF NoStatus, EvidenceStatus
<1>4. status \in EvidenceStatus
  BY <1>2, <1>3 DEF Objects, AttestationEvidence, NoEvidence
<1>5. ev \in AttestationEvidence
  BY <1>2, <1>4 DEF AttestationEvidence, TEEs, teeFromAttestationType
<1>6. /\ outcome \in {"Verified", "Failed"}
      /\ outcome = "Verified" /\ ~r.simulated => Fresh(r, clock)
  BY DEF VerifyMAAToken, ValidateFreshness, Fresh
<1>7. ev.simulated = r.simulated /\ ev.status = status
  OBVIOUS
<1> HIDE DEF ev, outcome
<1>8. \A e \in Evidences : evidence'[e] = IF e = r.of THEN ev ELSE evidence[e]
  BY <1>1 DEF Objects
<1>9. Objects'
  BY <1>1, <1>5 DEF Objects
<1>10. Verification'
  BY <1>1, <1>2, <1>5, <1>6, <1>8 DEF Verification, Fresh
<1>11. Attestations'
  <2>1. ASSUME NEW e \in Evidences PROVE Attested(e, evidence'[e], reports, legacy)
    <3>1. CASE e = r.of
      BY <1>2, <1>7, <1>8, <3>1 DEF Attestations, Attested
    <3>2. CASE e # r.of
      BY <1>8, <3>2 DEF Attestations
    <3> QED BY <3>1, <3>2
  <2> QED BY <1>1, <2>1 DEF Attestations
<1> QED BY <1>1, <1>9, <1>10, <1>11

\* What the verifier writes over the status it read.
LEMMA VerifiedStatusFields ==
    ASSUME NEW old \in EvidenceStatus, NEW r, NEW outcome, clock \in Nat
    PROVE  LET s == VerifiedStatus(old, r, outcome)
           IN  /\ s \in EvidenceStatus
               /\ s.verified <=> outcome = "Verified"
               /\ outcome = "Verified" => s.lastVerified = clock
               /\ s.mode = "real" => ~r.simulated
<1> DEFINE s == VerifiedStatus(old, r, outcome)
           mode == CASE r.simulated -> "simulated"
                     [] ~r.simulated /\ outcome = "Verified" -> "real"
                     [] OTHER -> "unverified"
           last == IF outcome = "Verified" THEN clock ELSE old.lastVerified
           s1 == [old EXCEPT !.verified = (outcome = "Verified")]
           s2 == [s1 EXCEPT !.lastVerified = last]
           s3 == [s2 EXCEPT !.mode = mode]
<1>1. s = s3
  BY DEF VerifiedStatus
<1>2. mode \in {"real", "simulated", "unverified"} /\ (mode = "real" => ~r.simulated)
  OBVIOUS
<1>3. last \in Nat \cup {Never}
  BY DEF EvidenceStatus
<1>4. s1 \in EvidenceStatus /\ (s1.verified <=> outcome = "Verified")
  BY DEF EvidenceStatus
<1> HIDE DEF mode, s1
<1>5. /\ s2 \in EvidenceStatus /\ (s2.verified <=> outcome = "Verified")
      /\ s2.lastVerified = last
  BY <1>3, <1>4 DEF EvidenceStatus
<1> HIDE DEF s2
<1>6. /\ s3 \in EvidenceStatus /\ (s3.verified <=> outcome = "Verified")
      /\ s3.lastVerified = last /\ s3.mode = mode
  BY <1>2, <1>5 DEF EvidenceStatus
<1> HIDE DEF s3
<1> QED BY <1>1, <1>2, <1>6

\* A write of the status of one evidence object.
LEMMA StatusWriteHolds ==
    ASSUME Objects, Attestations, NEW e \in Evidences, NEW s \in EvidenceStatus,
           evidence[e] \in AttestationEvidence,
           evidence' = [evidence EXCEPT ![e] = [evidence[e] EXCEPT !.status = s]],
           UNCHANGED <<clock, reports, revokedUntil, legacy>>,
           Attested(e, [evidence[e] EXCEPT !.status = s], reports, legacy)
    PROVE  Objects' /\ Attestations'
<1> DEFINE ev == [evidence[e] EXCEPT !.status = s]
<1>1. ev \in AttestationEvidence
  BY DEF AttestationEvidence
<1>2. Attested(e, ev, reports, legacy) /\ evidence' = [evidence EXCEPT ![e] = ev]
  OBVIOUS
<1> HIDE DEF ev
<1>3. \A d \in Evidences : evidence'[d] = IF d = e THEN ev ELSE evidence[d]
  BY <1>2 DEF Objects
<1>4. Objects'
  BY <1>1, <1>2 DEF Objects
<1>5. Attestations'
  BY <1>2, <1>3 DEF Attestations
<1> QED BY <1>4, <1>5

\* The verifier writes the status of the evidence.
LEMMA WriteEvidenceStatusHolds ==
    ASSUME Objects, Verification, Attestations, WriteEvidenceStatus
    PROVE  /\ Objects' /\ Verification' /\ Attestations'
           /\ reports \subseteq reports' /\ UNCHANGED legacy
<1> DEFINE r == verifying.report
           e == r.of
           old == evidence[e].status
           s == VerifiedStatus(old, r, verifying.outcome)
<1>1. /\ verifying # Idle /\ verifying' = Idle
      /\ UNCHANGED <<clock, reports, revokedUntil, legacy>>
  BY DEF WriteEvidenceStatus
<1>2. Verification'
  BY <1>1 DEF Verification
<1>3. CASE old # verifying.status
  <2>1. UNCHANGED evidence
    BY <1>3 DEF WriteEvidenceStatus
  <2> QED BY <1>1, <1>2, <2>1 DEF Objects, Attestations
<1>4. CASE old = verifying.status
  <2>1. evidence' = [evidence EXCEPT ![e] = [evidence[e] EXCEPT !.status = s]]
    BY <1>4 DEF WriteEvidenceStatus
  <2>2. /\ r \in reports /\ e \in Evidences /\ evidence[e] \in AttestationEvidence
        /\ verifying.outcome = "Verified" /\ ~r.simulated => Fresh(r, clock)
    BY <1>1 DEF Verification, Objects, RawAttestationReport
  <2>3. old \in EvidenceStatus /\ clock \in Nat
    BY <2>2, AttestationAssumption DEF AttestationEvidence, Objects, AttestationAssumption
  <2>4. /\ s \in EvidenceStatus
        /\ s.verified <=> verifying.outcome = "Verified"
        /\ verifying.outcome = "Verified" => s.lastVerified = clock
        /\ s.mode = "real" => ~r.simulated
    BY <2>3, VerifiedStatusFields
  <2> HIDE DEF s
  <2> DEFINE ev == [evidence[e] EXCEPT !.status = s]
  <2>5. ev.status = s /\ ev.simulated = evidence[e].simulated
    BY <2>2 DEF AttestationEvidence
  <2> HIDE DEF ev
  <2>6. Attested(e, ev, reports, legacy)
    <3>1. ev.simulated => \E q \in reports : q.of = e /\ q.simulated
      BY <2>2, <2>5 DEF Attestations, Attested
    <3>2. s.verified => Acceptable(r)
      BY <2>2, <2>4 DEF Acceptable, Fresh
    <3>3. s.verified /\ s.mode = "real" => Fresh(r, s.lastVerified)
      BY <2>2, <2>4
    <3> QED BY <2>2, <2>3, <2>4, <2>5, <3>1, <3>2, <3>3 DEF Attested
  <2>7. Objects' /\ Attestations'
    BY <1>1, <2>1, <2>2, <2>4, <2>6, StatusWriteHolds DEF ev
  <2> QED BY <1>1, <1>2, <2>7
<1> QED BY <1>3, <1>4

\* The evidence controller reconciles an object.
LEMMA ReconcileEvidenceHolds ==
    ASSUME Objects, Verification, Attestations, NEW e \in Evidences, ReconcileEvidence(e)
    PROVE  /\ Objects' /\ Verification' /\ Attestations'
           /\ reports \subseteq reports' /\ UNCHANGED legacy
<1> DEFINE revoked == isEvidenceRevoked(e)
           verified == ~revoked /\ evidence[e].simulated
           old == evidence[e].status
           last == IF verified THEN clock ELSE old.lastVerified
           s1 == [old EXCEPT !.revoked = revoked]
           s2 == [s1 EXCEPT !.verified = verified]
           s3 == [s2 EXCEPT !.lastVerified = last]
<1>1. /\ legacy /\ evidence[e] \in AttestationEvidence
      /\ UNCHANGED <<clock, reports, verifying, revokedUntil, legacy>>
  BY DEF ReconcileEvidence, Objects
<1>2. evidence' = [evidence EXCEPT ![e] = [evidence[e] EXCEPT !.status = s3]]
  <2>1. s3 = ReconciledStatus(old, revoked, verified)
    BY <1>1 DEF ReconciledStatus, AttestationEvidence, EvidenceStatus
  <2>2. evidence' = [evidence EXCEPT ![e] = [evidence[e] EXCEPT !.status =
                       ReconciledStatus(old, revoked, verified)]]
    BY DEF ReconcileEvidence
  <2> QED BY <2>1, <2>2
<1>3. /\ old \in EvidenceStatus /\ clock \in Nat /\ evidence[e].simulated \in BOOLEAN
      /\ old.lastVerified \in Nat \cup {Never}
  BY <1>1, AttestationAssumption
     DEF AttestationEvidence, EvidenceStatus, Objects, AttestationAssumption
<1>4. revoked \in BOOLEAN
  BY DEF isEvidenceRevoked
<1>5. verified \in BOOLEAN /\ last \in Nat \cup {Never}
  BY <1>3, <1>4
<1>6. verified => last \in Nat /\ evidence[e].simulated
  BY <1>3
<1> HIDE DEF revoked, verified, last
<1>7. s1 \in EvidenceStatus
  BY <1>3, <1>4 DEF EvidenceStatus
<1> HIDE DEF s1
<1>8. s2 \in EvidenceStatus /\ s2.verified = verified
  BY <1>5, <1>7 DEF EvidenceStatus
<1> HIDE DEF s2
<1>9. s3 \in EvidenceStatus /\ s3.verified = verified /\ s3.lastVerified = last
  BY <1>5, <1>8 DEF EvidenceStatus
<1> HIDE DEF s3
<1> DEFINE ev == [evidence[e] EXCEPT !.status = s3]
<1>10. ev.status = s3 /\ ev.simulated = evidence[e].simulated /\ ev \in AttestationEvidence
  BY <1>1, <1>9 DEF AttestationEvidence
<1> HIDE DEF ev
<1>11. Attested(e, ev, reports, legacy)
  BY <1>1, <1>6, <1>9, <1>10 DEF Attestations, Attested, Acceptable
<1>12. Objects' /\ Attestations'
  BY <1>1, <1>2, <1>9, <1>11, StatusWriteHolds DEF ev
<1>13. Verification'
  <2>1. \A d \in Evidences : evidence'[d] = IF d = e THEN ev ELSE evidence[d]
    BY <1>2 DEF Objects, ev
  <2>2. verifying # Idle => verifying.report.of \in Evidences
    BY DEF Verification, Objects, RawAttestationReport
  <2> QED BY <1>1, <1>10, <2>1, <2>2 DEF Verification, Fresh
<1> QED BY <1>1, <1>12, <1>13

\* Every step of attestation.
LEMMA AttestationNextHolds ==
    ASSUME Objects, Verification, Attestations, AttestationNext
    PROVE  /\ Objects' /\ Verification' /\ Attestations'
           /\ reports \subseteq reports' /\ UNCHANGED legacy
<1>1. CASE VerifierCrash
  BY <1>1 DEF VerifierCrash, Objects, Verification, Attestations
<1>2. ASSUME NEW e \in Evidences, Revoke(e)
      PROVE  /\ Objects' /\ Verification' /\ Attestations'
             /\ reports \subseteq reports' /\ UNCHANGED legacy
  <2>1. UNCHANGED <<clock, reports, evidence, verifying, legacy>>
    BY <1>2 DEF Revoke
  <2>2. Objects'
    BY <1>2, AttestationAssumption DEF Revoke, Objects, AttestationAssumption
  <2> QED BY <2>1, <2>2 DEF Verification, Attestations, Fresh
<1>3. CASE Tick
  <2>1. Objects'
    BY <1>3, AttestationAssumption DEF Tick, Objects, AttestationAssumption
  <2> QED BY <1>3, <2>1 DEF Tick, Verification, Attestations
<1> QED BY <1>1, <1>2, <1>3, CreateReportHolds, VerifyReportHolds,
           WriteEvidenceStatusHolds, ReconcileEvidenceHolds DEF AttestationNext

-----------------------------------------------------------------------------
(* Policies, pods and the scheduler *)

\* The policy is edited.
LEMMA EditPolicyHolds ==
    ASSUME PlacementInv, NEW s \in Specs \cup {NoSpec}, EditPolicy(s)
    PROVE  PlacementInv'
<1>1. UNCHANGED <<attVars, pod, cachedFree, sched, decision>> /\ policy' = s
  BY DEF EditPolicy
<1>2. PodObjects'
  BY <1>1 DEF PlacementInv, PodObjects
<1> QED BY <1>1, <1>2, AttestationKept, AttemptKept DEF PlacementInv, attVars

\* A pod is written.
LEMMA PodWriteHolds ==
    ASSUME PlacementInv, NEW p \in Pods, NEW d \in Pod,
           pod' = [pod EXCEPT ![p] = d], cachedFree' \subseteq cachedFree \cup {p},
           UNCHANGED <<attVars, policy, sched, decision>>
    PROVE  PlacementInv'
<1>1. PodObjects'
  BY DEF PlacementInv, PodObjects
<1> QED BY <1>1, AttestationKept, AttemptKept DEF PlacementInv, attVars

\* A pod is admitted, deleted or seen by the cache.
LEMMA PodsHold ==
    ASSUME PlacementInv, NEW p \in Pods, AdmitPod(p) \/ DeletePod(p) \/ CacheSync(p)
    PROVE  PlacementInv'
<1>1. pod[p] \in Pod /\ policy \in Specs \cup {NoSpec}
  BY DEF PlacementInv, PodObjects
<1>2. CASE AdmitPod(p)
  <2> DEFINE d == [uid |-> pod[p].uid + 1, phase |-> "pending", hash |-> policy,
                   node |-> "none"]
  <2>1. d \in Pod
    BY <1>1 DEF Pod
  <2> QED BY <1>2, <2>1, PodWriteHolds DEF AdmitPod
<1>3. CASE DeletePod(p)
  <2> DEFINE d == [NoPod EXCEPT !.uid = pod[p].uid]
  <2>1. d \in Pod
    BY <1>1 DEF Pod, NoPod
  <2> QED BY <1>3, <2>1, PodWriteHolds DEF DeletePod
<1>4. CASE CacheSync(p)
  <2>1. PodObjects'
    BY <1>4 DEF CacheSync, PlacementInv, PodObjects
  <2> QED BY <1>4, <2>1, AttestationKept, AttemptKept DEF CacheSync, PlacementInv, attVars
<1> QED BY <1>2, <1>3, <1>4

\* A scheduling cycle starts.
LEMMA PreFilterHolds ==
    ASSUME PlacementInv, NEW p \in Pods, PreFilter(p)
    PROVE  PlacementInv'
<1>1. UNCHANGED <<attVars, policy, edits, pod, cachedFree, decision>>
      /\ sched' = [pc |-> "filter", pod |-> p, uid |-> pod[p].uid, policy |-> policy]
  BY DEF PreFilter
<1>2. pod[p].uid \in Nat /\ policy \in Specs \cup {NoSpec}
  BY DEF PlacementInv, PodObjects, Pod
<1>3. Attempt'
  BY <1>1, <1>2 DEF Attempt
<1> QED BY <1>1, <1>3, AttestationKept, PodObjectsKept DEF PlacementInv

\* The cycle ends, by a timeout or by a crash.
LEMMA StopHolds ==
    ASSUME PlacementInv, PermitTimeout \/ SchedulerCrash
    PROVE  PlacementInv'
<1>1. UNCHANGED <<attVars, policy, edits, pod, cachedFree, decision>> /\ sched' = Stop
  BY DEF PermitTimeout, SchedulerCrash
<1>2. Attempt'
  BY <1>1 DEF Attempt, Stop
<1> QED BY <1>1, <1>2, AttestationKept, PodObjectsKept DEF PlacementInv

\* applyBaseDecision never takes a policy reference away.
LEMMA BaseDecisionFields ==
    ASSUME NEW d \in PlacementDecision
    PROVE  /\ BaseDecision(d) \in PlacementDecision
           /\ BaseDecision(d).policyRef <=> (d.policyRef \/ sched.policy # NoSpec)
<1> DEFINE ref == d.policyRef \/ sched.policy # NoSpec
           d1 == [d EXCEPT !.policyRef = ref]
           d2 == [d1 EXCEPT !.token = NoToken]
<1>1. BaseDecision(d) = d2
  BY DEF BaseDecision
<1>2. ref \in BOOLEAN
  BY DEF PlacementDecision
<1> HIDE DEF ref
<1>3. d1 \in PlacementDecision /\ d1.policyRef = ref
  BY <1>2 DEF PlacementDecision
<1> HIDE DEF d1
<1>4. NoToken \in [uid : Nat, node : Nodes \cup {"none"}]
  BY DEF NoToken
<1>5. d2 \in PlacementDecision /\ d2.policyRef = ref
  BY <1>3, <1>4 DEF PlacementDecision
<1> QED BY <1>1, <1>5 DEF ref

\* A node is chosen and reserved.
LEMMA FilterAndReserveHolds == PlacementInv /\ FilterAndReserve => PlacementInv'
<1> SUFFICES ASSUME PlacementInv, FilterAndReserve PROVE PlacementInv'
  OBVIOUS
<1> DEFINE p == sched.pod
<1>1. PICK e \in Candidates(sched.policy) :
        sched' = [pc |-> "prebind", pod |-> p, uid |-> sched.uid,
                  policy |-> sched.policy, evidence |-> e, snapshot |-> evidence[e]]
  BY DEF FilterAndReserve
<1>2. /\ sched.pc = "filter"
      /\ decision' = [decision EXCEPT ![p] = BaseDecision(decision[p])]
      /\ UNCHANGED <<attVars, policy, edits, pod, cachedFree>>
  BY DEF FilterAndReserve
<1>3. p \in Pods /\ sched.uid \in Nat /\ sched.policy \in Specs \cup {NoSpec}
  BY <1>2 DEF PlacementInv, Attempt
<1>4. e \in Evidences /\ evidence[e].status.verified
  BY DEF Candidates, Valid
<1>5. decision[p] \in PlacementDecision
  BY <1>3 DEF PlacementInv, PodObjects
<1>6. /\ BaseDecision(decision[p]) \in PlacementDecision
      /\ sched.policy # NoSpec => BaseDecision(decision[p]).policyRef
  BY <1>5, BaseDecisionFields
<1>7. PodObjects'
  BY <1>2, <1>6 DEF PlacementInv, PodObjects
<1>8. decision'[p] = BaseDecision(decision[p])
  BY <1>2, <1>3 DEF PlacementInv, PodObjects
<1>9. /\ sched'.pc = "prebind" /\ sched'.pod = p /\ sched'.uid = sched.uid
      /\ sched'.policy = sched.policy /\ sched'.evidence = e
      /\ sched'.snapshot = evidence[e]
  BY <1>1
<1>10. Attempt'
  BY <1>3, <1>4, <1>6, <1>8, <1>9 DEF Attempt
<1> QED BY <1>2, <1>7, <1>10, AttestationKept DEF PlacementInv

\* What PreBind finds is what the binding rests on.
LEMMA PreBindEstablishes ==
    ASSUME PlacementInv, sched.pc = "prebind", PreBindPasses,
           NEW c, c.evidence = evidence[sched.evidence], c.under = sched.policy,
           c.policy = policy, c.hash = pod[sched.pod].hash, c.at = clock
    PROVE  /\ Checked(c)
           /\ Vouched(c, NodeOf[sched.evidence], reports, legacy)
<1> DEFINE e == sched.evidence
           s == evidence[e].status
<1>1. /\ sched.pod \in Pods /\ e \in Evidences /\ sched.snapshot.status.verified
      /\ sched.policy # NoSpec => decision[sched.pod].policyRef
  BY DEF PlacementInv, Attempt
<1>2. /\ decision[sched.pod].policyRef => policy # NoSpec /\ policy = c.hash
      /\ ~s.revoked /\ evidence[e] = sched.snapshot
      /\ c.hash # NoSpec => ~TooOld(evidence[e], c.hash.maxAge)
  BY DEF PreBindPasses
<1>3. s.verified
  BY <1>1, <1>2
<1>4. Attested(e, evidence[e], reports, legacy)
  BY <1>1 DEF PlacementInv, Attestations
<1>5. s.lastVerified \in Nat /\ clock \in Nat
  BY <1>3, <1>4 DEF Attested, PlacementInv, Objects
<1>6. c.hash \in Specs \cup {NoSpec}
  BY <1>1 DEF PlacementInv, PodObjects, Pod
<1>7. c.hash # NoSpec => c.hash.maxAge \in Nat \ {0}
  BY <1>6, PlacementAssumption DEF PlacementAssumption
<1>8. c.hash # NoSpec => clock - s.lastVerified <= c.hash.maxAge
  BY <1>2, <1>5, <1>7 DEF TooOld, Age, Never
<1>9. Checked(c)
  BY <1>1, <1>2, <1>3, <1>8 DEF Checked
<1>10. Vouched(c, NodeOf[e], reports, legacy)
  <2>1. CASE c.hash # NoSpec /\ ~legacy /\ s.mode = "real"
    <3>1. PICK r \in reports : r.of = e /\ Fresh(r, s.lastVerified)
      BY <1>3, <1>4, <2>1 DEF Attested
    <3>2. r.token.issued \in Int /\ MaxTokenAge \in Nat
      BY AttestationAssumption DEF PlacementInv, Objects, RawAttestationReport, Token,
         Never, AttestationAssumption
    <3>3. clock - r.token.issued <= MaxTokenAge + c.hash.maxAge
      BY <1>5, <1>7, <1>8, <2>1, <3>1, <3>2 DEF Fresh
    <3> QED BY <3>1, <3>3 DEF Vouched, Acceptable, Fresh
  <2>2. CASE ~(c.hash # NoSpec /\ ~legacy /\ s.mode = "real")
    <3>1. PICK r \in reports : r.of = e /\ Acceptable(r)
      BY <1>3, <1>4 DEF Attested
    <3> QED BY <2>2, <3>1 DEF Vouched
  <2> QED BY <2>1, <2>2
<1> QED BY <1>9, <1>10

\* The node is checked again and the token minted.
LEMMA PreBindAndMintHolds == PlacementInv /\ PreBindAndMint => PlacementInv'
<1> SUFFICES ASSUME PlacementInv, PreBindAndMint PROVE PlacementInv'
  OBVIOUS
<1> DEFINE p == sched.pod
           e == sched.evidence
           token == IF PreBindPasses THEN MintedToken ELSE NoToken
           d == [BaseDecision(decision[p]) EXCEPT !.token = token]
           c == [evidence |-> evidence[e], under |-> sched.policy, policy |-> policy,
                 hash |-> pod[p].hash, at |-> clock]
<1>1. /\ sched.pc = "prebind"
      /\ decision' = [decision EXCEPT ![p] = d]
      /\ sched' = IF PreBindPasses
                  THEN [pc |-> "bind", pod |-> p, evidence |-> e, check |-> c]
                  ELSE Stop
      /\ UNCHANGED <<attVars, policy, edits, pod, cachedFree>>
  BY DEF PreBindAndMint
<1>2. p \in Pods /\ e \in Evidences /\ sched.uid \in Nat
  BY <1>1 DEF PlacementInv, Attempt
<1>3. token \in [uid : Nat, node : Nodes \cup {"none"}]
  BY <1>2, PlacementAssumption DEF MintedToken, NoToken, PlacementAssumption
<1>4. BaseDecision(decision[p]) \in PlacementDecision
  BY <1>2, BaseDecisionFields DEF PlacementInv, PodObjects
<1> HIDE DEF token
<1>5. d \in PlacementDecision
  BY <1>3, <1>4 DEF PlacementDecision
<1> HIDE DEF d
<1>6. PodObjects'
  BY <1>1, <1>5 DEF PlacementInv, PodObjects
<1>7. Attempt'
  <2>1. CASE ~PreBindPasses
    BY <1>1, <2>1 DEF Attempt, Stop
  <2>2. CASE PreBindPasses
    <3>1. Checked(c) /\ Vouched(c, NodeOf[e], reports, legacy)
      BY <1>1, <2>2, PreBindEstablishes
    <3> HIDE DEF c
    <3>2. /\ sched'.pc = "bind" /\ sched'.pod = p /\ sched'.evidence = e
          /\ sched'.check = c
      BY <1>1, <2>2
    <3>3. UNCHANGED <<reports, legacy>>
      BY <1>1 DEF attVars
    <3> QED BY <1>2, <3>1, <3>2, <3>3 DEF Attempt
  <2> QED BY <2>1, <2>2
<1> QED BY <1>1, <1>6, <1>7, AttestationKept DEF PlacementInv

\* The pod is bound.
LEMMA BindHolds == PlacementInv /\ Bind => PlacementInv'
<1> SUFFICES ASSUME PlacementInv, Bind PROVE PlacementInv'
  OBVIOUS
<1>1. /\ sched.pc = "bind" /\ sched' = Stop
      /\ UNCHANGED <<attVars, policy, edits, cachedFree, decision>>
  BY DEF Bind
<1>2. Attempt'
  BY <1>1 DEF Attempt, Stop
<1>3. sched.pod \in Pods /\ NodeOf[sched.evidence] \in Nodes
  BY <1>1, PlacementAssumption DEF PlacementInv, Attempt, PlacementAssumption
<1>4. PodObjects'
  <2> DEFINE d1 == [pod[sched.pod] EXCEPT !.phase = "bound"]
             d == [d1 EXCEPT !.node = NodeOf[sched.evidence]]
  <2>1. pod[sched.pod] \in Pod
    BY <1>3 DEF PlacementInv, PodObjects
  <2>2. d1 \in Pod
    BY <2>1 DEF Pod
  <2> HIDE DEF d1
  <2>3. d \in Pod
    BY <1>3, <2>2 DEF Pod
  <2>4. UNCHANGED pod \/ pod' = [pod EXCEPT ![sched.pod] = d]
    BY DEF Bind, d1
  <2> HIDE DEF d
  <2> QED BY <1>1, <2>3, <2>4 DEF PlacementInv, PodObjects
<1> QED BY <1>1, <1>2, <1>4, AttestationKept DEF PlacementInv

-----------------------------------------------------------------------------
(* The theorems *)

\* Every step of placement.
LEMMA PlacementStepHolds == PlacementInv /\ [PlacementNext]_vars => PlacementInv'
<1> SUFFICES ASSUME PlacementInv, [PlacementNext]_vars PROVE PlacementInv'
  OBVIOUS
<1>1. CASE AttestationNext /\ UNCHANGED placeVars
  BY <1>1, AttestationNextHolds, PodObjectsKept, AttemptKept DEF PlacementInv, placeVars
<1>2. CASE \E s \in Specs \cup {NoSpec} : EditPolicy(s)
  BY <1>2, EditPolicyHolds
<1>3. CASE \E p \in Pods : AdmitPod(p) \/ DeletePod(p) \/ CacheSync(p)
  BY <1>3, PodsHold
<1>4. CASE SchedulerStep
  BY <1>4, PreFilterHolds, FilterAndReserveHolds, StopHolds, PreBindAndMintHolds, BindHolds
     DEF SchedulerStep
<1>5. CASE SchedulerCrash
  BY <1>5, StopHolds
<1>6. CASE UNCHANGED vars
  BY <1>6, AttestationKept, PodObjectsKept, AttemptKept
     DEF PlacementInv, vars, placeVars, attVars
<1> QED BY <1>1, <1>2, <1>3, <1>4, <1>5, <1>6 DEF PlacementNext

\* The invariant holds of every run of placement.
LEMMA PlacementInvariant == PlacementSpec => []PlacementInv
BY PlacementInitHolds, PlacementStepHolds, PTL DEF PlacementSpec

\* Raw reports, evidence and revocations stay within their API types although
\* the verifier, the older reconciler and the agents write them independently.
THEOREM AttestationTypesHold == PlacementSpec => []AttestationTypeOK
<1>1. PlacementInv => AttestationTypeOK
  BY DEF PlacementInv, Objects, Verification, AttestationTypeOK
<1> QED BY <1>1, PlacementInvariant, PTL

\* Only Bind makes a pod bound, and it does so under the check it carries.
LEMMA OnlyBindBinds ==
    ASSUME PlacementInv, [PlacementNext]_vars, NEW p \in Pods, Binds(p)
    PROVE  /\ sched.pc = "bind"
           /\ Checked(sched.check)
           /\ Vouched(sched.check, pod'[p].node, reports, legacy)
<1>1. pod \in [Pods -> Pod]
  BY DEF PlacementInv, PodObjects
<1>2. CASE Bind
  <2>1. sched.pc = "bind" /\ sched.pod \in Pods
    BY <1>2 DEF Bind, PlacementInv, Attempt
  <2>2. Checked(sched.check) /\ Vouched(sched.check, NodeOf[sched.evidence], reports, legacy)
    BY <2>1 DEF PlacementInv, Attempt
  <2>3. pod' = [pod EXCEPT ![sched.pod].phase = "bound",
                           ![sched.pod].node = NodeOf[sched.evidence]]
    BY <1>2 DEF Bind, Binds
  <2> DEFINE d1 == [pod[sched.pod] EXCEPT !.phase = "bound"]
             d == [d1 EXCEPT !.node = NodeOf[sched.evidence]]
  <2>4. pod' = [pod EXCEPT ![sched.pod] = d]
    BY <2>3
  <2>5. "node" \in DOMAIN d1
    BY <1>1, <2>1 DEF Pod
  <2>6. p = sched.pod
    BY <1>1, <2>1, <2>4 DEF Binds
  <2>7. pod'[p] = d
    BY <1>1, <2>1, <2>4, <2>6
  <2>8. d.node = NodeOf[sched.evidence]
    BY <2>5
  <2> QED BY <2>1, <2>2, <2>7, <2>8
<1>3. CASE UNCHANGED pod
  BY <1>3 DEF Binds
<1>4. ASSUME NEW q \in Pods, NEW d, d.phase # "bound", pod' = [pod EXCEPT ![q] = d]
      PROVE  FALSE
  BY <1>1, <1>4 DEF Binds
<1>5. ASSUME NEW q \in Pods, AdmitPod(q) \/ DeletePod(q) PROVE FALSE
  <2>1. CASE AdmitPod(q)
    BY <1>4, <1>5, <2>1 DEF AdmitPod
  <2>2. CASE DeletePod(q)
    <3>1. [NoPod EXCEPT !.uid = pod[q].uid].phase # "bound"
      BY DEF NoPod
    <3> QED BY <1>4, <1>5, <2>2, <3>1 DEF DeletePod
  <2> QED BY <1>5, <2>1, <2>2
<1> QED BY <1>2, <1>3, <1>5 DEF PlacementNext, SchedulerStep, placeVars, vars, EditPolicy,
           CacheSync, PreFilter, FilterAndReserve, PermitTimeout, PreBindAndMint,
           SchedulerCrash

\* A binding follows a PreBind check that passed on verified, unrevoked and
\* timely evidence, under the policy of the pod's admission, whatever happens
\* to evidence, policy, pod name and scheduler between the steps of SchedulePod.
THEOREM BindingsAreChecked == PlacementSpec => BoundWasChecked
<1>1. PlacementInv /\ [PlacementNext]_vars =>
        [\A p \in Pods : Binds(p) =>
         LET c == sched.check IN
         /\ c.evidence.status.verified /\ ~c.evidence.status.revoked
         /\ c.under # NoSpec => c.policy # NoSpec /\ c.policy = c.hash
         /\ c.hash # NoSpec =>
              c.at - c.evidence.status.lastVerified <= c.hash.maxAge]_vars
  BY OnlyBindBinds DEF Checked
<1> QED BY <1>1, PlacementInvariant, PTL DEF PlacementSpec, BoundWasChecked

\* The node a pod is bound to published an acceptable report, and the real
\* evidence of a node is no older than the token's and the policy's limits
\* together, although VerifyMAAToken may be run on the same report again.
THEOREM BoundNodesAttested == PlacementSpec => BoundNodeAttested
<1>1. PlacementInv /\ [PlacementNext]_vars =>
        [\A p \in Pods : Binds(p) =>
         LET c == sched.check IN
         \E r \in reports :
           /\ NodeOf[r.of] = pod'[p].node /\ Acceptable(r)
           /\ (/\ c.hash # NoSpec /\ ~legacy
               /\ c.evidence.status.mode = "real")
                => c.at - r.token.issued <= MaxTokenAge + c.hash.maxAge]_vars
  BY OnlyBindBinds DEF Vouched
<1> QED BY <1>1, PlacementInvariant, PTL DEF PlacementSpec, BoundNodeAttested

-----------------------------------------------------------------------------
(* The audit trail: chains *)

\* A property of 0 that passes from each number to the next holds up to n.
LEMMA UpTo ==
  ASSUME NEW n \in Nat, NEW G, 0 \in G, \A k \in 1 .. n : k - 1 \in G => k \in G
  PROVE  0 .. n \subseteq G
<1> DEFINE Bad == (0 .. n) \ G
<1>1. SUFFICES ASSUME Bad # {} PROVE FALSE
  OBVIOUS
<1>2. Bad \subseteq Nat
  OBVIOUS
<1>3. IsWellFoundedOn(OpToRel(<, Nat), Nat)
  BY NatLessThanWellFounded
<1>4. PICK k \in Bad : \A j \in Bad : ~(<<j, k>> \in OpToRel(<, Nat))
  <2> HIDE DEF Bad
  <2> QED BY <1>1, <1>2, <1>3, WFMin
<1>5. k \in 1 .. n /\ k - 1 \in 0 .. n
  OBVIOUS
<1>6. k - 1 \in Bad
  BY <1>5
<1>7. <<k - 1, k>> \in OpToRel(<, Nat)
  BY <1>5 DEF OpToRel
<1> QED BY <1>4, <1>6, <1>7

\* The contents of the first n entries.
Prefix(chain, n) == [j \in 1 .. n |-> chain[j].content]

\* Every entry commits to its own content and to those before it.
Linked(chain) ==
    /\ Len(chain) \in Nat /\ DOMAIN chain = 1 .. Len(chain)
    /\ chain = [i \in 1 .. Len(chain) |-> chain[i]]
    /\ \A i \in 1 .. Len(chain) : chain[i] = BuildEntry(i, Prefix(chain, i - 1), chain[i].content)

\* new is chain with the contents appended.
Extends(new, chain, contents) ==
    /\ Linked(new) /\ Len(new) = Len(chain) + Len(contents)
    /\ \A i \in 1 .. Len(chain) : new[i] = chain[i]
    /\ \A k \in 1 .. Len(contents) : new[Len(chain) + k].content = contents[k]

\* A list with one more member.
LEMMA AppendedList ==
  ASSUME NEW s, NEW n \in Nat, s = [i \in 1 .. n |-> s[i]], NEW x
  PROVE  /\ Len(s) = n
         /\ Append(s, x) = [i \in 1 .. n + 1 |-> IF i = n + 1 THEN x ELSE s[i]]
         /\ Len(Append(s, x)) = n + 1 /\ DOMAIN Append(s, x) = 1 .. n + 1
<1> DEFINE S == {s[i] : i \in 1 .. n} \cup {x}
<1>1. s \in [1 .. n -> S]
  OBVIOUS
<1>2. s \in Seq(S) /\ Len(s) = n
  BY <1>1
<1> HIDE DEF S
<1>3. Append(s, x) = [i \in 1 .. n + 1 |-> IF i = n + 1 THEN x ELSE s[i]]
  BY <1>2
<1>4. x \in S
  BY DEF S
<1>5. Append(s, x) \in Seq(S) /\ Len(Append(s, x)) = n + 1
  BY <1>2, <1>4
<1> QED BY <1>2, <1>3, <1>5

\* A digest is the list of the contents up to its entry.
LEMMA DigestIsPrefix ==
  ASSUME NEW chain, Linked(chain), NEW i \in 1 .. Len(chain)
  PROVE  chain[i].sha = Prefix(chain, i) /\ chain[i].previous = Prefix(chain, i - 1)
         /\ chain[i].sequence = i
<1>0. i \in Nat /\ i - 1 \in Nat /\ (i - 1) + 1 = i
  BY DEF Linked
<1>1. chain[i] = BuildEntry(i, Prefix(chain, i - 1), chain[i].content)
  BY DEF Linked
<1>2. /\ chain[i].sha = Append(Prefix(chain, i - 1), chain[i].content)
      /\ chain[i].previous = Prefix(chain, i - 1) /\ chain[i].sequence = i
  BY <1>1 DEF BuildEntry
<1> DEFINE p == Prefix(chain, i - 1)
<1>3. p = [j \in 1 .. i - 1 |-> p[j]]
  BY DEF Prefix
<1>4. \A j \in 1 .. i - 1 : p[j] = chain[j].content
  BY DEF Prefix
<1> HIDE DEF p
<1>5. Append(p, chain[i].content) = [j \in 1 .. (i - 1) + 1 |-> IF j = (i - 1) + 1 THEN chain[i].content ELSE p[j]]
  BY <1>0, <1>3, AppendedList
<1>6. Append(p, chain[i].content) = [j \in 1 .. i |-> IF j = i THEN chain[i].content ELSE p[j]]
  BY <1>0, <1>5
<1>7. Append(p, chain[i].content) = Prefix(chain, i)
  <2>1. \A j \in 1 .. i : (IF j = i THEN chain[i].content ELSE p[j]) = chain[j].content
    BY <1>0, <1>4
  <2> QED BY <1>6, <2>1 DEF Prefix
<1> QED BY <1>2, <1>7 DEF p

\* appendAuditTx keeps the chain linked and adds one content.
LEMMA AppendsOne ==
  ASSUME NEW chain, Linked(chain), NEW content
  PROVE  Extends(appendAudit(chain, content), chain, <<content>>)
<1> DEFINE n == Len(chain)
           head == Prefix(chain, n)
           e == BuildEntry(n + 1, head, content)
           new == Append(chain, e)
<1>1. n \in Nat /\ chain = [i \in 1 .. n |-> chain[i]] /\ DOMAIN chain = 1 .. n
  BY DEF Linked
<1>2. HeadOf(chain) = head
  <2>1. CASE chain = <<>>
    <3>1. n = 0
      BY <2>1
    <3>2. head = <<>>
      BY <3>1 DEF Prefix
    <3> QED BY <2>1, <3>2 DEF HeadOf
  <2>2. CASE chain # <<>>
    <3>1. n # 0
      BY <1>1, <2>2
    <3>2. n \in 1 .. Len(chain)
      BY <1>1, <3>1
    <3> QED BY <2>2, <3>2, DigestIsPrefix DEF HeadOf, Last
  <2> QED BY <2>1, <2>2
<1>3. appendAudit(chain, content) = new
  BY <1>2 DEF appendAudit
<1> HIDE DEF e
<1>4. /\ new = [i \in 1 .. n + 1 |-> IF i = n + 1 THEN e ELSE chain[i]]
      /\ Len(new) = n + 1 /\ DOMAIN new = 1 .. n + 1
  <2> HIDE DEF n
  <2> QED BY <1>1, AppendedList
<1> HIDE DEF new
<1>5. new[n + 1] = e /\ \A i \in 1 .. n : new[i] = chain[i]
  BY <1>1, <1>4
<1>6. e.content = content
  BY DEF e, BuildEntry
<1>7. \A i \in 1 .. n + 1 : Prefix(new, i - 1) = Prefix(chain, i - 1)
  <2> HIDE DEF n
  <2> QED BY <1>1, <1>5 DEF Prefix
<1>8. ASSUME NEW i \in 1 .. n + 1 PROVE new[i] = BuildEntry(i, Prefix(new, i - 1), new[i].content)
  <2>1. CASE i = n + 1
    <3>1. Prefix(new, i - 1) = head
      BY <1>1, <1>7, <2>1
    <3> QED BY <1>5, <1>6, <2>1, <3>1 DEF e
  <2>2. CASE i # n + 1
    <3>1. i \in 1 .. n
      BY <1>1, <2>2
    <3> QED BY <1>5, <1>7, <3>1 DEF Linked
  <2> QED BY <2>1, <2>2
<1>9. Linked(new)
  <2>1. Len(new) \in Nat
    BY <1>1, <1>4
  <2>2. new = [i \in 1 .. Len(new) |-> new[i]]
    BY <1>4
  <2> QED BY <1>4, <1>8, <2>1, <2>2 DEF Linked
<1>10. Extends(new, chain, <<content>>)
  BY <1>1, <1>4, <1>5, <1>6, <1>9 DEF Extends
<1> QED BY <1>3, <1>10

\* out[k] is the chain with the first k contents appended.
IsAppending(out, chain, contents, n) ==
    out = [k \in 0 .. n |-> IF k = 0 THEN chain ELSE appendAudit(out[k - 1], contents[k])]

\* There is such a function.
LEMMA AppendingExists ==
  ASSUME NEW chain, NEW contents, NEW n \in Nat
  PROVE  \E out : IsAppending(out, chain, contents, n)
<1> DEFINE G == {k \in 0 .. n : \E out : IsAppending(out, chain, contents, k)}
<1>1. 0 \in G
  <2> DEFINE o == [k \in 0 .. 0 |-> chain]
  <2>1. IsAppending(o, chain, contents, 0)
    BY DEF IsAppending
  <2> QED BY <2>1
<1>2. ASSUME NEW k \in 1 .. n, k - 1 \in G PROVE k \in G
  <2>1. PICK g : IsAppending(g, chain, contents, k - 1)
    BY <1>2
  <2> DEFINE o == [j \in 0 .. k |-> IF j = k THEN appendAudit(g[k - 1], contents[k]) ELSE g[j]]
  <2>2. ASSUME NEW j \in 0 .. k
        PROVE  o[j] = IF j = 0 THEN chain ELSE appendAudit(o[j - 1], contents[j])
    <3>1. CASE j = k
      <4>1. j # 0 /\ k - 1 \in 0 .. k /\ k - 1 # k
        BY <3>1
      <4> QED BY <3>1, <4>1
    <3>2. CASE j # k /\ j # 0
      <4>1. j \in 0 .. k - 1 /\ j - 1 \in 0 .. k /\ j - 1 # k
        BY <3>2
      <4>2. g[j] = appendAudit(g[j - 1], contents[j])
        BY <2>1, <3>2, <4>1 DEF IsAppending
      <4> QED BY <3>2, <4>1, <4>2
    <3>3. CASE j = 0
      <4>1. j # k /\ 0 \in 0 .. k - 1
        BY <3>3
      <4>2. g[0] = chain
        BY <2>1, <4>1 DEF IsAppending
      <4> QED BY <3>3, <4>1, <4>2
    <3> QED BY <3>1, <3>2, <3>3
  <2>3. IsAppending(o, chain, contents, k)
    <3>1. o = [j \in 0 .. k |-> o[j]]
      OBVIOUS
    <3> HIDE DEF o
    <3> QED BY <2>2, <3>1 DEF IsAppending
  <2> HIDE DEF o
  <2> QED BY <2>3
<1>3. 0 .. n \subseteq G
  <2> HIDE DEF G
  <2> QED BY <1>1, <1>2, UpTo
<1> QED BY <1>3

\* Several contents are appended one after the other.
LEMMA AppendsAll ==
  ASSUME NEW chain, Linked(chain), NEW contents, Len(contents) \in Nat
  PROVE  Extends(appendAudits(chain, contents), chain, contents)
<1> DEFINE n == Len(contents)
           out == CHOOSE o : IsAppending(o, chain, contents, n)
           Ends(new, k) == /\ Linked(new) /\ Len(new) = Len(chain) + k
                           /\ \A i \in 1 .. Len(chain) : new[i] = chain[i]
                           /\ \A j \in 1 .. k : new[Len(chain) + j].content = contents[j]
           G == {k \in 0 .. n : Ends(out[k], k)}
<1>1. appendAudits(chain, contents) = out[n]
  BY DEF appendAudits, IsAppending
<1>2. IsAppending(out, chain, contents, n)
  BY AppendingExists
<1> HIDE DEF out
<1>3. /\ out[0] = chain
      /\ \A k \in 1 .. n : out[k] = appendAudit(out[k - 1], contents[k])
  BY <1>2 DEF IsAppending
<1>4. Len(chain) \in Nat
  BY DEF Linked
<1>5. 0 \in G
  BY <1>3, <1>4
<1>6. ASSUME NEW k \in 1 .. n, k - 1 \in G PROVE k \in G
  <2> DEFINE old == out[k - 1]
             new == out[k]
  <2>1. Ends(old, k - 1)
    BY <1>6
  <2>2. new = appendAudit(old, contents[k])
    BY <1>3, <1>6
  <2>3. Extends(new, old, <<contents[k]>>)
    BY <2>1, <2>2, AppendsOne
  <2> HIDE DEF old, new
  <2>4. Len(old) = Len(chain) + (k - 1) /\ Len(old) + 1 = Len(chain) + k
    BY <1>4, <2>1
  <2>5. /\ Linked(new) /\ Len(new) = Len(chain) + k
        /\ \A i \in 1 .. Len(old) : new[i] = old[i]
        /\ new[Len(chain) + k].content = contents[k]
    BY <2>3, <2>4 DEF Extends
  <2>6. ASSUME NEW i \in 1 .. Len(chain) PROVE new[i] = chain[i]
    <3>1. i \in 1 .. Len(old)
      BY <1>4, <2>4
    <3> QED BY <2>1, <2>5, <3>1
  <2>7. ASSUME NEW j \in 1 .. k PROVE new[Len(chain) + j].content = contents[j]
    <3>1. CASE j = k
      BY <2>5, <3>1
    <3>2. CASE j # k
      <4>1. j \in 1 .. k - 1 /\ Len(chain) + j \in 1 .. Len(old)
        BY <1>4, <2>4, <3>2
      <4> QED BY <2>1, <2>5, <4>1
    <3> QED BY <3>1, <3>2
  <2>8. Ends(new, k)
    BY <2>5, <2>6, <2>7
  <2> QED BY <2>8 DEF new
<1>7. n \in G
  <2>1. 0 .. n \subseteq G
    <3> HIDE DEF G, n
    <3> QED BY <1>5, <1>6, UpTo DEF n
  <2> QED BY <2>1
<1> QED BY <1>1, <1>7 DEF Extends

-----------------------------------------------------------------------------
(* The audit trail: continuity *)

\* The entries of the chain have the fields of an entry and end at a reservation.
Shaped(chain) ==
    \A i \in 1 .. Len(chain) :
        /\ chain[i].content = Content(chain[i].content.id, chain[i].content.req,
                                     chain[i].content.before, chain[i].content.after)
        /\ chain[i].content.after.state # "absent"

\* The trail is linked, names no identifier twice, and its entries of a request
\* follow one another up to the stored reservation.
TrailOK(chain, res) ==
    /\ Linked(chain) /\ Shaped(chain)
    /\ \A i, j \in 1 .. Len(chain) : i # j => chain[i].content.id # chain[j].content.id
    /\ \A i \in 1 .. Len(chain) : LeftBy(chain, i - 1, chain[i].content.req, chain[i].content.before)
    /\ \A r \in AuditRequests : LeftBy(chain, Len(chain), r, res[r])

\* The contents are moves from res to new, one for each request that moved.
MovesTo(contents, res, new) ==
    /\ Len(contents) \in Nat
    /\ \A k \in 1 .. Len(contents) :
        /\ contents[k].req \in AuditRequests
        /\ contents[k] = Content(contents[k].id, contents[k].req, res[contents[k].req], new[contents[k].req])
        /\ new[contents[k].req].state # "absent"
    /\ \A k, l \in 1 .. Len(contents) :
        k # l => contents[k].req # contents[l].req /\ contents[k].id # contents[l].id
    /\ \A r \in AuditRequests : (\E k \in 1 .. Len(contents) : contents[k].req = r) \/ new[r] = res[r]

\* What entries leave of a request depends on these entries only.
LEMMA LeftByPrefix ==
  ASSUME NEW ch, NEW new, NEW n \in Nat, \A i \in 1 .. n : new[i].content = ch[i].content,
         NEW r, NEW x, LeftBy(ch, n, r, x)
  PROVE  LeftBy(new, n, r, x)
<1>1. \A i \in 1 .. n : \A j \in (i + 1) .. n : j \in 1 .. n
  OBVIOUS
<1> QED BY <1>1 DEF LeftBy

\* Entries of other requests leave it as it was.
LEMMA LeftByOthers ==
  ASSUME NEW ch, NEW n \in Nat, NEW m \in Nat, n <= m, NEW r, NEW x, LeftBy(ch, n, r, x),
         \A i \in (n + 1) .. m : ch[i].content.req # r
  PROVE  LeftBy(ch, m, r, x)
<1>1. CASE x = Absent /\ \A i \in 1 .. n : ch[i].content.req # r
  <2>1. \A i \in 1 .. m : i \in 1 .. n \/ i \in (n + 1) .. m
    OBVIOUS
  <2> QED BY <1>1, <2>1 DEF LeftBy
<1>2. CASE \E i \in 1 .. n : /\ ch[i].content.req = r /\ ch[i].content.after = x
                             /\ \A j \in (i + 1) .. n : ch[j].content.req # r
  <2>1. PICK i \in 1 .. n : /\ ch[i].content.req = r /\ ch[i].content.after = x
                           /\ \A j \in (i + 1) .. n : ch[j].content.req # r
    BY <1>2
  <2>2. i \in 1 .. m /\ \A j \in (i + 1) .. m : j \in (i + 1) .. n \/ j \in (n + 1) .. m
    OBVIOUS
  <2> QED BY <2>1, <2>2 DEF LeftBy
<1> QED BY <1>1, <1>2 DEF LeftBy

\* A move begins and ends at the stored reservation.
LEMMA MoveParts ==
  ASSUME NEW contents, NEW res, NEW new, MovesTo(contents, res, new), NEW k \in 1 .. Len(contents)
  PROVE  /\ contents[k].req \in AuditRequests
         /\ contents[k].before = res[contents[k].req] /\ contents[k].after = new[contents[k].req]
<1> DEFINE c == contents[k]
<1>1. c.req \in AuditRequests /\ c = Content(c.id, c.req, res[c.req], new[c.req])
  BY DEF MovesTo
<1> HIDE DEF c
<1>2. c.before = res[c.req] /\ c.after = new[c.req]
  BY <1>1 DEF Content
<1> QED BY <1>1, <1>2 DEF c

\* Appended moves under new identifiers continue the trail.
LEMMA GrowTrail ==
  ASSUME NEW ch, NEW res, TrailOK(ch, res), NEW new, NEW res2, NEW contents,
         Extends(new, ch, contents), MovesTo(contents, res, res2),
         \A i \in 1 .. Len(ch), k \in 1 .. Len(contents) : ch[i].content.id # contents[k].id
  PROVE  TrailOK(new, res2)
<1> DEFINE n == Len(ch)
           m == Len(contents)
<1>1. /\ n \in Nat /\ m \in Nat /\ Len(new) = n + m /\ Linked(new)
      /\ \A i \in 1 .. n : new[i] = ch[i]
      /\ \A k \in 1 .. m : new[n + k].content = contents[k]
  BY DEF TrailOK, Linked, Extends, MovesTo
<1>2. \A i \in 1 .. Len(new) : i \in 1 .. n \/ (i - n \in 1 .. m /\ new[i].content = contents[i - n])
  <2>1. SUFFICES ASSUME NEW i \in 1 .. Len(new), i \notin 1 .. n
                 PROVE  i - n \in 1 .. m /\ new[i].content = contents[i - n]
    OBVIOUS
  <2>2. i - n \in 1 .. m /\ n + (i - n) = i
    BY <1>1, <2>1
  <2> QED BY <1>1, <2>2
<1>3. Shaped(new)
  <2>1. ASSUME NEW i \in 1 .. Len(new)
        PROVE /\ new[i].content = Content(new[i].content.id, new[i].content.req,
                                           new[i].content.before, new[i].content.after)
              /\ new[i].content.after.state # "absent"
    <3>1. CASE i \in 1 .. n
      BY <1>1, <3>1 DEF TrailOK, Shaped
    <3>2. CASE i \notin 1 .. n
      <4> DEFINE c == contents[i - n]
      <4>1. i - n \in 1 .. m /\ new[i].content = c
        BY <1>2, <3>2
      <4>2. c = Content(c.id, c.req, res[c.req], res2[c.req]) /\ res2[c.req].state # "absent"
        BY <4>1 DEF MovesTo
      <4> HIDE DEF c
      <4>3. c.before = res[c.req] /\ c.after = res2[c.req]
        BY <4>2 DEF Content
      <4> QED BY <4>1, <4>2, <4>3
    <3> QED BY <3>1, <3>2
  <2> QED BY <2>1 DEF Shaped
<1>4. ASSUME NEW i \in 1 .. Len(new), NEW j \in 1 .. Len(new), i # j
      PROVE  new[i].content.id # new[j].content.id
  <2>1. CASE i \in 1 .. n /\ j \in 1 .. n
    BY <1>1, <1>4, <2>1 DEF TrailOK
  <2>2. CASE i \in 1 .. n /\ j \notin 1 .. n
    BY <1>1, <1>2, <2>2
  <2>3. CASE i \notin 1 .. n /\ j \in 1 .. n
    BY <1>1, <1>2, <2>3
  <2>4. CASE i \notin 1 .. n /\ j \notin 1 .. n
    <3>1. i - n # j - n
      BY <1>1, <1>4
    <3>2. i - n \in 1 .. Len(contents) /\ j - n \in 1 .. Len(contents)
      BY <1>1, <1>2, <2>4
    <3>3. new[i].content = contents[i - n] /\ new[j].content = contents[j - n]
      BY <1>2, <2>4
    <3>4. contents[i - n].id # contents[j - n].id
      BY <3>1, <3>2, ZenonT(60) DEF MovesTo
    <3> QED BY <3>3, <3>4
  <2> QED BY <2>1, <2>2, <2>3, <2>4
\* up to before an appended entry, the request is where the old trail left it
<1>5. ASSUME NEW r \in AuditRequests, NEW p \in n .. Len(new),
             \A i \in (n + 1) .. p : new[i].content.req # r
      PROVE  LeftBy(new, p, r, res[r])
  <2>1. LeftBy(new, n, r, res[r])
    <3>1. LeftBy(ch, n, r, res[r])
      BY DEF TrailOK
    <3> QED BY <1>1, <3>1, LeftByPrefix
  <2>2. p \in Nat /\ n <= p
    BY <1>1
  <2> QED BY <1>1, <1>5, <2>1, <2>2, LeftByOthers
<1>6. ASSUME NEW i \in 1 .. Len(new)
      PROVE  LeftBy(new, i - 1, new[i].content.req, new[i].content.before)
  <2>1. CASE i \in 1 .. n
    <3>1. LeftBy(ch, i - 1, ch[i].content.req, ch[i].content.before)
      BY <2>1 DEF TrailOK
    <3>2. i - 1 \in Nat /\ \A j \in 1 .. i - 1 : j \in 1 .. n
      BY <1>1, <2>1
    <3>3. LeftBy(new, i - 1, ch[i].content.req, ch[i].content.before)
      BY <1>1, <3>1, <3>2, LeftByPrefix, ZenonT(60)
    <3> QED BY <1>1, <2>1, <3>3
  <2>2. CASE i \notin 1 .. n
    <3> DEFINE k == i - n
               r == contents[k].req
    <3>1. k \in 1 .. m /\ new[i].content = contents[k]
      BY <1>2, <2>2
    <3>2. r \in AuditRequests /\ contents[k].before = res[r]
      BY <3>1, MoveParts
    <3>3. ASSUME NEW j \in (n + 1) .. (i - 1) PROVE new[j].content.req # r
      <4>1. j \in 1 .. Len(new) /\ j \notin 1 .. n /\ j - n # k
        BY <1>1, <3>1
      <4>2. j - n \in 1 .. m /\ new[j].content = contents[j - n]
        BY <1>2, <4>1
      <4>3. contents[j - n].req # contents[k].req
        BY <3>1, <4>1, <4>2 DEF MovesTo
      <4> QED BY <3>1, <4>2, <4>3
    <3>4. i - 1 \in n .. Len(new)
      BY <1>1, <3>1
    <3> QED BY <1>5, <3>1, <3>2, <3>3, <3>4
  <2> QED BY <2>1, <2>2
<1>7. ASSUME NEW r \in AuditRequests PROVE LeftBy(new, Len(new), r, res2[r])
  <2>1. CASE \E k \in 1 .. m : contents[k].req = r
    <3>1. PICK k \in 1 .. m : contents[k].req = r
      BY <2>1
    <3>2. contents[k].after = res2[r]
      BY <3>1, MoveParts
    <3>3. n + k \in 1 .. Len(new) /\ new[n + k].content = contents[k]
      BY <1>1
    <3>4. ASSUME NEW j \in (n + k + 1) .. Len(new) PROVE new[j].content.req # r
      <4>1. j \in 1 .. Len(new) /\ j \notin 1 .. n /\ j - n # k
        BY <1>1
      <4>2. j - n \in 1 .. m /\ new[j].content = contents[j - n]
        BY <1>2, <4>1
      <4>3. contents[j - n].req # contents[k].req
        BY <4>1, <4>2 DEF MovesTo
      <4> QED BY <3>1, <4>2, <4>3
    <3> QED BY <3>1, <3>2, <3>3, <3>4 DEF LeftBy
  <2>2. CASE ~\E k \in 1 .. m : contents[k].req = r
    <3>1. res2[r] = res[r]
      BY <2>2 DEF MovesTo
    <3>2. Len(new) \in n .. Len(new)
      BY <1>1
    <3>3. ASSUME NEW j \in (n + 1) .. Len(new) PROVE new[j].content.req # r
      <4>1. j \in 1 .. Len(new) /\ j \notin 1 .. n
        BY <1>1
      <4> QED BY <1>2, <2>2, <4>1
    <3> QED BY <1>5, <3>1, <3>2, <3>3
  <2> QED BY <2>1, <2>2
<1> QED BY <1>1, <1>3, <1>4, <1>6, <1>7 DEF TrailOK

-----------------------------------------------------------------------------
(* The audit trail: identifiers and views *)

States == DOMAIN Successors

Late == {"unresolved", "provisional", "final", "released"}

\* The identifiers that the operations on a tenant have used up: what they were
\* used for cannot happen again.
Spent(v, id) ==
    \/ \E r \in AuditRequests : id = <<"reserve", r>> /\ v.reservation[r].state # "absent"
    \/ \E r \in AuditRequests : id = <<"expiry", r>> /\ v.reservation[r].state = "released"
    \/ \E r \in AuditRequests : id = <<"expiry-unresolved", r>> /\ v.reservation[r].state \in Late
    \/ \E r \in AuditRequests, n \in Int : id = <<"window-rollover", r, n>> /\ n <= v.window
    \/ \E e \in 1 .. Cardinality(DOMAIN v.inbox) : id = <<"event", e>>

\* A reservation is never unmade, a late one stays late, a released one released.
Forward(s, t) ==
    /\ t \in States /\ t # "absent"
    /\ s \in Late => t \in Late
    /\ s = "released" => t = "released"

Numbered(box) ==
    /\ IsFiniteSet(DOMAIN box)
    /\ \A id \in DOMAIN box : \E e \in 1 .. Cardinality(DOMAIN box) : id = <<"event", e>>

\* What a transaction sees.
ViewOK(v) ==
    /\ v = [reservation |-> v.reservation, window |-> v.window, inbox |-> v.inbox, entries |-> v.entries]
    /\ v.reservation = [r \in AuditRequests |-> v.reservation[r]]
    /\ \A r \in AuditRequests : v.reservation[r].state \in States
    /\ v.window \in Int
    /\ Numbered(v.inbox)
    /\ TrailOK(v.entries, v.reservation)
    /\ \A i \in 1 .. Len(v.entries) : Spent(v, v.entries[i].content.id)

\* The moves that to names are lawful ones, under identifiers not yet used.
Lawful(v, to) ==
    /\ DOMAIN to \subseteq AuditRequests
    /\ \A r \in DOMAIN to : ~Spent(v, to[r].id) /\ Forward(v.reservation[r].state, to[r].state)
    /\ \A q, r \in DOMAIN to : q # r => to[q].id # to[r].id

\* What a move to makes of the view v.
MovedBy(u, v, to) ==
    /\ u = [reservation |-> u.reservation, window |-> v.window, inbox |-> v.inbox, entries |-> u.entries]
    /\ u.reservation = [r \in AuditRequests |-> u.reservation[r]]
    /\ \A r \in DOMAIN to : u.reservation[r].state = to[r].state
    /\ \A r \in AuditRequests \ DOMAIN to : u.reservation[r] = v.reservation[r]
    /\ TrailOK(u.entries, u.reservation)
    /\ \A i \in 1 .. Len(u.entries) :
        \/ Spent(v, u.entries[i].content.id)
        \/ \E r \in DOMAIN to : u.entries[i].content.id = to[r].id

\* The states of a reservation.
LEMMA StatesAre ==
  States = {"absent", "reserved", "dispatched", "unresolved", "provisional", "final", "released"}
BY DEF States, Successors

\* A finite set is listed once over.
LEMMA SetListed ==
  ASSUME NEW S, IsFiniteSet(S)
  PROVE  LET s == SetToSeq(S)
         IN  /\ Cardinality(S) \in Nat /\ s \in [1 .. Cardinality(S) -> S]
             /\ \A j, k \in 1 .. Cardinality(S) : s[j] = s[k] => j = k
             /\ \A x \in S : \E k \in 1 .. Cardinality(S) : s[k] = x
<1> DEFINE c == Cardinality(S)
           s == SetToSeq(S)
<1>1. c \in Nat /\ ExistsBijection(1 .. c, S)
  BY FS_CardinalityType
<1>2. PICK g : g \in Bijection(1 .. c, S)
  BY <1>1 DEF ExistsBijection
<1>3. g \in [1 .. c -> S] /\ IsInjective(g)
  BY <1>2 DEF Bijection, Injection, IsInjective
<1>4. s \in [1 .. c -> S] /\ IsInjective(s)
  BY <1>3 DEF SetToSeq
<1> HIDE DEF s
<1>5. s \in Injection(1 .. c, S)
  BY <1>4 DEF Injection, IsInjective
<1>6. Cardinality(1 .. c) = c
  BY <1>1, FS_Interval
<1>7. s \in Surjection(1 .. c, S)
  <2> HIDE DEF c
  <2> QED BY <1>5, <1>6, FS_Injection DEF c
<1>8. \A x \in S : \E k \in 1 .. c : s[k] = x
  BY <1>7 DEF Surjection
<1>9. \A j, k \in 1 .. c : s[j] = s[k] => j = k
  BY <1>4 DEF IsInjective
<1> QED BY <1>1, <1>4, <1>8, <1>9 DEF s

\* Moved continues the trail.
LEMMA MovedMoves ==
  ASSUME NEW v, ViewOK(v), NEW to, Lawful(v, to)
  PROVE  MovedBy(Moved(v, to), v, to)
<1> DEFINE T == DOMAIN to
           order == SetToSeq(T)
           n == Cardinality(T)
           after(r) == [last |-> to[r].id, state |-> to[r].state, window |-> v.reservation[r].window]
           new == [r \in AuditRequests |-> IF r \in T THEN after(r) ELSE v.reservation[r]]
           contents == [k \in 1 .. n |->
                          Content(to[order[k]].id, order[k], v.reservation[order[k]], after(order[k]))]
           chain == appendAudits(v.entries, contents)
           u == Moved(v, to)
<1>1. T \subseteq AuditRequests /\ IsFiniteSet(T)
  BY AuditAssumption, FS_Subset DEF Lawful
<1>2. /\ n \in Nat /\ order \in [1 .. n -> T]
      /\ \A j, k \in 1 .. n : order[j] = order[k] => j = k
      /\ \A x \in T : \E k \in 1 .. n : order[k] = x
  <2> HIDE DEF T, n, order
  <2> QED BY <1>1, SetListed DEF n, order
<1>3. u = [reservation |-> new, window |-> v.window, inbox |-> v.inbox, entries |-> chain]
  <2>1. DOMAIN order = 1 .. n
    BY <1>2
  <2>2. DOMAIN v.reservation = AuditRequests
    BY DEF ViewOK
  <2>3. v = [reservation |-> v.reservation, window |-> v.window, inbox |-> v.inbox, entries |-> v.entries]
    BY DEF ViewOK
  <2>4. u = [v EXCEPT !.reservation = new, !.entries = chain]
    BY <2>1, <2>2 DEF Moved
  <2> HIDE DEF u, new, chain
  <2> QED BY <2>3, <2>4
<1> HIDE DEF u
<1>4. contents = [k \in 1 .. n |-> contents[k]] /\ Len(contents) = n
  <2>1. contents \in [1 .. n -> {contents[k] : k \in 1 .. n}]
    OBVIOUS
  <2> HIDE DEF contents, n
  <2> QED BY <1>2, <2>1
<1>5. ASSUME NEW k \in 1 .. n
      PROVE  /\ order[k] \in T /\ contents[k].req = order[k] /\ contents[k].id = to[order[k]].id
             /\ contents[k] = Content(contents[k].id, contents[k].req, v.reservation[order[k]], new[order[k]])
             /\ new[order[k]].state # "absent"
  <2>1. order[k] \in T /\ order[k] \in AuditRequests
    BY <1>1, <1>2
  <2>2. new[order[k]] = after(order[k]) /\ new[order[k]].state = to[order[k]].state
    BY <2>1
  <2>3. contents[k] = Content(to[order[k]].id, order[k], v.reservation[order[k]], new[order[k]])
    BY <2>2
  <2>4. contents[k].req = order[k] /\ contents[k].id = to[order[k]].id
    <3> HIDE DEF new
    <3> QED BY <2>3 DEF Content
  <2>5. to[order[k]].state # "absent"
    BY <2>1 DEF Lawful, Forward
  <2> HIDE DEF new, contents, order
  <2> QED BY <2>1, <2>2, <2>3, <2>4, <2>5
<1>6. MovesTo(contents, v.reservation, new)
  <2>1. ASSUME NEW k \in 1 .. n, NEW l \in 1 .. n, k # l
        PROVE  contents[k].req # contents[l].req /\ contents[k].id # contents[l].id
    <3>1. order[k] # order[l]
      BY <1>2, <2>1
    <3> HIDE DEF contents, order
    <3>2. /\ order[k] \in T /\ contents[k].req = order[k] /\ contents[k].id = to[order[k]].id
          /\ order[l] \in T /\ contents[l].req = order[l] /\ contents[l].id = to[order[l]].id
      BY <1>5
    <3>3. to[order[k]].id # to[order[l]].id
      BY <3>1, <3>2 DEF Lawful
    <3> QED BY <3>1, <3>2, <3>3
  <2>2. ASSUME NEW r \in AuditRequests
        PROVE  (\E k \in 1 .. n : contents[k].req = r) \/ new[r] = v.reservation[r]
    <3>1. CASE r \in T
      <4>1. PICK k \in 1 .. n : order[k] = r
        BY <1>2, <3>1
      <4> HIDE DEF contents
      <4> QED BY <1>5, <4>1
    <3>2. CASE r \notin T
      BY <3>2
    <3> QED BY <3>1, <3>2
  <2>3. \A k \in 1 .. n : contents[k].req \in AuditRequests
    <3> HIDE DEF contents, order
    <3> QED BY <1>1, <1>5
  <2>4. \A k \in 1 .. n :
          /\ contents[k] = Content(contents[k].id, contents[k].req,
                                   v.reservation[contents[k].req], new[contents[k].req])
          /\ new[contents[k].req].state # "absent"
    <3> HIDE DEF contents, order, new
    <3> QED BY <1>5
  <2> HIDE DEF contents, new, n
  <2> QED BY <1>2, <1>4, <2>1, <2>2, <2>3, <2>4 DEF MovesTo
<1>7. TrailOK(v.entries, v.reservation) /\ Linked(v.entries)
  BY DEF ViewOK, TrailOK
<1>8. Extends(chain, v.entries, contents)
  <2> HIDE DEF contents, n
  <2> QED BY <1>2, <1>4, <1>7, AppendsAll
<1>9. \A i \in 1 .. Len(v.entries), k \in 1 .. n : v.entries[i].content.id # contents[k].id
  <2> HIDE DEF contents, n, order
  <2>1. SUFFICES ASSUME NEW i \in 1 .. Len(v.entries), NEW k \in 1 .. n
                 PROVE  v.entries[i].content.id # contents[k].id
    OBVIOUS
  <2>2. order[k] \in T /\ contents[k].id = to[order[k]].id
    BY <1>5
  <2>3. ~Spent(v, contents[k].id)
    BY <2>2 DEF Lawful
  <2>4. Spent(v, v.entries[i].content.id)
    BY DEF ViewOK
  <2> QED BY <2>3, <2>4
<1> HIDE DEF contents, chain
<1>10. TrailOK(chain, new)
  <2> HIDE DEF new, n
  <2> QED BY <1>4, <1>6, <1>7, <1>8, <1>9, GrowTrail
<1>11. ASSUME NEW i \in 1 .. Len(chain)
       PROVE  Spent(v, chain[i].content.id) \/ \E r \in T : chain[i].content.id = to[r].id
  <2>1. CASE i \in 1 .. Len(v.entries)
    BY <1>8, <2>1 DEF Extends, ViewOK
  <2>2. CASE i \notin 1 .. Len(v.entries)
    <3> DEFINE k == i - Len(v.entries)
    <3>1. Len(v.entries) \in Nat /\ Len(chain) = Len(v.entries) + n
      BY <1>4, <1>7, <1>8 DEF Linked, Extends
    <3>2. k \in 1 .. n /\ Len(v.entries) + k = i
      BY <1>2, <2>2, <3>1
    <3>3. chain[i].content = contents[k]
      BY <1>4, <1>8, <3>2 DEF Extends
    <3> HIDE DEF k
    <3> QED BY <1>5, <3>2, <3>3, ZenonT(60)
  <2> QED BY <2>1, <2>2
<1>12. /\ u.reservation = new /\ u.entries = chain
  <2> HIDE DEF new
  <2> QED BY <1>3
<1>13. /\ \A r \in T : new[r].state = to[r].state
       /\ \A r \in AuditRequests \ T : new[r] = v.reservation[r]
       /\ new = [r \in AuditRequests |-> new[r]]
  BY <1>1
<1> HIDE DEF new
<1>14. MovedBy(u, v, to)
  BY <1>3, <1>10, <1>11, <1>12, <1>13 DEF MovedBy
<1> QED BY <1>14 DEF u

\* Used-up identifiers stay so.
LEMMA SpentStays ==
  ASSUME NEW v, NEW w, NEW id, Spent(v, id),
         \A r \in AuditRequests : \/ w.reservation[r].state = v.reservation[r].state
                                 \/ Forward(v.reservation[r].state, w.reservation[r].state),
         v.window \in Int, w.window \in Int, v.window <= w.window,
         Cardinality(DOMAIN v.inbox) \in Nat, Cardinality(DOMAIN w.inbox) \in Nat,
         Cardinality(DOMAIN v.inbox) <= Cardinality(DOMAIN w.inbox)
  PROVE  Spent(w, id)
<1>1. CASE \E r \in AuditRequests : id = <<"reserve", r>> /\ v.reservation[r].state # "absent"
  BY <1>1 DEF Spent, Forward
<1>2. CASE \E r \in AuditRequests : id = <<"expiry", r>> /\ v.reservation[r].state = "released"
  BY <1>2 DEF Spent, Forward
<1>3. CASE \E r \in AuditRequests : id = <<"expiry-unresolved", r>> /\ v.reservation[r].state \in Late
  BY <1>3 DEF Spent, Forward
<1>4. CASE \E r \in AuditRequests, n \in Int : id = <<"window-rollover", r, n>> /\ n <= v.window
  <2>1. PICK r \in AuditRequests, n \in Int : id = <<"window-rollover", r, n>> /\ n <= v.window
    BY <1>4
  <2>2. n <= w.window
    BY <2>1
  <2> QED BY <2>1, <2>2 DEF Spent
<1>5. CASE \E e \in 1 .. Cardinality(DOMAIN v.inbox) : id = <<"event", e>>
  <2>1. PICK e \in 1 .. Cardinality(DOMAIN v.inbox) : id = <<"event", e>>
    BY <1>5
  <2>2. e \in 1 .. Cardinality(DOMAIN w.inbox)
    OBVIOUS
  <2> QED BY <2>1, <2>2 DEF Spent
<1> QED BY <1>1, <1>2, <1>3, <1>4, <1>5 DEF Spent

\* A lawful move, with the window or the inbox moved on, gives a view again.
LEMMA MovedView ==
  ASSUME NEW v, ViewOK(v), NEW to, Lawful(v, to), NEW u, MovedBy(u, v, to), NEW w,
         w = [reservation |-> u.reservation, window |-> w.window, inbox |-> w.inbox, entries |-> u.entries],
         w.window \in Int, v.window <= w.window, Numbered(w.inbox),
         Cardinality(DOMAIN v.inbox) <= Cardinality(DOMAIN w.inbox),
         \A r \in DOMAIN to : Spent(w, to[r].id)
  PROVE  ViewOK(w)
<1>1. w.reservation = u.reservation /\ w.entries = u.entries
  OBVIOUS
<1>2. ASSUME NEW r \in AuditRequests
      PROVE  /\ w.reservation[r].state \in States
             /\ \/ w.reservation[r].state = v.reservation[r].state
                \/ Forward(v.reservation[r].state, w.reservation[r].state)
  <2>1. CASE r \in DOMAIN to
    <3>1. Forward(v.reservation[r].state, to[r].state) /\ w.reservation[r].state = to[r].state
      BY <1>1, <2>1 DEF Lawful, MovedBy
    <3> QED BY <3>1 DEF Forward
  <2>2. CASE r \notin DOMAIN to
    <3>1. w.reservation[r] = v.reservation[r]
      BY <1>1, <2>2 DEF MovedBy
    <3> QED BY <3>1 DEF ViewOK
  <2> QED BY <2>1, <2>2
<1>3. v.window \in Int /\ Cardinality(DOMAIN v.inbox) \in Nat /\ Cardinality(DOMAIN w.inbox) \in Nat
  BY FS_CardinalityType DEF ViewOK, Numbered
<1>4. ASSUME NEW i \in 1 .. Len(w.entries) PROVE Spent(w, w.entries[i].content.id)
  <2> DEFINE id == w.entries[i].content.id
  <2>1. Spent(v, id) \/ \E r \in DOMAIN to : id = to[r].id
    BY <1>1 DEF MovedBy
  <2> HIDE DEF id
  <2>2. Spent(v, id) => Spent(w, id)
    BY <1>2, <1>3, SpentStays
  <2>3. (\E r \in DOMAIN to : id = to[r].id) => Spent(w, id)
    OBVIOUS
  <2> QED BY <2>1, <2>2, <2>3 DEF id
<1>5. /\ w.reservation = [r \in AuditRequests |-> w.reservation[r]]
      /\ TrailOK(w.entries, w.reservation)
  BY <1>1 DEF MovedBy
<1>6. w = [reservation |-> w.reservation, window |-> w.window, inbox |-> w.inbox, entries |-> w.entries]
  BY <1>1
<1> QED BY <1>2, <1>4, <1>5, <1>6 DEF ViewOK

\* The view u is the view v in the window of the clock.
AdvancedTo(u, v) ==
    /\ ViewOK(u) /\ u.window = now /\ u.inbox = v.inbox
    /\ \A r \in AuditRequests :
        /\ u.reservation[r].state = v.reservation[r].state
        /\ v.reservation[r].state # "provisional" => u.reservation[r] = v.reservation[r]

\* rolloverTenantTx continues the trail with an entry for each guarded reservation.
LEMMA AdvanceKeeps ==
  ASSUME NEW v, ViewOK(v), now \in Int, v.window <= now
  PROVE  AdvancedTo(advanceTenantWindow(v), v)
<1>1. CASE now = v.window
  <2>1. advanceTenantWindow(v) = v
    BY <1>1 DEF advanceTenantWindow
  <2> QED BY <1>1, <2>1 DEF AdvancedTo
<1>2. CASE now # v.window
  <2> DEFINE to == [r \in Guarded(v) |-> [id |-> <<"window-rollover", r, now>>, state |-> "provisional"]]
             m == Moved(v, to)
             u == [m EXCEPT !.window = now]
  <2>1. advanceTenantWindow(v) = u
    BY <1>2 DEF advanceTenantWindow
  <2>2. /\ DOMAIN to = Guarded(v) /\ Guarded(v) \subseteq AuditRequests
        /\ \A r \in DOMAIN to : /\ to[r].id = <<"window-rollover", r, now>> /\ to[r].state = "provisional"
                               /\ v.reservation[r].state = "provisional"
    BY DEF Guarded
  <2> HIDE DEF to
  <2>3. ASSUME NEW r PROVE ~Spent(v, <<"window-rollover", r, now>>)
    <3>1. \A q, n : <<"window-rollover", r, now>> = <<"window-rollover", q, n>> => n = now
      OBVIOUS
    <3>2. \A q : /\ <<"window-rollover", r, now>> # <<"reserve", q>>
                 /\ <<"window-rollover", r, now>> # <<"expiry", q>>
                 /\ <<"window-rollover", r, now>> # <<"expiry-unresolved", q>>
                 /\ <<"window-rollover", r, now>> # <<"event", q>>
      OBVIOUS
    <3>3. v.window \in Int /\ v.window < now
      BY <1>2 DEF ViewOK
    <3> QED BY <3>1, <3>2, <3>3 DEF Spent
  <2>4. Lawful(v, to)
    <3>1. Forward("provisional", "provisional")
      BY StatesAre DEF Forward, Late
    <3>2. \A q, r : q # r => <<"window-rollover", q, now>> # <<"window-rollover", r, now>>
      OBVIOUS
    <3>3. ASSUME NEW r \in DOMAIN to
          PROVE  ~Spent(v, to[r].id) /\ Forward(v.reservation[r].state, to[r].state)
      BY <2>2, <2>3, <3>1, Zenon
    <3>4. ASSUME NEW q \in DOMAIN to, NEW r \in DOMAIN to, q # r
          PROVE  to[q].id # to[r].id
      BY <2>2, <3>2, <3>4, ZenonT(60)
    <3> QED BY <2>2, <3>3, <3>4 DEF Lawful
  <2>5. MovedBy(m, v, to)
    BY <2>4, MovedMoves
  <2> HIDE DEF m
  <2>6. u = [reservation |-> m.reservation, window |-> now, inbox |-> v.inbox, entries |-> m.entries]
    BY <2>5 DEF MovedBy
  <2> HIDE DEF u
  <2>7. /\ u.reservation = m.reservation /\ u.window = now /\ u.inbox = v.inbox
        /\ u = [reservation |-> m.reservation, window |-> u.window, inbox |-> u.inbox, entries |-> m.entries]
    BY <2>6
  <2>8. \A r \in DOMAIN to : Spent(u, to[r].id)
    <3>1. SUFFICES ASSUME NEW r \in DOMAIN to PROVE Spent(u, to[r].id)
      OBVIOUS
    <3>2. r \in AuditRequests /\ now <= u.window /\ to[r].id = <<"window-rollover", r, now>>
      BY <2>2, <2>7
    <3> QED BY <3>2 DEF Spent
  <2>9. ViewOK(u)
    <3>1. Numbered(u.inbox) /\ Cardinality(DOMAIN v.inbox) <= Cardinality(DOMAIN u.inbox)
      BY <2>7, FS_CardinalityType DEF ViewOK, Numbered
    <3>2. u.window \in Int /\ v.window <= u.window
      BY <2>7
    <3> QED BY <2>4, <2>5, <2>7, <2>8, <3>1, <3>2, MovedView
  <2>10. ASSUME NEW r \in AuditRequests
         PROVE  /\ u.reservation[r].state = v.reservation[r].state
                /\ v.reservation[r].state # "provisional" => u.reservation[r] = v.reservation[r]
    BY <2>2, <2>5, <2>7 DEF MovedBy
  <2> QED BY <2>1, <2>7, <2>9, <2>10 DEF AdvancedTo
<1> QED BY <1>1, <1>2

\* reconcileExpiredOnce continues the trail.
LEMMA ExpireKeeps ==
  ASSUME NEW v, ViewOK(v), NEW due, due \subseteq AuditRequests,
         \A r \in due : v.reservation[r].state \in {"reserved", "dispatched"}
  PROVE  ViewOK(Expire(v, due)) /\ Expire(v, due).window = v.window
<1> DEFINE to == [r \in due |-> IF v.reservation[r].state = "reserved"
                               THEN [id |-> <<"expiry", r>>, state |-> "released"]
                               ELSE [id |-> <<"expiry-unresolved", r>>, state |-> "unresolved"]]
           u == Moved(v, to)
<1>1. Expire(v, due) = u
  BY DEF Expire
<1>2. /\ DOMAIN to = due
      /\ \A r \in due : \/ /\ v.reservation[r].state = "reserved"
                          /\ to[r].id = <<"expiry", r>> /\ to[r].state = "released"
                       \/ /\ v.reservation[r].state = "dispatched"
                          /\ to[r].id = <<"expiry-unresolved", r>> /\ to[r].state = "unresolved"
  OBVIOUS
<1> HIDE DEF to
<1>3. /\ \A q, r : <<"expiry", q>> # <<"expiry-unresolved", r>>
      /\ \A q, r : <<"expiry", q>> = <<"expiry", r>> => q = r
      /\ \A q, r : <<"expiry-unresolved", q>> = <<"expiry-unresolved", r>> => q = r
  OBVIOUS
<1>4. ASSUME NEW r \in due PROVE ~Spent(v, to[r].id)
  <2>1. CASE v.reservation[r].state = "reserved"
    <3>1. to[r].id = <<"expiry", r>>
      BY <1>2, <2>1
    <3>2. \A q, n : /\ <<"expiry", r>> # <<"reserve", q>> /\ <<"expiry", r>> # <<"event", q>>
                    /\ <<"expiry", r>> # <<"window-rollover", q, n>>
      OBVIOUS
    <3> QED BY <1>3, <2>1, <3>1, <3>2 DEF Spent
  <2>2. CASE v.reservation[r].state = "dispatched"
    <3>1. to[r].id = <<"expiry-unresolved", r>>
      BY <1>2, <2>2
    <3>2. \A q, n : /\ <<"expiry-unresolved", r>> # <<"reserve", q>> /\ <<"expiry-unresolved", r>> # <<"event", q>>
                    /\ <<"expiry-unresolved", r>> # <<"window-rollover", q, n>>
      OBVIOUS
    <3> QED BY <1>3, <2>2, <3>1, <3>2 DEF Spent, Late
  <2> QED BY <2>1, <2>2
<1>5. Lawful(v, to)
  <2>1. Forward("reserved", "released") /\ Forward("dispatched", "unresolved")
    BY StatesAre DEF Forward, Late
  <2>2. \A r \in due : Forward(v.reservation[r].state, to[r].state)
    BY <1>2, <2>1
  <2>3. \A q, r \in due : q # r => to[q].id # to[r].id
    BY <1>2, <1>3
  <2> QED BY <1>2, <1>4, <2>2, <2>3 DEF Lawful
<1>6. MovedBy(u, v, to)
  BY <1>5, MovedMoves
<1> HIDE DEF u
<1>7. /\ u = [reservation |-> u.reservation, window |-> u.window, inbox |-> u.inbox, entries |-> u.entries]
      /\ u.window = v.window /\ u.inbox = v.inbox
  <2>1. u = [reservation |-> u.reservation, window |-> v.window, inbox |-> v.inbox, entries |-> u.entries]
    BY <1>6 DEF MovedBy
  <2> QED BY <2>1
<1>8. ASSUME NEW r \in due PROVE Spent(u, to[r].id)
  <2>1. u.reservation[r].state = to[r].state
    BY <1>2, <1>6 DEF MovedBy
  <2> QED BY <1>2, <2>1 DEF Spent, Late
<1>9. ViewOK(u)
  <2>1. Numbered(u.inbox) /\ Cardinality(DOMAIN v.inbox) <= Cardinality(DOMAIN u.inbox)
    BY <1>7, FS_CardinalityType DEF ViewOK, Numbered
  <2>2. u.window \in Int /\ v.window <= u.window
    BY <1>7 DEF ViewOK
  <2> QED BY <1>2, <1>5, <1>6, <1>7, <1>8, <2>1, <2>2, MovedView
<1> QED BY <1>1, <1>7, <1>9

\* The state s may become the state t by a dispatch, settlement or cancellation.
LEMMA SuccessorsAreForward ==
  ASSUME NEW s \in States, NEW t \in Successors[s]
  PROVE  Forward(s, t)
<1>1. s # "absent" /\ s # "released"
  BY StatesAre DEF Successors
<1>2. CASE s = "reserved"
  BY <1>2, StatesAre DEF Successors, Forward, Late
<1>3. CASE s = "dispatched"
  BY <1>3, StatesAre DEF Successors, Forward, Late
<1>4. CASE s = "unresolved"
  BY <1>4, StatesAre DEF Successors, Forward, Late
<1>5. CASE s = "provisional"
  BY <1>5, StatesAre DEF Successors, Forward, Late
<1>6. CASE s = "final"
  BY <1>6, StatesAre DEF Successors, Forward, Late
<1> QED BY <1>1, <1>2, <1>3, <1>4, <1>5, <1>6, StatesAre

\* mutateEventOnce continues the trail.
LEMMA MutateKeeps ==
  ASSUME NEW v, ViewOK(v), now \in Int, v.window <= now, NEW op, op.req \in AuditRequests,
         op.to \in Successors[v.reservation[op.req].state],
         op.id = <<"event", Cardinality(DOMAIN v.inbox) + 1>>
  PROVE  ViewOK(Mutate(v, op)) /\ Mutate(v, op).window = now
<1> DEFINE a == advanceTenantWindow(v)
           to == [r \in {op.req} |-> [id |-> op.id, state |-> op.to]]
           m == Moved(a, to)
           n == Cardinality(DOMAIN v.inbox)
           box == [e \in DOMAIN v.inbox \cup {op.id} |-> IF e = op.id THEN op.req ELSE v.inbox[e]]
           u == Mutate(v, op)
<1>1. ViewOK(a) /\ a.window = now /\ a.inbox = v.inbox
      /\ a.reservation[op.req].state = v.reservation[op.req].state
  BY AdvanceKeeps DEF AdvancedTo
<1>2. DOMAIN to = {op.req} /\ to[op.req].id = op.id /\ to[op.req].state = op.to
  OBVIOUS
<1>3. u = [m EXCEPT !.inbox = [e \in DOMAIN @ \cup {op.id} |-> IF e = op.id THEN op.req ELSE @[e]]]
  BY DEF Mutate
<1> HIDE DEF a, to, u
<1>4. n \in Nat
  BY FS_CardinalityType DEF ViewOK, Numbered
<1>5. ~Spent(a, op.id)
  <2>1. \A q, k : /\ op.id # <<"reserve", q>> /\ op.id # <<"expiry", q>> /\ op.id # <<"expiry-unresolved", q>>
                  /\ op.id # <<"window-rollover", q, k>>
    OBVIOUS
  <2>2. \A e \in 1 .. n : op.id # <<"event", e>>
    BY <1>4
  <2> QED BY <1>1, <2>1, <2>2 DEF Spent
<1>6. Lawful(a, to)
  <2>1. v.reservation[op.req].state \in States
    BY DEF ViewOK
  <2>2. Forward(v.reservation[op.req].state, op.to)
    BY <2>1, SuccessorsAreForward
  <2> QED BY <1>1, <1>2, <1>5, <2>2 DEF Lawful
<1>7. MovedBy(m, a, to)
  BY <1>1, <1>6, MovedMoves
<1> HIDE DEF m
<1>8. m = [reservation |-> m.reservation, window |-> now, inbox |-> v.inbox, entries |-> m.entries]
  BY <1>1, <1>7 DEF MovedBy
<1>9. u = [reservation |-> m.reservation, window |-> now, inbox |-> box, entries |-> m.entries]
  <2>1. m.inbox = v.inbox
    BY <1>8
  <2>2. u = [m EXCEPT !.inbox = box]
    BY <1>3, <1>8, <2>1
  <2> HIDE DEF box
  <2> QED BY <1>8, <2>2
<1>10. DOMAIN box = DOMAIN v.inbox \cup {op.id}
  OBVIOUS
<1> HIDE DEF box
<1>11. /\ u = [reservation |-> m.reservation, window |-> u.window, inbox |-> u.inbox, entries |-> m.entries]
       /\ u.window = now /\ u.inbox = box
  BY <1>9
<1>12. IsFiniteSet(DOMAIN box) /\ Cardinality(DOMAIN box) = n + 1
  <2>1. op.id \notin DOMAIN v.inbox
    <3>1. \A e \in 1 .. n : op.id # <<"event", e>>
      BY <1>4
    <3> QED BY <3>1 DEF ViewOK, Numbered
  <2>2. IsFiniteSet(DOMAIN v.inbox)
    BY DEF ViewOK, Numbered
  <2> QED BY <1>10, <2>1, <2>2, FS_AddElement
<1>13. Numbered(box)
  <2>1. ASSUME NEW id \in DOMAIN box PROVE \E e \in 1 .. n + 1 : id = <<"event", e>>
    <3>1. CASE id = op.id
      <4>1. n + 1 \in 1 .. n + 1
        BY <1>4
      <4> QED BY <3>1, <4>1
    <3>2. CASE id # op.id
      <4>1. PICK e \in 1 .. n : id = <<"event", e>>
        BY <1>10, <3>2 DEF ViewOK, Numbered
      <4>2. e \in 1 .. n + 1
        BY <1>4
      <4> QED BY <4>1, <4>2
    <3> QED BY <3>1, <3>2
  <2> QED BY <1>12, <2>1 DEF Numbered
<1>14. Spent(u, op.id)
  <2>1. n + 1 \in 1 .. Cardinality(DOMAIN u.inbox)
    BY <1>4, <1>11, <1>12
  <2> QED BY <2>1 DEF Spent
<1>15. ViewOK(u)
  <2>1. u.window \in Int /\ a.window <= u.window
    BY <1>1, <1>11
  <2>2. Numbered(u.inbox) /\ Cardinality(DOMAIN a.inbox) <= Cardinality(DOMAIN u.inbox)
    BY <1>1, <1>4, <1>11, <1>12, <1>13
  <2>3. \A r \in DOMAIN to : Spent(u, to[r].id)
    BY <1>2, <1>14
  <2> QED BY <1>1, <1>6, <1>7, <1>11, <2>1, <2>2, <2>3, MovedView
<1> QED BY <1>11, <1>15 DEF u

\* admitOnce continues the trail.
LEMMA ReserveKeeps ==
  ASSUME NEW v, ViewOK(v), now \in Int, v.window <= now, NEW op, op.req \in AuditRequests,
         v.reservation[op.req] = Absent
  PROVE  ViewOK(Reserve(v, op)) /\ Reserve(v, op).window = now
<1> DEFINE a == advanceTenantWindow(v)
           r == op.req
           id == <<"reserve", r>>
           after == [last |-> id, state |-> "reserved", window |-> a.window]
           to == [q \in {r} |-> [id |-> id, state |-> "reserved"]]
           new == [a.reservation EXCEPT ![r] = after]
           content == Content(id, r, Absent, after)
           chain == appendAudit(a.entries, content)
           u == Reserve(v, op)
<1>1. Absent.state = "absent"
  BY DEF Absent
<1>2. ViewOK(a) /\ a.window = now /\ a.inbox = v.inbox /\ a.reservation[r] = Absent
  BY <1>1, AdvanceKeeps DEF AdvancedTo
<1>3. u = [a EXCEPT !.reservation = new, !.entries = chain]
  <2>1. a.reservation = [q \in AuditRequests |-> a.reservation[q]]
    BY <1>2 DEF ViewOK
  <2>2. a = [reservation |-> a.reservation, window |-> a.window, inbox |-> a.inbox, entries |-> a.entries]
    BY <1>2 DEF ViewOK
  <2> HIDE DEF a, after, id
  <2> QED BY <2>1, <2>2 DEF Reserve, a, after, id
<1> HIDE DEF a, u
<1>4. u = [reservation |-> new, window |-> a.window, inbox |-> a.inbox, entries |-> chain]
  <2>1. a = [reservation |-> a.reservation, window |-> a.window, inbox |-> a.inbox, entries |-> a.entries]
    BY <1>2 DEF ViewOK
  <2> HIDE DEF new, chain
  <2> QED BY <1>3, <2>1
<1>5. /\ new = [q \in AuditRequests |-> IF q = r THEN after ELSE a.reservation[q]]
      /\ new[r] = after /\ \A q \in AuditRequests \ {r} : new[q] = a.reservation[q]
  <2>1. a.reservation = [q \in AuditRequests |-> a.reservation[q]]
    BY <1>2 DEF ViewOK
  <2> HIDE DEF after, r
  <2> QED BY <2>1 DEF r
<1>6. after.state = "reserved"
  OBVIOUS
<1> HIDE DEF new, after
<1>7. DOMAIN to = {r} /\ to[r].id = id /\ to[r].state = "reserved"
  OBVIOUS
<1> HIDE DEF to
<1>8. ~Spent(a, id)
  <2>1. \A q : id = <<"reserve", q>> => q = r
    OBVIOUS
  <2>2. \A q, n : /\ id # <<"event", q>> /\ id # <<"expiry", q>> /\ id # <<"expiry-unresolved", q>>
                  /\ id # <<"window-rollover", q, n>>
    OBVIOUS
  <2> QED BY <1>1, <1>2, <2>1, <2>2 DEF Spent
<1>9. Lawful(a, to)
  <2>1. Forward("absent", "reserved")
    BY StatesAre DEF Forward, Late
  <2> QED BY <1>1, <1>2, <1>7, <1>8, <2>1 DEF Lawful
<1>10. content.id = id /\ content.req = r /\ content.before = Absent /\ content.after = after
  BY DEF Content
<1>11. content = Content(content.id, content.req, a.reservation[r], new[r])
  <2> HIDE DEF id, r
  <2> QED BY <1>2, <1>5 DEF Content
<1> DEFINE contents == <<content>>
<1>12. Len(contents) = 1 /\ contents[1] = content
  OBVIOUS
<1>13. TrailOK(a.entries, a.reservation) /\ Extends(chain, a.entries, contents)
  <2>1. TrailOK(a.entries, a.reservation) /\ Linked(a.entries)
    BY <1>2 DEF ViewOK, TrailOK
  <2> HIDE DEF content
  <2> QED BY <2>1, AppendsOne
<1> HIDE DEF content, contents, chain
<1>14. MovesTo(contents, a.reservation, new)
  <2>1. \A k \in 1 .. Len(contents) : k = 1 /\ contents[k] = content
    BY <1>12
  <2>2. new[r].state # "absent"
    BY <1>5, <1>6
  <2>3. \A q \in AuditRequests : (\E k \in 1 .. Len(contents) : contents[k].req = q) \/ new[q] = a.reservation[q]
    BY <1>5, <1>10, <1>12
  <2>4. content.req \in AuditRequests
    BY <1>10
  <2>5. \A k \in 1 .. Len(contents) :
          /\ contents[k].req \in AuditRequests
          /\ contents[k] = Content(contents[k].id, contents[k].req,
                                   a.reservation[contents[k].req], new[contents[k].req])
          /\ new[contents[k].req].state # "absent"
    BY <1>10, <1>11, <2>1, <2>2, <2>4
  <2> QED BY <1>12, <2>1, <2>3, <2>5 DEF MovesTo
<1>15. \A i \in 1 .. Len(a.entries), k \in 1 .. Len(contents) : a.entries[i].content.id # contents[k].id
  <2>1. \A i \in 1 .. Len(a.entries) : a.entries[i].content.id # id
    BY <1>2, <1>8 DEF ViewOK
  <2> QED BY <1>10, <1>12, <2>1
<1>16. TrailOK(chain, new)
  BY <1>13, <1>14, <1>15, GrowTrail
<1>17. \A i \in 1 .. Len(chain) : Spent(a, chain[i].content.id) \/ chain[i].content.id = id
  <2>1. SUFFICES ASSUME NEW i \in 1 .. Len(chain)
                 PROVE  Spent(a, chain[i].content.id) \/ chain[i].content.id = id
    OBVIOUS
  <2>2. Len(a.entries) \in Nat /\ Len(chain) = Len(a.entries) + 1
    BY <1>12, <1>13 DEF TrailOK, Linked, Extends
  <2>3. CASE i \in 1 .. Len(a.entries)
    BY <1>2, <1>13, <2>3 DEF Extends, ViewOK
  <2>4. CASE i \notin 1 .. Len(a.entries)
    <3>1. i = Len(a.entries) + 1
      BY <2>2, <2>4
    <3>2. 1 \in 1 .. Len(contents)
      BY <1>12
    <3> QED BY <1>10, <1>12, <1>13, <3>1, <3>2 DEF Extends
  <2> QED BY <2>3, <2>4
<1>18. u.reservation = new /\ u.entries = chain /\ u.window = a.window /\ u.inbox = a.inbox
  BY <1>4
<1>19. u = [reservation |-> u.reservation, window |-> a.window, inbox |-> a.inbox, entries |-> u.entries]
  BY <1>4, <1>18
<1>20. u = [reservation |-> u.reservation, window |-> u.window, inbox |-> u.inbox, entries |-> u.entries]
  BY <1>18, <1>19
<1>21. MovedBy(u, a, to)
  <2>1. u.reservation = [q \in AuditRequests |-> u.reservation[q]]
    BY <1>5, <1>18
  <2>2. \A q \in DOMAIN to : u.reservation[q].state = to[q].state
    BY <1>5, <1>6, <1>7, <1>18
  <2>3. \A q \in AuditRequests \ DOMAIN to : u.reservation[q] = a.reservation[q]
    BY <1>5, <1>7, <1>18
  <2>4. \A i \in 1 .. Len(u.entries) : \/ Spent(a, u.entries[i].content.id)
                                      \/ \E q \in DOMAIN to : u.entries[i].content.id = to[q].id
    <3> HIDE DEF id
    <3> QED BY <1>7, <1>17, <1>18
  <2>5. TrailOK(u.entries, u.reservation)
    BY <1>16, <1>18
  <2> QED BY <1>19, <2>1, <2>2, <2>3, <2>4, <2>5 DEF MovedBy
<1>22. \A q \in DOMAIN to : Spent(u, to[q].id)
  <2>1. u.reservation[r].state # "absent"
    BY <1>5, <1>6, <1>18
  <2> QED BY <1>7, <2>1 DEF Spent
<1>23. ViewOK(u)
  <2>1. u.window \in Int /\ a.window <= u.window
    BY <1>2, <1>18
  <2>2. Numbered(u.inbox) /\ Cardinality(DOMAIN a.inbox) <= Cardinality(DOMAIN u.inbox)
    BY <1>2, <1>18, FS_CardinalityType DEF ViewOK, Numbered
  <2> QED BY <1>2, <1>9, <1>20, <1>21, <1>22, <2>1, <2>2, MovedView
<1> QED BY <1>2, <1>18, <1>23 DEF u

-----------------------------------------------------------------------------
(* The audit trail: the invariant *)

\* The stored state is a view, and no window begins before its time.
AuditInv == ViewOK(View) /\ now \in Int /\ window <= now

\* What a transaction starts from is what is stored.
LEMMA ViewIs ==
  /\ View.reservation = reservation /\ View.window = window
  /\ View.inbox = inbox /\ View.entries = entries
BY DEF View

\* An empty trail.
LEMMA AuditInitially == AuditInit => AuditInv
<1> SUFFICES ASSUME AuditInit PROVE AuditInv
  OBVIOUS
<1>1. /\ reservation = [r \in AuditRequests |-> Absent] /\ window = 1 /\ now = 1
      /\ inbox = [e \in {} |-> 0] /\ entries = <<>>
  BY DEF AuditInit
<1>2. Len(entries) = 0 /\ DOMAIN entries = {} /\ 1 .. 0 = {} /\ DOMAIN inbox = {}
  BY <1>1
<1>3. TrailOK(entries, reservation)
  <2>1. entries = [i \in 1 .. 0 |-> entries[i]]
    BY <1>1
  <2>2. Linked(entries)
    BY <1>2, <2>1 DEF Linked
  <2>3. \A r \in AuditRequests : LeftBy(entries, Len(entries), r, reservation[r])
    BY <1>1, <1>2 DEF LeftBy
  <2> QED BY <1>2, <2>2, <2>3 DEF TrailOK, Shaped
<1>4. Numbered(inbox)
  BY <1>2, FS_EmptySet DEF Numbered
<1>5. \A r \in AuditRequests : reservation[r].state \in States
  BY <1>1, StatesAre DEF Absent
<1>6. View = [reservation |-> View.reservation, window |-> View.window, inbox |-> View.inbox, entries |-> View.entries]
  BY ViewIs DEF View
<1>7. ViewOK(View)
  <2>1. reservation = [r \in AuditRequests |-> reservation[r]] /\ window \in Int
    BY <1>1
  <2>2. \A i \in 1 .. Len(View.entries) : Spent(View, View.entries[i].content.id)
    BY <1>2, ViewIs
  <2> HIDE DEF View
  <2> QED BY <1>3, <1>4, <1>5, <1>6, <2>1, <2>2, ViewIs DEF ViewOK
<1> QED BY <1>1, <1>7 DEF AuditInv

\* A transaction that commits continues the trail.
LEMMA CommitKeeps ==
  ASSUME AuditInv, NEW w, NEW op \in Operations, Commit(w, op)
  PROVE  AuditInv'
<1> DEFINE v == Effect(View, op)
<1>1. ViewOK(View) /\ now \in Int /\ View.window <= now /\ window \in Int
  BY ViewIs DEF AuditInv, ViewOK
<1>2. ViewOK(v) /\ v.window \in Int /\ v.window <= now
  <2>1. CASE op \in {[kind |-> "reserve", req |-> r] : r \in {q \in AuditRequests : reservation[q] = Absent}}
    <3>1. op.kind = "reserve" /\ op.req \in AuditRequests /\ View.reservation[op.req] = Absent
      BY <2>1, ViewIs
    <3>2. v = Reserve(View, op)
      BY <3>1 DEF Effect
    <3>3. ViewOK(v) /\ v.window = now
      <4> HIDE DEF v
      <4> QED BY <1>1, <3>1, <3>2, ReserveKeeps
    <3> HIDE DEF v
    <3> QED BY <1>1, <3>3
  <2>2. CASE op \in {[kind |-> "expiry", due |-> S] :
                        S \in SUBSET {q \in AuditRequests : reservation[q].state \in {"reserved", "dispatched"}} \ {{}}}
    <3>1. /\ op.kind = "expiry" /\ op.due \subseteq AuditRequests
          /\ \A r \in op.due : View.reservation[r].state \in {"reserved", "dispatched"}
      BY <2>2, ViewIs
    <3>2. v = Expire(View, op.due)
      BY <3>1 DEF Effect
    <3>3. ViewOK(v) /\ v.window = View.window
      <4> HIDE DEF v
      <4> QED BY <1>1, <3>1, <3>2, ExpireKeeps
    <3> HIDE DEF v
    <3> QED BY <1>1, <3>3, ViewIs
  <2>3. CASE op \in UNION {{[kind |-> "event", req |-> r, id |-> <<"event", e>>, to |-> t] :
                    t \in Successors[reservation[r].state],
                    e \in EventIDs \cap {Cardinality(DOMAIN inbox) + 1}} : r \in AuditRequests}
    <3>1. PICK r \in AuditRequests :
            op \in {[kind |-> "event", req |-> r, id |-> <<"event", e>>, to |-> t] :
                    t \in Successors[reservation[r].state],
                    e \in EventIDs \cap {Cardinality(DOMAIN inbox) + 1}}
      BY <2>3
    <3>2. /\ op.kind = "event" /\ op.req = r /\ op.to \in Successors[reservation[r].state]
          /\ op.id = <<"event", Cardinality(DOMAIN inbox) + 1>>
      BY <3>1
    <3>3. v = Mutate(View, op)
      BY <3>2 DEF Effect
    <3>4. ViewOK(v) /\ v.window = now
      <4>1. /\ op.to \in Successors[View.reservation[op.req].state]
            /\ op.id = <<"event", Cardinality(DOMAIN View.inbox) + 1>>
        BY <3>2, ViewIs
      <4> HIDE DEF v
      <4> QED BY <1>1, <3>2, <3>3, <4>1, MutateKeeps
    <3> HIDE DEF v
    <3> QED BY <1>1, <3>4
  <2> QED BY <2>1, <2>2, <2>3 DEF Operations
<1>3. /\ reservation' = v.reservation /\ window' = v.window
      /\ inbox' = v.inbox /\ entries' = v.entries /\ now' = now
  BY DEF Commit
<1> HIDE DEF v
<1>4. View' = [reservation |-> v.reservation, window |-> v.window, inbox |-> v.inbox, entries |-> v.entries]
  BY <1>3 DEF View
<1>5. View' = v
  BY <1>2, <1>4 DEF ViewOK
<1>6. ViewOK(View')
  BY <1>2, <1>5
<1>7. ViewOK(View)'
  BY <1>6 DEF ViewOK, Numbered, TrailOK, Linked, Shaped, LeftBy, Spent, States, Prefix
<1> QED BY <1>1, <1>2, <1>3, <1>7 DEF AuditInv

\* Every state of a tenant is a view whose trail is continuous.
THEOREM AuditInvariant == AuditSpec => []AuditInv
<1>1. AuditInit => AuditInv
  BY AuditInitially
<1>2. AuditInv /\ [AuditNext]_auditVars => AuditInv'
  <2> SUFFICES ASSUME AuditInv, [AuditNext]_auditVars PROVE AuditInv'
    OBVIOUS
  <2>1. ASSUME NEW w \in DOMAIN tx, NEW op \in Operations, Commit(w, op) PROVE AuditInv'
    BY <2>1, CommitKeeps
  <2>2. ASSUME UNCHANGED <<reservation, window, inbox, entries>>, now' \in Int, now <= now' PROVE AuditInv'
    <3>1. View' = View
      BY <2>2 DEF View
    <3>2. ViewOK(View')
      BY <3>1 DEF AuditInv
    <3>3. ViewOK(View)'
      BY <3>2 DEF ViewOK, Numbered, TrailOK, Linked, Shaped, LeftBy, Spent, States, Prefix
    <3>4. window' \in Int /\ window' <= now'
      BY <2>2, ViewIs DEF AuditInv, ViewOK
    <3> QED BY <2>2, <3>3, <3>4 DEF AuditInv
  <2>3. now \in Int /\ now <= now
    BY DEF AuditInv
  <2>4. ASSUME NEW w \in DOMAIN tx, Begin(w) PROVE AuditInv'
    BY <2>2, <2>3, <2>4 DEF Begin
  <2>5. ASSUME NEW w \in DOMAIN tx, Rollback(w) PROVE AuditInv'
    BY <2>2, <2>3, <2>5 DEF Rollback
  <2>6. ASSUME WindowEnds PROVE AuditInv'
    <3>1. now' \in Int /\ now <= now'
      BY <2>3, <2>6 DEF WindowEnds
    <3> QED BY <2>2, <2>6, <3>1 DEF WindowEnds
  <2>7. ASSUME UNCHANGED auditVars PROVE AuditInv'
    BY <2>2, <2>3, <2>7 DEF auditVars
  <2> QED BY <2>1, <2>4, <2>5, <2>6, <2>7 DEF AuditNext
<1> QED BY <1>1, <1>2, PTL DEF AuditSpec

-----------------------------------------------------------------------------
(* The audit trail: what an alteration shows *)

\* VerifyAuditChain accepts a trail that is not empty.
LEMMA TrailVerifies ==
  ASSUME NEW chain, NEW res, TrailOK(chain, res), chain # <<>>
  PROVE  Verify(chain)
<1>1. Linked(chain) /\ DOMAIN chain = 1 .. Len(chain) /\ Len(chain) \in Nat
  BY DEF TrailOK, Linked
<1>2. \A i, j \in DOMAIN chain : i # j => chain[i].content.id # chain[j].content.id
  BY <1>1 DEF TrailOK
<1>3. ASSUME NEW i \in DOMAIN chain
      PROVE  /\ chain[i].sequence = i
             /\ chain[i].previous = IF i = 1 THEN <<>> ELSE chain[i - 1].sha
             /\ chain[i] = BuildEntry(i, chain[i].previous, chain[i].content)
  <2>1. i \in 1 .. Len(chain) /\ i \in Nat
    BY <1>1
  <2>2. chain[i].sequence = i /\ chain[i].previous = Prefix(chain, i - 1)
    BY <1>1, <2>1, DigestIsPrefix
  <2>3. chain[i] = BuildEntry(i, chain[i].previous, chain[i].content)
    BY <1>1, <2>1, <2>2 DEF Linked
  <2>4. i = 1 => Prefix(chain, i - 1) = <<>>
    BY DEF Prefix
  <2>5. i # 1 => chain[i - 1].sha = Prefix(chain, i - 1)
    <3>1. i # 1 => i - 1 \in 1 .. Len(chain)
      BY <1>1, <2>1
    <3> QED BY <1>1, <3>1, DigestIsPrefix
  <2> QED BY <2>2, <2>3, <2>4, <2>5
<1> QED BY <1>2, <1>3 DEF Verify

\* An altered entry does not agree with its successor.
LEMMA AlteredIsDetected ==
  ASSUME NEW chain, Linked(chain), Shaped(chain), NEW i \in 1 .. Len(chain), i < Len(chain)
  PROVE  ~Verify([chain EXCEPT ![i] =
                    BuildEntry(i, chain[i].previous, [chain[i].content EXCEPT !.after = Absent])])
<1> DEFINE c == chain[i].content
           d == [c EXCEPT !.after = Absent]
           p == Prefix(chain, i - 1)
           other == BuildEntry(i, chain[i].previous, d)
           new == [chain EXCEPT ![i] = other]
<1>1. Len(chain) \in Nat /\ DOMAIN chain = 1 .. Len(chain) /\ i \in Nat /\ i + 1 \in 1 .. Len(chain)
  BY DEF Linked
<1>2. SUFFICES ASSUME Verify(new) PROVE FALSE
  OBVIOUS
<1> HIDE DEF other
<1>3. DOMAIN new = DOMAIN chain /\ new[i] = other /\ new[i + 1] = chain[i + 1]
  BY <1>1
<1> HIDE DEF new
<1>4. new[i + 1].previous = new[i].sha
  <2>1. i + 1 \in DOMAIN new /\ i + 1 # 1 /\ (i + 1) - 1 = i
    BY <1>1, <1>3
  <2> QED BY <1>2, <2>1 DEF Verify
<1>5. chain[i + 1].previous = Prefix(chain, i) /\ chain[i].previous = p
  <2>1. (i + 1) - 1 = i
    BY <1>1
  <2>2. chain[i + 1].previous = Prefix(chain, (i + 1) - 1)
    BY <1>1, DigestIsPrefix, Zenon
  <2>3. chain[i].previous = Prefix(chain, i - 1)
    BY DigestIsPrefix, Zenon
  <2> QED BY <2>1, <2>2, <2>3
<1>6. other.sha = Append(p, d)
  <2> HIDE DEF p, d
  <2> QED BY <1>5 DEF other, BuildEntry
<1>7. Prefix(chain, i)[i] = c
  BY <1>1 DEF Prefix
<1>8. Append(p, d)[i] = d
  <2>1. p = [j \in 1 .. i - 1 |-> p[j]] /\ i - 1 \in Nat /\ (i - 1) + 1 = i
    BY <1>1 DEF Prefix
  <2> HIDE DEF p, d
  <2>2. Append(p, d) = [j \in 1 .. (i - 1) + 1 |-> IF j = (i - 1) + 1 THEN d ELSE p[j]]
    BY <2>1, AppendedList
  <2> QED BY <1>1, <2>1, <2>2
<1>9. c = d
  <2> HIDE DEF c, d, p
  <2> QED BY <1>3, <1>4, <1>5, <1>6, <1>7, <1>8
<1>10. c = Content(c.id, c.req, c.before, c.after) /\ c.after.state # "absent"
  BY DEF Shaped
<1> HIDE DEF c
<1>11. d.after = Absent
  BY <1>10 DEF Content
<1> HIDE DEF d
<1>12. c.after.state = "absent"
  BY <1>9, <1>11 DEF Absent
<1> QED BY <1>10, <1>12

\* A removed entry leaves a gap in the sequence.
LEMMA RemovedIsDetected ==
  ASSUME NEW chain, Linked(chain), NEW i \in 1 .. Len(chain), i < Len(chain)
  PROVE  ~Verify(RemoveAt(chain, i))
<1> DEFINE n == Len(chain)
           S == {chain[j] : j \in 1 .. n}
           x == SubSeq(chain, 1, i - 1)
           y == SubSeq(chain, i + 1, n)
           new == x \o y
<1>1. n \in Nat /\ chain \in [1 .. n -> S] /\ i \in Nat /\ i + 1 \in 1 .. n
  <2>1. n \in Nat /\ chain = [j \in 1 .. n |-> chain[j]]
    BY DEF Linked
  <2>2. chain \in [1 .. n -> S]
    <3> HIDE DEF n
    <3> QED BY <2>1
  <2> QED BY <2>1, <2>2
<1> HIDE DEF S
<1>2. chain \in Seq(S)
  BY <1>1
<1>3. x \in Seq(S) /\ Len(x) = i - 1
  BY <1>1, <1>2
<1>4. y \in Seq(S) /\ Len(y) = n - i /\ y[1] = chain[i + 1]
  BY <1>1, <1>2
<1> HIDE DEF x, y
<1>5. i \in DOMAIN new /\ new[i] = y[1]
  <2>1. Len(new) = (i - 1) + (n - i) /\ new \in Seq(S)
    BY <1>3, <1>4
  <2>2. i \in 1 .. Len(new) /\ i > Len(x) /\ i - Len(x) = 1
    BY <1>1, <1>3, <2>1
  <2> QED BY <1>3, <1>4, <2>1, <2>2
<1>6. chain[i + 1].sequence = i + 1
  BY <1>1, DigestIsPrefix
<1> HIDE DEF new
<1>7. ~Verify(new)
  <2>1. new[i].sequence # i
    BY <1>1, <1>4, <1>5, <1>6
  <2> QED BY <1>5, <2>1 DEF Verify
<1> QED BY <1>7 DEF RemoveAt, new, x, y

-----------------------------------------------------------------------------
(* The audit trail: batches and checkpoints *)

\* What the first n records commit to.
Committed(recs, j) == <<j - 1, recs[j].batch>>

Batches(recs, n) == [j \in 1 .. n |-> Committed(recs, j)]

\* Every record commits to its own batch and to those before it.
Chained(recs) ==
    /\ Len(recs) \in Nat /\ DOMAIN recs = 1 .. Len(recs)
    /\ recs = [i \in 1 .. Len(recs) |-> recs[i]]
    /\ \A i \in 1 .. Len(recs) : recs[i] = BatchRecord(i - 1, Batches(recs, i - 1), recs[i].batch)

\* The record after those of a chain.
NextRecord(recs, batch) == BatchRecord(Len(recs), IF recs = <<>> THEN <<>> ELSE Last(recs).hash, batch)

\* A hash is the list of the batches up to its record.
LEMMA HashIsBatches ==
  ASSUME NEW recs, Chained(recs), NEW i \in 1 .. Len(recs)
  PROVE  recs[i].hash = Batches(recs, i) /\ recs[i].previous = Batches(recs, i - 1)
         /\ recs[i].index = i - 1
<1> DEFINE p == Batches(recs, i - 1)
           x == Committed(recs, i)
<1>0. i \in Nat /\ i - 1 \in Nat /\ (i - 1) + 1 = i
  BY DEF Chained
<1>1. recs[i] = BatchRecord(i - 1, p, recs[i].batch)
  BY DEF Chained
<1>2. recs[i].hash = Append(p, x) /\ recs[i].previous = p /\ recs[i].index = i - 1
  <2> HIDE DEF p
  <2> QED BY <1>1 DEF BatchRecord, Committed
<1>3. p = [j \in 1 .. i - 1 |-> p[j]] /\ \A j \in 1 .. i - 1 : p[j] = Committed(recs, j)
  BY DEF Batches
<1> HIDE DEF p
<1>4. Append(p, x) = [j \in 1 .. (i - 1) + 1 |-> IF j = (i - 1) + 1 THEN x ELSE p[j]]
  <2> HIDE DEF x
  <2> QED BY <1>0, <1>3, AppendedList
<1>5. Append(p, x) = [j \in 1 .. i |-> IF j = i THEN x ELSE p[j]]
  <2> HIDE DEF x
  <2> QED BY <1>0, <1>4
<1>6. Append(p, x) = Batches(recs, i)
  BY <1>0, <1>3, <1>5 DEF Batches
<1> QED BY <1>2, <1>6 DEF p

\* new is recs with one more record.
OneMore(new, recs, batch) ==
    /\ Chained(new) /\ Len(new) = Len(recs) + 1
    /\ \A i \in 1 .. Len(recs) : new[i] = recs[i]
    /\ new[Len(recs) + 1].batch = batch

\* One more record keeps the records chained.
LEMMA RecordAppended ==
  ASSUME NEW recs, Chained(recs), NEW batch
  PROVE  OneMore(Append(recs, NextRecord(recs, batch)), recs, batch)
<1> DEFINE n == Len(recs)
           head == Batches(recs, n)
           e == BatchRecord(n, head, batch)
           new == Append(recs, e)
<1>1. n \in Nat /\ recs = [i \in 1 .. n |-> recs[i]] /\ DOMAIN recs = 1 .. n
  BY DEF Chained
<1>2. NextRecord(recs, batch) = e
  <2>1. CASE recs = <<>>
    <3>1. n = 0
      BY <2>1
    <3>2. head = <<>>
      BY <3>1 DEF Batches
    <3> QED BY <2>1, <3>2 DEF NextRecord
  <2>2. CASE recs # <<>>
    <3>1. n # 0
      BY <1>1, <2>2
    <3>2. n \in 1 .. Len(recs)
      BY <1>1, <3>1
    <3>3. Last(recs).hash = head
      BY <3>2, HashIsBatches DEF Last
    <3> QED BY <2>2, <3>3 DEF NextRecord
  <2> QED BY <2>1, <2>2
<1> HIDE DEF e
<1>3. /\ new = [i \in 1 .. n + 1 |-> IF i = n + 1 THEN e ELSE recs[i]]
      /\ Len(new) = n + 1 /\ DOMAIN new = 1 .. n + 1
  <2> HIDE DEF n
  <2> QED BY <1>1, AppendedList
<1> HIDE DEF new
<1>4. new[n + 1] = e /\ \A i \in 1 .. n : new[i] = recs[i]
  BY <1>1, <1>3
<1>5. e.batch = batch
  BY DEF e, BatchRecord
<1>6. \A i \in 1 .. n + 1 : Batches(new, i - 1) = Batches(recs, i - 1)
  <2> HIDE DEF n
  <2> QED BY <1>1, <1>4 DEF Batches, Committed
<1>7. ASSUME NEW i \in 1 .. n + 1 PROVE new[i] = BatchRecord(i - 1, Batches(new, i - 1), new[i].batch)
  <2>1. CASE i = n + 1
    <3>1. Batches(new, i - 1) = head /\ i - 1 = n
      BY <1>1, <1>6, <2>1
    <3> QED BY <1>4, <1>5, <2>1, <3>1 DEF e
  <2>2. CASE i # n + 1
    <3>1. i \in 1 .. n
      BY <1>1, <2>2
    <3> QED BY <1>4, <1>6, <3>1 DEF Chained
  <2> QED BY <2>1, <2>2
<1>8. Chained(new)
  <2>1. Len(new) \in Nat
    BY <1>1, <1>3
  <2>2. new = [i \in 1 .. Len(new) |-> new[i]]
    BY <1>3
  <2> QED BY <1>3, <1>7, <2>1, <2>2 DEF Chained
<1>9. OneMore(new, recs, batch)
  BY <1>1, <1>3, <1>4, <1>5, <1>8 DEF OneMore
<1> QED BY <1>2, <1>9 DEF new

\* A batched chain whose entries are in D.
BatchesIn(recs, D) == Chained(recs) /\ \A i \in 1 .. Len(recs) : recs[i].batch \in Seq(D)

BatchedIn(c, D) ==
    /\ c = [records |-> c.records, pending |-> c.pending]
    /\ c.pending \in Seq(D) /\ BatchesIn(c.records, D)

\* A flush keeps the chain in order.
LEMMA FlushKeeps ==
  ASSUME NEW D, NEW c, BatchedIn(c, D)
  PROVE  BatchedIn(Flush(c), D)
<1>1. CASE c.pending = <<>>
  BY <1>1 DEF Flush
<1>2. CASE c.pending # <<>>
  <2> DEFINE recs == c.records
             batch == c.pending
             new == Append(recs, NextRecord(recs, batch))
  <2>1. Flush(c) = [records |-> new, pending |-> <<>>]
    BY <1>2 DEF Flush, NextRecord
  <2>2. OneMore(new, recs, batch)
    BY RecordAppended DEF BatchedIn, BatchesIn
  <2> HIDE DEF new
  <2>3. ASSUME NEW i \in 1 .. Len(new) PROVE new[i].batch \in Seq(D)
    <3>1. Len(recs) \in Nat /\ Len(new) = Len(recs) + 1
      BY <2>2 DEF OneMore, BatchedIn, BatchesIn, Chained
    <3>2. i \in 1 .. Len(recs) \/ i = Len(recs) + 1
      BY <3>1
    <3> QED BY <2>2, <3>2 DEF OneMore, BatchedIn, BatchesIn
  <2>4. BatchesIn(new, D)
    BY <2>2, <2>3 DEF OneMore, BatchesIn
  <2>5. <<>> \in Seq(D)
    OBVIOUS
  <2>6. Flush(c).records = new /\ Flush(c).pending = <<>>
    BY <2>1
  <2> QED BY <2>1, <2>4, <2>5, <2>6 DEF BatchedIn
<1> QED BY <1>1, <1>2

\* An entry keeps the chain in order.
LEMMA AppendEntryKeeps ==
  ASSUME NEW D, NEW c, BatchedIn(c, D), NEW x \in D
  PROVE  BatchedIn(AppendEntry(c, x), D)
<1> DEFINE d == [c EXCEPT !.pending = Append(@, x)]
<1>1. d = [records |-> c.records, pending |-> Append(c.pending, x)]
  BY SMTT(60) DEF BatchedIn
<1>2. AppendEntry(c, x) = IF Len(d.pending) >= BatchSize THEN Flush(d) ELSE d
  BY DEF AppendEntry
<1> HIDE DEF d
<1>3. d.records = c.records /\ d.pending = Append(c.pending, x)
  BY <1>1
<1>4. d.pending \in Seq(D)
  BY <1>3 DEF BatchedIn
<1>5. BatchedIn(d, D)
  BY <1>1, <1>3, <1>4 DEF BatchedIn
<1> QED BY <1>2, <1>5, FlushKeeps

NoBatches == [records |-> <<>>, pending |-> <<>>]

\* out[k] is the batched chain of the first k members of the list.
IsSealing(out, list, n) ==
    out = [k \in 0 .. n |-> IF k = 0 THEN NoBatches ELSE AppendEntry(out[k - 1], list[k])]

\* The chain after each entry of a list exists.
LEMMA SealingExists ==
  ASSUME NEW list, NEW n \in Nat
  PROVE  \E out : IsSealing(out, list, n)
<1> DEFINE G == {k \in 0 .. n : \E out : IsSealing(out, list, k)}
<1>1. 0 \in G
  <2> DEFINE o == [k \in 0 .. 0 |-> NoBatches]
  <2>1. IsSealing(o, list, 0)
    BY DEF IsSealing
  <2> QED BY <2>1
<1>2. ASSUME NEW k \in 1 .. n, k - 1 \in G PROVE k \in G
  <2>1. PICK g : IsSealing(g, list, k - 1)
    BY <1>2
  <2> DEFINE o == [j \in 0 .. k |-> IF j = k THEN AppendEntry(g[k - 1], list[k]) ELSE g[j]]
  <2>2. ASSUME NEW j \in 0 .. k
        PROVE  o[j] = IF j = 0 THEN NoBatches ELSE AppendEntry(o[j - 1], list[j])
    <3>1. CASE j = k
      <4>1. j # 0 /\ k - 1 \in 0 .. k /\ k - 1 # k
        BY <3>1
      <4> QED BY <3>1, <4>1
    <3>2. CASE j # k /\ j # 0
      <4>1. j \in 0 .. k - 1 /\ j - 1 \in 0 .. k /\ j - 1 # k
        BY <3>2
      <4>2. g[j] = AppendEntry(g[j - 1], list[j])
        BY <2>1, <3>2, <4>1 DEF IsSealing
      <4> QED BY <3>2, <4>1, <4>2
    <3>3. CASE j = 0
      <4>1. j # k /\ 0 \in 0 .. k - 1
        BY <3>3
      <4>2. g[0] = NoBatches
        BY <2>1, <4>1 DEF IsSealing
      <4> QED BY <3>3, <4>1, <4>2
    <3> QED BY <3>1, <3>2, <3>3
  <2>3. IsSealing(o, list, k)
    <3>1. o = [j \in 0 .. k |-> o[j]]
      OBVIOUS
    <3> HIDE DEF o
    <3> QED BY <2>2, <3>1 DEF IsSealing
  <2> HIDE DEF o
  <2> QED BY <2>3
<1>3. 0 .. n \subseteq G
  <2> HIDE DEF G
  <2> QED BY <1>1, <1>2, UpTo
<1> QED BY <1>3

\* The records of a list are chained and their batches hold its members.
LEMMA SealedIsChained ==
  ASSUME NEW D, NEW list \in Seq(D)
  PROVE  BatchesIn(Sealed(list), D)
<1> DEFINE n == Len(list)
           out == CHOOSE o : IsSealing(o, list, n)
           G == {k \in 0 .. n : BatchedIn(out[k], D)}
<1>1. Sealed(list) = Flush(out[n]).records
  BY DEF Sealed, IsSealing, NoBatches
<1>2. n \in Nat /\ \A k \in 1 .. n : list[k] \in D
  OBVIOUS
<1>3. IsSealing(out, list, n)
  BY <1>2, SealingExists
<1> HIDE DEF out
<1>4. out[0] = NoBatches /\ \A k \in 1 .. n : out[k] = AppendEntry(out[k - 1], list[k])
  BY <1>2, <1>3 DEF IsSealing
<1>5. 0 \in G
  <2>1. Chained(<<>>)
    <3>1. Len(<<>>) = 0 /\ DOMAIN <<>> = {} /\ 1 .. 0 = {} /\ <<>> = [i \in 1 .. 0 |-> <<>>[i]]
      OBVIOUS
    <3> QED BY <3>1 DEF Chained
  <2>2. BatchesIn(<<>>, D)
    BY <2>1 DEF BatchesIn
  <2>3. BatchedIn(NoBatches, D)
    <3>1. NoBatches.records = <<>> /\ NoBatches.pending = <<>>
          /\ NoBatches = [records |-> NoBatches.records, pending |-> NoBatches.pending]
      BY DEF NoBatches
    <3> QED BY <2>2, <3>1 DEF BatchedIn
  <2> QED BY <1>2, <1>4, <2>3
<1>6. ASSUME NEW k \in 1 .. n, k - 1 \in G PROVE k \in G
  <2>1. BatchedIn(out[k - 1], D) /\ list[k] \in D
    BY <1>2, <1>6
  <2>2. BatchedIn(out[k], D)
    BY <1>4, <2>1, AppendEntryKeeps
  <2> QED BY <2>2
<1>7. 0 .. n \subseteq G
  <2> HIDE DEF G, n
  <2> QED BY <1>2, <1>5, <1>6, UpTo
<1>8. BatchedIn(out[n], D)
  BY <1>2, <1>7
<1> QED BY <1>1, <1>8, FlushKeeps DEF BatchedIn

\* The batch that a rewriting from record i on puts at k.
NewBatch(recs, i, k) == IF k = i THEN <<(<<"altered">>)>> ELSE recs[k].batch

\* The rewritten chain c with the record at k.
RewriteNext(recs, i, c, k) ==
    Append(c, BatchRecord(recs[k].index, IF c = <<>> THEN <<>> ELSE Last(c).hash,
                          IF recs[k].index = i - 1 THEN <<(<<"altered">>)>> ELSE recs[k].batch))

\* out[k] is the rewritten chain up to record k.
IsRewriting(out, recs, i, n) ==
    out = [k \in 0 .. n |-> IF k = 0 THEN <<>> ELSE RewriteNext(recs, i, out[k - 1], k)]

\* The records rewritten from one of them on exist.
LEMMA RewritingExists ==
  ASSUME NEW recs, NEW i, NEW n \in Nat
  PROVE  \E out : IsRewriting(out, recs, i, n)
<1> DEFINE G == {k \in 0 .. n : \E out : IsRewriting(out, recs, i, k)}
<1>1. 0 \in G
  <2> DEFINE o == [k \in 0 .. 0 |-> <<>>]
  <2>1. IsRewriting(o, recs, i, 0)
    BY DEF IsRewriting
  <2> QED BY <2>1
<1>2. ASSUME NEW k \in 1 .. n, k - 1 \in G PROVE k \in G
  <2>1. PICK g : IsRewriting(g, recs, i, k - 1)
    BY <1>2
  <2> DEFINE o == [j \in 0 .. k |-> IF j = k THEN RewriteNext(recs, i, g[k - 1], k) ELSE g[j]]
  <2>2. ASSUME NEW j \in 0 .. k
        PROVE  o[j] = IF j = 0 THEN <<>> ELSE RewriteNext(recs, i, o[j - 1], j)
    <3>1. CASE j = k
      <4>1. j # 0 /\ k - 1 \in 0 .. k /\ k - 1 # k
        BY <3>1
      <4> QED BY <3>1, <4>1
    <3>2. CASE j # k /\ j # 0
      <4>1. j \in 0 .. k - 1 /\ j - 1 \in 0 .. k /\ j - 1 # k
        BY <3>2
      <4>2. g[j] = RewriteNext(recs, i, g[j - 1], j)
        BY <2>1, <3>2, <4>1 DEF IsRewriting
      <4> QED BY <3>2, <4>1, <4>2
    <3>3. CASE j = 0
      <4>1. j # k /\ 0 \in 0 .. k - 1
        BY <3>3
      <4>2. g[0] = <<>>
        BY <2>1, <4>1 DEF IsRewriting
      <4> QED BY <3>3, <4>1, <4>2
    <3> QED BY <3>1, <3>2, <3>3
  <2>3. IsRewriting(o, recs, i, k)
    <3>1. o = [j \in 0 .. k |-> o[j]]
      OBVIOUS
    <3> HIDE DEF o
    <3> QED BY <2>2, <3>1 DEF IsRewriting
  <2> HIDE DEF o
  <2> QED BY <2>3
<1>3. 0 .. n \subseteq G
  <2> HIDE DEF G
  <2> QED BY <1>1, <1>2, UpTo
<1> QED BY <1>3

\* A rewritten chain is chained again, with the altered batch.
RewrittenAs(new, recs, i, n) ==
    /\ Chained(new) /\ Len(new) = n
    /\ \A j \in 1 .. n : new[j].batch = NewBatch(recs, i, j)

\* Rewritten records are chained again, and differ from the one altered on.
LEMMA RewrittenIsChained ==
  ASSUME NEW recs, Chained(recs), NEW i \in 1 .. Len(recs)
  PROVE  RewrittenAs(Rewritten(recs, i), recs, i, Len(recs))
<1> DEFINE n == Len(recs)
           out == CHOOSE o : IsRewriting(o, recs, i, n)
           G == {k \in 0 .. n : RewrittenAs(out[k], recs, i, k)}
<1>1. Rewritten(recs, i) = out[n]
  BY DEF Rewritten, IsRewriting, RewriteNext
<1>2. n \in Nat
  BY DEF Chained
<1>3. IsRewriting(out, recs, i, n)
  BY <1>2, RewritingExists
<1> HIDE DEF out
<1>4. out[0] = <<>> /\ \A k \in 1 .. n : out[k] = RewriteNext(recs, i, out[k - 1], k)
  BY <1>2, <1>3 DEF IsRewriting
<1>5. 0 \in G
  <2>1. Chained(<<>>)
    <3>1. Len(<<>>) = 0 /\ DOMAIN <<>> = {} /\ 1 .. 0 = {} /\ <<>> = [j \in 1 .. 0 |-> <<>>[j]]
      OBVIOUS
    <3> QED BY <3>1 DEF Chained
  <2>2. RewrittenAs(<<>>, recs, i, 0)
    BY <2>1 DEF RewrittenAs
  <2> QED BY <1>2, <1>4, <2>2
<1>6. ASSUME NEW k \in 1 .. n, k - 1 \in G PROVE k \in G
  <2> DEFINE old == out[k - 1]
             new == out[k]
             batch == NewBatch(recs, i, k)
  <2>1. Chained(old) /\ Len(old) = k - 1 /\ \A j \in 1 .. k - 1 : old[j].batch = NewBatch(recs, i, j)
    BY <1>6 DEF RewrittenAs
  <2>2. recs[k].index = k - 1
    BY HashIsBatches
  <2>3. (recs[k].index = i - 1) <=> (k = i)
    BY <1>2, <2>2
  <2>4. new = Append(old, NextRecord(old, batch))
    BY <1>4, <2>1, <2>2, <2>3 DEF RewriteNext, NextRecord, NewBatch
  <2>5. OneMore(new, old, batch)
    <3> HIDE DEF old, new, batch
    <3> QED BY <2>1, <2>4, RecordAppended
  <2> HIDE DEF old, new
  <2>6. Chained(new) /\ Len(new) = k /\ new[k].batch = batch /\ \A j \in 1 .. k - 1 : new[j] = old[j]
    <3>1. Len(old) + 1 = k
      BY <2>1
    <3> HIDE DEF batch
    <3> QED BY <2>1, <2>5, <3>1 DEF OneMore
  <2>7. ASSUME NEW j \in 1 .. k PROVE new[j].batch = NewBatch(recs, i, j)
    <3>1. j = k \/ j \in 1 .. k - 1
      OBVIOUS
    <3> QED BY <2>1, <2>6, <3>1
  <2>8. RewrittenAs(new, recs, i, k)
    BY <2>6, <2>7 DEF RewrittenAs
  <2> QED BY <2>8 DEF new
<1>7. 0 .. n \subseteq G
  <2> HIDE DEF G, n
  <2> QED BY <1>2, <1>5, <1>6, UpTo
<1>8. RewrittenAs(out[n], recs, i, n)
  BY <1>2, <1>7
<1> QED BY <1>1, <1>8

\* A chain shows no break.
LEMMA ChainedIsIntact ==
  ASSUME NEW recs, Chained(recs)
  PROVE  ChainIntact(recs)
<1>1. ASSUME NEW i \in DOMAIN recs
      PROVE  /\ recs[i].previous = IF i = 1 THEN <<>> ELSE recs[i - 1].hash
             /\ recs[i].hash = BatchRecord(recs[i].index, recs[i].previous, recs[i].batch).hash
  <2>1. i \in 1 .. Len(recs) /\ Len(recs) \in Nat
    BY DEF Chained
  <2>2. recs[i].previous = Batches(recs, i - 1) /\ recs[i].index = i - 1
    BY <2>1, HashIsBatches
  <2>3. recs[i] = BatchRecord(i - 1, Batches(recs, i - 1), recs[i].batch)
    BY <2>1 DEF Chained
  <2>4. recs[i].hash = BatchRecord(recs[i].index, recs[i].previous, recs[i].batch).hash
    BY <2>2, <2>3
  <2>5. i = 1 => Batches(recs, i - 1) = <<>>
    BY DEF Batches
  <2>6. i # 1 => recs[i - 1].hash = Batches(recs, i - 1)
    <3>1. i # 1 => i - 1 \in 1 .. Len(recs)
      BY <2>1
    <3> QED BY <3>1, HashIsBatches
  <2> QED BY <2>2, <2>4, <2>5, <2>6
<1> QED BY <1>1 DEF ChainIntact

\* What matches the checkpoint cp of record k, of the records rewritten or cut off.
BoundedBy(recs, cp, k) ==
    /\ \A i \in DOMAIN recs : /\ MatchesCheckpoint(Rewritten(recs, i), cp) => i > k
                              /\ MatchesCheckpoint(SubSeq(recs, 1, i), cp) => i >= k
    /\ MatchesCheckpoint(recs, cp)

\* A checkpoint bounds what a rewrite can hide.
LEMMA CheckpointBounds ==
  ASSUME NEW D, <<"altered">> \notin D, NEW recs, BatchesIn(recs, D), NEW k \in 1 .. Len(recs),
         NEW cp, cp.index = recs[k].index, cp.hash = recs[k].hash
  PROVE  BoundedBy(recs, cp, k)
<1> DEFINE n == Len(recs)
<1>1. Chained(recs) /\ n \in Nat /\ DOMAIN recs = 1 .. n /\ recs = [j \in 1 .. n |-> recs[j]]
  BY DEF BatchesIn, Chained
<1>2. cp.index = k - 1 /\ cp.hash = Batches(recs, k)
  BY <1>1, HashIsBatches
<1>3. \A j \in 1 .. n : recs[j].index = j - 1
  BY <1>1, HashIsBatches
<1>4. MatchesCheckpoint(recs, cp)
  <2>1. ChainIntact(recs)
    BY <1>1, ChainedIsIntact
  <2>2. \A j \in 1 .. k - 1 : recs[j].index # cp.index
    BY <1>1, <1>2, <1>3
  <2> QED BY <1>1, <2>1, <2>2 DEF MatchesCheckpoint
<1>5. ASSUME NEW i \in 1 .. n, MatchesCheckpoint(Rewritten(recs, i), cp) PROVE i > k
  <2> DEFINE new == Rewritten(recs, i)
  <2>1. Chained(new) /\ Len(new) = n /\ \A j \in 1 .. n : new[j].batch = NewBatch(recs, i, j)
    BY <1>1, RewrittenIsChained DEF RewrittenAs
  <2>2. MatchesCheckpoint(new, cp)
    BY <1>5
  <2> HIDE DEF new
  <2>3. DOMAIN new = 1 .. n /\ new # <<>>
    <3>1. DOMAIN new = 1 .. n
      BY <2>1 DEF Chained
    <3> QED BY <1>1, <2>1, <3>1
  <2>4. PICK j \in 1 .. n : new[j].index = cp.index /\ new[j].hash = cp.hash
    BY <2>2, <2>3 DEF MatchesCheckpoint
  <2>5. new[j].index = j - 1 /\ new[j].hash = Batches(new, j)
    BY <2>1, HashIsBatches
  <2>6. j = k
    BY <1>1, <1>2, <2>4, <2>5
  <2>7. Batches(new, k) = Batches(recs, k)
    BY <1>2, <2>4, <2>5, <2>6
  <2>8. SUFFICES ASSUME i <= k PROVE FALSE
    BY <1>1
  <2>9. i \in 1 .. k
    BY <1>1, <2>8
  <2>10. Committed(new, i) = Committed(recs, i)
    <3>1. Batches(new, k)[i] = Committed(new, i) /\ Batches(recs, k)[i] = Committed(recs, i)
      BY <2>9 DEF Batches
    <3> QED BY <2>7, <3>1
  <2>11. new[i].batch = recs[i].batch
    BY <2>10 DEF Committed
  <2>12. new[i].batch = <<(<<"altered">>)>>
    BY <2>1 DEF NewBatch
  <2>13. recs[i].batch \in Seq(D)
    BY DEF BatchesIn
  <2>14. <<(<<"altered">>)>> \notin Seq(D)
    <3> DEFINE a == <<"altered">>
    <3> HIDE DEF a
    <3>1. <<a>> \in Seq(D) => a \in D
      <4>1. Len(<<a>>) = 1 /\ <<a>>[1] = a
        OBVIOUS
      <4>2. ASSUME NEW s \in Seq(D), Len(s) = 1 PROVE s[1] \in D
        <5>1. 1 \in DOMAIN s
          BY <4>2
        <5> QED BY <5>1
      <4> QED BY <4>1, <4>2
    <3> QED BY <3>1 DEF a
  <2> QED BY <2>11, <2>12, <2>13, <2>14
<1>6. ASSUME NEW i \in 1 .. n, MatchesCheckpoint(SubSeq(recs, 1, i), cp) PROVE i >= k
  <2> DEFINE new == SubSeq(recs, 1, i)
             S == {recs[j] : j \in 1 .. n}
  <2>1. recs \in Seq(S)
    <3>1. recs \in [1 .. n -> S]
      BY <1>1
    <3> HIDE DEF S, n
    <3> QED BY <1>1, <3>1
  <2> HIDE DEF S
  <2>2. Len(new) = i /\ DOMAIN new = 1 .. i /\ \A j \in 1 .. i : new[j] = recs[j]
    BY <1>1, <2>1
  <2>3. MatchesCheckpoint(new, cp)
    BY <1>6
  <2> HIDE DEF new
  <2>4. new # <<>>
    BY <2>2
  <2>5. PICK j \in 1 .. i : new[j].index = cp.index
    BY <2>2, <2>3, <2>4 DEF MatchesCheckpoint
  <2>6. j \in 1 .. n /\ recs[j].index = cp.index
    BY <1>1, <2>2, <2>5
  <2>7. j = k
    BY <1>1, <1>2, <1>3, <2>6
  <2> QED BY <1>1, <2>7
<1> QED BY <1>1, <1>4, <1>5, <1>6 DEF BoundedBy

\* The identifiers of entries are not the altered one.
LEMMA SpentIsNotAltered ==
  ASSUME NEW v, NEW id, Spent(v, id)
  PROVE  id # <<"altered">>
<1>1. \A r, n : /\ <<"altered">> # <<"reserve", r>> /\ <<"altered">> # <<"expiry", r>>
                /\ <<"altered">> # <<"expiry-unresolved", r>> /\ <<"altered">> # <<"event", r>>
                /\ <<"altered">> # <<"window-rollover", r, n>>
  OBVIOUS
<1> QED BY <1>1 DEF Spent

\* The invariant gives the properties of the trail.
LEMMA TrailShows ==
  ASSUME AuditInv
  PROVE  TrailIsEvident
<1> DEFINE n == Len(entries)
<1>1. /\ TrailOK(entries, reservation) /\ DOMAIN reservation = AuditRequests
      /\ \A i \in 1 .. n : Spent(View, entries[i].content.id)
  BY ViewIs DEF AuditInv, ViewOK
<1>2. Linked(entries) /\ Shaped(entries) /\ n \in Nat /\ DOMAIN entries = 1 .. n
  BY <1>1 DEF TrailOK, Linked
<1>3. AuditIsContinuous
  <2>1. VerifyAllTenantAudits
    BY <1>1, TrailVerifies DEF VerifyAllTenantAudits
  <2> QED BY <1>1, <1>2, <2>1 DEF AuditIsContinuous, TrailOK
<1>4. AlteredEntryIsDetected
  BY <1>2, AlteredIsDetected, RemovedIsDetected DEF AlteredEntryIsDetected
<1>5. CheckpointBoundsRewriting
  <2> DEFINE ids == [i \in DOMAIN entries |-> entries[i].content.id]
             D == {entries[i].content.id : i \in 1 .. n}
             recs == Sealed(ids)
  <2>1. ids \in Seq(D)
    <3>1. ids \in [1 .. n -> D]
      BY <1>2
    <3> HIDE DEF ids, D, n
    <3> QED BY <1>2, <3>1
  <2>2. <<"altered">> \notin D
    BY <1>1, SpentIsNotAltered
  <2> HIDE DEF D
  <2>3. BatchesIn(recs, D)
    <3> HIDE DEF ids
    <3> QED BY <2>1, SealedIsChained
  <2>4. CheckpointBoundsRewriting <=>
          \A k \in DOMAIN recs : BoundedBy(recs, [index |-> recs[k].index, hash |-> recs[k].hash], k)
    BY DEF CheckpointBoundsRewriting, BoundedBy
  <2> HIDE DEF recs
  <2>5. DOMAIN recs = 1 .. Len(recs)
    BY <2>3 DEF BatchesIn, Chained
  <2>6. ASSUME NEW k \in DOMAIN recs
        PROVE  BoundedBy(recs, [index |-> recs[k].index, hash |-> recs[k].hash], k)
    <3> DEFINE cp == [index |-> recs[k].index, hash |-> recs[k].hash]
    <3>1. cp.index = recs[k].index /\ cp.hash = recs[k].hash /\ k \in 1 .. Len(recs)
      BY <2>5
    <3> HIDE DEF cp
    <3>2. BoundedBy(recs, cp, k)
      BY <2>2, <2>3, <3>1, CheckpointBounds
    <3> QED BY <3>2 DEF cp
  <2> QED BY <2>4, <2>6
<1> QED BY <1>3, <1>4, <1>5 DEF TrailIsEvident

\* The audit trail of a tenant is continuous, and an alteration of it that is not
\* of the last entry or past a checkpoint is detected.
THEOREM TrailAlwaysEvident == AuditSpec => []TrailIsEvident
<1>1. AuditInv => TrailIsEvident
  BY TrailShows
<1> QED BY <1>1, AuditInvariant, PTL

-----------------------------------------------------------------------------
(* The inductive invariant: the trace *)

\* What the run was given and never changes.
Given ==
    /\ setting.method \in Methods /\ setting.evidence.upper \in Nat
    /\ ops \in Seq(Opportunity) /\ ParseStream(ops)
    /\ \A i \in DOMAIN ops : fixture[i].in \in Nat /\ fixture[i].out \in Nat

\* A list of rows.
Listed(R) == Len(R) \in Nat /\ R = [n \in 1 .. Len(R) |-> R[n]]

\* rec[n] is the recount of the first n rows of R.
Tracks(rec, R) ==
    rec = [n \in 0 .. Len(R) |-> IF n = 0 THEN Recount ELSE VerifyRow(rec[n - 1], R[n])]

\* The requests of the rows that do not agree with the recount up to them.
Disputed(rec, R) == {R[n].req : n \in {m \in 1 .. Len(R) : ~RowAgrees(rec[m - 1], R[m])}}

\* The rows R recount to v, and those of the requests in bad do not agree.
Counts(R, v, bad) == \E rec : Tracks(rec, R) /\ v = rec[Len(R)] /\ bad = Disputed(rec, R)

Served == {ops[i].tenant : i \in DOMAIN ops}

\* The requests already decided, and those whose snapshots are recorded.
Decided == {i \in DOMAIN ops : i < cursor \/ (i = cursor /\ phase # "flush")}
Shot == {i \in DOMAIN ops : i < cursor \/ phase = "final"}

EndStage(i) == IF ops[i].conflict THEN 6 ELSE IF ops[i].duplicate THEN 5 ELSE 4

costs == [i \in DOMAIN ops |-> Cost(i)]
holds == [i \in DOMAIN ops |-> Reserved(i)]

OfTenant(S, t) == {i \in S : ops[i].tenant = t}

\* The ledger of a tenant, from the requests dispatched and those pending.
BookOf(t, dispatched, waiting) ==
    [settled |-> SumOver(costs, OfTenant(dispatched \ waiting, t)),
     held |-> IF Reserving(setting.method) THEN SumOver(holds, OfTenant(waiting, t)) ELSE 0,
     active |-> IF Reserving(setting.method) THEN Cardinality(OfTenant(waiting, t)) ELSE 0]

\* Where a request stands.
StageOf(i, decided, dispatched, waiting) ==
    IF i \notin decided THEN 0 ELSE IF i \in waiting THEN 3
    ELSE IF i \in dispatched THEN EndStage(i) ELSE 1

DisputedOf(S) == {i \in S : ExceedsByQuantity(i) # ExceedsByCost(i)}

\* The peak a tenant's rows show so far lies between what has settled and what
\* was dispatched.
PeakBetween(p, dispatched, waiting) ==
    /\ p \in [Served -> Nat]
    /\ \A t \in Served : /\ SumOver(costs, OfTenant(dispatched \ waiting, t)) <= p[t]
                         /\ p[t] <= SumOver(costs, OfTenant(dispatched, t))

\* The recount of the rows so far is the state of the runner.
Recounts(v, bad) ==
    /\ v = [last |-> v.last,
            stage |-> [i \in DOMAIN ops |-> StageOf(i, Decided, Dispatched, pending)],
            book |-> ledger, active |-> pending,
            shots |-> {ops[j].seq : j \in Shot} \X Served,
            peak |-> v.peak]
    /\ v.last \in Nat
    /\ PeakBetween(v.peak, Dispatched, pending)
    /\ \A i \in pending : v.last <= Due(i)
    /\ phase # "final" => v.last <= ops[cursor].seq
    /\ bad = DisputedOf(Dispatched \ pending)

Running == phase \in {"flush", "settle", "snapshot", "final"}

\* What the runner knows while it runs.
RunnerState ==
    /\ cursor \in Nat \ {0} /\ (phase # "final" => cursor \in DOMAIN ops)
    /\ (phase = "final" => \A i \in DOMAIN ops : i <= cursor)
    /\ pending \subseteq Dispatched /\ Dispatched \subseteq Decided
    /\ paidFor \in [DOMAIN ops -> Int]
    /\ \A i \in DOMAIN ops : i \in pending \/ i \notin Decided => paidFor[i] = Unpaid
    /\ ledger = [t \in Served |-> BookOf(t, Dispatched, pending)]
    /\ \A i \in pending, j \in Shot : ops[j].seq < Due(i)
    /\ \A i \in Dispatched : OutcomeInBounds(ops[i], fixture[i])

TraceInv ==
    /\ Given
    /\ Listed(rows) /\ Listed(access)
    /\ VerifyFeedbackAccessLog
    /\ Running => RunnerState /\ \E v, bad : Counts(rows, v, bad) /\ Recounts(v, bad)
    /\ phase \in {"flush", "settle", "snapshot", "final", "aborted", "accepted", "rejected"}
    /\ RunnerAndVerifierAgree
    /\ PeakLatentIsSpend

-----------------------------------------------------------------------------
(* The trace: amounts, steps and rows *)

\* What was given stays given.
LEMMA GivenSteady == ASSUME Given, UNCHANGED <<setting, ops, fixture>> PROVE Given'
BY DEF Given, ParseStream

\* A rounded-up price is an amount.
LEMMA TraceCeiling == \A p, q \in Nat : ceilingProduct(p, q) \in Nat
<1> TAKE p, q \in Nat
<1>1. PriceUnit \in Nat \ {0}
  BY PriceAssumption
<1> DEFINE m == p * q
<1>2. m \in Nat
  OBVIOUS
<1>3. ceilingProduct(p, q) = (m + PriceUnit - 1) \div PriceUnit
  BY DEF ceilingProduct
<1> HIDE DEF m
<1> QED BY <1>1, <1>2, <1>3

\* A method reserves a number of tokens.
LEMMA TraceTokens ==
  ASSUME Given, NEW i \in DOMAIN ops, Reserving(setting.method)
  PROVE  ReservedTokens(setting.method, setting.evidence, ops[i]) \in Nat
<1> DEFINE m == setting.method
           e == setting.evidence
<1>1. ops[i].max \in Nat
  <2>1. ops[i] \in Opportunity
    BY DEF Given
  <2> QED BY <2>1 DEF Opportunity
<1>2. Estimate \in Nat /\ Margin \in Nat /\ e.upper \in Nat
  BY TraceAssumption DEF Given
<1>3. m \in {"strict_max", "mean", "mean_margin", "fixed_quantile", "fixed_estimate", "gov_ar"}
  BY DEF Given, Reserving, Methods, budgetAdmissionMethods
<1>4. /\ budgetAdmissionMethods["strict_max"] = "strict_provider_cap"
      /\ budgetAdmissionMethods["mean"] = "mean"
      /\ budgetAdmissionMethods["mean_margin"] = "fixed_margin"
      /\ budgetAdmissionMethods["fixed_quantile"] = "fixed_quantile"
      /\ budgetAdmissionMethods["fixed_estimate"] = "mean"
      /\ budgetAdmissionMethods["gov_ar"] = "govar_fixed_cohort"
  BY DEF budgetAdmissionMethods
<1> HIDE DEF m, e
<1>5. ReservedTokens(m, e, ops[i]) \in Nat
  <2>1. CASE m = "strict_max"
    BY <1>1, <1>4, <2>1 DEF ReservedTokens
  <2>2. CASE m \in {"mean", "fixed_quantile", "fixed_estimate"}
    BY <1>1, <1>2, <1>4, <2>2 DEF ReservedTokens, Lesser
  <2>3. CASE m = "mean_margin"
    BY <1>1, <1>2, <1>4, <2>3 DEF ReservedTokens, Lesser
  <2>4. CASE m = "gov_ar"
    BY <1>1, <1>2, <1>4, <2>4 DEF ReservedTokens, Lesser
  <2> QED BY <1>3, <2>1, <2>2, <2>3, <2>4
<1> QED BY <1>5 DEF m, e

\* What a request reserves and costs, and when it is due.
LEMMA RequestFacts ==
  ASSUME Given, NEW i \in DOMAIN ops
  PROVE  /\ ops[i].seq \in Nat /\ ops[i].delay \in Nat /\ Due(i) \in Nat /\ ops[i].seq <= Due(i)
         /\ ops[i].tenant \in Served /\ ops[i].tenant \in ToSet(Tenants)
         /\ Cost(i) \in Nat /\ Reserved(i) \in Nat
         /\ ~Reserving(setting.method) => Reserved(i) = 0
         /\ i \in Nat \ {0}
         /\ ops[i].duplicate \in BOOLEAN /\ ops[i].conflict \in BOOLEAN
<1>1. ops[i] \in Opportunity /\ i \in Nat \ {0}
  BY DEF Given
<1>2. ops[i].seq \in Nat /\ ops[i].delay \in Nat /\ ops[i].input \in Nat /\ ops[i].tenant \in ToSet(Tenants)
      /\ ops[i].duplicate \in BOOLEAN /\ ops[i].conflict \in BOOLEAN
  BY <1>1 DEF Opportunity
<1>3. Due(i) \in Nat /\ ops[i].seq <= Due(i)
  BY <1>2 DEF Due
<1>4. fixture[i].in \in Nat /\ fixture[i].out \in Nat
  BY DEF Given
<1>5. InputPrice \in Nat /\ OutputPrice \in Nat
  BY PriceAssumption
<1>6. Cost(i) \in Nat
  <2>1. ceilingProduct(InputPrice, fixture[i].in) \in Nat /\ ceilingProduct(OutputPrice, fixture[i].out) \in Nat
    BY <1>4, <1>5, TraceCeiling
  <2> QED BY <2>1 DEF Cost, ActualCost
<1>7. Reserved(i) \in Nat /\ (~Reserving(setting.method) => Reserved(i) = 0)
  <2>1. CASE ~Reserving(setting.method)
    BY <2>1 DEF Reserved, expectedReservation
  <2>2. CASE Reserving(setting.method)
    <3>1. ReservedTokens(setting.method, setting.evidence, ops[i]) \in Nat
      BY <2>2, TraceTokens
    <3>2. ceilingProduct(InputPrice, ops[i].input) \in Nat
          /\ ceilingProduct(OutputPrice, ReservedTokens(setting.method, setting.evidence, ops[i])) \in Nat
      BY <1>2, <1>5, <3>1, TraceCeiling
    <3> QED BY <2>2, <3>2 DEF Reserved, expectedReservation
  <2> QED BY <2>1, <2>2
<1>8. ops[i].tenant \in Served
  BY DEF Served
<1> QED BY <1>1, <1>2, <1>3, <1>6, <1>7, <1>8

\* The opportunities are finitely many and their steps grow.
LEMMA StepsGrow ==
  ASSUME Given
  PROVE  /\ Len(ops) \in Nat /\ DOMAIN ops = 1 .. Len(ops) /\ IsFiniteSet(DOMAIN ops)
         /\ \A i, j \in DOMAIN ops : i < j => ops[i].seq < ops[j].seq
<1>1. Len(ops) \in Nat /\ DOMAIN ops = 1 .. Len(ops)
  BY DEF Given
<1>2. IsFiniteSet(DOMAIN ops)
  BY <1>1, FS_Interval
<1>3. \A i \in DOMAIN ops : ops[i].seq \in Nat
  BY RequestFacts
<1>4. \A i \in DOMAIN ops : i > 1 => ops[i - 1].seq < ops[i].seq
  BY DEF Given, ParseStream
<1> DEFINE G == {n \in Nat : \A i, j \in DOMAIN ops : i < j /\ j <= n => ops[i].seq < ops[j].seq}
<1>5. 0 \in G
  BY <1>1
<1>6. ASSUME NEW k \in 1 .. Len(ops), k - 1 \in G PROVE k \in G
  <2>1. k \in Nat /\ k \in DOMAIN ops
    BY <1>1
  <2>2. ASSUME NEW i \in DOMAIN ops, NEW j \in DOMAIN ops, i < j, j <= k PROVE ops[i].seq < ops[j].seq
    <3>1. CASE j <= k - 1
      BY <1>6, <2>2, <3>1
    <3>2. CASE j = k /\ i = k - 1
      BY <1>1, <1>4, <3>2
    <3>3. CASE j = k /\ i < k - 1
      <4>1. k - 1 \in DOMAIN ops /\ i \in Nat /\ k > 1
        BY <1>1, <2>1, <3>3
      <4>2. ops[i].seq < ops[k - 1].seq
        BY <1>6, <3>3, <4>1
      <4>3. ops[k - 1].seq < ops[k].seq
        BY <1>4, <2>1, <4>1
      <4> QED BY <1>3, <2>1, <3>3, <4>1, <4>2, <4>3
    <3> QED BY <1>1, <2>1, <2>2, <3>1, <3>2, <3>3
  <2> QED BY <2>1, <2>2
<1> HIDE DEF G
<1>7. 0 .. Len(ops) \subseteq G
  BY <1>1, <1>5, <1>6, UpTo
<1>8. Len(ops) \in G
  BY <1>1, <1>7
<1> QED BY <1>1, <1>2, <1>8 DEF G

\* A list of rows with one more.
LEMMA OneMoreRow ==
  ASSUME NEW R, Listed(R), NEW x
  PROVE  /\ Listed(Append(R, x)) /\ Len(Append(R, x)) = Len(R) + 1
         /\ DOMAIN R = 1 .. Len(R) /\ DOMAIN Append(R, x) = 1 .. Len(R) + 1
         /\ \A n \in 1 .. Len(R) : Append(R, x)[n] = R[n]
         /\ Append(R, x)[Len(R) + 1] = x
<1> DEFINE n == Len(R)
           new == Append(R, x)
<1>1. n \in Nat /\ R = [i \in 1 .. n |-> R[i]]
  BY DEF Listed
<1>2. /\ new = [i \in 1 .. n + 1 |-> IF i = n + 1 THEN x ELSE R[i]]
      /\ Len(new) = n + 1 /\ DOMAIN new = 1 .. n + 1
  <2> HIDE DEF n
  <2> QED BY <1>1, AppendedList
<1>3. DOMAIN R = 1 .. n
  <2> HIDE DEF n
  <2> QED BY <1>1
<1> HIDE DEF n, new
<1>4. new = [i \in 1 .. Len(new) |-> new[i]]
  BY <1>1, <1>2
<1>5. \A i \in 1 .. n : new[i] = R[i]
  BY <1>1, <1>2
<1>6. new[n + 1] = x
  BY <1>1, <1>2
<1> QED BY <1>1, <1>2, <1>3, <1>4, <1>5, <1>6 DEF n, new, Listed

\* Recounting one more row.
LEMMA CountRow ==
  ASSUME NEW R, Listed(R), NEW v, NEW bad, Counts(R, v, bad), NEW row
  PROVE  Counts(Append(R, row), VerifyRow(v, row),
                bad \cup (IF RowAgrees(v, row) THEN {} ELSE {row.req}))
<1> DEFINE n == Len(R)
           new == Append(R, row)
<1>1. PICK rec : Tracks(rec, R) /\ v = rec[Len(R)] /\ bad = Disputed(rec, R)
  BY DEF Counts
<1>2. /\ n \in Nat /\ Len(new) = n + 1 /\ new[n + 1] = row /\ \A k \in 1 .. n : new[k] = R[k]
  BY OneMoreRow DEF Listed
<1> HIDE DEF n, new
<1> DEFINE more == [k \in 0 .. n + 1 |-> IF k = n + 1 THEN VerifyRow(v, row) ELSE rec[k]]
<1>3. /\ \A k \in 0 .. n : more[k] = rec[k]
      /\ more[n + 1] = VerifyRow(v, row)
      /\ \A k \in 1 .. n : k - 1 \in 0 .. n
  BY <1>2
<1>4. \A k \in 0 .. n : rec[k] = IF k = 0 THEN Recount ELSE VerifyRow(rec[k - 1], R[k])
  BY <1>1 DEF Tracks, n
<1>5. \A k \in 0 .. n + 1 : more[k] = IF k = 0 THEN Recount ELSE VerifyRow(more[k - 1], new[k])
  <2> TAKE k \in 0 .. n + 1
  <2>1. CASE k = 0
    BY <1>2, <1>3, <1>4, <2>1
  <2>2. CASE k \in 1 .. n
    BY <1>2, <1>3, <1>4, <2>2
  <2>3. CASE k = n + 1
    <3>1. n \in 0 .. n /\ k - 1 = n /\ k # 0
      BY <1>2, <2>3
    <3>2. more[k - 1] = v /\ new[k] = row
      BY <1>1, <1>2, <1>3, <2>3, <3>1 DEF n
    <3> QED BY <1>3, <2>3, <3>1, <3>2
  <2> QED BY <1>2, <2>1, <2>2, <2>3
<1>6. Tracks(more, new)
  <2>1. more = [k \in 0 .. n + 1 |-> more[k]]
    BY <1>2
  <2>2. more = [k \in 0 .. n + 1 |-> IF k = 0 THEN Recount ELSE VerifyRow(more[k - 1], new[k])]
    <3> HIDE DEF more
    <3> QED BY <1>5, <2>1
  <2> HIDE DEF more
  <2> QED BY <1>2, <2>2 DEF Tracks
<1>7. Disputed(more, new) = bad \cup (IF RowAgrees(v, row) THEN {} ELSE {row.req})
  <2>1. \A k \in 1 .. n : RowAgrees(more[k - 1], new[k]) = RowAgrees(rec[k - 1], R[k])
    BY <1>2, <1>3
  <2>2. n \in 0 .. n /\ (n + 1) - 1 = n /\ rec[n] = v /\ more[n] = v
    BY <1>1, <1>2, <1>3 DEF n
  <2>3. RowAgrees(more[(n + 1) - 1], new[n + 1]) = RowAgrees(v, row)
    BY <1>2, <2>2
  <2>4. bad = {R[k].req : k \in {m \in 1 .. n : ~RowAgrees(rec[m - 1], R[m])}}
    BY <1>1 DEF Disputed, n
  <2>5. Disputed(more, new) = {new[k].req : k \in {m \in 1 .. n + 1 : ~RowAgrees(more[m - 1], new[m])}}
    BY <1>2 DEF Disputed
  <2>6. 1 .. n + 1 = (1 .. n) \cup {n + 1}
    BY <1>2
  <2> HIDE DEF more
  <2> DEFINE old == {m \in 1 .. n : ~RowAgrees(rec[m - 1], R[m])}
             all == {m \in 1 .. n + 1 : ~RowAgrees(more[m - 1], new[m])}
  <2>7. all = old \cup (IF RowAgrees(v, row) THEN {} ELSE {n + 1})
    BY <1>2, <2>1, <2>3, <2>6
  <2>8. \A k \in old : new[k].req = R[k].req
    BY <1>2
  <2>9. bad = {R[k].req : k \in old} /\ Disputed(more, new) = {new[k].req : k \in all}
    BY <2>4, <2>5
  <2> HIDE DEF old, all
  <2>10. bad = {new[k].req : k \in old}
    BY <2>8, <2>9
  <2> QED BY <1>2, <2>7, <2>9, <2>10
<1>8. more[Len(new)] = VerifyRow(v, row)
  BY <1>2, <1>3
<1> HIDE DEF more
<1> QED BY <1>6, <1>7, <1>8 DEF Counts, new

\* A recount is a matter of what was given and of the rows.
LEMMA CountsSteady ==
  ASSUME UNCHANGED <<setting, ops, fixture>>
  PROVE  /\ \A R, v, bad : Counts(R, v, bad)' <=> Counts(R, v, bad)
         /\ \A v, row : RowAgrees(v, row)' <=> RowAgrees(v, row)
         /\ \A v, row : VerifyRow(v, row)' = VerifyRow(v, row)
         /\ \A i : Reserved(i)' = Reserved(i) /\ Cost(i)' = Cost(i) /\ Due(i)' = Due(i)
         /\ \A v : Complete(v)' = Complete(v)
         /\ Served' = Served /\ costs' = costs /\ holds' = holds
         /\ \A t, d, w : BookOf(t, d, w)' = BookOf(t, d, w)
         /\ \A i, c, d, w : StageOf(i, c, d, w)' = StageOf(i, c, d, w)
         /\ \A S : DisputedOf(S)' = DisputedOf(S)
         /\ \A p, d, w : PeakBetween(p, d, w)' <=> PeakBetween(p, d, w)
<1>1. \A i : Reserved(i)' = Reserved(i) /\ Cost(i)' = Cost(i) /\ Due(i)' = Due(i)
  BY DEF Reserved, Cost, Due
<1>2. /\ \A i : ExceedsByCost(i)' = ExceedsByCost(i) /\ ExceedsByQuantity(i)' = ExceedsByQuantity(i)
      /\ \A row : expectedEventStep(row)' = expectedEventStep(row)
  BY <1>1 DEF ExceedsByCost, ExceedsByQuantity, expectedEventStep
<1>3. Served' = Served /\ costs' = costs /\ holds' = holds /\ Recount' = Recount
  BY <1>1 DEF Served, costs, holds, Recount, NewTenantContexts
<1>4. \A v, row : BookAfter(v, row)' = BookAfter(v, row)
  BY <1>1 DEF BookAfter
<1>5. \A v, row : SnapshotRecounts(v, row)' <=> SnapshotRecounts(v, row)
  BY <1>1, ZenonT(60) DEF SnapshotRecounts
<1>6. \A v, row : LifecycleAgrees(v, row)' <=> LifecycleAgrees(v, row)
  BY <1>1, <1>2, <1>4 DEF LifecycleAgrees
<1>7. \A v, row : RowAgrees(v, row)' <=> RowAgrees(v, row)
  BY <1>5, <1>6 DEF RowAgrees
<1>8. \A v, row : VerifyLifecycleRow(v, row)' = VerifyLifecycleRow(v, row)
  BY <1>1, <1>4 DEF VerifyLifecycleRow
<1>9. \A v, row : VerifyRow(v, row)' = VerifyRow(v, row)
  <2> TAKE v, row
  <2>1. Latent(row)' = Latent(row)
    BY DEF Latent
  <2>2. VerifyLifecycleRow(v, row)' = VerifyLifecycleRow(v, row)
    BY <1>8
  <2> QED BY <2>1, <2>2, Zenon DEF VerifyRow
<1>10. \A rec, R : Tracks(rec, R)' <=> Tracks(rec, R)
  BY <1>3, <1>9 DEF Tracks
<1>11. \A rec, R : Disputed(rec, R)' = Disputed(rec, R)
  BY <1>7 DEF Disputed
<1>12. \A R, v, bad : Counts(R, v, bad)' <=> Counts(R, v, bad)
  BY <1>10, <1>11 DEF Counts
<1>13. \A v : Complete(v)' = Complete(v)
  BY DEF Complete
<1>14. \A S, t : OfTenant(S, t)' = OfTenant(S, t)
  BY DEF OfTenant
<1>15. \A t, d, w : BookOf(t, d, w)' = BookOf(t, d, w)
  BY <1>3, <1>14 DEF BookOf
<1>16. \A i, c, d, w : StageOf(i, c, d, w)' = StageOf(i, c, d, w)
  BY DEF StageOf, EndStage
<1>17. \A S : DisputedOf(S)' = DisputedOf(S)
  BY <1>2 DEF DisputedOf
<1>18. \A p, d, w : PeakBetween(p, d, w)' <=> PeakBetween(p, d, w)
  BY <1>3, <1>14 DEF PeakBetween
<1> QED BY <1>1, <1>3, <1>7, <1>9, <1>12, <1>13, <1>15, <1>16, <1>17, <1>18

-----------------------------------------------------------------------------
(* The trace: what a row does to a recount *)

\* A recount, by its fields.
Sheet(l, st, b, a, s, p) ==
    [last |-> l, stage |-> st, book |-> b, active |-> a, shots |-> s, peak |-> p]

Higher(p, t, amount) == [p EXCEPT ![t] = IF amount > @ THEN amount ELSE @]

\* The three tables of a recount.
Tables(st, b, p) ==
    st = [i \in DOMAIN ops |-> st[i]] /\ b = [t \in Served |-> b[t]] /\ p = [t \in Served |-> p[t]]

\* A recount with some of its fields replaced.
Restaged(r, st, b, a) == [r EXCEPT !.stage = st, !.book = b, !.active = a]
Raised(r, k, t, x) == [r EXCEPT !.last = k, !.peak[t] = IF x > @ THEN x ELSE @]

\* The recount of a row of a request.
LifecycleSheet(v, row, st, b, a, s, p) ==
    Sheet(row.step, [st EXCEPT ![row.req] = StageAfter[row.event]],
          [b EXCEPT ![row.tenant] = BookAfter(v, row)],
          IF row.event = "admission"
             /\ Admits(setting.method, Reserved(row.req), ops[row.req], b[row.tenant])
          THEN a \cup {row.req}
          ELSE IF row.event = "settlement_final" THEN a \ {row.req} ELSE a,
          s, Higher(p, row.tenant, Latent(row)))

\* Changing fields of a recount, one at a time.
LEMMA SheetChange ==
  ASSUME NEW l, NEW st, NEW b, NEW a, NEW s, NEW p, NEW k, NEW st1, NEW b1, NEW a1, NEW t, NEW x
  PROVE  /\ Restaged(Sheet(l, st, b, a, s, p), st1, b1, a1) = Sheet(l, st1, b1, a1, s, p)
         /\ Raised(Sheet(l, st, b, a, s, p), k, t, x) = Sheet(k, st, b, a, s, Higher(p, t, x))
<1>1. /\ [Sheet(l, st, b, a, s, p) EXCEPT !.stage = st1] = Sheet(l, st1, b, a, s, p)
      /\ [Sheet(l, st1, b, a, s, p) EXCEPT !.book = b1] = Sheet(l, st1, b1, a, s, p)
      /\ [Sheet(l, st1, b1, a, s, p) EXCEPT !.active = a1] = Sheet(l, st1, b1, a1, s, p)
  BY DEF Sheet
<1> DEFINE r == Sheet(l, st, b, a, s, p)
           q == Higher(p, t, x)
<1>3. [r EXCEPT !.stage = st1, !.book = b1, !.active = a1]
        = [[[r EXCEPT !.stage = st1] EXCEPT !.book = b1] EXCEPT !.active = a1]
  BY Zenon
<1>4. [r EXCEPT !.stage = st1, !.book = b1, !.active = a1] = Sheet(l, st1, b1, a1, s, p)
  BY <1>1, <1>3, Zenon
<1>5. r.peak = p
  BY DEF Sheet
<1>6. [r EXCEPT !.last = k, !.peak[t] = IF x > @ THEN x ELSE @] = [[r EXCEPT !.last = k] EXCEPT !.peak = q]
  <2> HIDE DEF r
  <2>1. [r EXCEPT !.last = k, !.peak[t] = IF x > @ THEN x ELSE @] =
        [[r EXCEPT !.last = k] EXCEPT !.peak[t] = IF x > @ THEN x ELSE @]
    BY Zenon
  <2>2. [r EXCEPT !.last = k].peak = p
    BY <1>5 DEF r, Sheet
  <2> DEFINE w == [r EXCEPT !.last = k]
  <2>3. [w EXCEPT !.peak[t] = IF x > @ THEN x ELSE @] = [w EXCEPT !.peak = [w.peak EXCEPT ![t] = IF x > @ THEN x ELSE @]]
    <3> HIDE DEF w
    <3> QED BY Zenon
  <2> HIDE DEF w
  <2>4. [w EXCEPT !.peak[t] = IF x > @ THEN x ELSE @] = [w EXCEPT !.peak = q]
    BY <2>2, <2>3, Zenon DEF Higher, w
  <2> QED BY <2>1, <2>4, Zenon DEF w
<1> HIDE DEF q
<1>7. /\ [Sheet(l, st, b, a, s, p) EXCEPT !.last = k] = Sheet(k, st, b, a, s, p)
      /\ [Sheet(k, st, b, a, s, p) EXCEPT !.peak = q] = Sheet(k, st, b, a, s, q)
  BY DEF Sheet
<1>8. [r EXCEPT !.last = k, !.peak[t] = IF x > @ THEN x ELSE @] = Sheet(k, st, b, a, s, q)
  BY <1>6, <1>7, Zenon
<1> QED BY <1>4, <1>8, Zenon DEF q, Restaged, Raised

\* A row of a request.
LEMMA LifecycleEffect ==
  ASSUME NEW l, NEW st, NEW b, NEW a, NEW s, NEW p, NEW row, row.event # "snapshot",
         NEW v, v = Sheet(l, st, b, a, s, p)
  PROVE  VerifyRow(v, row) = LifecycleSheet(v, row, st, b, a, s, p)
<1> DEFINE st1 == [st EXCEPT ![row.req] = StageAfter[row.event]]
           b1 == [b EXCEPT ![row.tenant] = BookAfter(v, row)]
           adm == Admits(setting.method, Reserved(row.req), ops[row.req], b[row.tenant])
           a1 == IF row.event = "admission" /\ adm THEN a \cup {row.req}
                 ELSE IF row.event = "settlement_final" THEN a \ {row.req} ELSE a
           p1 == Higher(p, row.tenant, Latent(row))
<1>1. v.stage = st /\ v.book = b /\ v.active = a
  BY DEF Sheet
<1>2. VerifyLifecycleRow(v, row) = [v EXCEPT !.stage = st1, !.book = b1, !.active = a1]
  BY <1>1, Zenon DEF VerifyLifecycleRow
<1>3. VerifyRow(v, row) = [VerifyLifecycleRow(v, row) EXCEPT !.last = row.step,
                             !.peak[row.tenant] = IF Latent(row) > @ THEN Latent(row) ELSE @]
  <2> HIDE DEF st1, b1, a1, p1, adm
  <2> QED BY DEF VerifyRow
<1> HIDE DEF st1, b1, a1
<1>4. VerifyLifecycleRow(v, row) = Sheet(l, st1, b1, a1, s, p)
  <2>1. Restaged(Sheet(l, st, b, a, s, p), st1, b1, a1) = Sheet(l, st1, b1, a1, s, p)
    BY SheetChange
  <2> QED BY <1>2, <2>1, Zenon DEF Restaged
<1>5. VerifyRow(v, row) = Sheet(row.step, st1, b1, a1, s, p1)
  <2>1. Raised(Sheet(l, st1, b1, a1, s, p), row.step, row.tenant, Latent(row))
          = Sheet(row.step, st1, b1, a1, s, p1)
    BY SheetChange, SMTT(60)
  <2> QED BY <1>3, <1>4, <2>1, Zenon DEF Raised
<1> QED BY <1>5, Zenon DEF st1, b1, a1, p1, adm, LifecycleSheet

\* A snapshot.
SnapshotSheet(row, st, b, a, s, p) ==
    Sheet(row.step, st, b, a, s \cup {<<row.step, row.tenant>>}, Higher(p, row.tenant, Latent(row)))

\* What a snapshot does to a recount.
LEMMA SnapshotEffect ==
  ASSUME NEW l, NEW st, NEW b, NEW a, NEW s, NEW p, NEW row, row.event = "snapshot",
         NEW v, v = Sheet(l, st, b, a, s, p)
  PROVE  VerifyRow(v, row) = SnapshotSheet(row, st, b, a, s, p)
<1> DEFINE s1 == s \cup {<<row.step, row.tenant>>}
<1>1. v = [last |-> l, stage |-> st, book |-> b, active |-> a, shots |-> s, peak |-> p]
  BY DEF Sheet
<1>2. VerifyRow(v, row) = Raised([v EXCEPT !.shots = @ \cup {<<row.step, row.tenant>>}],
                                 row.step, row.tenant, Latent(row))
  BY Zenon DEF VerifyRow, Raised
<1>3. [v EXCEPT !.shots = @ \cup {<<row.step, row.tenant>>}] = Sheet(l, st, b, a, s1, p)
  BY <1>1 DEF Sheet
<1> HIDE DEF s1
<1>4. Raised(Sheet(l, st, b, a, s1, p), row.step, row.tenant, Latent(row))
        = Sheet(row.step, st, b, a, s1, Higher(p, row.tenant, Latent(row)))
  BY SheetChange
<1> QED BY <1>2, <1>3, <1>4 DEF s1, SnapshotSheet

\* A tenant's peak is left alone by an amount it already covers.
LEMMA HigherCovered ==
  ASSUME NEW p \in [Served -> Nat], NEW t \in Served, NEW x \in Nat, x <= p[t]
  PROVE  Higher(p, t, x) = p
BY DEF Higher

\* A raised peak is a peak, the higher of the two for its tenant.
LEMMA HigherFacts ==
  ASSUME NEW p \in [Served -> Nat], NEW t \in Served, NEW x \in Nat
  PROVE  /\ Higher(p, t, x) \in [Served -> Nat]
         /\ \A u \in Served \ {t} : Higher(p, t, x)[u] = p[u]
         /\ p[t] <= Higher(p, t, x)[t] /\ x <= Higher(p, t, x)[t]
         /\ Higher(p, t, x)[t] \in {p[t], x}
BY DEF Higher

\* The stages, and the steps of the events.
LEMMA StageFacts ==
  /\ StageAfter["admission"] = 1 /\ StageAfter["dispatch_claim"] = 2
  /\ StageAfter["dispatch_delivered"] = 3 /\ StageAfter["settlement_final"] = 4
  /\ StageAfter["settlement_duplicate"] = 5 /\ StageAfter["settlement_conflict_rejected"] = 6
  /\ \A op : /\ StageBefore("admission", op) = 0 /\ StageBefore("dispatch_claim", op) = 1
             /\ StageBefore("dispatch_delivered", op) = 2 /\ StageBefore("settlement_final", op) = 3
             /\ StageBefore("settlement_duplicate", op) = 4
             /\ StageBefore("settlement_conflict_rejected", op) = IF op.duplicate THEN 5 ELSE 4
BY DEF StageAfter, StageBefore

\* The row agrees with the recount v and makes it w.
Passes(v, row, w) == RowAgrees(v, row) /\ VerifyRow(v, row) = w

\* A row of a request after its admission that leaves the ledger alone: it
\* agrees when it comes at its stage, and only the stage of the request moves.
LEMMA QuietRow ==
  ASSUME Given, NEW i \in DOMAIN ops, NEW step \in Nat, NEW st, NEW b, NEW a, NEW s, NEW p, NEW book,
         NEW event \in {"dispatch_claim", "dispatch_delivered", "settlement_duplicate",
                        "settlement_conflict_rejected"},
         st[i] = StageBefore(event, ops[i]), i \in a \/ st[i] >= 4,
         step = IF event \in {"dispatch_claim", "dispatch_delivered"} THEN ops[i].seq ELSE Due(i),
         Tables(st, b, p), p \in [Served -> Nat],
         b[ops[i].tenant] = book, book.settled \in Nat, book.settled <= p[ops[i].tenant],
         OutcomeInBounds(ops[i], fixture[i]),
         \A x \in s : x[1] # step,
         event = "settlement_duplicate" => ops[i].duplicate,
         event = "settlement_conflict_rejected" => ops[i].conflict
  PROVE  Passes(Sheet(step, st, b, a, s, p), LifecycleRow(event, i, step, TRUE, event, book),
                Sheet(step, [st EXCEPT ![i] = StageAfter[event]], b, a, s, p))
<1> DEFINE v == Sheet(step, st, b, a, s, p)
           row == LifecycleRow(event, i, step, TRUE, event, book)
           t == ops[i].tenant
<1>1. t \in Served
  BY RequestFacts
<1>2. /\ row.event = event /\ row.req = i /\ row.tenant = t /\ row.step = step /\ row.selected = TRUE
      /\ row.book = book /\ row.reserved = Reserved(i) /\ row.actual = Cost(i)
  BY DEF LifecycleRow
<1>3. v.last = step /\ v.stage = st /\ v.book = b /\ v.active = a /\ v.shots = s
  BY DEF Sheet
<1>4. event # "admission" /\ event # "settlement_final" /\ event # "snapshot"
  OBVIOUS
<1> HIDE DEF row
<1>5. BookAfter(v, row) = book
  <2>1. BookAfter(v, row) = v.book[row.tenant]
    BY <1>2, <1>4 DEF BookAfter
  <2> QED BY <1>2, <1>3, <2>1
<1>6. Latent(row) = book.settled
  BY <1>2, <1>4 DEF Latent
<1>7. VerifyRow(v, row) = Sheet(step, [st EXCEPT ![i] = StageAfter[event]], [b EXCEPT ![t] = book], a, s,
                                Higher(p, t, book.settled))
  <2>1. VerifyRow(v, row) = LifecycleSheet(v, row, st, b, a, s, p)
    <3>1. row.event # "snapshot" /\ v = Sheet(step, st, b, a, s, p)
      BY <1>2, <1>4
    <3> HIDE DEF v
    <3> QED BY <3>1, LifecycleEffect
  <2> QED BY <1>2, <1>4, <1>5, <1>6, <2>1 DEF LifecycleSheet
<1>8. [b EXCEPT ![t] = book] = b
  BY <1>1 DEF Tables
<1>9. Higher(p, t, book.settled) = p
  BY <1>1, HigherCovered
<1>10. expectedEventStep(row) = step
  BY <1>2, <1>4 DEF expectedEventStep
<1>11. LifecycleAgrees(v, row)
  <2>1. \A x \in v.shots : x[1] # row.step
    BY <1>2, <1>3
  <2>2. v.stage[i] = StageBefore(row.event, ops[i])
    BY <1>2, <1>3
  <2>3. row.selected /\ (i \in v.active \/ v.stage[i] >= 4)
    BY <1>2, <1>3
  <2> HIDE DEF v
  <2> QED BY <1>2, <1>4, <1>5, <1>10, <2>1, <2>2, <2>3 DEF LifecycleAgrees
<1>12. RowAgrees(v, row)
  <2> HIDE DEF v
  <2> QED BY <1>2, <1>3, <1>4, <1>11 DEF RowAgrees
<1> QED BY <1>7, <1>8, <1>9, <1>12 DEF row, Passes

-----------------------------------------------------------------------------
(* The trace: ledgers and peaks *)

\* Sums of costs and of reservations are amounts.
LEMMA TenantSums ==
  ASSUME Given, NEW S, S \subseteq DOMAIN ops, NEW t
  PROVE  /\ OfTenant(S, t) \subseteq DOMAIN ops /\ IsFiniteSet(OfTenant(S, t))
         /\ \A i \in OfTenant(S, t) : costs[i] = Cost(i) /\ holds[i] = Reserved(i)
         /\ \A i \in OfTenant(S, t) : costs[i] \in Nat /\ holds[i] \in Nat
         /\ SumOver(costs, OfTenant(S, t)) \in Nat /\ SumOver(holds, OfTenant(S, t)) \in Nat
         /\ Cardinality(OfTenant(S, t)) \in Nat
<1>1. OfTenant(S, t) \subseteq DOMAIN ops
  BY DEF OfTenant
<1>2. IsFiniteSet(OfTenant(S, t))
  BY <1>1, StepsGrow, FS_Subset
<1>3. \A i \in OfTenant(S, t) : costs[i] = Cost(i) /\ holds[i] = Reserved(i)
  BY <1>1 DEF costs, holds
<1>4. \A i \in OfTenant(S, t) : costs[i] \in Nat /\ holds[i] \in Nat
  BY <1>1, <1>3, RequestFacts
<1>5. SumOver(costs, OfTenant(S, t)) \in Nat /\ SumOver(holds, OfTenant(S, t)) \in Nat
  BY <1>2, <1>4, SumNat
<1>6. Cardinality(OfTenant(S, t)) \in Nat
  BY <1>2, FS_CardinalityType
<1> QED BY <1>1, <1>2, <1>3, <1>4, <1>5, <1>6

\* One more request of a tenant.
LEMMA TenantGains ==
  ASSUME Given, NEW S, S \subseteq DOMAIN ops, NEW i \in DOMAIN ops, i \notin S
  PROVE  LET t == ops[i].tenant
         IN  /\ SumOver(costs, OfTenant(S \cup {i}, t)) = SumOver(costs, OfTenant(S, t)) + Cost(i)
             /\ SumOver(holds, OfTenant(S \cup {i}, t)) = SumOver(holds, OfTenant(S, t)) + Reserved(i)
             /\ Cardinality(OfTenant(S \cup {i}, t)) = Cardinality(OfTenant(S, t)) + 1
             /\ \A u : u # t => OfTenant(S \cup {i}, u) = OfTenant(S, u)
<1> DEFINE t == ops[i].tenant
           A == OfTenant(S \cup {i}, t)
           B == OfTenant(S, t)
<1>1. i \in A /\ A \ {i} = B /\ i \notin B
  BY DEF OfTenant
<1>2. \A u : u # t => OfTenant(S \cup {i}, u) = OfTenant(S, u)
  BY DEF OfTenant
<1>3. S \cup {i} \subseteq DOMAIN ops
  OBVIOUS
<1>4. /\ IsFiniteSet(A) /\ \A j \in A : costs[j] \in Nat /\ holds[j] \in Nat
      /\ costs[i] = Cost(i) /\ holds[i] = Reserved(i)
  BY <1>1, <1>3, TenantSums
<1>5. /\ IsFiniteSet(B) /\ SumOver(costs, B) \in Nat /\ SumOver(holds, B) \in Nat /\ Cardinality(B) \in Nat
  BY TenantSums
<1> HIDE DEF A, B
<1>6. SumOver(costs, A) = costs[i] + SumOver(costs, B)
  BY <1>1, <1>4, SumRemove
<1>7. SumOver(holds, A) = holds[i] + SumOver(holds, B)
  BY <1>1, <1>4, SumRemove
<1>8. Cardinality(A) = Cardinality(B) + 1
  <2>1. A = B \cup {i}
    BY <1>1
  <2> QED BY <1>1, <1>5, <2>1, FS_AddElement
<1>9. Cost(i) \in Nat /\ Reserved(i) \in Nat
  BY RequestFacts
<1> QED BY <1>2, <1>4, <1>5, <1>6, <1>7, <1>8, <1>9 DEF A, B

\* A settlement in the ledger of its tenant, and in those of the others.
SettlesTo(i, D, W) ==
    /\ SettleIn(setting.method, Reserved(i), Cost(i), BookOf(ops[i].tenant, D, W))
         = BookOf(ops[i].tenant, D, W \ {i})
    /\ \A u : u # ops[i].tenant => BookOf(u, D, W \ {i}) = BookOf(u, D, W)

\* Settling a request of the ledger of its tenant.
LEMMA BookSettled ==
  ASSUME Given, NEW D, D \subseteq DOMAIN ops, NEW W, W \subseteq D, NEW i \in W
  PROVE  SettlesTo(i, D, W)
<1> DEFINE t == ops[i].tenant
           X == W \ {i}
           E == D \ W
<1>1. i \in DOMAIN ops /\ X \subseteq DOMAIN ops /\ E \subseteq DOMAIN ops /\ i \notin X /\ i \notin E
  OBVIOUS
<1>2. X \cup {i} = W /\ E \cup {i} = D \ X
  OBVIOUS
<1> HIDE DEF X, E
<1>3. /\ SumOver(costs, OfTenant(D \ X, t)) = SumOver(costs, OfTenant(E, t)) + Cost(i)
      /\ \A u : u # t => OfTenant(D \ X, u) = OfTenant(E, u)
  <2>1. /\ SumOver(costs, OfTenant(E \cup {i}, t)) = SumOver(costs, OfTenant(E, t)) + Cost(i)
        /\ \A u : u # t => OfTenant(E \cup {i}, u) = OfTenant(E, u)
    BY <1>1, TenantGains
  <2> QED BY <1>2, <2>1
<1>4. /\ SumOver(holds, OfTenant(W, t)) = SumOver(holds, OfTenant(X, t)) + Reserved(i)
      /\ Cardinality(OfTenant(W, t)) = Cardinality(OfTenant(X, t)) + 1
      /\ \A u : u # t => OfTenant(W, u) = OfTenant(X, u)
  BY <1>1, <1>2, TenantGains
<1>5. /\ SumOver(holds, OfTenant(X, t)) \in Nat /\ Cardinality(OfTenant(X, t)) \in Nat
      /\ Reserved(i) \in Nat
  BY <1>1, TenantSums, RequestFacts
<1>6. \A u : u # t => BookOf(u, D, X) = BookOf(u, D, W)
  BY <1>3, <1>4 DEF BookOf, E
<1>7. SettleIn(setting.method, Reserved(i), Cost(i), BookOf(t, D, W)) = BookOf(t, D, X)
  <2> DEFINE b == BookOf(t, D, W)
  <2>1. CASE Reserving(setting.method)
    <3>1. /\ b.settled = SumOver(costs, OfTenant(E, t)) /\ b.held = SumOver(holds, OfTenant(W, t))
          /\ b.active = Cardinality(OfTenant(W, t))
      BY <2>1 DEF BookOf, E
    <3>2. b.held - Reserved(i) = SumOver(holds, OfTenant(X, t)) /\ b.active - 1 = Cardinality(OfTenant(X, t))
      BY <1>4, <1>5, <3>1
    <3>3. SettleIn(setting.method, Reserved(i), Cost(i), b) =
            [settled |-> b.settled + Cost(i), held |-> b.held - Reserved(i), active |-> b.active - 1]
      BY <2>1 DEF SettleIn
    <3> HIDE DEF b
    <3> QED BY <1>3, <2>1, <3>1, <3>2, <3>3 DEF BookOf, b
  <2>2. CASE ~Reserving(setting.method)
    <3>1. b = [settled |-> SumOver(costs, OfTenant(E, t)), held |-> 0, active |-> 0]
      BY <2>2 DEF BookOf, E
    <3>2. SettleIn(setting.method, Reserved(i), Cost(i), b) = [b EXCEPT !.settled = b.settled + Cost(i)]
      BY <2>2 DEF SettleIn
    <3> HIDE DEF b
    <3>3. [b EXCEPT !.settled = b.settled + Cost(i)] =
            [settled |-> SumOver(costs, OfTenant(E, t)) + Cost(i), held |-> 0, active |-> 0]
      BY <3>1
    <3> QED BY <1>3, <2>2, <3>2, <3>3 DEF BookOf, b
  <2> QED BY <2>1, <2>2
<1> QED BY <1>6, <1>7 DEF X, SettlesTo

\* An admission in the ledger of its tenant, and in those of the others.
AdmitsTo(i, D, W) ==
    /\ AdmitIn(setting.method, Reserved(i), BookOf(ops[i].tenant, D, W))
         = BookOf(ops[i].tenant, D \cup {i}, W \cup {i})
    /\ \A u : u # ops[i].tenant => BookOf(u, D \cup {i}, W \cup {i}) = BookOf(u, D, W)
    /\ (D \cup {i}) \ (W \cup {i}) = D \ W

\* Admitting a request into the ledger of its tenant.
LEMMA BookAdmitted ==
  ASSUME Given, NEW D, D \subseteq DOMAIN ops, NEW W, W \subseteq D, NEW i \in DOMAIN ops, i \notin D
  PROVE  AdmitsTo(i, D, W)
<1> DEFINE t == ops[i].tenant
           X == W \cup {i}
<1>1. (D \cup {i}) \ X = D \ W
  OBVIOUS
<1>2. /\ SumOver(holds, OfTenant(X, t)) = SumOver(holds, OfTenant(W, t)) + Reserved(i)
      /\ Cardinality(OfTenant(X, t)) = Cardinality(OfTenant(W, t)) + 1
      /\ \A u : u # t => OfTenant(X, u) = OfTenant(W, u)
  <2>1. W \subseteq DOMAIN ops /\ i \notin W
    OBVIOUS
  <2> QED BY <2>1, TenantGains
<1> HIDE DEF X
<1>3. \A u : u # t => BookOf(u, D \cup {i}, X) = BookOf(u, D, W)
  BY <1>1, <1>2 DEF BookOf
<1>4. AdmitIn(setting.method, Reserved(i), BookOf(t, D, W)) = BookOf(t, D \cup {i}, X)
  <2> DEFINE b == BookOf(t, D, W)
  <2>1. CASE Reserving(setting.method)
    <3>1. b = [settled |-> SumOver(costs, OfTenant(D \ W, t)), held |-> SumOver(holds, OfTenant(W, t)),
               active |-> Cardinality(OfTenant(W, t))]
      BY <2>1 DEF BookOf
    <3>2. AdmitIn(setting.method, Reserved(i), b) =
            [b EXCEPT !.held = b.held + Reserved(i), !.active = b.active + 1]
      BY <2>1 DEF AdmitIn
    <3> HIDE DEF b
    <3>3. [b EXCEPT !.held = b.held + Reserved(i), !.active = b.active + 1] =
            [settled |-> SumOver(costs, OfTenant(D \ W, t)),
             held |-> SumOver(holds, OfTenant(W, t)) + Reserved(i),
             active |-> Cardinality(OfTenant(W, t)) + 1]
      <4> DEFINE h == b.held + Reserved(i)
                 n == b.active + 1
                 c == [b EXCEPT !.held = h]
      <4>1. [b EXCEPT !.held = h, !.active = n] = [c EXCEPT !.active = n]
        <5> HIDE DEF h, n
        <5> QED BY Zenon
      <4>2. h = SumOver(holds, OfTenant(W, t)) + Reserved(i) /\ n = Cardinality(OfTenant(W, t)) + 1
        BY <3>1
      <4> HIDE DEF h, n
      <4>3. c = [settled |-> SumOver(costs, OfTenant(D \ W, t)), held |-> h, active |-> Cardinality(OfTenant(W, t))]
        BY <3>1
      <4> HIDE DEF c
      <4>4. [c EXCEPT !.active = n] = [settled |-> SumOver(costs, OfTenant(D \ W, t)), held |-> h, active |-> n]
        BY <4>3
      <4> QED BY <4>1, <4>2, <4>4 DEF h, n
    <3> QED BY <1>1, <1>2, <2>1, <3>2, <3>3 DEF BookOf, b
  <2>2. CASE ~Reserving(setting.method)
    BY <1>1, <2>2 DEF BookOf, AdmitIn
  <2> QED BY <2>1, <2>2
<1> QED BY <1>1, <1>3, <1>4 DEF X, AdmitsTo

\* What a tenant dispatched is what has settled and what is pending.
LEMMA SpendSplits ==
  ASSUME Given, NEW D, D \subseteq DOMAIN ops, NEW W, W \subseteq D, NEW t
  PROVE  SumOver(costs, OfTenant(D, t)) =
           SumOver(costs, OfTenant(D \ W, t)) + SumOver(costs, OfTenant(W, t))
<1>1. OfTenant(W, t) \subseteq OfTenant(D, t) /\ OfTenant(D \ W, t) = OfTenant(D, t) \ OfTenant(W, t)
  BY DEF OfTenant
<1> DEFINE A == OfTenant(D, t)
           B == OfTenant(W, t)
<1>2. IsFiniteSet(A) /\ \A i \in A : costs[i] \in Int
  BY TenantSums
<1>3. B \subseteq A
  BY <1>1
<1> HIDE DEF A, B
<1>4. SumOver(costs, A) = SumOver(costs, A \ B) + SumOver(costs, B)
  BY <1>2, <1>3, SumSplit
<1> QED BY <1>1, <1>4 DEF A, B

\* The peak stays between what has settled and what was dispatched: when i
\* settles, when i is dispatched, and when what is pending is shown.
LEMMA PeakSettled ==
  ASSUME Given, NEW D, D \subseteq DOMAIN ops, NEW W, W \subseteq D, NEW i \in W,
         NEW p, PeakBetween(p, D, W)
  PROVE  PeakBetween(Higher(p, ops[i].tenant, BookOf(ops[i].tenant, D, W \ {i}).settled), D, W \ {i})
<1> DEFINE t == ops[i].tenant
           X == W \ {i}
           x == SumOver(costs, OfTenant(D \ X, t))
           q == Higher(p, t, x)
<1>1. BookOf(t, D, X).settled = x
  BY DEF BookOf
<1>2. i \in DOMAIN ops /\ t \in Served /\ X \subseteq D
  BY RequestFacts
<1>3. p \in [Served -> Nat]
  BY DEF PeakBetween
<1>4. D \ X \subseteq DOMAIN ops /\ (D \ W) \cup {i} = D \ X /\ i \notin D \ W
  OBVIOUS
<1>5. \A u : u # t => OfTenant(D \ X, u) = OfTenant(D \ W, u)
  BY DEF OfTenant
<1> HIDE DEF X
<1>6. x \in Nat /\ SumOver(costs, OfTenant(X, t)) \in Nat
  BY <1>2, <1>4, TenantSums
<1>7. SumOver(costs, OfTenant(D, t)) = x + SumOver(costs, OfTenant(X, t))
  BY <1>2, SpendSplits
<1> HIDE DEF x
<1>8. /\ q \in [Served -> Nat] /\ \A u \in Served \ {t} : q[u] = p[u]
      /\ x <= q[t] /\ q[t] \in {p[t], x}
  BY <1>2, <1>3, <1>6, HigherFacts
<1> HIDE DEF q
<1>9. ASSUME NEW u \in Served
      PROVE  /\ SumOver(costs, OfTenant(D \ X, u)) <= q[u]
             /\ q[u] <= SumOver(costs, OfTenant(D, u))
  <2>1. CASE u # t
    BY <1>5, <1>8, <2>1 DEF PeakBetween
  <2>2. CASE u = t
    <3>1. p[t] <= SumOver(costs, OfTenant(D, t))
      BY <1>2 DEF PeakBetween
    <3>2. x <= SumOver(costs, OfTenant(D, t))
      BY <1>6, <1>7
    <3> QED BY <1>8, <2>2, <3>1, <3>2 DEF x
  <2> QED BY <2>1, <2>2
<1>10. PeakBetween(q, D, X)
  BY <1>8, <1>9 DEF PeakBetween
<1> QED BY <1>1, <1>10 DEF q, X

\* A dispatch leaves the peak between its bounds.
LEMMA PeakDispatched ==
  ASSUME Given, NEW D, D \subseteq DOMAIN ops, NEW W, W \subseteq D, NEW i \in DOMAIN ops, i \notin D,
         NEW p, PeakBetween(p, D, W)
  PROVE  PeakBetween(p, D \cup {i}, W \cup {i})
<1> DEFINE t == ops[i].tenant
<1>1. (D \cup {i}) \ (W \cup {i}) = D \ W
  OBVIOUS
<1>2. /\ SumOver(costs, OfTenant(D \cup {i}, t)) = SumOver(costs, OfTenant(D, t)) + Cost(i)
      /\ \A u : u # t => OfTenant(D \cup {i}, u) = OfTenant(D, u)
  BY TenantGains
<1>3. SumOver(costs, OfTenant(D, t)) \in Nat /\ Cost(i) \in Nat
  BY TenantSums, RequestFacts
<1>4. ASSUME NEW u \in Served PROVE p[u] <= SumOver(costs, OfTenant(D \cup {i}, u))
  <2>1. p[u] \in Nat /\ p[u] <= SumOver(costs, OfTenant(D, u))
    BY DEF PeakBetween
  <2>2. CASE u # t
    BY <1>2, <2>1, <2>2
  <2>3. CASE u = t
    BY <1>2, <1>3, <2>1, <2>3
  <2> QED BY <2>2, <2>3
<1> QED BY <1>1, <1>4 DEF PeakBetween

\* A snapshot shows what was dispatched, and raises the peak no further.
LEMMA PeakShown ==
  ASSUME Given, NEW D, D \subseteq DOMAIN ops, NEW W, W \subseteq D, NEW t \in Served,
         NEW p, PeakBetween(p, D, W)
  PROVE  /\ BookOf(t, D, W).settled + SumOver(costs, OfTenant(W, t)) \in Nat
         /\ PeakBetween(Higher(p, t, BookOf(t, D, W).settled + SumOver(costs, OfTenant(W, t))), D, W)
<1> DEFINE x == SumOver(costs, OfTenant(D \ W, t)) + SumOver(costs, OfTenant(W, t))
           q == Higher(p, t, x)
<1>1. BookOf(t, D, W).settled = SumOver(costs, OfTenant(D \ W, t))
  BY DEF BookOf
<1>2. x = SumOver(costs, OfTenant(D, t)) /\ x \in Nat
  BY SpendSplits, TenantSums
<1> HIDE DEF x
<1>3. p \in [Served -> Nat]
  BY DEF PeakBetween
<1>4. /\ q \in [Served -> Nat] /\ \A u \in Served \ {t} : q[u] = p[u]
      /\ p[t] <= q[t] /\ q[t] \in {p[t], x}
  BY <1>2, <1>3, HigherFacts
<1> HIDE DEF q
<1>5. ASSUME NEW u \in Served
      PROVE  /\ SumOver(costs, OfTenant(D \ W, u)) <= q[u] /\ q[u] <= SumOver(costs, OfTenant(D, u))
  <2>1. SumOver(costs, OfTenant(D \ W, u)) <= p[u] /\ p[u] <= SumOver(costs, OfTenant(D, u)) /\ p[u] \in Nat
    BY <1>3 DEF PeakBetween
  <2>2. CASE u # t
    BY <1>4, <2>1, <2>2
  <2>3. CASE u = t
    <3>1. D \ W \subseteq DOMAIN ops
      OBVIOUS
    <3>2. SumOver(costs, OfTenant(D \ W, t)) \in Nat
      BY <3>1, TenantSums
    <3> QED BY <1>2, <1>4, <2>1, <2>3, <3>2
  <2> QED BY <2>2, <2>3
<1>6. PeakBetween(q, D, W)
  BY <1>4, <1>5 DEF PeakBetween
<1> QED BY <1>1, <1>2, <1>6 DEF q, x

-----------------------------------------------------------------------------
(* The trace: deliveries and settlements *)

\* R is Q with more rows, none of them a delivery.
Quiet(R, Q) ==
    /\ DOMAIN Q \subseteq DOMAIN R /\ \A n \in DOMAIN Q : R[n] = Q[n]
    /\ \A n \in DOMAIN R \ DOMAIN Q : R[n].event # "dispatch_delivered"

\* No more rows is no delivery.
LEMMA QuietSelf == ASSUME NEW Q PROVE Quiet(Q, Q)
BY DEF Quiet

\* One more row that is not a delivery.
LEMMA QuietAppend ==
  ASSUME NEW R, Listed(R), NEW Q, Quiet(R, Q), NEW x, x.event # "dispatch_delivered"
  PROVE  Quiet(Append(R, x), Q)
<1> DEFINE new == Append(R, x)
           n == Len(R)
<1>1. /\ DOMAIN R = 1 .. n /\ DOMAIN new = 1 .. n + 1 /\ new[n + 1] = x /\ \A k \in 1 .. n : new[k] = R[k]
  BY OneMoreRow
<1>2. n \in Nat
  BY DEF Listed
<1> HIDE DEF new, n
<1>3. DOMAIN new = DOMAIN R \cup {n + 1}
  BY <1>1, <1>2
<1>4. \A k \in DOMAIN R : new[k] = R[k]
  BY <1>1
<1>5. new[n + 1] = x
  BY <1>1
<1>6. Quiet(new, Q)
  BY <1>3, <1>4, <1>5 DEF Quiet
<1> QED BY <1>6 DEF new

\* Without a delivery nothing more is dispatched and the access log still fits.
LEMMA QuietKeeps ==
  ASSUME Quiet(rows', rows), ops' = ops, access' = access
  PROVE  Dispatched' = Dispatched /\ (VerifyFeedbackAccessLog => VerifyFeedbackAccessLog')
<1> DEFINE delivered == {n \in DOMAIN rows : rows[n].event = "dispatch_delivered"}
           later == {n \in DOMAIN rows' : rows'[n].event = "dispatch_delivered"}
<1>1. later = delivered /\ \A n \in delivered : rows'[n] = rows[n]
  BY DEF Quiet
<1>2. Dispatched' = Dispatched
  <2>1. Dispatched = {i \in DOMAIN ops : \E n \in delivered : rows[n].req = i}
    BY DEF Dispatched
  <2>2. Dispatched' = {i \in DOMAIN ops : \E n \in later : rows'[n].req = i}
    BY DEF Dispatched
  <2> HIDE DEF delivered, later
  <2> QED BY <1>1, <2>1, <2>2
<1>3. ASSUME VerifyFeedbackAccessLog PROVE VerifyFeedbackAccessLog'
  <2> DEFINE Fits(d, n, req) == LET k == Cardinality({m \in d : m <= n})
                                IN  /\ access[2 * k - 1] = [kind |-> "authorize", req |-> req, row |-> n]
                                    /\ access[2 * k] = [kind |-> "issue", req |-> req, row |-> n]
  <2>1. Len(access) = 2 * Cardinality(delivered) /\ \A n \in delivered : Fits(delivered, n, rows[n].req)
    BY <1>3 DEF VerifyFeedbackAccessLog
  <2>2. Len(access') = 2 * Cardinality(later) /\ \A n \in later : Fits(later, n, rows'[n].req)
    <3> HIDE DEF Fits, delivered, later
    <3> QED BY <1>1, <2>1
  <2> QED BY <2>2 DEF VerifyFeedbackAccessLog
<1> QED BY <1>2, <1>3

-----------------------------------------------------------------------------
Settlement(i, book) ==
    LifecycleRow("settlement_final", i, Due(i), TRUE, Reason(ExceedsByQuantity(i)), book)
Replayed(event, i, book) == LifecycleRow(event, i, Due(i), TRUE, event, book)
WithRow(R, yes, row) == IF yes THEN Append(R, row) ELSE R

\* The rows of a settlement and of its declared replays.
SettlementRows(R, i, book) ==
    WithRow(WithRow(Append(R, Settlement(i, book)), ops[i].duplicate,
                    Replayed("settlement_duplicate", i, book)),
            ops[i].conflict, Replayed("settlement_conflict_rejected", i, book))

\* The recount once request i has settled, in the stage st.
SettledSheet(v, i, st, book) ==
    Sheet(Due(i), [v.stage EXCEPT ![i] = st], [ledger EXCEPT ![ops[i].tenant] = book], pending \ {i},
          v.shots, Higher(v.peak, ops[i].tenant, book.settled))

\* What a recount is while the runner runs.
LEMMA RunnerSheet ==
  ASSUME Given, RunnerState, NEW v, NEW bad, Recounts(v, bad)
  PROVE  /\ v = Sheet(v.last, v.stage, ledger, pending, v.shots, v.peak)
         /\ Tables(v.stage, ledger, v.peak)
         /\ v.stage = [i \in DOMAIN ops |-> StageOf(i, Decided, Dispatched, pending)]
         /\ v.shots = {ops[j].seq : j \in Shot} \X Served
         /\ v.book = ledger /\ v.active = pending
         /\ v.last \in Nat /\ v.peak \in [Served -> Nat]
         /\ \A t \in Served : ledger[t] = BookOf(t, Dispatched, pending)
         /\ \A t \in Served : ledger[t].settled \in Nat /\ ledger[t].settled <= v.peak[t]
         /\ Dispatched \subseteq DOMAIN ops /\ pending \subseteq DOMAIN ops
<1>1. v = [last |-> v.last,
            stage |-> [i \in DOMAIN ops |-> StageOf(i, Decided, Dispatched, pending)],
            book |-> ledger, active |-> pending,
            shots |-> {ops[j].seq : j \in Shot} \X Served,
            peak |-> v.peak]
  BY DEF Recounts
<1>2. /\ v.stage = [i \in DOMAIN ops |-> StageOf(i, Decided, Dispatched, pending)]
      /\ v.book = ledger /\ v.active = pending
      /\ v.shots = {ops[j].seq : j \in Shot} \X Served
  BY <1>1
<1>3. v.last \in Nat /\ PeakBetween(v.peak, Dispatched, pending)
  BY DEF Recounts
<1>4. v = Sheet(v.last, v.stage, ledger, pending, v.shots, v.peak)
  BY <1>1, <1>2 DEF Sheet
<1>5. ledger = [t \in Served |-> BookOf(t, Dispatched, pending)]
  BY DEF RunnerState
<1>6. v.peak \in [Served -> Nat]
  BY <1>3 DEF PeakBetween
<1>7. Dispatched \subseteq DOMAIN ops /\ pending \subseteq DOMAIN ops
  BY DEF Dispatched, RunnerState
<1>8. ASSUME NEW t \in Served PROVE ledger[t].settled \in Nat /\ ledger[t].settled <= v.peak[t]
  <2>1. ledger[t].settled = SumOver(costs, OfTenant(Dispatched \ pending, t))
    BY <1>5 DEF BookOf
  <2>2. Dispatched \ pending \subseteq DOMAIN ops
    BY <1>7
  <2> QED BY <1>3, <2>1, <2>2, TenantSums DEF PeakBetween
<1>9. Tables(v.stage, ledger, v.peak)
  BY <1>2, <1>5, <1>6 DEF Tables
<1> QED BY <1>2, <1>3, <1>4, <1>5, <1>6, <1>7, <1>8, <1>9

\* The settlement itself: its row agrees exactly when both judge alike whether
\* the reservation was exceeded.
LEMMA SettlementRow ==
  ASSUME Given, RunnerState, NEW v, NEW bad, Recounts(v, bad), NEW i \in pending,
         NEW book, book = SettleIn(setting.method, Reserved(i), Cost(i), ledger[ops[i].tenant])
  PROVE  /\ RowAgrees(v, Settlement(i, book)) <=> ExceedsByQuantity(i) = ExceedsByCost(i)
         /\ VerifyRow(v, Settlement(i, book)) = SettledSheet(v, i, 4, book)
<1> DEFINE row == Settlement(i, book)
           t == ops[i].tenant
<1>1. /\ v = Sheet(v.last, v.stage, ledger, pending, v.shots, v.peak)
      /\ v.stage = [k \in DOMAIN ops |-> StageOf(k, Decided, Dispatched, pending)]
      /\ v.shots = {ops[j].seq : j \in Shot} \X Served
      /\ v.book = ledger /\ v.active = pending /\ v.last \in Nat
  BY RunnerSheet
<1>2. i \in DOMAIN ops /\ i \in Dispatched /\ i \in Decided
  BY DEF RunnerState, Decided
<1>3. Due(i) \in Nat /\ t \in Served
  BY <1>2, RequestFacts
<1>4. v.last <= Due(i) /\ OutcomeInBounds(ops[i], fixture[i])
  BY <1>2 DEF Recounts, RunnerState
<1>5. /\ row.event = "settlement_final" /\ row.req = i /\ row.tenant = t /\ row.step = Due(i)
      /\ row.selected = TRUE /\ row.book = book /\ row.reserved = Reserved(i) /\ row.actual = Cost(i)
      /\ row.reason = Reason(ExceedsByQuantity(i))
  BY DEF Settlement, LifecycleRow
<1> HIDE DEF row
<1>6. BookAfter(v, row) = book
  BY <1>1, <1>5 DEF BookAfter
<1>7. VerifyRow(v, row) = SettledSheet(v, i, 4, book)
  <2>1. VerifyRow(v, row) = LifecycleSheet(v, row, v.stage, ledger, pending, v.shots, v.peak)
    <3> DEFINE l == v.last
               st == v.stage
               s == v.shots
               p == v.peak
    <3>1. row.event # "snapshot" /\ v = Sheet(l, st, ledger, pending, s, p)
      BY <1>1, <1>5
    <3> HIDE DEF l, st, s, p
    <3>2. VerifyRow(v, row) = LifecycleSheet(v, row, st, ledger, pending, s, p)
      BY <3>1, LifecycleEffect
    <3> QED BY <3>2 DEF st, s, p
  <2>2. Latent(row) = book.settled
    <3> DEFINE W == pending \ {i}
    <3>1. Dispatched \subseteq DOMAIN ops /\ pending \subseteq Dispatched /\ Dispatched \ W \subseteq DOMAIN ops
      BY DEF Dispatched, RunnerState
    <3>2. ledger[t] = BookOf(t, Dispatched, pending)
      BY <1>3, RunnerSheet
    <3>3. book = BookOf(t, Dispatched, W)
      <4>1. SettleIn(setting.method, Reserved(i), Cost(i), BookOf(ops[i].tenant, Dispatched, pending))
              = BookOf(ops[i].tenant, Dispatched, pending \ {i})
        <5>1. SettlesTo(i, Dispatched, pending)
          BY <3>1, BookSettled
        <5> QED BY <5>1 DEF SettlesTo
      <4> QED BY <3>2, <4>1
    <3> HIDE DEF W
    <3>4. book.settled \in Nat
      BY <3>1, <3>3, TenantSums DEF BookOf
    <3> QED BY <1>5, <3>4 DEF Latent
  <2>3. StageAfter[row.event] = 4
    BY <1>5, StageFacts
  <2> QED BY <1>5, <1>6, <2>1, <2>2, <2>3 DEF LifecycleSheet, SettledSheet
<1>8. \A x \in v.shots : x[1] # row.step
  <2>1. \A j \in Shot : ops[j].seq < Due(i) /\ ops[j].seq \in Nat
    BY RequestFacts DEF RunnerState, Shot
  <2>2. \A j \in Shot : ops[j].seq # Due(i)
    BY <1>3, <2>1
  <2> QED BY <1>1, <1>5, <2>2
<1>9. expectedEventStep(row) = Due(i)
  BY <1>5 DEF expectedEventStep
<1>10. v.stage[i] = StageBefore(row.event, ops[i])
  BY <1>1, <1>2, <1>5, StageFacts DEF StageOf
<1>11. LifecycleAgrees(v, row) <=> Reason(ExceedsByQuantity(i)) = Reason(ExceedsByCost(i))
  BY <1>1, <1>4, <1>5, <1>6, <1>8, <1>9, <1>10 DEF LifecycleAgrees
<1>12. RowAgrees(v, row) <=> LifecycleAgrees(v, row)
  BY <1>1, <1>3, <1>4, <1>5 DEF RowAgrees
<1>13. ExceedsByQuantity(i) \in BOOLEAN /\ ExceedsByCost(i) \in BOOLEAN
  <2>1. ExceedsByCost(i) \in BOOLEAN
    BY DEF ExceedsByCost
  <2>2. CASE Reserving(setting.method)
    BY <2>1, <2>2 DEF ExceedsByQuantity
  <2>3. CASE ~Reserving(setting.method)
    BY <2>1, <2>3 DEF ExceedsByQuantity
  <2> QED BY <2>2, <2>3
<1>14. Reason(ExceedsByQuantity(i)) = Reason(ExceedsByCost(i)) <=> ExceedsByQuantity(i) = ExceedsByCost(i)
  BY <1>13 DEF Reason
<1> QED BY <1>7, <1>11, <1>12, <1>14 DEF row

\* One more row that agrees.
LEMMA CountPassed ==
  ASSUME NEW R, Listed(R), NEW v, NEW bad, Counts(R, v, bad), NEW row, NEW w, Passes(v, row, w)
  PROVE  Listed(Append(R, row)) /\ Counts(Append(R, row), w, bad)
<1>1. Counts(Append(R, row), VerifyRow(v, row), bad \cup (IF RowAgrees(v, row) THEN {} ELSE {row.req}))
  BY CountRow
<1>2. RowAgrees(v, row) /\ VerifyRow(v, row) = w
  BY DEF Passes
<1>3. bad \cup (IF RowAgrees(v, row) THEN {} ELSE {row.req}) = bad
  BY <1>2
<1> QED BY <1>1, <1>2, <1>3, OneMoreRow

\* What request i settles to.
LEMMA SettledBook ==
  ASSUME Given, RunnerState, NEW i \in pending
  PROVE  /\ SettleIn(setting.method, Reserved(i), Cost(i), ledger[ops[i].tenant])
              = BookOf(ops[i].tenant, Dispatched, pending \ {i})
         /\ [ledger EXCEPT ![ops[i].tenant] = BookOf(ops[i].tenant, Dispatched, pending \ {i})]
              = [t \in Served |-> BookOf(t, Dispatched, pending \ {i})]
         /\ BookOf(ops[i].tenant, Dispatched, pending \ {i}).settled \in Nat
<1> DEFINE t == ops[i].tenant
           W == pending \ {i}
<1>1. /\ Dispatched \subseteq DOMAIN ops /\ pending \subseteq Dispatched /\ Dispatched \ W \subseteq DOMAIN ops
      /\ i \in DOMAIN ops
  BY DEF Dispatched, RunnerState
<1>2. t \in Served
  BY <1>1, RequestFacts
<1>3. ledger = [u \in Served |-> BookOf(u, Dispatched, pending)]
  BY DEF RunnerState
<1>4. SettlesTo(i, Dispatched, pending)
  BY <1>1, BookSettled
<1>5. /\ SettleIn(setting.method, Reserved(i), Cost(i), ledger[t]) = BookOf(t, Dispatched, W)
      /\ \A u : u # t => BookOf(u, Dispatched, W) = BookOf(u, Dispatched, pending)
  BY <1>2, <1>3, <1>4 DEF SettlesTo
<1>6. [ledger EXCEPT ![t] = BookOf(t, Dispatched, W)] = [u \in Served |-> BookOf(u, Dispatched, W)]
  BY <1>2, <1>3, <1>5
<1>7. BookOf(t, Dispatched, W).settled \in Nat
  <2> HIDE DEF W
  <2> QED BY <1>1, TenantSums DEF BookOf
<1> QED BY <1>5, <1>6, <1>7

\* A declared replay agrees, and leaves all but the stage alone.
LEMMA ReplayRow ==
  ASSUME Given, RunnerState, NEW v, NEW bad, Recounts(v, bad), NEW i \in pending,
         NEW book, book = SettleIn(setting.method, Reserved(i), Cost(i), ledger[ops[i].tenant]),
         NEW event \in {"settlement_duplicate", "settlement_conflict_rejected"},
         event = "settlement_duplicate" => ops[i].duplicate,
         event = "settlement_conflict_rejected" => ops[i].conflict
  PROVE  Passes(SettledSheet(v, i, StageBefore(event, ops[i]), book), Replayed(event, i, book),
                SettledSheet(v, i, StageAfter[event], book))
<1> DEFINE t == ops[i].tenant
           k == StageBefore(event, ops[i])
           st == [v.stage EXCEPT ![i] = k]
           b == [ledger EXCEPT ![t] = book]
           a == pending \ {i}
           s == v.shots
           p == Higher(v.peak, t, book.settled)
           step == Due(i)
<1>1. /\ Tables(v.stage, ledger, v.peak)
      /\ v.shots = {ops[j].seq : j \in Shot} \X Served
      /\ v.peak \in [Served -> Nat]
  BY RunnerSheet
<1>2. i \in DOMAIN ops /\ OutcomeInBounds(ops[i], fixture[i])
  BY DEF RunnerState, Decided
<1>3. t \in Served /\ step \in Nat
  BY <1>2, RequestFacts
<1>4. book.settled \in Nat
  BY SettledBook
<1>5. /\ p \in [Served -> Nat] /\ book.settled <= p[t]
  BY <1>1, <1>3, <1>4, HigherFacts
<1>6. k >= 4
  BY StageFacts
<1>7. Tables(st, b, p) /\ st[i] = k /\ b[t] = book
  <2>1. st = [j \in DOMAIN ops |-> st[j]] /\ st[i] = k
    BY <1>1, <1>2 DEF Tables
  <2>2. b = [u \in Served |-> b[u]] /\ b[t] = book
    BY <1>1, <1>3 DEF Tables
  <2>3. p = [u \in Served |-> p[u]]
    BY <1>5
  <2> QED BY <2>1, <2>2, <2>3 DEF Tables
<1>8. \A x \in s : x[1] # step
  <2>1. \A j \in Shot : ops[j].seq < Due(i) /\ ops[j].seq \in Nat
    BY RequestFacts DEF RunnerState, Shot
  <2>2. \A j \in Shot : ops[j].seq # Due(i)
    BY <1>3, <2>1
  <2> QED BY <1>1, <2>2
<1>9. [st EXCEPT ![i] = StageAfter[event]] = [v.stage EXCEPT ![i] = StageAfter[event]]
  BY <1>1, <1>2 DEF Tables
<1>10. step = IF event \in {"dispatch_claim", "dispatch_delivered"} THEN ops[i].seq ELSE Due(i)
  OBVIOUS
<1>11. k = StageBefore(event, ops[i])
  OBVIOUS
<1> HIDE DEF k, st, b, a, s, p, step
<1>12. Passes(Sheet(step, st, b, a, s, p), LifecycleRow(event, i, step, TRUE, event, book),
              Sheet(step, [st EXCEPT ![i] = StageAfter[event]], b, a, s, p))
  BY <1>2, <1>3, <1>4, <1>5, <1>6, <1>7, <1>8, <1>10, <1>11, QuietRow, ZenonT(60)
<1> QED BY <1>9, <1>12 DEF SettledSheet, Replayed, k, st, b, a, s, p, step

\* The rows of a settlement, recounted.
Settles(i, v, bad, book) ==
    /\ Listed(SettlementRows(rows, i, book)) /\ Quiet(SettlementRows(rows, i, book), rows)
    /\ Counts(SettlementRows(rows, i, book), SettledSheet(v, i, EndStage(i), book), bad \cup DisputedOf({i}))

\* The rows of a settlement, recounted.
LEMMA SettledRows ==
  ASSUME Given, RunnerState, Listed(rows), NEW v, NEW bad, Counts(rows, v, bad), Recounts(v, bad),
         NEW i \in pending,
         NEW book, book = SettleIn(setting.method, Reserved(i), Cost(i), ledger[ops[i].tenant])
  PROVE  Settles(i, v, bad, book)
<1> DEFINE new == bad \cup DisputedOf({i})
           r1 == Settlement(i, book)
           R1 == Append(rows, r1)
           d == ops[i].duplicate
           r2 == Replayed("settlement_duplicate", i, book)
           R2 == WithRow(R1, d, r2)
           c == ops[i].conflict
           r3 == Replayed("settlement_conflict_rejected", i, book)
           R3 == WithRow(R2, c, r3)
<1>0. i \in DOMAIN ops /\ d \in BOOLEAN /\ c \in BOOLEAN
  <2>1. i \in DOMAIN ops
    BY DEF RunnerState, Decided
  <2> QED BY <2>1, RequestFacts
<1>1. /\ RowAgrees(v, r1) <=> ExceedsByQuantity(i) = ExceedsByCost(i)
      /\ VerifyRow(v, r1) = SettledSheet(v, i, 4, book)
  BY SettlementRow
<1>2. r1.event # "dispatch_delivered" /\ r2.event # "dispatch_delivered" /\ r3.event # "dispatch_delivered"
      /\ r1.req = i
  BY DEF Settlement, Replayed, LifecycleRow
<1>3. Counts(R1, SettledSheet(v, i, 4, book), new)
  <2>1. Counts(R1, VerifyRow(v, r1), bad \cup (IF RowAgrees(v, r1) THEN {} ELSE {r1.req}))
    <3> HIDE DEF r1
    <3> QED BY CountRow
  <2>2. (IF RowAgrees(v, r1) THEN {} ELSE {r1.req}) = DisputedOf({i})
    <3> HIDE DEF r1
    <3> QED BY <1>1, <1>2 DEF DisputedOf
  <2> QED BY <1>1, <2>1, <2>2
<1>4. Listed(R1) /\ Quiet(R1, rows)
  <2> HIDE DEF r1
  <2> QED BY <1>2, OneMoreRow, QuietSelf, QuietAppend
<1> HIDE DEF r1, R1, new
<1>5. /\ Listed(R2) /\ Quiet(R2, rows)
      /\ Counts(R2, SettledSheet(v, i, IF d THEN 5 ELSE 4, book), new)
  <2>1. CASE d
    <3>1. Passes(SettledSheet(v, i, 4, book), r2, SettledSheet(v, i, 5, book))
      BY <2>1, StageFacts, ReplayRow
    <3>2. R2 = Append(R1, r2)
      BY <2>1 DEF WithRow
    <3> HIDE DEF r2, R2
    <3>3. Listed(Append(R1, r2)) /\ Counts(Append(R1, r2), SettledSheet(v, i, 5, book), new)
      BY <1>3, <1>4, <3>1, CountPassed
    <3> QED BY <1>2, <1>4, <2>1, <3>2, <3>3, QuietAppend
  <2>2. CASE ~d
    BY <1>3, <1>4, <2>2 DEF WithRow
  <2> QED BY <2>1, <2>2
<1> HIDE DEF R2
<1>6. /\ Listed(R3) /\ Quiet(R3, rows)
      /\ Counts(R3, SettledSheet(v, i, EndStage(i), book), new)
  <2>1. CASE c
    <3>1. Passes(SettledSheet(v, i, IF d THEN 5 ELSE 4, book), r3, SettledSheet(v, i, 6, book))
      <4>1. /\ StageBefore("settlement_conflict_rejected", ops[i]) = IF d THEN 5 ELSE 4
            /\ StageAfter["settlement_conflict_rejected"] = 6
        BY StageFacts
      <4>2. Passes(SettledSheet(v, i, StageBefore("settlement_conflict_rejected", ops[i]), book), r3,
                   SettledSheet(v, i, StageAfter["settlement_conflict_rejected"], book))
        BY <2>1, ReplayRow
      <4> QED BY <4>1, <4>2
    <3>2. R3 = Append(R2, r3) /\ EndStage(i) = 6
      BY <2>1 DEF WithRow, EndStage
    <3> HIDE DEF r3, R3
    <3>3. Listed(Append(R2, r3)) /\ Counts(Append(R2, r3), SettledSheet(v, i, 6, book), new)
      BY <1>5, <3>1, CountPassed
    <3> QED BY <1>2, <1>5, <2>1, <3>2, <3>3, QuietAppend
  <2>2. CASE ~c
    <3>1. R3 = R2 /\ EndStage(i) = IF d THEN 5 ELSE 4
      BY <2>2 DEF WithRow, EndStage
    <3> QED BY <1>5, <3>1
  <2> QED BY <2>1, <2>2
<1>7. R3 = SettlementRows(rows, i, book)
  BY DEF R1, R2, r1, SettlementRows
<1> HIDE DEF R3
<1> QED BY <1>6, <1>7 DEF Settles, new

\* The invariant after a step, from what the step makes of the state: the
\* requests dispatched (D), pending (W), decided (C) and shown (S).
RecountedAs(v, bad, D, W, C, S, b) ==
    /\ v = Sheet(v.last, [i \in DOMAIN ops |-> StageOf(i, C, D, W)], b, W,
                 {ops[j].seq : j \in S} \X Served, v.peak)
    /\ v.last \in Nat /\ PeakBetween(v.peak, D, W)
    /\ \A i \in W : v.last <= Due(i)
    /\ bad = DisputedOf(D \ W)

RunnerIn(D, W, C, S) ==
    /\ W \subseteq D /\ D \subseteq C
    /\ \A i \in W, j \in S : ops[j].seq < Due(i)
    /\ \A i \in D : OutcomeInBounds(ops[i], fixture[i])

\* The invariant holds after a step that leaves such a state.
LEMMA InvariantLater ==
  ASSUME Given, UNCHANGED <<setting, ops, fixture>>,
         NEW D, NEW W, NEW C, NEW S, Dispatched' = D, pending' = W, Decided' = C, Shot' = S,
         RunnerIn(D, W, C, S), ledger' = [t \in Served |-> BookOf(t, D, W)],
         cursor' \in Nat \ {0}, phase' # "final" => cursor' \in DOMAIN ops,
         phase' = "final" => \A i \in DOMAIN ops : i <= cursor',
         paidFor' \in [DOMAIN ops -> Int],
         \A i \in DOMAIN ops : i \in W \/ i \notin C => paidFor'[i] = Unpaid,
         Listed(rows'), Listed(access'), VerifyFeedbackAccessLog',
         phase' \in {"flush", "settle", "snapshot", "final"},
         NEW v, NEW bad, Counts(rows', v, bad), RecountedAs(v, bad, D, W, C, S, ledger'),
         phase' # "final" => v.last <= ops[cursor'].seq
  PROVE  TraceInv'
<1>1. Given'
  BY GivenSteady
<1>2. /\ \A R, w, b : Counts(R, w, b)' <=> Counts(R, w, b)
      /\ \A i : Due(i)' = Due(i)
      /\ Served' = Served
      /\ \A t, d, w : BookOf(t, d, w)' = BookOf(t, d, w)
      /\ \A i, c, d, w : StageOf(i, c, d, w)' = StageOf(i, c, d, w)
      /\ \A X : DisputedOf(X)' = DisputedOf(X)
      /\ \A p, d, w : PeakBetween(p, d, w)' <=> PeakBetween(p, d, w)
  BY CountsSteady
<1>3. RunnerState'
  <2>1. \A i : Due(i)' = Due(i)
    BY <1>2
  <2>2. ledger' = [t \in Served' |-> BookOf(t, Dispatched, pending)']
    BY <1>2
  <2>3. \A i \in pending', j \in Shot' : ops'[j].seq < Due(i)'
    BY <2>1 DEF RunnerIn
  <2>4. \A i \in Dispatched' : OutcomeInBounds(ops'[i], fixture'[i])
    BY DEF RunnerIn
  <2>5. \A i \in DOMAIN ops' : i \in pending' \/ i \notin Decided' => paidFor'[i] = Unpaid
    OBVIOUS
  <2>6. pending' \subseteq Dispatched' /\ Dispatched' \subseteq Decided'
    BY DEF RunnerIn
  <2>7. Unpaid' = Unpaid
    BY DEF Unpaid
  <2> QED BY <2>2, <2>3, <2>4, <2>5, <2>6, <2>7 DEF RunnerState
<1>4. Recounts(v, bad)'
  <2>1. v = [last |-> v.last, stage |-> [i \in DOMAIN ops |-> StageOf(i, C, D, W)], book |-> ledger',
             active |-> W, shots |-> {ops[j].seq : j \in S} \X Served, peak |-> v.peak]
    BY Zenon DEF RecountedAs, Sheet
  <2>2. [i \in DOMAIN ops' |-> StageOf(i, Decided, Dispatched, pending)'] = [i \in DOMAIN ops |-> StageOf(i, C, D, W)]
    BY <1>2
  <2>3. {ops'[j].seq : j \in Shot'} \X Served' = {ops[j].seq : j \in S} \X Served
    BY <1>2
  <2>4. v = [last |-> v.last, stage |-> [i \in DOMAIN ops' |-> StageOf(i, Decided, Dispatched, pending)'],
             book |-> ledger', active |-> pending', shots |-> {ops'[j].seq : j \in Shot'} \X Served',
             peak |-> v.peak]
    BY <2>1, <2>2, <2>3
  <2>5. PeakBetween(v.peak, Dispatched, pending)'
    BY <1>2 DEF RecountedAs
  <2>6. \A i \in pending' : v.last <= Due(i)'
    BY <1>2 DEF RecountedAs
  <2>7. bad = DisputedOf(Dispatched \ pending)'
    BY <1>2 DEF RecountedAs
  <2>8. v.last \in Nat
    BY DEF RecountedAs
  <2> QED BY <2>4, <2>5, <2>6, <2>7, <2>8 DEF Recounts
<1>5. Counts(rows, v, bad)'
  BY <1>2
<1>6. phase' \notin {"aborted", "accepted", "rejected"}
  OBVIOUS
<1>7. RunnerAndVerifierAgree'
  BY <1>6 DEF RunnerAndVerifierAgree
<1>8. PeakLatentIsSpend'
  BY <1>6 DEF PeakLatentIsSpend
<1>9. Listed(rows)' /\ Listed(access)'
  BY DEF Listed
<1> QED BY <1>1, <1>3, <1>4, <1>5, <1>7, <1>8, <1>9 DEF TraceInv

\* A settlement.
LEMMA SettleKeeps ==
  ASSUME TraceInv, NEW i \in pending, SettleOne(i)
  PROVE  TraceInv'
<1> DEFINE t == ops[i].tenant
           cost == Cost(i)
           book == SettleIn(setting.method, Reserved(i), cost, ledger[t])
<1>1. phase \in {"flush", "settle", "final"} /\ DueFirst(i) /\ (phase # "final" => Due(i) <= ops[cursor].seq)
  BY DEF SettleOne
<1>2. Given /\ Listed(rows) /\ Listed(access) /\ VerifyFeedbackAccessLog /\ RunnerState
  BY <1>1 DEF TraceInv, Running
<1>3. PICK v, bad : Counts(rows, v, bad) /\ Recounts(v, bad)
  BY <1>1 DEF TraceInv, Running
<1>4. /\ pending' = pending \ {i} /\ ledger' = [ledger EXCEPT ![t] = book]
      /\ paidFor' = [paidFor EXCEPT ![i] = cost] /\ rows' = SettlementRows(rows, i, book)
      /\ UNCHANGED <<setting, ops, fixture, tie, cursor, access, peak>>
  BY Zenon DEF SettleOne, SettlementRows, WithRow, Settlement, Replayed
<1>5. /\ Dispatched \subseteq DOMAIN ops /\ pending \subseteq Dispatched /\ i \in DOMAIN ops /\ i \in Dispatched
      /\ Dispatched \subseteq Decided
  BY <1>2 DEF Dispatched, RunnerState
<1>6. Due(i) \in Nat /\ t \in Served /\ cost \in Nat /\ \A j \in pending : Due(j) \in Nat
  BY <1>2, <1>5, RequestFacts
<1>7. phase' = phase
  <2>1. paidFor[i] = Unpaid /\ paidFor \in [DOMAIN ops -> Int]
    BY <1>2, <1>5 DEF RunnerState
  <2>2. paidFor'[i] = cost
    BY <1>4, <1>5, <2>1
  <2>3. cost # Unpaid /\ cost # cost + 1
    BY <1>6 DEF Unpaid
  <2>4. /\ SettlementAnswer(paidFor[i], cost) = "effective"
        /\ SettlementAnswer(paidFor'[i], cost) = "duplicate"
        /\ SettlementAnswer(paidFor'[i], cost + 1) = "conflict"
    BY <2>1, <2>2, <2>3 DEF SettlementAnswer
  <2>5. phase' = IF /\ SettlementAnswer(paidFor[i], cost) = "effective"
                    /\ ops[i].duplicate => SettlementAnswer(paidFor'[i], cost) = "duplicate"
                    /\ ops[i].conflict => SettlementAnswer(paidFor'[i], cost + 1) = "conflict"
                 THEN phase ELSE "aborted"
    BY DEF SettleOne
  <2> QED BY <2>4, <2>5
<1>8. Settles(i, v, bad, book)
  <2> HIDE DEF cost, t
  <2>1. book = SettleIn(setting.method, Reserved(i), Cost(i), ledger[ops[i].tenant])
    BY DEF cost, t
  <2> HIDE DEF book
  <2> QED BY <1>2, <1>3, <2>1, SettledRows
<1>9. Listed(rows') /\ Quiet(rows', rows)
  BY <1>4, <1>8 DEF Settles
<1>10. Dispatched' = Dispatched /\ VerifyFeedbackAccessLog'
  BY <1>2, <1>4, <1>9, QuietKeeps
<1> DEFINE D == Dispatched
           W == pending \ {i}
           w == SettledSheet(v, i, EndStage(i), book)
           new == bad \cup DisputedOf({i})
<1>11. Decided' = Decided /\ Shot' = Shot
  BY <1>4, <1>7 DEF Decided, Shot
<1>12. book = BookOf(t, D, W) /\ ledger' = [u \in Served |-> BookOf(u, D, W)] /\ book.settled \in Nat
  BY <1>2, <1>4, SettledBook
<1>13. RunnerIn(D, W, Decided, Shot)
  BY <1>2, <1>5 DEF RunnerIn, RunnerState
<1>14. RecountedAs(w, new, D, W, Decided, Shot, ledger') /\ w.last = Due(i)
  <2>1. /\ v.stage = [j \in DOMAIN ops |-> StageOf(j, Decided, Dispatched, pending)]
        /\ v.shots = {ops[j].seq : j \in Shot} \X Served
        /\ v.peak \in [Served -> Nat]
    BY <1>2, <1>3, RunnerSheet
  <2> DEFINE p == Higher(v.peak, t, book.settled)
  <2>2. [v.stage EXCEPT ![i] = EndStage(i)] = [j \in DOMAIN ops |-> StageOf(j, Decided, D, W)]
    <3>1. StageOf(i, Decided, D, W) = EndStage(i)
      BY <1>5 DEF StageOf
    <3>2. \A j \in DOMAIN ops : j # i => StageOf(j, Decided, D, W) = StageOf(j, Decided, D, pending)
      BY DEF StageOf
    <3> QED BY <1>5, <2>1, <3>1, <3>2
  <2>3. w = Sheet(Due(i), [j \in DOMAIN ops |-> StageOf(j, Decided, D, W)], ledger', W,
                  {ops[j].seq : j \in Shot} \X Served, p)
    BY <1>4, <2>1, <2>2, Zenon DEF SettledSheet
  <2>4. w.last = Due(i) /\ w.peak = p
    BY <2>3 DEF Sheet
  <2>5. PeakBetween(p, D, W)
    <3>1. PeakBetween(v.peak, D, pending)
      BY <1>3 DEF Recounts
    <3>2. PeakBetween(Higher(v.peak, ops[i].tenant, BookOf(ops[i].tenant, D, pending \ {i}).settled), D, pending \ {i})
      BY <1>2, <1>5, <3>1, PeakSettled
    <3> QED BY <1>12, <3>2
  <2>6. \A j \in W : Due(i) <= Due(j)
    BY <1>1, <1>6 DEF DueFirst
  <2>7. new = DisputedOf(D \ W)
    BY <1>3, <1>5 DEF Recounts, DisputedOf
  <2> HIDE DEF w, new, p, D, W
  <2> QED BY <1>6, <2>3, <2>4, <2>5, <2>6, <2>7 DEF RecountedAs
<1>15. Counts(rows', w, new)
  BY <1>4, <1>8 DEF Settles
<1>16. paidFor' \in [DOMAIN ops -> Int]
  <2>1. paidFor \in [DOMAIN ops -> Int]
    BY <1>2 DEF RunnerState
  <2>2. cost \in Int /\ paidFor' = [paidFor EXCEPT ![i] = cost]
    BY <1>4, <1>6
  <2> HIDE DEF cost
  <2> QED BY <2>1, <2>2
<1>17. \A j \in DOMAIN ops : j \in W \/ j \notin Decided => paidFor'[j] = Unpaid
  BY <1>2, <1>4, <1>5 DEF RunnerState
<1>18. /\ cursor' \in Nat \ {0} /\ (phase' # "final" => cursor' \in DOMAIN ops)
       /\ (phase' = "final" => \A j \in DOMAIN ops : j <= cursor')
  BY <1>2, <1>4, <1>7 DEF RunnerState
<1>19. phase' # "final" => w.last <= ops[cursor'].seq
  BY <1>1, <1>4, <1>7, <1>14
<1>20. Listed(access')
  BY <1>2, <1>4
<1>21. D = Dispatched' /\ W = pending'
  BY <1>4, <1>10
<1> HIDE DEF D, W, w, new, book, cost, t
<1> QED BY <1>1, <1>2, <1>4, <1>7, <1>9, <1>10, <1>11, <1>12, <1>13, <1>14, <1>15, <1>16, <1>17, <1>18, <1>19, <1>20,
           <1>21, InvariantLater

-----------------------------------------------------------------------------
(* The trace: admissions *)

\* Appending two or three members one by one.
LEMMA Appends ==
  ASSUME NEW R, Listed(R), NEW x, NEW y, NEW z
  PROVE  /\ R \o <<x, y>> = Append(Append(R, x), y)
         /\ R \o <<x, y, z>> = Append(Append(Append(R, x), y), z)
<1> DEFINE n == Len(R)
           S == {R[k] : k \in 1 .. n} \cup {x, y, z}
<1>1. n \in Nat /\ R = [k \in 1 .. n |-> R[k]]
  BY DEF Listed
<1> HIDE DEF n
<1>2. R \in [1 .. n -> S]
  BY <1>1
<1>3. R \in Seq(S) /\ x \in S /\ y \in S /\ z \in S
  BY <1>1, <1>2
<1> HIDE DEF S
<1>4. R \o <<x, y>> = Append(Append(R, x), y)
  BY <1>3
<1>5. R \o <<x, y, z>> = Append(Append(Append(R, x), y), z)
  BY <1>3
<1> QED BY <1>4, <1>5

\* The recount once request i is decided, in the stage st.
AdmissionSheet(v, i, admitted, st, book) ==
    Sheet(ops[i].seq, [v.stage EXCEPT ![i] = st], [ledger EXCEPT ![ops[i].tenant] = book],
          IF admitted THEN pending \cup {i} ELSE pending, v.shots, v.peak)

AdmittedBook(i, admitted) ==
    IF admitted THEN AdmitIn(setting.method, Reserved(i), ledger[ops[i].tenant]) ELSE ledger[ops[i].tenant]

Decision(event, i, admitted) ==
    LifecycleRow(event, i, ops[i].seq, admitted, event, AdmittedBook(i, admitted))

\* The request under the cursor, before its decision.
LEMMA BeforeDecision ==
  ASSUME Given, RunnerState, phase = "flush", NEW v, NEW bad, Recounts(v, bad)
  PROVE  /\ cursor \in DOMAIN ops /\ cursor \notin Decided /\ cursor \notin Dispatched /\ cursor \notin pending
         /\ ops[cursor].seq \in Nat /\ v.last <= ops[cursor].seq
         /\ v.stage[cursor] = 0
         /\ \A j \in Shot : ops[j].seq < ops[cursor].seq
         /\ \A x \in v.shots : x[1] # ops[cursor].seq
         /\ Admits(setting.method, Reserved(cursor), ops[cursor], ledger[ops[cursor].tenant]) \in BOOLEAN
<1>1. cursor \in DOMAIN ops /\ v.last <= ops[cursor].seq
  BY DEF RunnerState, Recounts
<1>2. cursor \notin Decided
  <2>1. cursor \in Nat
    BY DEF RunnerState
  <2> QED BY <2>1 DEF Decided
<1>3. cursor \notin Dispatched /\ cursor \notin pending
  BY <1>2 DEF RunnerState
<1>4. /\ v.stage = [k \in DOMAIN ops |-> StageOf(k, Decided, Dispatched, pending)]
      /\ v.shots = {ops[j].seq : j \in Shot} \X Served
  BY RunnerSheet
<1>5. v.stage[cursor] = 0
  BY <1>1, <1>2, <1>4 DEF StageOf
<1>6. \A j \in Shot : j \in DOMAIN ops /\ j < cursor
  BY DEF Shot
<1>7. \A j \in Shot : ops[j].seq < ops[cursor].seq
  BY <1>1, <1>6, StepsGrow
<1>8. ops[cursor].seq \in Nat /\ \A j \in Shot : ops[j].seq \in Nat
  BY <1>1, <1>6, RequestFacts
<1>9. \A j \in Shot : ops[j].seq # ops[cursor].seq
  BY <1>7, <1>8
<1>10. \A x \in v.shots : x[1] # ops[cursor].seq
  BY <1>4, <1>9
<1>11. Admits(setting.method, Reserved(cursor), ops[cursor], ledger[ops[cursor].tenant]) \in BOOLEAN
  <2>1. CASE setting.method = "no_budget"
    BY <2>1 DEF Admits
  <2>2. CASE setting.method = "settled_only"
    BY <2>2 DEF Admits, SettledOnlyAdmits
  <2>3. CASE setting.method \notin {"no_budget", "settled_only"}
    <3> DEFINE m == setting.method
               r == Reserved(cursor)
               op == ops[cursor]
               b == ledger[ops[cursor].tenant]
               fits == r <= op.budget - b.settled - b.held
    <3>1. m # "no_budget" /\ m # "settled_only" /\ fits \in BOOLEAN
      BY <2>3
    <3> HIDE DEF m, r, op, b
    <3>2. Admits(m, r, op, b) = fits
      BY <3>1 DEF Admits
    <3> QED BY <3>1, <3>2 DEF m, r, op, b
  <2> QED BY <2>1, <2>2, <2>3
<1> QED BY <1>1, <1>2, <1>3, <1>5, <1>7, <1>8, <1>10, <1>11

\* The ledger after a decision.
LEMMA DecidedBook ==
  ASSUME Given, RunnerState, phase = "flush", NEW v, NEW bad, Recounts(v, bad), NEW admitted \in BOOLEAN
  PROVE  LET t == ops[cursor].tenant
             book == AdmittedBook(cursor, admitted)
             D == IF admitted THEN Dispatched \cup {cursor} ELSE Dispatched
             W == IF admitted THEN pending \cup {cursor} ELSE pending
         IN  /\ book = BookOf(t, D, W)
             /\ [ledger EXCEPT ![t] = book] = [u \in Served |-> BookOf(u, D, W)]
             /\ D \ W = Dispatched \ pending
             /\ book.settled = ledger[t].settled /\ book.settled \in Nat /\ book.settled <= v.peak[t]
<1> DEFINE i == cursor
           t == ops[i].tenant
<1>1. i \in DOMAIN ops /\ i \notin Dispatched
  BY BeforeDecision
<1>2. t \in Served
  BY <1>1, RequestFacts
<1>3. /\ Dispatched \subseteq DOMAIN ops /\ pending \subseteq Dispatched
      /\ ledger = [u \in Served |-> BookOf(u, Dispatched, pending)]
  BY DEF RunnerState, Dispatched
<1>4. ledger[t].settled \in Nat /\ ledger[t].settled <= v.peak[t] /\ ledger[t] = BookOf(t, Dispatched, pending)
  BY <1>2, RunnerSheet
<1>5. CASE admitted
  <2> DEFINE D == Dispatched \cup {i}
             W == pending \cup {i}
  <2>1. AdmitsTo(i, Dispatched, pending)
    BY <1>1, <1>3, BookAdmitted
  <2>2. /\ AdmitIn(setting.method, Reserved(i), BookOf(t, Dispatched, pending)) = BookOf(t, D, W)
        /\ \A u : u # t => BookOf(u, D, W) = BookOf(u, Dispatched, pending)
        /\ D \ W = Dispatched \ pending
    BY <2>1 DEF AdmitsTo
  <2>3. AdmittedBook(i, admitted) = BookOf(t, D, W)
    BY <1>4, <1>5, <2>2 DEF AdmittedBook
  <2>4. BookOf(t, D, W).settled = BookOf(t, Dispatched, pending).settled
    BY <2>2 DEF BookOf
  <2> HIDE DEF D, W
  <2>5. [ledger EXCEPT ![t] = BookOf(t, D, W)] = [u \in Served |-> BookOf(u, D, W)]
    BY <1>2, <1>3, <2>2
  <2> QED BY <1>4, <1>5, <2>2, <2>3, <2>4, <2>5 DEF D, W
<1>6. CASE ~admitted
  <2>1. AdmittedBook(i, admitted) = ledger[t]
    BY <1>6 DEF AdmittedBook
  <2>2. [ledger EXCEPT ![t] = ledger[t]] = ledger
    BY <1>2, <1>3
  <2> QED BY <1>3, <1>4, <1>6, <2>1, <2>2
<1> QED BY <1>5, <1>6

\* The decision agrees.
LEMMA AdmissionRow ==
  ASSUME Given, RunnerState, phase = "flush", NEW v, NEW bad, Recounts(v, bad), NEW admitted,
         admitted = Admits(setting.method, Reserved(cursor), ops[cursor], ledger[ops[cursor].tenant]),
         admitted => OutcomeInBounds(ops[cursor], fixture[cursor])
  PROVE  Passes(v, Decision("admission", cursor, admitted),
                AdmissionSheet(v, cursor, admitted, 1, AdmittedBook(cursor, admitted)))
<1> DEFINE i == cursor
           t == ops[i].tenant
           book == AdmittedBook(i, admitted)
           row == Decision("admission", i, admitted)
<1>1. /\ v = Sheet(v.last, v.stage, ledger, pending, v.shots, v.peak)
      /\ v.book = ledger /\ v.active = pending /\ v.last \in Nat /\ v.peak \in [Served -> Nat]
  BY RunnerSheet
<1>2. /\ i \in DOMAIN ops /\ ops[i].seq \in Nat /\ v.last <= ops[i].seq /\ v.stage[i] = 0
      /\ \A x \in v.shots : x[1] # ops[i].seq
      /\ admitted \in BOOLEAN
  BY BeforeDecision
<1>3. t \in Served
  BY <1>2, RequestFacts
<1>4. book.settled \in Nat /\ book.settled <= v.peak[t]
  BY <1>2, DecidedBook
<1>5. /\ row.event = "admission" /\ row.req = i /\ row.tenant = t /\ row.step = ops[i].seq
      /\ row.selected = admitted /\ row.book = book
      /\ (admitted => row.reserved = Reserved(i) /\ row.actual = Cost(i))
  BY DEF Decision, LifecycleRow
<1> HIDE DEF row
<1>6. BookAfter(v, row) = book
  <2>1. CASE admitted
    BY <1>1, <1>5, <2>1 DEF BookAfter, AdmittedBook
  <2>2. CASE ~admitted
    BY <1>1, <1>5, <2>2 DEF BookAfter, AdmittedBook
  <2> QED BY <2>1, <2>2
<1> HIDE DEF book
<1>7. VerifyRow(v, row) = AdmissionSheet(v, i, admitted, 1, book)
  <2>1. VerifyRow(v, row) = LifecycleSheet(v, row, v.stage, ledger, pending, v.shots, v.peak)
    <3> DEFINE l == v.last
               st == v.stage
               s == v.shots
               p == v.peak
    <3>1. row.event # "snapshot" /\ v = Sheet(l, st, ledger, pending, s, p)
      BY <1>1, <1>5
    <3> HIDE DEF l, st, s, p
    <3>2. VerifyRow(v, row) = LifecycleSheet(v, row, st, ledger, pending, s, p)
      BY <3>1, LifecycleEffect
    <3> QED BY <3>2 DEF st, s, p
  <2>2. Latent(row) = book.settled
    BY <1>4, <1>5 DEF Latent
  <2>3. Higher(v.peak, t, book.settled) = v.peak
    BY <1>1, <1>3, <1>4, HigherCovered
  <2>4. StageAfter[row.event] = 1
    BY <1>5, StageFacts
  <2> QED BY <1>5, <1>6, <2>1, <2>2, <2>3, <2>4 DEF LifecycleSheet, AdmissionSheet
<1>8. expectedEventStep(row) = ops[i].seq
  BY <1>5 DEF expectedEventStep
<1>9. v.stage[i] = StageBefore(row.event, ops[i])
  BY <1>2, <1>5, StageFacts
<1>10. LifecycleAgrees(v, row)
  BY <1>1, <1>2, <1>5, <1>6, <1>8, <1>9 DEF LifecycleAgrees
<1>11. RowAgrees(v, row)
  BY <1>1, <1>2, <1>5, <1>10 DEF RowAgrees
<1> QED BY <1>7, <1>11 DEF Passes, book, row

\* The claim and the delivery agree.
LEMMA DispatchRow ==
  ASSUME Given, RunnerState, phase = "flush", NEW v, NEW bad, Recounts(v, bad),
         OutcomeInBounds(ops[cursor], fixture[cursor]),
         NEW event \in {"dispatch_claim", "dispatch_delivered"}
  PROVE  Passes(AdmissionSheet(v, cursor, TRUE, StageBefore(event, ops[cursor]), AdmittedBook(cursor, TRUE)),
                Decision(event, cursor, TRUE),
                AdmissionSheet(v, cursor, TRUE, StageAfter[event], AdmittedBook(cursor, TRUE)))
<1> DEFINE i == cursor
           t == ops[i].tenant
           book == AdmittedBook(i, TRUE)
           k == StageBefore(event, ops[i])
           st == [v.stage EXCEPT ![i] = k]
           b == [ledger EXCEPT ![t] = book]
           a == pending \cup {i}
           s == v.shots
           p == v.peak
           step == ops[i].seq
<1>1. Tables(v.stage, ledger, v.peak) /\ p \in [Served -> Nat]
  BY RunnerSheet
<1>2. i \in DOMAIN ops /\ step \in Nat /\ \A x \in s : x[1] # step
  BY BeforeDecision
<1>3. t \in Served
  BY <1>2, RequestFacts
<1>4. book.settled \in Nat /\ book.settled <= p[t]
  BY DecidedBook
<1>5. Tables(st, b, p) /\ st[i] = k /\ b[t] = book
  <2>1. st = [j \in DOMAIN ops |-> st[j]] /\ st[i] = k
    BY <1>1, <1>2 DEF Tables
  <2>2. b = [u \in Served |-> b[u]] /\ b[t] = book
    BY <1>1, <1>3 DEF Tables
  <2>3. p = [u \in Served |-> p[u]]
    BY <1>1
  <2> QED BY <2>1, <2>2, <2>3 DEF Tables
<1>6. [st EXCEPT ![i] = StageAfter[event]] = [v.stage EXCEPT ![i] = StageAfter[event]]
  BY <1>1, <1>2 DEF Tables
<1>7. step = IF event \in {"dispatch_claim", "dispatch_delivered"} THEN ops[i].seq ELSE Due(i)
  OBVIOUS
<1>8. k = StageBefore(event, ops[i]) /\ i \in a /\ OutcomeInBounds(ops[i], fixture[i])
  OBVIOUS
<1> HIDE DEF k, st, b, a, s, p, step, book, i
<1>9. Passes(Sheet(step, st, b, a, s, p), LifecycleRow(event, i, step, TRUE, event, book),
             Sheet(step, [st EXCEPT ![i] = StageAfter[event]], b, a, s, p))
  BY <1>1, <1>2, <1>4, <1>5, <1>7, <1>8, QuietRow
<1> QED BY <1>6, <1>9 DEF AdmissionSheet, Decision, k, st, b, a, s, p, step, book, i

\* A delivery is dispatched, and its two entries fit the access log.
LEMMA DeliveryKeeps ==
  ASSUME Listed(rows), Listed(access), VerifyFeedbackAccessLog, ops' = ops, NEW i \in DOMAIN ops,
         NEW x, NEW y, NEW z, x.event # "dispatch_delivered", y.event # "dispatch_delivered",
         z.event = "dispatch_delivered", z.req = i,
         rows' = Append(Append(Append(rows, x), y), z),
         access' = access \o Issued(i, Len(rows) + 3)
  PROVE  /\ Listed(rows') /\ Listed(access') /\ VerifyFeedbackAccessLog'
         /\ Dispatched' = Dispatched \cup {i}
<1> DEFINE R == Append(Append(rows, x), y)
           n == Len(rows)
           last == n + 3
           old == {k \in DOMAIN rows : rows[k].event = "dispatch_delivered"}
           all == {k \in DOMAIN rows' : rows'[k].event = "dispatch_delivered"}
<1>1. /\ Listed(R) /\ Quiet(R, rows) /\ Len(R) = n + 2
      /\ n \in Nat /\ DOMAIN rows = 1 .. n
  <2>1. Listed(Append(rows, x)) /\ Len(Append(rows, x)) = n + 1 /\ n \in Nat /\ DOMAIN rows = 1 .. n
    BY OneMoreRow DEF Listed
  <2>2. Quiet(Append(rows, x), rows)
    BY QuietSelf, QuietAppend
  <2> DEFINE Q == Append(rows, x)
  <2> HIDE DEF Q
  <2>3. Listed(Append(Q, y)) /\ Len(Append(Q, y)) = Len(Q) + 1
    BY <2>1, OneMoreRow DEF Q
  <2>4. Quiet(Append(Q, y), rows)
    BY <2>1, <2>2, QuietAppend DEF Q
  <2> QED BY <2>1, <2>3, <2>4 DEF Q
<1> HIDE DEF R
<1>2. /\ Listed(rows') /\ DOMAIN R = 1 .. n + 2 /\ DOMAIN rows' = 1 .. last
      /\ \A k \in 1 .. n + 2 : rows'[k] = R[k]
      /\ rows'[last] = z
  <2>1. rows' = Append(R, z)
    BY DEF R
  <2>2. /\ Listed(Append(R, z)) /\ DOMAIN R = 1 .. Len(R) /\ DOMAIN Append(R, z) = 1 .. Len(R) + 1
        /\ \A k \in 1 .. Len(R) : Append(R, z)[k] = R[k]
        /\ Append(R, z)[Len(R) + 1] = z
    BY <1>1, OneMoreRow
  <2>3. Len(R) + 1 = last
    BY <1>1
  <2> QED BY <1>1, <2>1, <2>2, <2>3
<1>3. all = old \cup {last} /\ last \notin old /\ old \subseteq 1 .. n /\ \A k \in old : rows'[k] = rows[k]
  <2>1. 1 .. last = (1 .. n + 2) \cup {last}
    BY <1>1
  <2>2. \A k \in 1 .. n : k \in 1 .. n + 2 /\ rows'[k] = rows[k] /\ k # last
    BY <1>1, <1>2 DEF Quiet
  <2>3. \A k \in 1 .. n + 2 : k \notin 1 .. n => rows'[k].event # "dispatch_delivered"
    BY <1>1, <1>2 DEF Quiet
  <2>4. rows'[last].event = "dispatch_delivered"
    BY <1>2
  <2>5. ASSUME NEW k \in all PROVE k \in old \cup {last}
    <3>1. k \in 1 .. last /\ rows'[k].event = "dispatch_delivered"
      BY <1>2
    <3>2. CASE k = last
      BY <3>2
    <3>3. CASE k \in 1 .. n + 2
      BY <1>1, <2>2, <2>3, <3>1, <3>3
    <3> QED BY <2>1, <3>1, <3>2, <3>3
  <2>6. ASSUME NEW k \in old PROVE k \in all /\ k # last /\ k \in 1 .. n /\ rows'[k] = rows[k]
    BY <1>1, <1>2, <2>1, <2>2
  <2>7. last \in all
    BY <1>2, <2>1, <2>4
  <2> HIDE DEF all, old, last
  <2> QED BY <2>5, <2>6, <2>7
<1>4. Dispatched' = Dispatched \cup {i}
  <2>1. Dispatched = {j \in DOMAIN ops : \E k \in old : rows[k].req = j}
    BY DEF Dispatched
  <2>2. Dispatched' = {j \in DOMAIN ops : \E k \in all : rows'[k].req = j}
    BY DEF Dispatched
  <2> HIDE DEF old, all, last
  <2> QED BY <1>2, <1>3, <2>1, <2>2, ZenonT(90)
<1> DEFINE Entry(kind, req, k) == [kind |-> kind, req |-> req, row |-> k]
           A == Append(access, Entry("authorize", i, last))
<1>5. access' = Append(A, Entry("issue", i, last))
  <2>1. Issued(i, last) = <<Entry("authorize", i, last), Entry("issue", i, last)>>
    BY DEF Issued
  <2>2. access' = access \o Issued(i, last)
    OBVIOUS
  <2> DEFINE e1 == Entry("authorize", i, last)
             e2 == Entry("issue", i, last)
  <2> HIDE DEF Entry, last, e1, e2
  <2>3. access \o <<e1, e2>> = Append(Append(access, e1), e2)
    BY Appends
  <2> QED BY <2>1, <2>2, <2>3 DEF e1, e2
<1> HIDE DEF Entry, last
<1> DEFINE m == Len(access)
<1>6. /\ Listed(access') /\ Len(access') = m + 2 /\ m \in Nat
      /\ \A k \in 1 .. m : access'[k] = access[k]
      /\ access'[m + 1] = Entry("authorize", i, last)
      /\ access'[m + 2] = Entry("issue", i, last)
  <2>1. /\ Listed(A) /\ Len(A) = m + 1 /\ m \in Nat /\ A[m + 1] = Entry("authorize", i, last)
        /\ \A k \in 1 .. m : A[k] = access[k]
    BY OneMoreRow, SMTT(60) DEF Listed
  <2> HIDE DEF A
  <2>2. /\ Listed(access') /\ Len(access') = Len(A) + 1
        /\ \A k \in 1 .. Len(A) : access'[k] = A[k]
        /\ access'[Len(A) + 1] = Entry("issue", i, last)
    <3> DEFINE e == Entry("issue", i, last)
    <3> HIDE DEF e
    <3>1. /\ Listed(Append(A, e)) /\ Len(Append(A, e)) = Len(A) + 1
          /\ \A k \in 1 .. Len(A) : Append(A, e)[k] = A[k]
          /\ Append(A, e)[Len(A) + 1] = e
      BY <2>1, OneMoreRow
    <3>2. access' = Append(A, e)
      BY <1>5 DEF e
    <3> QED BY <3>1, <3>2 DEF e
  <2>3. (m + 1) + 1 = m + 2 /\ m + 1 \in 1 .. m + 1 /\ \A k \in 1 .. m : k \in 1 .. m + 1
    BY <2>1
  <2> QED BY <2>1, <2>2, <2>3
<1> HIDE DEF m
<1> DEFINE Upto(d, k) == Cardinality({j \in d : j <= k})
           Fits(log, d, k, req) == /\ log[2 * Upto(d, k) - 1] = Entry("authorize", req, k)
                                   /\ log[2 * Upto(d, k)] = Entry("issue", req, k)
<1>7. m = 2 * Cardinality(old) /\ \A k \in old : Fits(access, old, k, rows[k].req)
  BY DEF VerifyFeedbackAccessLog, Entry, m
<1>8. IsFiniteSet(old) /\ Cardinality(old) \in Nat
  <2>1. IsFiniteSet(1 .. n)
    BY <1>1, FS_Interval
  <2> HIDE DEF old
  <2> QED BY <1>3, <2>1, FS_Subset, FS_CardinalityType
<1> HIDE DEF old, all
<1>9. Cardinality(all) = Cardinality(old) + 1
  BY <1>3, <1>8, FS_AddElement
<1>10. ASSUME NEW k \in old PROVE Fits(access', all, k, rows'[k].req)
  <2> DEFINE B == {j \in old : j <= k}
  <2>1. {j \in all : j <= k} = B
    BY <1>1, <1>3 DEF last
  <2>2. Upto(all, k) = Cardinality(B) /\ Upto(old, k) = Cardinality(B)
    BY <2>1
  <2>3. B \subseteq old /\ k \in B
    BY <1>3
  <2> HIDE DEF B
  <2>4. IsFiniteSet(B) /\ Cardinality(B) \in Nat /\ Cardinality(B) <= Cardinality(old)
    BY <1>8, <2>3, FS_Subset, FS_CardinalityType
  <2>5. Cardinality(B) # 0
    BY <2>3, <2>4, FS_EmptySet
  <2> DEFINE c == Cardinality(B)
  <2>6. 2 * c - 1 \in 1 .. m /\ 2 * c \in 1 .. m
    <3> HIDE DEF c
    <3>1. c \in Nat /\ c # 0 /\ c <= Cardinality(old)
      BY <2>4, <2>5 DEF c
    <3> QED BY <1>7, <1>8, <3>1
  <2>7. access[2 * c - 1] = Entry("authorize", rows[k].req, k) /\ access[2 * c] = Entry("issue", rows[k].req, k)
    BY <1>7, <2>2
  <2>8. rows'[k].req = rows[k].req
    BY <1>3
  <2> HIDE DEF c, Upto
  <2> QED BY <1>6, <2>2, <2>6, <2>7, <2>8 DEF c
<1>11. Fits(access', all, last, rows'[last].req)
  <2>1. {j \in all : j <= last} = all
    <3>1. last \in Nat /\ last = n + 3
      BY <1>1 DEF last
    <3>2. \A j \in old : j <= last
      BY <1>1, <1>3, <3>1
    <3>3. last <= last
      BY <3>1
    <3>4. all = old \cup {last}
      BY <1>3
    <3> HIDE DEF n
    <3>5. \A j \in all : j <= last
      BY <3>2, <3>3, <3>4
    <3> QED BY <3>5
  <2>2. Upto(all, last) = Cardinality(old) + 1
    BY <1>9, <2>1
  <2>3. 2 * (Cardinality(old) + 1) - 1 = m + 1 /\ 2 * (Cardinality(old) + 1) = m + 2
    BY <1>7, <1>8
  <2>4. rows'[last].req = i
    BY <1>2 DEF last
  <2> HIDE DEF Upto
  <2> QED BY <1>6, <2>2, <2>3, <2>4
<1>12. \A k \in all : Fits(access', all, k, rows'[k].req)
  <2> HIDE DEF Fits
  <2> QED BY <1>3, <1>10, <1>11
<1>13. Len(access') = 2 * Cardinality(all)
  BY <1>6, <1>7, <1>8, <1>9
<1>14. VerifyFeedbackAccessLog'
  BY <1>12, <1>13 DEF VerifyFeedbackAccessLog, all, Entry
<1> QED BY <1>2, <1>4, <1>6, <1>14

\* A decision: what it makes of the recount and of the state.
LEMMA DecisionKeeps ==
  ASSUME TraceInv, phase = "flush", NoneDue, NEW v, NEW bad, Counts(rows, v, bad), Recounts(v, bad),
         UNCHANGED <<setting, ops, fixture, cursor, paidFor>>, NEW admitted \in BOOLEAN,
         ledger' = [ledger EXCEPT ![ops[cursor].tenant] = AdmittedBook(cursor, admitted)],
         pending' = IF admitted THEN pending \cup {cursor} ELSE pending,
         Dispatched' = IF admitted THEN Dispatched \cup {cursor} ELSE Dispatched,
         admitted => OutcomeInBounds(ops[cursor], fixture[cursor]),
         phase' \in {"settle", "snapshot"},
         Listed(rows'), Listed(access'), VerifyFeedbackAccessLog',
         Counts(rows', AdmissionSheet(v, cursor, admitted, IF admitted THEN 3 ELSE 1,
                                      AdmittedBook(cursor, admitted)), bad)
  PROVE  TraceInv'
<1> DEFINE i == cursor
           t == ops[i].tenant
           book == AdmittedBook(i, admitted)
           D == IF admitted THEN Dispatched \cup {i} ELSE Dispatched
           W == IF admitted THEN pending \cup {i} ELSE pending
           C == Decided \cup {i}
           w == AdmissionSheet(v, i, admitted, IF admitted THEN 3 ELSE 1, book)
<1>1. Given /\ RunnerState
  BY DEF TraceInv, Running
<1>2. /\ i \in DOMAIN ops /\ i \notin Decided /\ i \notin Dispatched /\ i \notin pending
      /\ ops[i].seq \in Nat
      /\ \A j \in Shot : ops[j].seq < ops[i].seq
  BY <1>1, BeforeDecision
<1>3. Dispatched \subseteq DOMAIN ops /\ pending \subseteq Dispatched /\ Dispatched \subseteq Decided
  BY <1>1 DEF RunnerState, Dispatched
<1>4. Decided' = C /\ Shot' = Shot
  <2>1. i \in Nat
    BY <1>1 DEF RunnerState
  <2> QED BY <1>2, <2>1 DEF Decided, Shot
<1>5. ledger' = [u \in Served |-> BookOf(u, D, W)] /\ D \ W = Dispatched \ pending
  BY <1>1, DecidedBook
<1>6. \A j \in pending : ops[i].seq <= Due(j) /\ Due(j) \in Nat
  <2>1. \A j \in pending : Due(j) \in Nat
    BY <1>1, <1>3, RequestFacts
  <2> QED BY <1>2, <2>1 DEF NoneDue
<1>7. Due(i) \in Nat /\ ops[i].seq <= Due(i)
  BY <1>1, <1>2, RequestFacts
<1>8. W \subseteq pending \cup {i} /\ D \subseteq Dispatched \cup {i}
  OBVIOUS
<1>9. RunnerIn(D, W, C, Shot)
  <2>1. W \subseteq D /\ D \subseteq C
    BY <1>3
  <2>2. \A j \in Shot : ops[j].seq \in Nat
    BY <1>1, RequestFacts DEF Shot
  <2>3. \A j \in pending, k \in Shot : ops[k].seq < Due(j)
    BY <1>1 DEF RunnerState
  <2>4. \A k \in Shot : ops[k].seq < Due(i)
    BY <1>2, <1>7, <2>2
  <2>5. \A j \in Dispatched : OutcomeInBounds(ops[j], fixture[j])
    BY <1>1 DEF RunnerState
  <2>6. \A j \in D : OutcomeInBounds(ops[j], fixture[j])
    BY <2>5
  <2>7. \A j \in W, k \in Shot : ops[k].seq < Due(j)
    BY <1>8, <2>3, <2>4
  <2> HIDE DEF D, W, C
  <2> QED BY <2>1, <2>6, <2>7 DEF RunnerIn
<1>10. RecountedAs(w, bad, D, W, C, Shot, ledger') /\ w.last = ops[i].seq
  <2>1. /\ v.stage = [j \in DOMAIN ops |-> StageOf(j, Decided, Dispatched, pending)]
        /\ v.shots = {ops[j].seq : j \in Shot} \X Served
    BY <1>1, RunnerSheet
  <2> DEFINE k == IF admitted THEN 3 ELSE 1
  <2>2. [v.stage EXCEPT ![i] = k] = [j \in DOMAIN ops |-> StageOf(j, C, D, W)]
    <3>1. StageOf(i, C, D, W) = k
      BY <1>2 DEF StageOf
    <3>2. \A j \in DOMAIN ops : j # i => StageOf(j, C, D, W) = StageOf(j, Decided, Dispatched, pending)
      BY DEF StageOf
    <3> HIDE DEF k, C, D, W
    <3> QED BY <1>2, <2>1, <3>1, <3>2
  <2>3. w = Sheet(ops[i].seq, [j \in DOMAIN ops |-> StageOf(j, C, D, W)], ledger', W,
                  {ops[j].seq : j \in Shot} \X Served, v.peak)
    <3> HIDE DEF C
    <3> QED BY <2>1, <2>2, Zenon DEF AdmissionSheet
  <2>4. w.last = ops[i].seq /\ w.peak = v.peak
    BY <2>3 DEF Sheet
  <2>5. PeakBetween(v.peak, D, W)
    <3>1. PeakBetween(v.peak, Dispatched, pending)
      BY DEF Recounts
    <3>2. PeakBetween(v.peak, Dispatched \cup {i}, pending \cup {i})
      BY <1>1, <1>2, <1>3, <3>1, PeakDispatched
    <3> QED BY <3>1, <3>2
  <2>6. \A j \in W : ops[i].seq <= Due(j)
    BY <1>6, <1>7, <1>8
  <2>7. bad = DisputedOf(D \ W)
    BY <1>5 DEF Recounts
  <2> HIDE DEF w, D, W, C
  <2> QED BY <1>2, <2>3, <2>4, <2>5, <2>6, <2>7 DEF RecountedAs
<1>11. paidFor' \in [DOMAIN ops -> Int] /\ \A j \in DOMAIN ops : j \in W \/ j \notin C => paidFor'[j] = Unpaid
  <2>1. /\ paidFor \in [DOMAIN ops -> Int]
        /\ \A j \in DOMAIN ops : j \in pending \/ j \notin Decided => paidFor[j] = Unpaid
    BY <1>1 DEF RunnerState
  <2> QED BY <1>2, <1>8, <2>1
<1>12. cursor' \in Nat \ {0} /\ cursor' \in DOMAIN ops /\ phase' # "final"
  BY <1>1, <1>2 DEF RunnerState
<1>13. w.last <= ops[cursor'].seq
  BY <1>2, <1>10
<1>14. Dispatched' = D /\ pending' = W /\ Counts(rows', w, bad)
  OBVIOUS
<1>15. phase' \in {"flush", "settle", "snapshot", "final"}
  OBVIOUS
<1> HIDE DEF D, W, C, w, book, i
<1> QED BY <1>1, <1>4, <1>5, <1>9, <1>10, <1>11, <1>12, <1>13, <1>14, <1>15, InvariantLater

\* The opportunity under the cursor.
LEMMA AdmitKeeps ==
  ASSUME TraceInv, Admit
  PROVE  TraceInv'
<1> DEFINE i == cursor
           t == ops[i].tenant
           admitted == Admits(setting.method, Reserved(i), ops[i], ledger[t])
           book == AdmittedBook(i, admitted)
           r1 == Decision("admission", i, admitted)
           r2 == Decision("dispatch_claim", i, admitted)
           r3 == Decision("dispatch_delivered", i, admitted)
<1>1. phase = "flush" /\ NoneDue
  BY DEF Admit
<1>2. Given /\ Listed(rows) /\ Listed(access) /\ VerifyFeedbackAccessLog /\ RunnerState
  BY <1>1 DEF TraceInv, Running
<1>3. PICK v, bad : Counts(rows, v, bad) /\ Recounts(v, bad)
  BY <1>1 DEF TraceInv, Running
<1>4. /\ UNCHANGED <<setting, ops, fixture, cursor, paidFor>>
      /\ ledger' = [ledger EXCEPT ![t] = book]
      /\ admitted => /\ rows' = rows \o <<r1, r2, r3>>
                     /\ access' = access \o Issued(i, Len(rows) + 3)
                     /\ pending' = pending \cup {i}
                     /\ phase' = IF OutcomeInBounds(ops[i], fixture[i]) THEN "settle" ELSE "aborted"
      /\ ~admitted => /\ rows' = Append(rows, r1)
                      /\ phase' = IF Reserving(setting.method) THEN "settle" ELSE "snapshot"
                      /\ pending' = pending /\ access' = access
  BY DEF Admit, Decision, AdmittedBook
<1>5. i \in DOMAIN ops /\ admitted \in BOOLEAN
  BY <1>1, <1>2, <1>3, BeforeDecision
<1>6. /\ r1.event = "admission" /\ r2.event = "dispatch_claim" /\ r3.event = "dispatch_delivered" /\ r3.req = i
      /\ r1.event # "dispatch_delivered" /\ r2.event # "dispatch_delivered"
  BY DEF Decision, LifecycleRow
<1>7. (admitted => OutcomeInBounds(ops[i], fixture[i])) =>
        Passes(v, r1, AdmissionSheet(v, i, admitted, 1, book))
  BY <1>1, <1>2, <1>3, AdmissionRow
<1> HIDE DEF r1, book
<1>8. ASSUME ~admitted PROVE TraceInv'
  <2>1. rows' = Append(rows, r1) /\ pending' = pending /\ access' = access /\ phase' \in {"settle", "snapshot"}
    BY <1>4, <1>8
  <2>2. Passes(v, r1, AdmissionSheet(v, i, admitted, 1, book))
    BY <1>7, <1>8
  <2> DEFINE w == AdmissionSheet(v, i, admitted, 1, book)
  <2> HIDE DEF w
  <2>3. Listed(rows') /\ Counts(rows', w, bad)
    BY <1>2, <1>3, <2>1, <2>2, CountPassed DEF w
  <2>4. Quiet(rows', rows)
    BY <1>2, <1>6, <2>1, QuietSelf, QuietAppend
  <2>5. Dispatched' = Dispatched /\ VerifyFeedbackAccessLog'
    BY <1>2, <1>4, <2>1, <2>4, QuietKeeps
  <2>6. Listed(access')
    BY <1>2, <2>1
  <2>7. Counts(rows', AdmissionSheet(v, i, admitted, IF admitted THEN 3 ELSE 1, book), bad)
    BY <1>8, <2>3 DEF w
  <2>8. /\ pending' = (IF admitted THEN pending \cup {i} ELSE pending)
        /\ Dispatched' = (IF admitted THEN Dispatched \cup {i} ELSE Dispatched)
        /\ (admitted => OutcomeInBounds(ops[i], fixture[i]))
    BY <1>8, <2>1, <2>5
  <2> DEFINE a == admitted
  <2>9. /\ a \in BOOLEAN /\ ledger' = [ledger EXCEPT ![ops[cursor].tenant] = AdmittedBook(cursor, a)]
        /\ pending' = (IF a THEN pending \cup {cursor} ELSE pending)
        /\ Dispatched' = (IF a THEN Dispatched \cup {cursor} ELSE Dispatched)
        /\ (a => OutcomeInBounds(ops[cursor], fixture[cursor]))
        /\ Counts(rows', AdmissionSheet(v, cursor, a, IF a THEN 3 ELSE 1, AdmittedBook(cursor, a)), bad)
    BY <1>4, <1>5, <2>7, <2>8 DEF book
  <2> HIDE DEF a
  <2> QED BY <1>1, <1>3, <1>4, <2>1, <2>3, <2>5, <2>6, <2>9, DecisionKeeps
<1>9. ASSUME admitted PROVE /\ rows' = Append(Append(Append(rows, r1), r2), r3) /\ Listed(rows') /\ Listed(access')
                            /\ VerifyFeedbackAccessLog' /\ Dispatched' = Dispatched \cup {i}
  <2>1. rows' = rows \o <<r1, r2, r3>> /\ access' = access \o Issued(i, Len(rows) + 3) /\ ops' = ops
    BY <1>4, <1>9
  <2> HIDE DEF r2, r3, i
  <2>2. rows' = Append(Append(Append(rows, r1), r2), r3)
    BY <1>2, <2>1, Appends
  <2> QED BY <1>2, <1>5, <1>6, <2>1, <2>2, DeliveryKeeps
<1>10. ASSUME admitted, OutcomeInBounds(ops[i], fixture[i]) PROVE TraceInv'
  <2>1. admitted = TRUE
    BY <1>5, <1>10
  <2> DEFINE Sh(k) == AdmissionSheet(v, i, TRUE, k, AdmittedBook(i, TRUE))
             q1 == Decision("admission", i, TRUE)
             q2 == Decision("dispatch_claim", i, TRUE)
             q3 == Decision("dispatch_delivered", i, TRUE)
  <2>2. r1 = q1 /\ r2 = q2 /\ r3 = q3 /\ book = AdmittedBook(i, TRUE)
    BY <2>1 DEF r1, book
  <2>3. Passes(v, q1, Sh(1))
    BY <1>7, <1>10, <2>1, <2>2
  <2>4. Passes(Sh(1), q2, Sh(2))
    BY <1>1, <1>2, <1>3, <1>10, StageFacts, DispatchRow
  <2>5. Passes(Sh(2), q3, Sh(3))
    BY <1>1, <1>2, <1>3, <1>10, StageFacts, DispatchRow
  <2> HIDE DEF Sh, q1, q2, q3
  <2>6. Listed(Append(rows, q1)) /\ Counts(Append(rows, q1), Sh(1), bad)
    BY <1>2, <1>3, <2>3, CountPassed
  <2> DEFINE R1 == Append(rows, q1)
             R2 == Append(R1, q2)
  <2> HIDE DEF R1
  <2>7. Listed(R2) /\ Counts(R2, Sh(2), bad)
    BY <2>4, <2>6, CountPassed DEF R1
  <2> HIDE DEF R2
  <2>8. Counts(Append(R2, q3), Sh(3), bad)
    BY <2>5, <2>7, CountPassed
  <2>9. Counts(rows', Sh(3), bad)
    BY <1>9, <1>10, <2>2, <2>8 DEF R1, R2
  <2>10. /\ ledger' = [ledger EXCEPT ![ops[cursor].tenant] = AdmittedBook(cursor, TRUE)]
         /\ pending' = (IF TRUE THEN pending \cup {cursor} ELSE pending)
         /\ Dispatched' = (IF TRUE THEN Dispatched \cup {cursor} ELSE Dispatched)
         /\ (TRUE => OutcomeInBounds(ops[cursor], fixture[cursor]))
         /\ phase' = "settle"
    BY <1>4, <1>9, <1>10, <2>2
  <2>11. Counts(rows', AdmissionSheet(v, cursor, TRUE, IF TRUE THEN 3 ELSE 1, AdmittedBook(cursor, TRUE)), bad)
    BY <2>9 DEF Sh
  <2> DEFINE a == TRUE
  <2>12. /\ a \in BOOLEAN /\ ledger' = [ledger EXCEPT ![ops[cursor].tenant] = AdmittedBook(cursor, a)]
         /\ pending' = (IF a THEN pending \cup {cursor} ELSE pending)
         /\ Dispatched' = (IF a THEN Dispatched \cup {cursor} ELSE Dispatched)
         /\ (a => OutcomeInBounds(ops[cursor], fixture[cursor]))
         /\ phase' \in {"settle", "snapshot"}
         /\ Counts(rows', AdmissionSheet(v, cursor, a, IF a THEN 3 ELSE 1, AdmittedBook(cursor, a)), bad)
    BY <2>10, <2>11
  <2>13. Listed(rows') /\ Listed(access') /\ VerifyFeedbackAccessLog'
    BY <1>9, <1>10
  <2> HIDE DEF a
  <2> QED BY <1>1, <1>3, <1>4, <2>12, <2>13, DecisionKeeps
<1>11. ASSUME admitted, ~OutcomeInBounds(ops[i], fixture[i]) PROVE TraceInv'
  <2>1. /\ phase' = "aborted" /\ Listed(rows)' /\ Listed(access)' /\ VerifyFeedbackAccessLog'
        /\ i \in Dispatched' /\ UNCHANGED <<ops, fixture>>
    BY <1>4, <1>9, <1>11 DEF Listed
  <2>2. Given'
    BY <1>2, <1>4, GivenSteady
  <2>3. RunnerAndVerifierAgree'
    <3>1. ~OutcomeInBounds(ops'[i], fixture'[i])
      BY <1>11, <2>1
    <3> HIDE DEF i
    <3> QED BY <2>1, <3>1 DEF RunnerAndVerifierAgree
  <2>4. PeakLatentIsSpend'
    BY <2>1 DEF PeakLatentIsSpend
  <2>5. ~Running'
    BY <2>1 DEF Running
  <2> QED BY <2>1, <2>2, <2>3, <2>4, <2>5 DEF TraceInv
<1> QED BY <1>8, <1>10, <1>11

-----------------------------------------------------------------------------
(* The trace: snapshots *)

\* f[n] is the rows with the snapshots of the first n tenants.
ShotsFrom(f, k) ==
    f = [n \in 0 .. k |->
           IF n = 0 THEN rows
           ELSE IF Tenants[n] \in DOMAIN ledger THEN Append(f[n - 1], Snapshot(Tenants[n])) ELSE f[n - 1]]

\* The rows after each tenant of the order exist, as a function of its place.
LEMMA ShotsExist == ASSUME NEW K \in Nat PROVE \E f : ShotsFrom(f, K)
<1> DEFINE G == {k \in Nat : \E f : ShotsFrom(f, k)}
           Step(x, n) == IF Tenants[n] \in DOMAIN ledger THEN Append(x, Snapshot(Tenants[n])) ELSE x
<1>1. 0 \in G
  <2> DEFINE g == [n \in 0 .. 0 |-> rows]
  <2>1. g = [n \in 0 .. 0 |-> IF n = 0 THEN rows ELSE Step(g[n - 1], n)]
    OBVIOUS
  <2> HIDE DEF g
  <2>2. ShotsFrom(g, 0)
    BY <2>1 DEF ShotsFrom
  <2> QED BY <2>2
<1>2. ASSUME NEW k \in 1 .. K, k - 1 \in G PROVE k \in G
  <2>1. PICK f : ShotsFrom(f, k - 1)
    BY <1>2
  <2>2. k \in Nat /\ k # 0 /\ k - 1 \in 0 .. k - 1
    OBVIOUS
  <2>3. \A n \in 0 .. k - 1 : f[n] = IF n = 0 THEN rows ELSE Step(f[n - 1], n)
    BY <2>1 DEF ShotsFrom
  <2> HIDE DEF Step
  <2> DEFINE g == [n \in 0 .. k |-> IF n = k THEN Step(f[k - 1], k) ELSE f[n]]
  <2>4. \A n \in 0 .. k - 1 : g[n] = f[n]
    BY <2>2
  <2>5. g[k] = Step(f[k - 1], k)
    BY <2>2
  <2>6. \A n \in 0 .. k : g[n] = IF n = 0 THEN rows ELSE Step(g[n - 1], n)
    <3> TAKE n \in 0 .. k
    <3>1. CASE n = k
      BY <2>2, <2>4, <2>5, <3>1
    <3>2. CASE n # k
      <4>1. n \in 0 .. k - 1 /\ (n # 0 => n - 1 \in 0 .. k - 1)
        BY <2>2, <3>2
      <4> HIDE DEF g
      <4> QED BY <2>3, <2>4, <4>1
    <3> QED BY <3>1, <3>2
  <2>7. g = [n \in 0 .. k |-> g[n]]
    OBVIOUS
  <2> HIDE DEF g
  <2>8. g = [n \in 0 .. k |-> IF n = 0 THEN rows ELSE Step(g[n - 1], n)]
    BY <2>6, <2>7
  <2>9. ShotsFrom(g, k)
    BY <2>8 DEF ShotsFrom, Step
  <2> QED BY <2>2, <2>9
<1> HIDE DEF G
<1>3. 0 .. K \subseteq G
  BY <1>1, <1>2, UpTo
<1>4. K \in G
  BY <1>3
<1> QED BY <1>4 DEF G

\* The rows with all the snapshots.
LEMMA AllShots ==
  ASSUME Len(Tenants) \in Nat
  PROVE  \E f : ShotsFrom(f, Len(Tenants)) /\ WithSnapshots = f[Len(Tenants)]
<1> DEFINE f == CHOOSE f : ShotsFrom(f, Len(Tenants))
<1>1. ShotsFrom(f, Len(Tenants))
  BY ShotsExist
<1>2. WithSnapshots = f[Len(Tenants)]
  BY DEF WithSnapshots, ShotsFrom
<1> QED BY <1>1, <1>2

\* The tenants served among the first n.
Taken(n) == {Tenants[m] : m \in {k \in 1 .. n : Tenants[k] \in Served}}

\* The recount in the middle of the snapshots of an opportunity.
ShotSheet(v, n, p) ==
    Sheet(IF Taken(n) = {} THEN v.last ELSE ops[cursor].seq, v.stage, ledger, pending,
          v.shots \cup ({ops[cursor].seq} \X Taken(n)), p)

\* The order of the tenants.
LEMMA TenantOrder ==
  /\ Len(Tenants) \in Nat /\ DOMAIN Tenants = 1 .. Len(Tenants)
  /\ \A n \in DOMAIN Tenants : (CHOOSE k \in DOMAIN Tenants : Tenants[k] = Tenants[n]) = n
  /\ \A t \in ToSet(Tenants) : \E n \in DOMAIN Tenants : t = Tenants[n]
<1>1. Len(Tenants) \in Nat /\ DOMAIN Tenants = 1 .. Len(Tenants)
  BY TraceAssumption
<1>2. \A m, n \in DOMAIN Tenants : Tenants[m] = Tenants[n] => m = n
  BY TraceAssumption
<1>3. \A n \in DOMAIN Tenants : (CHOOSE k \in DOMAIN Tenants : Tenants[k] = Tenants[n]) = n
  BY <1>2
<1>4. \A t \in ToSet(Tenants) : \E n \in DOMAIN Tenants : t = Tenants[n]
  BY DEF ToSet
<1> QED BY <1>1, <1>3, <1>4

\* The snapshot of a tenant agrees when those of the tenants before it are there.
LEMMA SnapshotRow ==
  ASSUME Given, RunnerState, phase \in {"settle", "snapshot"}, NEW v, NEW bad, Recounts(v, bad),
         NEW n \in DOMAIN Tenants, Tenants[n] \in Served,
         NEW p, PeakBetween(p, Dispatched, pending)
  PROVE  \E q : /\ Passes(ShotSheet(v, n - 1, p), Snapshot(Tenants[n]), ShotSheet(v, n, q))
                /\ PeakBetween(q, Dispatched, pending)
<1> DEFINE t == Tenants[n]
           step == ops[cursor].seq
           row == Snapshot(t)
           active == {i \in pending : ops[i].tenant = t}
           l == IF Taken(n - 1) = {} THEN v.last ELSE step
           s == v.shots \cup ({step} \X Taken(n - 1))
           w == Sheet(l, v.stage, ledger, pending, s, p)
           x == ledger[t].settled + SumOver(costs, OfTenant(pending, t))
           q == Higher(p, t, x)
<1>1. /\ v.shots = {ops[j].seq : j \in Shot} \X Served /\ v.last \in Nat
      /\ \A u \in Served : ledger[u] = BookOf(u, Dispatched, pending)
      /\ Dispatched \subseteq DOMAIN ops /\ pending \subseteq DOMAIN ops
      /\ DOMAIN ledger = Served
  BY RunnerSheet DEF RunnerState
<1>2. /\ cursor \in DOMAIN ops /\ v.last <= step
      /\ pending \subseteq Dispatched
  BY DEF RunnerState, Recounts
<1>3. step \in Nat /\ \A j \in Shot : ops[j].seq \in Nat /\ ops[j].seq # step
  <2>1. \A j \in Shot : j \in DOMAIN ops /\ j < cursor
    BY DEF Shot
  <2>2. \A j \in Shot : ops[j].seq < step
    BY <1>2, <2>1, StepsGrow
  <2>3. step \in Nat /\ \A j \in Shot : ops[j].seq \in Nat
    BY <1>2, <2>1, RequestFacts
  <2> QED BY <2>2, <2>3
<1>4. /\ row.event = "snapshot" /\ row.tenant = t /\ row.step = step /\ row.book = ledger[t]
      /\ row.reserved = SumOver([i \in active |-> Reserved(i)], active)
      /\ row.actual = SumOver([i \in active |-> Cost(i)], active)
  BY DEF Snapshot
<1> HIDE DEF row
<1>5. n \in Nat \ {0} /\ n - 1 \in Nat /\ DOMAIN Tenants = 1 .. Len(Tenants) /\ Len(Tenants) \in Nat
  BY TenantOrder
<1>6. Taken(n) = Taken(n - 1) \cup {t} /\ Taken(n) # {}
  <2>1. 1 .. n = (1 .. n - 1) \cup {n}
    BY <1>5
  <2> QED BY <2>1 DEF Taken
<1>7. /\ w.last = l /\ w.book = ledger /\ w.active = pending /\ w.shots = s
      /\ w = ShotSheet(v, n - 1, p)
  BY DEF Sheet, ShotSheet
<1>8. row.step >= w.last
  BY <1>1, <1>2, <1>3, <1>4, <1>7
<1>9. {y \in s : y[1] = step} =
        {<<step, Tenants[m]>> : m \in {k \in DOMAIN Tenants : Tenants[k] \in Served /\ k < n}}
  <2>1. \A y \in v.shots : y[1] # step
    BY <1>1, <1>3
  <2>2. {y \in s : y[1] = step} = {step} \X Taken(n - 1)
    BY <2>1
  <2>3. {k \in 1 .. n - 1 : Tenants[k] \in Served} = {k \in DOMAIN Tenants : Tenants[k] \in Served /\ k < n}
    BY <1>5
  <2>4. {step} \X Taken(n - 1) = {<<step, Tenants[m]>> : m \in {k \in 1 .. n - 1 : Tenants[k] \in Served}}
    BY DEF Taken
  <2> QED BY <2>2, <2>3, <2>4
<1>10. SnapshotRecounts(w, row)
  <2>1. (CHOOSE k \in DOMAIN Tenants : Tenants[k] = t) = n
    BY TenantOrder
  <2>2. \E i \in DOMAIN ops : ops[i].seq = row.step
    BY <1>2, <1>4
  <2>3. {y \in w.shots : y[1] = row.step} =
           {<<row.step, Tenants[m]>> : m \in {k \in DOMAIN Tenants : Tenants[k] \in DOMAIN w.book
                                          /\ k < CHOOSE j \in DOMAIN Tenants : Tenants[j] = row.tenant}}
    <3>1. (CHOOSE j \in DOMAIN Tenants : Tenants[j] = row.tenant) = n
      BY <1>4, <2>1
    <3>2. DOMAIN w.book = Served /\ w.shots = s /\ row.step = step
      BY <1>1, <1>4, <1>7
    <3> HIDE DEF w, s, step
    <3> QED BY <1>9, <3>1, <3>2
  <2>4. row.book = w.book[row.tenant]
    BY <1>4, <1>7
  <2>5. {i \in w.active : ops[i].tenant = row.tenant} = active
    BY <1>4, <1>7
  <2> HIDE DEF w, active
  <2> QED BY <1>4, <2>2, <2>3, <2>4, <2>5 DEF SnapshotRecounts
<1>11. RowAgrees(w, row)
  <2> HIDE DEF w
  <2> QED BY <1>4, <1>8, <1>10 DEF RowAgrees
<1>12. x \in Nat /\ PeakBetween(q, Dispatched, pending)
  <2>1. x = BookOf(t, Dispatched, pending).settled + SumOver(costs, OfTenant(pending, t))
    BY <1>1
  <2> HIDE DEF x, t
  <2> QED BY <1>1, <1>2, <2>1, PeakShown DEF t
<1>13. Latent(row) = x
  <2> DEFINE spent == [i \in active |-> Cost(i)]
  <2>1. active = OfTenant(pending, t)
    BY DEF OfTenant
  <2>2. IsFiniteSet(active) /\ \A i \in active : costs[i] = spent[i]
    <3>1. IsFiniteSet(OfTenant(pending, t)) /\ \A i \in OfTenant(pending, t) : costs[i] = Cost(i)
      BY <1>1, TenantSums
    <3> QED BY <2>1, <3>1
  <2> HIDE DEF spent, active
  <2>3. SumOver(spent, active) = SumOver(costs, active)
    BY <2>2, SumEqual
  <2> QED BY <1>4, <2>1, <2>3 DEF Latent, spent
<1>14. VerifyRow(w, row) = Sheet(step, v.stage, ledger, pending, s \cup {<<step, t>>}, q)
  <2> DEFINE st == v.stage
  <2> HIDE DEF l, s, st
  <2>1. w = Sheet(l, st, ledger, pending, s, p)
    BY DEF st
  <2> HIDE DEF w
  <2>2. VerifyRow(w, row) = SnapshotSheet(row, st, ledger, pending, s, p)
    BY <1>4, <2>1, SnapshotEffect
  <2> QED BY <1>4, <1>13, <2>2 DEF st, SnapshotSheet
<1>15. s \cup {<<step, t>>} = v.shots \cup ({step} \X Taken(n))
  BY <1>6
<1>16. VerifyRow(w, row) = ShotSheet(v, n, q)
  <2> HIDE DEF w, s, q
  <2> QED BY <1>6, <1>14, <1>15 DEF ShotSheet
<1>17. Passes(ShotSheet(v, n - 1, p), row, ShotSheet(v, n, q))
  <2> HIDE DEF w, q
  <2> QED BY <1>7, <1>11, <1>16 DEF Passes
<1> HIDE DEF q
<1> QED BY <1>12, <1>17 DEF row

\* The snapshots of an opportunity agree one after the other.
ShotsPass(R, v, bad, n) ==
    /\ Listed(R) /\ Quiet(R, rows)
    /\ \E p : Counts(R, ShotSheet(v, n, p), bad) /\ PeakBetween(p, Dispatched, pending)

\* The rows with all snapshots of an opportunity.
LEMMA SnapshotRows ==
  ASSUME Given, RunnerState, phase \in {"settle", "snapshot"}, Listed(rows),
         NEW v, NEW bad, Counts(rows, v, bad), Recounts(v, bad)
  PROVE  ShotsPass(WithSnapshots, v, bad, Len(Tenants))
<1> DEFINE K == Len(Tenants)
<1>1. K \in Nat /\ DOMAIN Tenants = 1 .. K
  BY TenantOrder
<1>2. PICK f : ShotsFrom(f, K) /\ WithSnapshots = f[K]
  BY <1>1, AllShots
<1> HIDE DEF K
<1>3. \A n \in 0 .. K : f[n] = IF n = 0 THEN rows
                               ELSE IF Tenants[n] \in DOMAIN ledger THEN Append(f[n - 1], Snapshot(Tenants[n]))
                               ELSE f[n - 1]
  BY <1>2 DEF ShotsFrom
<1>4. DOMAIN ledger = Served
  BY DEF RunnerState
<1> DEFINE G == {n \in 0 .. K : ShotsPass(f[n], v, bad, n)}
<1>5. 0 \in G
  <2>1. Taken(0) = {}
    <3>1. 1 .. 0 = {}
      OBVIOUS
    <3> QED BY <3>1 DEF Taken
  <2>2. v.shots \cup ({ops[cursor].seq} \X Taken(0)) = v.shots
    BY <2>1
  <2>3. v = Sheet(v.last, v.stage, ledger, pending, v.shots, v.peak)
    BY RunnerSheet
  <2>4. ShotSheet(v, 0, v.peak) = v
    BY <2>1, <2>2, <2>3, Zenon DEF ShotSheet
  <2>5. 0 \in 0 .. K /\ f[0] = rows
    BY <1>1, <1>3
  <2>6. PeakBetween(v.peak, Dispatched, pending)
    BY DEF Recounts
  <2>7. Counts(rows, ShotSheet(v, 0, v.peak), bad)
    BY <2>4
  <2>8. ShotsPass(rows, v, bad, 0)
    BY <2>6, <2>7, QuietSelf DEF ShotsPass
  <2> QED BY <2>5, <2>8
<1>6. ASSUME NEW n \in 1 .. K, n - 1 \in G PROVE n \in G
  <2>1. n \in 0 .. K /\ n # 0 /\ n \in DOMAIN Tenants /\ n \in Nat \ {0}
    BY <1>1
  <2>2. ShotsPass(f[n - 1], v, bad, n - 1)
    BY <1>6
  <2>3. PICK p : Counts(f[n - 1], ShotSheet(v, n - 1, p), bad) /\ PeakBetween(p, Dispatched, pending)
    BY <2>2 DEF ShotsPass
  <2>4. CASE Tenants[n] \in Served
    <3>1. PICK q : /\ Passes(ShotSheet(v, n - 1, p), Snapshot(Tenants[n]), ShotSheet(v, n, q))
                   /\ PeakBetween(q, Dispatched, pending)
      BY <2>1, <2>3, <2>4, SnapshotRow
    <3> DEFINE R == f[n - 1]
               row == Snapshot(Tenants[n])
    <3>2. row.event # "dispatch_delivered"
      BY DEF Snapshot
    <3>3. f[n] = Append(R, row)
      BY <1>3, <1>4, <2>1, <2>4
    <3>4. Listed(R) /\ Quiet(R, rows)
      BY <2>2 DEF ShotsPass
    <3> HIDE DEF R, row
    <3>5. Listed(Append(R, row)) /\ Counts(Append(R, row), ShotSheet(v, n, q), bad)
      BY <2>3, <3>1, <3>4, CountPassed DEF R, row
    <3>6. Quiet(Append(R, row), rows)
      BY <3>2, <3>4, QuietAppend
    <3> QED BY <2>1, <3>1, <3>3, <3>5, <3>6 DEF ShotsPass
  <2>5. CASE Tenants[n] \notin Served
    <3>1. f[n] = f[n - 1]
      BY <1>3, <1>4, <2>1, <2>5
    <3>2. Taken(n) = Taken(n - 1)
      <4>1. 1 .. n = (1 .. n - 1) \cup {n}
        BY <2>1
      <4>2. {k \in 1 .. n : Tenants[k] \in Served} = {k \in 1 .. n - 1 : Tenants[k] \in Served}
        BY <2>5, <4>1
      <4> QED BY <4>2 DEF Taken
    <3>3. ShotSheet(v, n, p) = ShotSheet(v, n - 1, p)
      BY <3>2 DEF ShotSheet
    <3> QED BY <2>1, <2>2, <2>3, <3>1, <3>3 DEF ShotsPass
  <2> QED BY <2>4, <2>5
<1> HIDE DEF G
<1>7. 0 .. K \subseteq G
  BY <1>1, <1>5, <1>6, UpTo
<1>8. K \in G
  BY <1>1, <1>7
<1> QED BY <1>2, <1>8 DEF G, K

\* The snapshots, and the next opportunity.
LEMMA EmitKeeps ==
  ASSUME TraceInv, EmitSnapshots
  PROVE  TraceInv'
<1> DEFINE K == Len(Tenants)
           seq == ops[cursor].seq
           S == Shot \cup {cursor}
<1>1. phase \in {"settle", "snapshot"} /\ NoneDue
  BY DEF EmitSnapshots
<1>2. Given /\ Listed(rows) /\ Listed(access) /\ VerifyFeedbackAccessLog /\ RunnerState
  BY <1>1 DEF TraceInv, Running
<1>3. PICK v, bad : Counts(rows, v, bad) /\ Recounts(v, bad)
  BY <1>1 DEF TraceInv, Running
<1>4. /\ rows' = WithSnapshots
      /\ cursor' = IF cursor < Len(ops) THEN cursor + 1 ELSE cursor
      /\ phase' = IF cursor < Len(ops) THEN "flush" ELSE "final"
      /\ UNCHANGED <<setting, ops, fixture, pending, ledger, paidFor, access>>
  BY DEF EmitSnapshots
<1>5. ShotsPass(rows', v, bad, K)
  BY <1>1, <1>2, <1>3, <1>4, SnapshotRows
<1>6. PICK p : Counts(rows', ShotSheet(v, K, p), bad) /\ PeakBetween(p, Dispatched, pending)
  BY <1>5 DEF ShotsPass
<1>7. Listed(rows') /\ Quiet(rows', rows)
  BY <1>5 DEF ShotsPass
<1>8. Dispatched' = Dispatched /\ VerifyFeedbackAccessLog'
  BY <1>2, <1>4, <1>7, QuietKeeps
<1>9. /\ cursor \in DOMAIN ops /\ cursor \in Nat \ {0} /\ DOMAIN ops = 1 .. Len(ops) /\ Len(ops) \in Nat
  BY <1>1, <1>2, StepsGrow DEF RunnerState
<1>10. Decided' = Decided /\ Shot' = S
  <2>1. CASE cursor < Len(ops)
    <3>1. cursor' = cursor + 1 /\ phase' = "flush" /\ ops' = ops
      BY <1>4, <2>1
    <3>2. \A j \in DOMAIN ops : j < cursor + 1 <=> j < cursor \/ j = cursor
      BY <1>9
    <3>3. Decided' = {j \in DOMAIN ops : j < cursor + 1}
      BY <1>9, <3>1 DEF Decided
    <3>4. Decided = {j \in DOMAIN ops : j < cursor \/ j = cursor}
      BY <1>1 DEF Decided
    <3>5. Shot' = {j \in DOMAIN ops : j < cursor + 1} /\ Shot = {j \in DOMAIN ops : j < cursor}
      BY <1>1, <3>1 DEF Shot
    <3> QED BY <1>9, <3>2, <3>3, <3>4, <3>5
  <2>2. CASE ~(cursor < Len(ops))
    <3>1. cursor' = cursor /\ phase' = "final" /\ ops' = ops
      BY <1>4, <2>2
    <3>2. Decided' = Decided
      BY <1>1, <3>1 DEF Decided
    <3>3. \A j \in DOMAIN ops : j < cursor \/ j = cursor
      BY <1>9, <2>2
    <3>4. Shot' = DOMAIN ops /\ Shot = {j \in DOMAIN ops : j < cursor}
      BY <1>1, <3>1 DEF Shot
    <3> QED BY <1>9, <3>2, <3>3, <3>4
  <2> QED BY <2>1, <2>2
<1>11. seq \in Nat /\ \A i \in pending : seq < Due(i) /\ Due(i) \in Nat
  <2>1. \A i \in pending : i \in DOMAIN ops
    BY <1>2 DEF RunnerState, Decided
  <2>2. seq \in Nat /\ \A i \in pending : Due(i) \in Nat
    BY <1>2, <1>9, <2>1, RequestFacts
  <2> QED BY <1>1, <2>2 DEF NoneDue
<1>12. RunnerIn(Dispatched, pending, Decided, S)
  BY <1>2, <1>11 DEF RunnerIn, RunnerState
<1> DEFINE w == ShotSheet(v, K, p)
<1>13. RecountedAs(w, bad, Dispatched, pending, Decided, S, ledger) /\ w.last = seq
  <2>1. Taken(K) = Served
    <3>1. \A t \in Served : t \in ToSet(Tenants)
      BY <1>2, RequestFacts DEF Served
    <3>2. \A t \in Served : \E n \in 1 .. K : t = Tenants[n]
      BY <3>1, TenantOrder
    <3> QED BY <3>2 DEF Taken
  <2>2. ops[cursor].tenant \in Served
    BY <1>2, <1>9, RequestFacts
  <2>3. /\ v.stage = [j \in DOMAIN ops |-> StageOf(j, Decided, Dispatched, pending)]
        /\ v.shots = {ops[j].seq : j \in Shot} \X Served
    BY <1>2, <1>3, RunnerSheet
  <2>4. v.shots \cup ({seq} \X Served) = {ops[j].seq : j \in S} \X Served
    BY <2>3
  <2>5. w = Sheet(seq, [j \in DOMAIN ops |-> StageOf(j, Decided, Dispatched, pending)], ledger, pending,
                  {ops[j].seq : j \in S} \X Served, p)
    <3>1. w = Sheet(IF Served = {} THEN v.last ELSE seq, v.stage, ledger, pending,
                    v.shots \cup ({seq} \X Served), p)
      BY <2>1, Zenon DEF ShotSheet
    <3>2. (IF Served = {} THEN v.last ELSE seq) = seq
      BY <2>2
    <3> QED BY <2>3, <2>4, <3>1, <3>2
  <2>6. w.last = seq /\ w.peak = p
    BY <2>5 DEF Sheet
  <2>7. bad = DisputedOf(Dispatched \ pending)
    BY <1>3 DEF Recounts
  <2>8. \A i \in pending : seq <= Due(i)
    BY <1>11
  <2> HIDE DEF w, seq, S
  <2> QED BY <1>6, <1>11, <2>5, <2>6, <2>7, <2>8 DEF RecountedAs
<1>14. phase' # "final" => w.last <= ops[cursor'].seq
  <2>1. CASE cursor < Len(ops)
    <3>1. cursor' = cursor + 1 /\ cursor + 1 \in DOMAIN ops /\ cursor < cursor + 1
      BY <1>4, <1>9, <2>1
    <3>2. ops[cursor].seq < ops[cursor + 1].seq
      BY <1>2, <1>9, <3>1, StepsGrow
    <3>3. ops[cursor + 1].seq \in Nat
      BY <1>2, <3>1, RequestFacts
    <3> HIDE DEF w
    <3> QED BY <1>11, <1>13, <3>1, <3>2, <3>3
  <2>2. CASE ~(cursor < Len(ops))
    BY <1>4, <2>2
  <2> QED BY <2>1, <2>2
<1>15. /\ cursor' \in Nat \ {0} /\ (phase' # "final" => cursor' \in DOMAIN ops)
       /\ (phase' = "final" => \A i \in DOMAIN ops : i <= cursor')
       /\ phase' \in {"flush", "settle", "snapshot", "final"}
  <2>1. CASE cursor < Len(ops)
    BY <1>4, <1>9, <2>1
  <2>2. CASE ~(cursor < Len(ops))
    BY <1>4, <1>9, <2>2
  <2> QED BY <2>1, <2>2
<1>16. /\ paidFor' \in [DOMAIN ops -> Int]
       /\ \A i \in DOMAIN ops : i \in pending \/ i \notin Decided => paidFor'[i] = Unpaid
       /\ ledger' = [t \in Served |-> BookOf(t, Dispatched, pending)]
  BY <1>2, <1>4 DEF RunnerState
<1>17. Listed(access') /\ pending' = pending /\ ledger' = ledger
  BY <1>2, <1>4
<1> DEFINE D == Dispatched
           W == pending
           C == Decided
<1>18. /\ Dispatched' = D /\ pending' = W /\ Decided' = C /\ Shot' = S
       /\ RunnerIn(D, W, C, S) /\ ledger' = [t \in Served |-> BookOf(t, D, W)]
       /\ \A i \in DOMAIN ops : i \in W \/ i \notin C => paidFor'[i] = Unpaid
       /\ RecountedAs(w, bad, D, W, C, S, ledger') /\ Counts(rows', w, bad)
  BY <1>6, <1>8, <1>10, <1>12, <1>13, <1>16, <1>17
<1> HIDE DEF D, W, C, S, w, K, seq
<1> QED BY <1>2, <1>4, <1>7, <1>8, <1>14, <1>15, <1>16, <1>17, <1>18, InvariantLater

-----------------------------------------------------------------------------
(* The trace: the verification and the theorem *)

\* Two recounts of the same rows are the same.
LEMMA RecountUnique ==
  ASSUME NEW R, Len(R) \in Nat, NEW f, NEW g, Tracks(f, R), Tracks(g, R)
  PROVE  f = g
<1> DEFINE n == Len(R)
           G == {k \in 0 .. n : f[k] = g[k]}
<1>1. /\ f = [k \in 0 .. n |-> IF k = 0 THEN Recount ELSE VerifyRow(f[k - 1], R[k])]
      /\ g = [k \in 0 .. n |-> IF k = 0 THEN Recount ELSE VerifyRow(g[k - 1], R[k])]
  BY Zenon DEF Tracks
<1>2. n \in Nat
  OBVIOUS
<1> HIDE DEF n
<1>3. /\ \A k \in 0 .. n : f[k] = IF k = 0 THEN Recount ELSE VerifyRow(f[k - 1], R[k])
      /\ \A k \in 0 .. n : g[k] = IF k = 0 THEN Recount ELSE VerifyRow(g[k - 1], R[k])
      /\ f = [k \in 0 .. n |-> f[k]] /\ g = [k \in 0 .. n |-> g[k]]
  BY <1>1
<1>4. 0 \in G
  <2>1. 0 \in 0 .. n
    BY <1>2
  <2>2. f[0] = Recount /\ g[0] = Recount
    BY <2>1, <1>3
  <2> QED BY <2>1, <2>2
<1>5. ASSUME NEW k \in 1 .. n, k - 1 \in G PROVE k \in G
  <2>1. k \in 0 .. n /\ k # 0
    BY <1>2
  <2>2. f[k - 1] = g[k - 1]
    BY <1>5
  <2>3. f[k] = VerifyRow(f[k - 1], R[k]) /\ g[k] = VerifyRow(g[k - 1], R[k])
    BY <1>3, <2>1
  <2> QED BY <2>1, <2>2, <2>3
<1> HIDE DEF G
<1>6. 0 .. n \subseteq G
  BY <1>2, <1>4, <1>5, UpTo
<1>7. \A k \in 0 .. n : f[k] = g[k]
  BY <1>6 DEF G
<1> QED BY <1>3, <1>7

\* The verifier's recount is the one that counts the rows.
LEMMA VerifierCounts ==
  ASSUME Listed(rows), NEW v, NEW bad, Counts(rows, v, bad)
  PROVE  /\ v = recounted[Len(rows)]
         /\ (bad = {}) <=> \A n \in DOMAIN rows : RowAgrees(recounted[n - 1], rows[n])
<1>1. PICK rec : Tracks(rec, rows) /\ v = rec[Len(rows)] /\ bad = Disputed(rec, rows)
  BY DEF Counts
<1>2. recounted = CHOOSE f : Tracks(f, rows)
  BY Zenon DEF recounted, Tracks
<1>3. Tracks(recounted, rows)
  <2> DEFINE f == CHOOSE f : Tracks(f, rows)
  <2>1. Tracks(f, rows)
    BY <1>1
  <2> HIDE DEF f
  <2>2. recounted = f
    BY <1>2 DEF f
  <2> QED BY <2>1, <2>2
<1>4. recounted = rec
  <2>1. Len(rows) \in Nat
    BY DEF Listed
  <2> QED BY <1>1, <1>3, <2>1, RecountUnique
<1>5. DOMAIN rows = 1 .. Len(rows)
  BY DEF Listed
<1>6. bad = {} <=> \A n \in 1 .. Len(rows) : RowAgrees(rec[n - 1], rows[n])
  <2> DEFINE wrong == {m \in 1 .. Len(rows) : ~RowAgrees(rec[m - 1], rows[m])}
  <2>1. bad = {rows[n].req : n \in wrong}
    BY <1>1 DEF Disputed
  <2>2. wrong = {} <=> \A n \in 1 .. Len(rows) : RowAgrees(rec[n - 1], rows[n])
    OBVIOUS
  <2> HIDE DEF wrong
  <2>3. bad = {} <=> wrong = {}
    BY <2>1
  <2> QED BY <2>2, <2>3
<1> QED BY <1>1, <1>4, <1>5, <1>6

\* Once nothing is pending at the end, the recount is complete, and the peaks and
\* the ledgers are what was spent.
LEMMA EndOfRun ==
  ASSUME Given, RunnerState, phase = "final", pending = {}, NEW v, NEW bad, Recounts(v, bad)
  PROVE  /\ Complete(v)
         /\ bad = DisputedOf(Dispatched)
         /\ \A t \in Served : LET spend == SumOver(costs, OfTenant(Dispatched, t))
                              IN  v.peak[t] = spend /\ ledger[t] = [EmptyBook EXCEPT !.settled = spend]
<1>1. /\ v.stage = [i \in DOMAIN ops |-> StageOf(i, Decided, Dispatched, pending)]
      /\ v.shots = {ops[j].seq : j \in Shot} \X Served
      /\ v.book = ledger /\ v.active = pending
      /\ Dispatched \subseteq DOMAIN ops
      /\ \A t \in Served : ledger[t] = BookOf(t, Dispatched, pending)
  BY RunnerSheet
<1>2. Decided = DOMAIN ops /\ Shot = DOMAIN ops
  <2>1. \A i \in DOMAIN ops : i <= cursor /\ i \in Nat /\ cursor \in Nat
    BY RequestFacts DEF RunnerState
  <2>2. \A i \in DOMAIN ops : i < cursor \/ i = cursor
    BY <2>1
  <2> QED BY <2>2 DEF Decided, Shot
<1>3. DOMAIN ledger = Served
  BY DEF RunnerState
<1>4. \A i \in DOMAIN ops : v.stage[i] \in {1, EndStage(i)}
  BY <1>1, <1>2 DEF StageOf
<1>5. Complete(v)
  BY <1>1, <1>2, <1>3, <1>4 DEF Complete, EndStage
<1>6. Dispatched \ pending = Dispatched
  OBVIOUS
<1>7. bad = DisputedOf(Dispatched)
  BY <1>6 DEF Recounts
<1>8. ASSUME NEW t \in Served
      PROVE  LET spend == SumOver(costs, OfTenant(Dispatched, t))
             IN  v.peak[t] = spend /\ ledger[t] = [EmptyBook EXCEPT !.settled = spend]
  <2> DEFINE spend == SumOver(costs, OfTenant(Dispatched, t))
  <2>1. spend \in Nat
    BY <1>1, TenantSums
  <2>2. v.peak[t] \in Nat /\ spend <= v.peak[t] /\ v.peak[t] <= spend
    BY <1>6 DEF Recounts, PeakBetween
  <2>3. OfTenant(pending, t) = {}
    BY DEF OfTenant
  <2>4. SumOver(holds, OfTenant(pending, t)) = 0 /\ Cardinality(OfTenant(pending, t)) = 0
    BY <2>3, SumEmpty, FS_EmptySet
  <2>5. ledger[t] = [settled |-> spend, held |-> 0, active |-> 0]
    BY <1>1, <1>6, <2>4 DEF BookOf
  <2> HIDE DEF spend
  <2>6. v.peak[t] = spend
    BY <2>1, <2>2
  <2>7. ledger[t] = [EmptyBook EXCEPT !.settled = spend]
    BY <2>5 DEF EmptyBook
  <2> QED BY <2>6, <2>7 DEF spend
<1> QED BY <1>5, <1>7, <1>8

\* The verification.
LEMMA VerifyKeeps ==
  ASSUME TraceInv, VerifyRecords
  PROVE  TraceInv'
<1>1. phase = "final" /\ pending = {}
  BY DEF VerifyRecords
<1>2. Given /\ Listed(rows) /\ Listed(access) /\ VerifyFeedbackAccessLog /\ RunnerState
  BY <1>1 DEF TraceInv, Running
<1>3. PICK v, bad : Counts(rows, v, bad) /\ Recounts(v, bad)
  BY <1>1 DEF TraceInv, Running
<1>4. /\ v = recounted[Len(rows)]
      /\ (bad = {}) <=> \A n \in DOMAIN rows : RowAgrees(recounted[n - 1], rows[n])
  BY <1>2, <1>3, VerifierCounts
<1>5. /\ Complete(v) /\ bad = DisputedOf(Dispatched)
      /\ \A t \in Served : LET spend == SumOver(costs, OfTenant(Dispatched, t))
                           IN  v.peak[t] = spend /\ ledger[t] = [EmptyBook EXCEPT !.settled = spend]
  BY <1>1, <1>2, <1>3, EndOfRun
<1>6. /\ phase' = IF bad = {} THEN "accepted" ELSE "rejected"
      /\ peak' = v.peak
      /\ UNCHANGED <<setting, ops, fixture, tie, cursor, pending, ledger, paidFor, rows, access>>
  BY <1>4, <1>5 DEF VerifyRecords
<1>7. Quiet(rows', rows)
  BY <1>6, QuietSelf
<1>8. Dispatched' = Dispatched /\ VerifyFeedbackAccessLog'
  BY <1>2, <1>6, <1>7, QuietKeeps
<1>9. Given'
  BY <1>2, <1>6, GivenSteady
<1>10. Listed(rows)' /\ Listed(access)'
  BY <1>2, <1>6 DEF Listed
<1>11. ~Running' /\ phase' \in {"accepted", "rejected"}
  BY <1>6 DEF Running
<1>12. \A i : Cost(i)' = Cost(i) /\ (ExceedsByCost(i)' = ExceedsByCost(i))
              /\ (ExceedsByQuantity(i)' = ExceedsByQuantity(i))
  BY <1>6 DEF ExceedsByCost, ExceedsByQuantity, Cost, Reserved
<1>13. RunnerAndVerifierAgree'
  <2>1. bad = {} <=> ~ \E i \in Dispatched : ExceedsByQuantity(i) # ExceedsByCost(i)
    BY <1>5 DEF DisputedOf
  <2>2. (phase' = "rejected") = (\E i \in Dispatched' : (ExceedsByQuantity(i) # ExceedsByCost(i))')
    BY <1>6, <1>8, <1>12, <2>1
  <2> QED BY <1>11, <2>2 DEF RunnerAndVerifierAgree
<1>14. PeakLatentIsSpend'
  <2>1. DOMAIN ledger' = Served /\ ledger' = ledger
    BY <1>2, <1>6 DEF RunnerState
  <2>2. [i \in DOMAIN ops' |-> Cost(i)'] = costs
    BY <1>6, <1>12 DEF costs
  <2>3. \A t : {i \in Dispatched' : ops'[i].tenant = t} = OfTenant(Dispatched, t)
    BY <1>6, <1>8 DEF OfTenant
  <2>4. EmptyBook' = EmptyBook
    BY DEF EmptyBook
  <2>5. \A t \in DOMAIN ledger' :
          LET spend == SumOver([i \in DOMAIN ops' |-> Cost(i)'], {i \in Dispatched' : ops'[i].tenant = t})
          IN peak'[t] = spend /\ ledger'[t] = [EmptyBook EXCEPT !.settled = spend]
    <3> TAKE t \in DOMAIN ledger'
    <3> DEFINE spend == SumOver(costs, OfTenant(Dispatched, t))
               later == SumOver([i \in DOMAIN ops' |-> Cost(i)'], {i \in Dispatched' : ops'[i].tenant = t})
    <3>1. later = spend
      BY <2>2, <2>3, Zenon
    <3>2. t \in Served
      BY <2>1
    <3>3. v.peak[t] = spend /\ ledger[t] = [EmptyBook EXCEPT !.settled = spend]
      BY <1>5, <3>2
    <3> HIDE DEF spend, later
    <3>4. peak'[t] = later /\ ledger'[t] = [EmptyBook EXCEPT !.settled = later]
      BY <1>6, <2>1, <3>1, <3>3
    <3> QED BY <3>4 DEF later
  <2> QED BY <2>4, <2>5 DEF PeakLatentIsSpend
<1> QED BY <1>8, <1>9, <1>10, <1>11, <1>13, <1>14 DEF TraceInv

\* Nothing has happened yet.
LEMMA TraceStarts == ASSUME TraceInit PROVE TraceInv
<1>1. /\ setting \in [method : TraceMethods, evidence : TraceEvidence]
      /\ ops \in TraceStreams /\ ParseStream(ops)
      /\ fixture \in TraceUsages(ops) /\ DOMAIN fixture = DOMAIN ops
      /\ cursor = 1 /\ phase = (IF ops = <<>> THEN "final" ELSE "flush") /\ pending = {}
      /\ ledger = NewTenantContexts(ops)
      /\ paidFor = [i \in DOMAIN ops |-> Unpaid]
      /\ rows = <<>> /\ access = <<>>
  BY DEF TraceInit, ValidateOutcomeCoverage
<1>2. Given
  <2>1. setting.method \in Methods /\ setting.evidence.upper \in Nat
    BY <1>1, TraceAssumption
  <2>2. ops \in Seq(Opportunity)
    BY <1>1, TraceAssumption
  <2>3. \A i \in DOMAIN ops : fixture[i].in \in Nat /\ fixture[i].out \in Nat
    BY <1>1, TraceAssumption
  <2> QED BY <1>1, <2>1, <2>2, <2>3 DEF Given
<1>3. Len(ops) \in Nat /\ DOMAIN ops = 1 .. Len(ops) /\ (ops # <<>> => 1 \in DOMAIN ops)
  <2>1. ops \in Seq(Opportunity)
    BY <1>2 DEF Given
  <2> QED BY <2>1
<1>4. Len(<<>>) = 0 /\ DOMAIN <<>> = {} /\ 1 .. 0 = {}
  OBVIOUS
<1>5. Listed(rows) /\ Listed(access)
  BY <1>1, <1>4 DEF Listed
<1>6. VerifyFeedbackAccessLog /\ Dispatched = {}
  <2>1. Dispatched = {}
    BY <1>1, <1>4 DEF Dispatched
  <2>2. {n \in DOMAIN rows : rows[n].event = "dispatch_delivered"} = {}
    BY <1>1, <1>4
  <2>3. Len(access) = 2 * Cardinality({}) /\ Cardinality({}) = 0
    BY <1>1, <1>4, FS_EmptySet
  <2> QED BY <2>1, <2>2, <2>3 DEF VerifyFeedbackAccessLog
<1>7. Decided = {} /\ Shot = {}
  <2>1. CASE ops = <<>>
    BY <1>4, <2>1 DEF Decided, Shot
  <2>2. CASE ops # <<>>
    <3>1. phase = "flush" /\ \A i \in DOMAIN ops : ~(i < cursor)
      BY <1>1, <1>3, <2>2
    <3> QED BY <3>1 DEF Decided, Shot
  <2> QED BY <2>1, <2>2
<1>8. ASSUME NEW t PROVE BookOf(t, {}, {}) = EmptyBook /\ SumOver(costs, OfTenant({}, t)) = 0
  <2>1. OfTenant({}, t) = {} /\ OfTenant({} \ {}, t) = {}
    BY DEF OfTenant
  <2>2. SumOver(costs, {}) = 0 /\ SumOver(holds, {}) = 0 /\ Cardinality({}) = 0
    BY SumEmpty, FS_EmptySet
  <2> QED BY <2>1, <2>2 DEF BookOf, EmptyBook
<1>9. ledger = [t \in Served |-> EmptyBook] /\ Served = {ops[i].tenant : i \in DOMAIN ops}
  BY <1>1 DEF NewTenantContexts, Served
<1>10. RunnerState
  <2>1. cursor \in Nat \ {0} /\ (phase # "final" => cursor \in DOMAIN ops)
        /\ (phase = "final" => \A i \in DOMAIN ops : i <= cursor)
    BY <1>1, <1>3, <1>4
  <2>2. paidFor \in [DOMAIN ops -> Int] /\ \A i \in DOMAIN ops : paidFor[i] = Unpaid
    BY <1>1 DEF Unpaid
  <2>3. ledger = [t \in Served |-> BookOf(t, Dispatched, pending)]
    BY <1>1, <1>6, <1>8, <1>9
  <2> QED BY <1>1, <1>6, <1>7, <2>1, <2>2, <2>3 DEF RunnerState
<1> DEFINE v == Recount
           rec == [n \in 0 .. 0 |-> Recount]
<1>11. Counts(rows, v, {})
  <2>1. 0 .. 0 = {0} /\ rec[0] = Recount
    OBVIOUS
  <2>2. Tracks(rec, <<>>)
    <3> HIDE DEF rec
    <3>1. rec = [n \in 0 .. Len(<<>>) |-> IF n = 0 THEN Recount ELSE VerifyRow(rec[n - 1], <<>>[n])]
      <4>1. \A n \in 0 .. 0 : n = 0
        OBVIOUS
      <4> QED BY <1>4, <4>1 DEF rec
    <3> QED BY <3>1 DEF Tracks
  <2>3. Disputed(rec, <<>>) = {}
    BY <1>4 DEF Disputed
  <2> HIDE DEF rec
  <2> QED BY <1>1, <1>4, <2>1, <2>2, <2>3 DEF Counts
<1>12. Recounts(v, {})
  <2>1. v = [last |-> 0, stage |-> [i \in DOMAIN ops |-> 0], book |-> ledger, active |-> {},
             shots |-> {}, peak |-> [t \in Served |-> 0]]
    BY <1>1 DEF Recount, NewTenantContexts, Served
  <2>2. \A i \in DOMAIN ops : StageOf(i, Decided, Dispatched, pending) = 0
    BY <1>7 DEF StageOf
  <2>3. {ops[j].seq : j \in Shot} \X Served = {}
    BY <1>7
  <2> HIDE DEF v
  <2>4. v.last = 0 /\ v.peak = [t \in Served |-> 0]
    BY <2>1
  <2>5. v = [last |-> v.last,
             stage |-> [i \in DOMAIN ops |-> StageOf(i, Decided, Dispatched, pending)],
             book |-> ledger, active |-> pending, shots |-> {ops[j].seq : j \in Shot} \X Served, peak |-> v.peak]
    <3>1. [i \in DOMAIN ops |-> StageOf(i, Decided, Dispatched, pending)] = [i \in DOMAIN ops |-> 0]
      BY <2>2
    <3> QED BY <1>1, <2>1, <2>3, <2>4, <3>1, Zenon
  <2>6. PeakBetween(v.peak, Dispatched, pending)
    <3>1. Dispatched \ pending = {}
      BY <1>6
    <3>2. v.peak \in [Served -> Nat]
      BY <2>4
    <3>3. \A t \in Served : v.peak[t] = 0
      BY <2>4
    <3> QED BY <1>6, <1>8, <3>1, <3>2, <3>3 DEF PeakBetween
  <2>7. phase # "final" => v.last <= ops[cursor].seq
    <3>1. ASSUME phase # "final" PROVE v.last <= ops[cursor].seq
      <4>1. cursor \in DOMAIN ops
        BY <1>10, <3>1 DEF RunnerState
      <4>2. ops[cursor].seq \in Nat
        BY <1>2, <4>1, RequestFacts
      <4> QED BY <2>4, <4>2
    <3> QED BY <3>1
  <2>8. DisputedOf(Dispatched \ pending) = {}
    BY <1>6 DEF DisputedOf
  <2> QED BY <1>1, <2>4, <2>5, <2>6, <2>7, <2>8 DEF Recounts
<1>13. phase \in {"flush", "final"}
  BY <1>1
<1>14. RunnerAndVerifierAgree /\ PeakLatentIsSpend
  BY <1>13 DEF RunnerAndVerifierAgree, PeakLatentIsSpend
<1> HIDE DEF v
<1> QED BY <1>2, <1>5, <1>6, <1>10, <1>11, <1>12, <1>13, <1>14 DEF TraceInv

\* A step of something else.
LEMMA TraceStutters == ASSUME TraceInv, UNCHANGED traceVars PROVE TraceInv'
<1>1. /\ UNCHANGED <<setting, ops, fixture>> /\ UNCHANGED <<cursor, phase, pending, ledger>>
      /\ UNCHANGED <<paidFor, rows, access, peak>>
  BY DEF traceVars
<1>2. Given /\ Given'
  BY <1>1, GivenSteady DEF TraceInv
<1>3. /\ \A R, v, bad : Counts(R, v, bad)' <=> Counts(R, v, bad)
      /\ \A i : Reserved(i)' = Reserved(i) /\ Cost(i)' = Cost(i) /\ Due(i)' = Due(i)
      /\ Served' = Served
      /\ \A t, d, w : BookOf(t, d, w)' = BookOf(t, d, w)
      /\ \A i, c, d, w : StageOf(i, c, d, w)' = StageOf(i, c, d, w)
      /\ \A S : DisputedOf(S)' = DisputedOf(S)
      /\ \A p, d, w : PeakBetween(p, d, w)' <=> PeakBetween(p, d, w)
  BY <1>1, CountsSteady
<1>4. Dispatched' = Dispatched /\ VerifyFeedbackAccessLog'
  <2>1. Quiet(rows', rows)
    BY <1>1, QuietSelf
  <2> QED BY <1>1, <2>1, QuietKeeps DEF TraceInv
<1>5. Decided' = Decided /\ Shot' = Shot /\ Running' = Running
  BY <1>1 DEF Decided, Shot, Running
<1>6. Listed(rows)' /\ Listed(access)'
  BY <1>1 DEF TraceInv, Listed
<1>7. ASSUME RunnerState PROVE RunnerState'
  <2>1. ledger' = [t \in Served' |-> BookOf(t, Dispatched, pending)']
    BY <1>1, <1>3, <1>4, <1>7 DEF RunnerState
  <2>2. \A i \in pending', j \in Shot' : ops'[j].seq < Due(i)'
    BY <1>1, <1>3, <1>5, <1>7 DEF RunnerState
  <2>3. Unpaid' = Unpaid
    BY DEF Unpaid
  <2> QED BY <1>1, <1>4, <1>5, <1>7, <2>1, <2>2, <2>3 DEF RunnerState
<1>8. ASSUME NEW v, NEW bad, Recounts(v, bad) PROVE Recounts(v, bad)'
  <2>1. [i \in DOMAIN ops' |-> StageOf(i, Decided, Dispatched, pending)']
          = [i \in DOMAIN ops |-> StageOf(i, Decided, Dispatched, pending)]
    BY <1>1, <1>3, <1>4, <1>5
  <2>2. {ops'[j].seq : j \in Shot'} \X Served' = {ops[j].seq : j \in Shot} \X Served
    BY <1>1, <1>3, <1>5
  <2>3. v = [last |-> v.last, stage |-> [i \in DOMAIN ops' |-> StageOf(i, Decided, Dispatched, pending)'],
             book |-> ledger', active |-> pending', shots |-> {ops'[j].seq : j \in Shot'} \X Served',
             peak |-> v.peak]
    <3>1. v = [last |-> v.last, stage |-> [i \in DOMAIN ops |-> StageOf(i, Decided, Dispatched, pending)],
               book |-> ledger, active |-> pending, shots |-> {ops[j].seq : j \in Shot} \X Served,
               peak |-> v.peak]
      BY <1>8 DEF Recounts
    <3> QED BY <1>1, <2>1, <2>2, <3>1
  <2>4. PeakBetween(v.peak, Dispatched, pending)' /\ bad = DisputedOf(Dispatched \ pending)'
    BY <1>1, <1>3, <1>4, <1>8 DEF Recounts
  <2>5. \A i \in pending' : v.last <= Due(i)'
    BY <1>1, <1>3, <1>8 DEF Recounts
  <2>6. v.last \in Nat /\ (phase' # "final" => v.last <= ops'[cursor'].seq)
    BY <1>1, <1>8 DEF Recounts
  <2> QED BY <2>3, <2>4, <2>5, <2>6 DEF Recounts
<1>9. Running' => RunnerState' /\ \E v, bad : Counts(rows, v, bad)' /\ Recounts(v, bad)'
  <2>1. SUFFICES ASSUME Running'
                 PROVE  RunnerState' /\ \E v, bad : Counts(rows, v, bad)' /\ Recounts(v, bad)'
    OBVIOUS
  <2>2. RunnerState /\ \E v, bad : Counts(rows, v, bad) /\ Recounts(v, bad)
    BY <1>5, <2>1 DEF TraceInv
  <2>3. PICK v, bad : Counts(rows, v, bad) /\ Recounts(v, bad)
    BY <2>2
  <2>4. Counts(rows, v, bad)'
    BY <1>1, <1>3, <2>3
  <2> QED BY <1>7, <1>8, <2>2, <2>3, <2>4
<1>10. \A i : (ExceedsByCost(i)' = ExceedsByCost(i)) /\ (ExceedsByQuantity(i)' = ExceedsByQuantity(i))
  BY <1>1, <1>3 DEF ExceedsByCost, ExceedsByQuantity
<1>11. RunnerAndVerifierAgree'
  BY <1>1, <1>4, <1>10 DEF TraceInv, RunnerAndVerifierAgree
<1>12. PeakLatentIsSpend'
  <2>1. [i \in DOMAIN ops' |-> Cost(i)'] = [i \in DOMAIN ops |-> Cost(i)]
    BY <1>1, <1>3
  <2>2. EmptyBook' = EmptyBook
    BY DEF EmptyBook
  <2> DEFINE paid == [i \in DOMAIN ops |-> Cost(i)]
             Measured(c, D, o, b, p) == \A t \in DOMAIN b :
                 LET spend == SumOver(c, {i \in D : o[i].tenant = t})
                 IN p[t] = spend /\ b[t] = [EmptyBook EXCEPT !.settled = spend]
  <2>3. PeakLatentIsSpend <=> (phase = "accepted" => Measured(paid, Dispatched, ops, ledger, peak))
    BY DEF PeakLatentIsSpend
  <2>4. PeakLatentIsSpend' <=> (phase' = "accepted" => Measured(paid', Dispatched', ops', ledger', peak'))
    BY <2>2 DEF PeakLatentIsSpend
  <2>5. PeakLatentIsSpend /\ paid' = paid
    BY <2>1 DEF TraceInv
  <2> HIDE DEF Measured, paid
  <2> QED BY <1>1, <1>4, <2>3, <2>4, <2>5
<1>13. phase' \in {"flush", "settle", "snapshot", "final", "aborted", "accepted", "rejected"}
  BY <1>1 DEF TraceInv
<1> QED BY <1>2, <1>4, <1>6, <1>9, <1>11, <1>12, <1>13 DEF TraceInv

\* The invariant holds of every run of the trace experiment.
THEOREM TraceInvariant == TraceSpec => []TraceInv
<1>1. TraceInit => TraceInv
  BY TraceStarts
<1>2. TraceInv /\ [TraceNext]_traceVars => TraceInv'
  <2> SUFFICES ASSUME TraceInv, [TraceNext]_traceVars PROVE TraceInv'
    OBVIOUS
  <2>1. CASE \E i \in pending : SettleOne(i)
    BY <2>1, SettleKeeps
  <2>2. CASE Admit
    BY <2>2, AdmitKeeps
  <2>3. CASE EmitSnapshots
    BY <2>3, EmitKeeps
  <2>4. CASE VerifyRecords
    BY <2>4, VerifyKeeps
  <2>5. CASE UNCHANGED traceVars
    BY <2>5, TraceStutters
  <2> QED BY <2>1, <2>2, <2>3, <2>4, <2>5 DEF TraceNext
<1> QED BY <1>1, <1>2, PTL DEF TraceSpec

\* A trace means the same to the runner that wrote it and to the verifier that
\* recounts it (RunWithIssuer, VerifyRecords): for every stream, method, usage
\* and order of the settlements, a run is given up only over a usage that does
\* not show its declared fault, a finished trace is refused exactly when the two
\* judge an exceeded reservation differently, the peak that is reported is what
\* was spent, and the access log has two entries per delivery.
THEOREM TraceAlwaysVerifiable == TraceSpec => []TraceIsVerifiable
<1>1. TraceInv => TraceIsVerifiable
  BY DEF TraceInv, TraceIsVerifiable, FeedbackOncePerDelivery
<1> QED BY <1>1, TraceInvariant, PTL

=============================================================================
