---------------------------- MODULE QualityGate ----------------------------
(***************************************************************************)
(* The AIQualityGate controller: it loads a golden dataset, has a          *)
(* Kubernetes Job produce evidence for it, combines evidence and telemetry *)
(* into a verdict, and writes the candidate's score to its AIModel and the *)
(* verdict to the gate (controller/aiqualitygate_controller.go).           *)
(*                                                                         *)
(* Reconcile is three steps, so that datasets, specs, telemetry, jobs and  *)
(* the gate itself may change between what it read and what it writes.     *)
(* Evidence is what a job found for one dataset and candidate; whether the *)
(* scores of the candidate are acceptable is one bit, which the job        *)
(* decides.  Statistical mode is on, with its default weights; a dataset   *)
(* is large enough for it.                                                 *)
(***************************************************************************)
EXTENDS Integers, FiniteSets

CONSTANTS
    Candidates,  \* candidate models
    Datasets,    \* contents that the golden dataset may have
    IDs,         \* [Datasets -> SUBSET prompt ids]; {} is an empty dataset
    Initially,   \* the datasets and telemetry to start with
    MaxUID,      \* bound: gates created under the name
    MaxGen,      \* bound: generations of a gate
    MaxGateEdits, \* bound: changes of dataset, telemetry and policy
    MaxFaults    \* bound: failed jobs, lost pods, crashes

Bands == {"low", "band", "high"}  \* below exit, between exit and enter, above

ASSUME QualityAssumption ==
    /\ Initially \subseteq (Datasets \cup {"absent"}) \X (Bands \cup {"none"})
    /\ \A d \in Datasets : IsFiniteSet(IDs[d])
    /\ MaxUID \in Nat /\ MaxGen \in Nat
    /\ MaxGateEdits \in Nat /\ MaxFaults \in Nat

VARIABLES
    gate,       \* the AIQualityGate object; its status also records what the
                \* verdict was computed from
    dataset,    \* the golden dataset, or "absent"
    telemetry,  \* the composite operational score, or "none"
    blocked,    \* a sovereignty policy forbids evaluating the candidate
    jobs,       \* evaluation jobs by name: gate UID and generation
    seen,       \* finished jobs that were there at a reconcile
    evidence,   \* the evidence ConfigMap
    score,      \* AIModel.status.lastQualityScore of each candidate
    rec,        \* the reconcile in progress
    gateEdits, faults

vars == <<gate, dataset, telemetry, blocked, jobs, seen, evidence, score, rec,
          gateEdits, faults>>
world == <<dataset, telemetry, blocked>>

NoEvidence == [dataset |-> "absent", candidate |-> "none", good |-> FALSE]
NoStatus == [gen |-> 0, verdict |-> "none", basis |-> NoEvidence,
             telemetry |-> "none", dataset |-> "absent"]
NoGate == [uid |-> 0, phase |-> "absent", finalizer |-> FALSE, gen |-> 0,
           candidate |-> "none", status |-> NoStatus]
NoJob == [state |-> "absent"]
GateIdle == [pc |-> "idle"]

Names == (1 .. MaxUID) \X (1 .. MaxGen)

Init ==
    /\ gate = NoGate
    /\ \E start \in Initially : dataset = start[1] /\ telemetry = start[2]
    /\ blocked = FALSE
    /\ jobs = [n \in Names |-> NoJob] /\ seen = {}
    /\ evidence = NoEvidence
    /\ score = [c \in Candidates |-> NoEvidence]
    /\ rec = GateIdle
    /\ gateEdits = 0 /\ faults = 0

-----------------------------------------------------------------------------
(* The world of the controller *)

CreateGate(c) ==
    /\ gate.phase = "absent" /\ gate.uid < MaxUID
    /\ gate' = [NoGate EXCEPT !.uid = gate.uid + 1, !.phase = "live",
                              !.gen = 1, !.candidate = c]
    /\ UNCHANGED <<world, jobs, seen, evidence, score, rec, gateEdits, faults>>

EditGate(c) ==
    /\ gate.phase = "live" /\ gate.gen < MaxGen /\ c # gate.candidate
    /\ gate' = [gate EXCEPT !.gen = @ + 1, !.candidate = c]
    /\ UNCHANGED <<world, jobs, seen, evidence, score, rec, gateEdits, faults>>

\* Without the finalizer the object is gone at once.
DeleteGate ==
    /\ gate.phase = "live" /\ gate.uid < MaxUID
    /\ gate' = IF gate.finalizer THEN [gate EXCEPT !.phase = "deleting"]
                                 ELSE [NoGate EXCEPT !.uid = gate.uid]
    /\ UNCHANGED <<world, jobs, seen, evidence, score, rec, gateEdits, faults>>

EditWorld ==
    /\ gateEdits < MaxGateEdits /\ gateEdits' = gateEdits + 1
    /\ \/ \E d \in Datasets \cup {"absent"} :
            dataset' = d /\ UNCHANGED <<telemetry, blocked, evidence>>
       \/ \E t \in Bands \cup {"none"} :
            telemetry' = t /\ UNCHANGED <<dataset, blocked, evidence>>
       \/ blocked' = ~blocked /\ UNCHANGED <<dataset, telemetry, evidence>>
       \/ evidence' = NoEvidence /\ UNCHANGED world
    /\ UNCHANGED <<gate, jobs, seen, score, rec, faults>>

Fault == faults < MaxFaults /\ faults' = faults + 1

JobIn(n, states) == n \in Names /\ jobs[n].state \in states

Becomes(n, state) ==
    /\ jobs' = [jobs EXCEPT ![n].state = state]
    /\ UNCHANGED <<gate, world, seen, evidence, score, rec, gateEdits>>

\* The pod starts and mounts the dataset, if there is one (quality-eval).
RunJob(n) ==
    /\ JobIn(n, {"created"}) /\ dataset # "absent"
    /\ jobs' = [jobs EXCEPT ![n] =
         [state |-> "running", candidate |-> @.candidate, dataset |-> dataset]]
    /\ UNCHANGED <<gate, world, seen, evidence, score, rec, gateEdits, faults>>

\* It ends with the results in its termination message.
FinishJob(n, good) ==
    /\ JobIn(n, {"running"})
    /\ jobs' = [jobs EXCEPT ![n] =
         [state |-> "succeeded", candidate |-> @.candidate,
          dataset |-> @.dataset, good |-> good]]
    /\ UNCHANGED <<gate, world, seen, evidence, score, rec, gateEdits, faults>>

\* It fails (backoffLimit 0), its message is truncated, or its pod is gone
\* before the controller has read the message.
SpoilJob(n, state) ==
    /\ Fault /\ JobIn(n, {"running", "succeeded"})
    /\ state = "lost" <=> jobs[n].state = "succeeded"
    /\ Becomes(n, state)

Finished == {"succeeded", "garbled", "lost", "failed"}

\* Mutant: finished jobs are kept.
NoTTL(n) == FALSE

\* ttlSecondsAfterFinished: ten minutes, while the controller reconciles every
\* minute.
ExpireJob(n) ==
    /\ JobIn(n, Finished) /\ n \in seen
    /\ jobs' = [jobs EXCEPT ![n] = NoJob] /\ seen' = seen \ {n}
    /\ UNCHANGED <<gate, world, evidence, score, rec, gateEdits, faults>>

-----------------------------------------------------------------------------
(* Reconcile *)

AddFinalizer ==
    /\ rec = GateIdle /\ gate.phase = "live" /\ ~gate.finalizer
    /\ gate' = [gate EXCEPT !.finalizer = TRUE]
    /\ UNCHANGED <<world, jobs, seen, evidence, score, rec, gateEdits, faults>>

\* cleanupQualityGateResources and the removal of the finalizer.
Cleanup ==
    /\ rec = GateIdle /\ gate.phase = "deleting"
    /\ jobs' = [n \in Names |-> NoJob] /\ seen' = {}
    /\ evidence' = NoEvidence
    /\ gate' = [NoGate EXCEPT !.uid = gate.uid]
    /\ UNCHANGED <<world, score, rec, gateEdits, faults>>

PromptIDs(d) == IF d = "absent" THEN {} ELSE IDs[d]

prompts == PromptIDs(dataset)

\* Mutant: results of any model count.
evidenceByID(ev, model) == IF ev = NoEvidence THEN {} ELSE PromptIDs(ev.dataset)

evidenceByIDForModel(ev, model) ==
    IF ev.candidate = model THEN PromptIDs(ev.dataset) ELSE {}

\* Mutant: a result for one prompt will do.
hasSomeEvidence ==
    prompts \cap evidenceByIDForModel(evidence, gate.candidate) # {}

hasSourceAndCandidateEvidence ==
    prompts \subseteq evidenceByIDForModel(evidence, gate.candidate)

JobName == <<gate.uid, gate.gen>>

\* reconcileEvaluationJob: it never leaves the reconcile with the evidence, so
\* that the reconcile stays pending.
ReconcileEvaluationJob ==
    LET n == JobName IN
    IF blocked THEN UNCHANGED <<jobs, evidence>>
    ELSE /\ jobs' = IF jobs[n] = NoJob
                    THEN [jobs EXCEPT ![n] = [state |-> "created",
                                              candidate |-> gate.candidate]]
                    ELSE jobs
         /\ evidence' = IF jobs[n].state = "succeeded"
                        THEN [dataset |-> jobs[n].dataset,
                              candidate |-> jobs[n].candidate,
                              good |-> jobs[n].good]
                        ELSE evidence

\* qualityengine.Evaluate has enough samples and every weighted signal.
Scored == /\ telemetry # "none"
          /\ prompts \cap evidenceByIDForModel(evidence, gate.candidate) # {}

\* Mutant: the status has been reset before it is read.
HysteresisForgets(previous, band) == band = "high"

\* ApplyHysteresis with the verdict that the status still holds.
HysteresisSafe(previous, band) ==
    band = "high" \/ (band = "band" /\ previous = "candidate-safe")

\* The composite score without a quality score, or without telemetry, is below
\* the exit score.
Composite == IF Scored THEN telemetry ELSE "low"

Failures ==
    \/ dataset # "absent" /\ prompts = {}                \* validateGoldenDataset
    \/ hasSourceAndCandidateEvidence /\ prompts # {} /\ ~evidence.good
    \/ Scored /\ ~evidence.good
    \/ prompts # {} /\ ~HysteresisSafe(gate.status.verdict, Composite)

Pending ==
    \/ dataset = "absent" \/ evidence = NoEvidence
    \/ prompts # {} /\ ~hasSourceAndCandidateEvidence
    \/ telemetry = "none"
    \/ prompts # {} /\ ~Scored

Verdict == CASE Failures -> "candidate-risk"
             [] Pending /\ ~Failures -> "insufficient-data"
             [] OTHER -> "candidate-safe"

\* Everything that is read, the job, and the evidence the job left.
ReconcileEvaluate ==
    /\ rec = GateIdle /\ gate.phase = "live" /\ gate.finalizer
    /\ IF prompts # {} /\ ~hasSourceAndCandidateEvidence
       THEN ReconcileEvaluationJob
       ELSE UNCHANGED <<jobs, evidence>>
    /\ seen' = {n \in Names : JobIn(n, Finished)}
    /\ rec' = [pc |-> IF Scored THEN "score" ELSE "status",
               gate |-> gate,
               status |-> [gen |-> gate.gen, verdict |-> Verdict,
                           basis |-> evidence, telemetry |-> telemetry,
                           dataset |-> dataset]]
    /\ UNCHANGED <<gate, world, score, gateEdits, faults>>

\* writeScoreEvidence fails when the ConfigMap is gone; otherwise
\* updateCandidateModelQuality follows, whatever the verdict.
ReconcileScore ==
    /\ rec.pc = "score"
    /\ IF evidence = NoEvidence
       THEN rec' = GateIdle /\ UNCHANGED score
       ELSE /\ score' = [score EXCEPT ![rec.gate.candidate] = rec.status.basis]
            /\ rec' = [rec EXCEPT !.pc = "status"]
    /\ UNCHANGED <<gate, world, jobs, seen, evidence, gateEdits, faults>>

\* Status().Update carries the version that was read: any write of the object
\* since then is a conflict.
SameVersion(read) == gate = read

ReconcileStatus ==
    /\ rec.pc = "status"
    /\ gate' = IF SameVersion(rec.gate)
               THEN [gate EXCEPT !.status = rec.status] ELSE gate
    /\ rec' = GateIdle
    /\ UNCHANGED <<world, jobs, seen, evidence, score, gateEdits, faults>>

ReconcileCrash ==
    /\ Fault /\ rec # GateIdle
    /\ rec' = GateIdle
    /\ UNCHANGED <<gate, world, jobs, seen, evidence, score, gateEdits>>

Reconcile == \/ AddFinalizer \/ Cleanup
             \/ ReconcileEvaluate \/ ReconcileScore \/ ReconcileStatus

Next ==
    \/ \E c \in Candidates : CreateGate(c) \/ EditGate(c)
    \/ DeleteGate \/ EditWorld
    \/ \E n \in Names :
         \/ RunJob(n) \/ ExpireJob(n)
         \/ \E good \in BOOLEAN : FinishJob(n, good)
         \/ \E s \in {"garbled", "lost", "failed"} : SpoilJob(n, s)
    \/ Reconcile \/ ReconcileCrash

\* The controller requeues after 60 s, and Kubernetes runs jobs and removes
\* finished ones.
Fairness ==
    /\ WF_vars(Reconcile)
    /\ \A n \in Names :
         /\ WF_vars(RunJob(n)) /\ WF_vars(ExpireJob(n))
         /\ WF_vars(\E good \in BOOLEAN : FinishJob(n, good))

Spec == Init /\ [][Next]_vars /\ Fairness

-----------------------------------------------------------------------------
(* Properties *)

Covers(ev, d, model) ==
    d # "absent" /\ ev.candidate = model /\ PromptIDs(d) \subseteq PromptIDs(ev.dataset)

\* A gate that passed in its current generation passed on good evidence about
\* the candidate it names now, with a result for every prompt and telemetry,
\* however dataset, spec, evidence and the object itself changed while it was
\* evaluated (Reconcile, hasSourceAndCandidateEvidence, writeRawEvidence).
PassIsAboutCandidate ==
    LET s == gate.status IN
    (s.verdict = "candidate-safe" /\ s.gen = gate.gen)
      => /\ s.basis.good /\ Covers(s.basis, s.dataset, gate.candidate)
         /\ s.telemetry \in {"band", "high"}

\* The quality score of a model comes from evidence about that model, also when
\* the gate's candidate changes while a job runs (evidenceByIDForModel,
\* updateCandidateModelQuality).
ScoreIsOwn ==
    \A c \in Candidates : score[c] # NoEvidence => score[c].candidate = c

\* Evidence is used for the model it is about, in the verdict and in the score.
EvidenceIsOwn == PassIsAboutCandidate /\ ScoreIsOwn

\* A passed gate is not failed by a composite score that is still above the exit
\* score (ApplyHysteresis with the verdict of the previous reconcile).
NoFlapping ==
    [][(/\ gate.status.verdict = "candidate-safe"
        /\ gate'.status.verdict = "candidate-risk")
         => LET s == gate'.status IN
            \/ ~s.basis.good \/ s.telemetry \in {"none", "low"}
            \/ PromptIDs(s.dataset) = {}
            \/ ~Covers(s.basis, s.dataset, gate.candidate)]_vars

\* The gate can be judged: there are prompts and telemetry, and the candidate
\* may be evaluated.
Evaluable ==
    gate.phase = "live" /\ prompts # {} /\ telemetry # "none" /\ ~blocked

Judged ==
    /\ gate.status.gen = gate.gen
    /\ Covers(gate.status.basis, dataset, gate.candidate)

\* A gate that stays evaluable is judged on evidence for all its prompts, in
\* spite of failed jobs, truncated messages, lost pods, old jobs and edits
\* (reconcileEvaluationJob, ttlSecondsAfterFinished).
EventuallyJudged == <>[]Evaluable => <>[]Judged

=============================================================================
