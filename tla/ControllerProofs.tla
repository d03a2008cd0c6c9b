-------------------------- MODULE ControllerProofs --------------------------
(***************************************************************************)
(* Safety of the quality gate controller, for all datasets, candidates,    *)
(* gates, edits and faults, and of the controllers that rewrite routes,    *)
(* for any models, routes, reroutes and number of edits.  Nothing of the   *)
(* fairness is used.                                                       *)
(*                                                                         *)
(* Both follow what a reconciler read through the steps it takes while     *)
(* others write.  A gate's reconcile carries its copy of the gate and the  *)
(* status computed from it, which is stored only if the gate is still the  *)
(* one that was read.  A route controller's index of backends is read      *)
(* before the routes are listed: what is true of it later is what was true *)
(* when it was read, that it holds no reserved backend.                    *)
(*                                                                         *)
(* Last, the reconcilers of reports, sovereignty, budgets and routing, for *)
(* all metrics, catalogs and policies: what they publish, find, recommend, *)
(* enforce and fall back to.  Decisions are about what was read at one     *)
(* time, so that the invariants are about a decision and what it was made  *)
(* from.                                                                   *)
(***************************************************************************)
EXTENDS QualityGate, RouteControl, FinOps, SumTheorems

-----------------------------------------------------------------------------
(* The quality gate: its inductive invariant *)

IsGate(g) ==
    g = [uid |-> g.uid, phase |-> g.phase, finalizer |-> g.finalizer,
         gen |-> g.gen, candidate |-> g.candidate, status |-> g.status]

\* The status s, if it passes the candidate, rests on evidence about it.
Passes(s, candidate) ==
    s.verdict = "candidate-safe" =>
        /\ s.basis.good /\ Covers(s.basis, s.dataset, candidate)
        /\ s.telemetry \in {"band", "high"}

\* What fails a gate that had passed.
Grounds(s, candidate) ==
    \/ ~s.basis.good \/ s.telemetry \in {"none", "low"}
    \/ PromptIDs(s.dataset) = {}
    \/ ~Covers(s.basis, s.dataset, candidate)

\* The stored gate: a status of an earlier generation says nothing.
GateOK ==
    /\ IsGate(gate)
    /\ gate.gen \in Nat /\ gate.status.gen \in Nat
    /\ gate.status.gen <= gate.gen
    /\ gate.status.gen = gate.gen => Passes(gate.status, gate.candidate)

\* The reconcile in progress: its copy of the gate and the status to be written.
RecOK ==
    \/ rec = GateIdle
    \/ /\ rec = [pc |-> rec.pc, gate |-> rec.gate, status |-> rec.status]
       /\ rec.pc \in {"score", "status"}
       /\ rec.status.gen = rec.gate.gen
       /\ Passes(rec.status, rec.gate.candidate)
       /\ rec.pc = "score" => rec.status.basis.candidate = rec.gate.candidate
       /\ (/\ rec.gate.status.verdict = "candidate-safe"
           /\ rec.status.verdict = "candidate-risk")
             => Grounds(rec.status, rec.gate.candidate)

ScoresOK == score = [c \in Candidates |-> score[c]] /\ ScoreIsOwn

QualityInv ==
    /\ telemetry \in Bands \cup {"none"}
    /\ GateOK
    /\ RecOK
    /\ ScoresOK

-----------------------------------------------------------------------------
LEMMA QualityInitHolds == Init => QualityInv
<1> SUFFICES ASSUME Init PROVE QualityInv
  OBVIOUS
<1>1. telemetry \in Bands \cup {"none"}
  BY QualityAssumption DEF Init, QualityAssumption
<1>2. GateOK
  BY DEF Init, GateOK, IsGate, NoGate, NoStatus, Passes
<1>3. RecOK
  BY DEF Init, RecOK
<1>4. ScoresOK
  BY DEF Init, ScoresOK, ScoreIsOwn
<1> QED BY <1>1, <1>2, <1>3, <1>4 DEF QualityInv

\* What Verdict is computed from bears it out.
LEMMA VerdictIsGrounded ==
    ASSUME telemetry \in Bands \cup {"none"}, NEW s,
           s = [gen |-> gate.gen, verdict |-> Verdict, basis |-> evidence,
                telemetry |-> telemetry, dataset |-> dataset]
    PROVE  /\ Passes(s, gate.candidate)
           /\ Scored => s.basis.candidate = gate.candidate
           /\ gate.status.verdict = "candidate-safe" /\ s.verdict = "candidate-risk"
                 => Grounds(s, gate.candidate)
<1>1. /\ s.verdict = Verdict /\ s.basis = evidence /\ s.telemetry = telemetry
      /\ s.dataset = dataset
  OBVIOUS
<1>2. Scored => evidence.candidate = gate.candidate
  BY DEF Scored, evidenceByIDForModel
<1>3. Verdict = "candidate-safe" => ~Failures /\ ~Pending
  BY DEF Verdict
<1>4. Verdict = "candidate-risk" => Failures
  BY DEF Verdict
<1>5. Passes(s, gate.candidate)
  <2> SUFFICES ASSUME ~Failures, ~Pending
               PROVE  /\ evidence.good /\ Covers(evidence, dataset, gate.candidate)
                      /\ telemetry \in {"band", "high"}
    BY <1>1, <1>3 DEF Passes
  <2>1. dataset # "absent" /\ prompts # {} /\ hasSourceAndCandidateEvidence /\ Scored
    BY DEF Failures, Pending
  <2>2. evidence.good
    BY <2>1 DEF Failures
  <2>3. Covers(evidence, dataset, gate.candidate)
    BY <1>2, <2>1 DEF Covers, hasSourceAndCandidateEvidence, evidenceByIDForModel, prompts
  <2>4. telemetry \in {"band", "high"}
    BY <2>1 DEF Failures, HysteresisSafe, Composite
  <2> QED BY <2>2, <2>3, <2>4
<1>6. gate.status.verdict = "candidate-safe" /\ Failures => Grounds(s, gate.candidate)
  <2> SUFFICES ASSUME gate.status.verdict = "candidate-safe", Failures
               PROVE  \/ ~evidence.good \/ telemetry \in {"none", "low"}
                      \/ PromptIDs(dataset) = {}
                      \/ ~Covers(evidence, dataset, gate.candidate)
    BY <1>1 DEF Grounds
  <2>1. CASE prompts = {} \/ ~evidence.good
    BY <2>1 DEF prompts
  <2>2. CASE prompts # {} /\ ~HysteresisSafe("candidate-safe", Composite)
    <3>1. CASE Scored
      BY <2>2, <3>1 DEF HysteresisSafe, Composite, Bands
    <3>2. CASE ~Scored
      BY <2>2, <3>2 DEF Scored, Covers, evidenceByIDForModel, prompts
    <3> QED BY <3>1, <3>2
  <2> QED BY <2>1, <2>2 DEF Failures
<1> QED BY <1>1, <1>2, <1>4, <1>5, <1>6

\* A new or removed gate has no status.
LEMMA FreshGate ==
    ASSUME NEW g, IsGate(g), g.gen \in Nat, g.status = NoStatus, gate' = g
    PROVE  GateOK'
<1>1. g.status.gen = 0 /\ g.status.verdict # "candidate-safe"
  BY DEF NoStatus
<1>2. IsGate(gate)'
  BY DEF IsGate
<1>3. gate'.gen \in Nat /\ gate'.status.gen \in Nat /\ gate'.status.gen <= gate'.gen
  BY <1>1
<1>4. Passes(gate.status, gate.candidate)'
  BY <1>1 DEF Passes
<1> QED BY <1>2, <1>3, <1>4 DEF GateOK

LEMMA RemovedGate ==
    ASSUME NEW u
    PROVE  LET g == [NoGate EXCEPT !.uid = u]
           IN  IsGate(g) /\ g.gen \in Nat /\ g.status = NoStatus
<1>1. IsGate(NoGate) /\ NoGate.gen \in Nat /\ NoGate.status = NoStatus
  BY DEF NoGate, IsGate
<1> QED BY <1>1 DEF IsGate

LEMMA QualityStepHolds == QualityInv /\ [Next]_vars => QualityInv'
<1> SUFFICES ASSUME QualityInv, [Next]_vars PROVE QualityInv'
  OBVIOUS
<1> USE DEF QualityInv
<1>1. ASSUME UNCHANGED <<gate, telemetry, score>>, RecOK' PROVE QualityInv'
  BY <1>1 DEF GateOK, ScoresOK, ScoreIsOwn
<1>2. ASSUME UNCHANGED <<telemetry, score, rec>>, GateOK' PROVE QualityInv'
  BY <1>2 DEF RecOK, ScoresOK, ScoreIsOwn
<1>3. ASSUME UNCHANGED <<gate, telemetry, score, rec>> PROVE QualityInv'
  BY <1>1, <1>3 DEF RecOK
<1>4. ASSUME NEW c \in Candidates, CreateGate(c) PROVE QualityInv'
  <2> DEFINE g1 == [NoGate EXCEPT !.uid = gate.uid + 1]
             g2 == [g1 EXCEPT !.phase = "live"]
             g3 == [g2 EXCEPT !.gen = 1]
             g4 == [g3 EXCEPT !.candidate = c]
  <2>2. gate' = g4
    BY <1>4 DEF CreateGate
  <2>3. IsGate(g1) /\ g1.status = NoStatus
    BY RemovedGate
  <2> HIDE DEF g1
  <2>4. IsGate(g2) /\ g2.status = NoStatus
    BY <2>3 DEF IsGate
  <2> HIDE DEF g2
  <2>5. IsGate(g3) /\ g3.status = NoStatus /\ g3.gen = 1
    BY <2>4 DEF IsGate
  <2> HIDE DEF g3
  <2>6. IsGate(g4) /\ g4.status = NoStatus /\ g4.gen = 1
    BY <2>5 DEF IsGate
  <2> HIDE DEF g4
  <2>1. GateOK'
    BY <2>2, <2>6, FreshGate
  <2> QED BY <1>2, <1>4, <2>1 DEF CreateGate, world
<1>5. ASSUME NEW c \in Candidates, EditGate(c) PROVE QualityInv'
  <2> DEFINE g1 == [gate EXCEPT !.gen = gate.gen + 1]
             g == [g1 EXCEPT !.candidate = c]
  <2>1. gate' = g
    BY <1>5 DEF EditGate
  <2>2. IsGate(g1) /\ g1.gen = gate.gen + 1 /\ g1.status = gate.status
    BY DEF GateOK, IsGate
  <2> HIDE DEF g1
  <2>3. IsGate(g) /\ g.gen = gate.gen + 1 /\ g.status = gate.status
    BY <2>2 DEF IsGate
  <2> HIDE DEF g
  <2>4. GateOK'
    BY <2>1, <2>3 DEF GateOK
  <2> QED BY <1>2, <1>5, <2>4 DEF EditGate, world
<1>6. CASE DeleteGate
  <2>1. GateOK'
    <3>1. CASE gate' = [NoGate EXCEPT !.uid = gate.uid]
      BY <3>1, RemovedGate, FreshGate
    <3>2. CASE gate' = [gate EXCEPT !.phase = "deleting"]
      <4> DEFINE g == [gate EXCEPT !.phase = "deleting"]
      <4>1. IsGate(g) /\ g.gen = gate.gen /\ g.status = gate.status
            /\ g.candidate = gate.candidate
        BY DEF GateOK, IsGate
      <4> HIDE DEF g
      <4> QED BY <3>2, <4>1 DEF GateOK, g
    <3> QED BY <1>6, <3>1, <3>2 DEF DeleteGate
  <2> QED BY <1>2, <1>6, <2>1 DEF DeleteGate, world
<1>7. CASE EditWorld
  <2>1. telemetry' \in Bands \cup {"none"}
    BY <1>7 DEF EditWorld, world
  <2> QED BY <1>7, <2>1 DEF EditWorld, GateOK, RecOK, ScoresOK, ScoreIsOwn
<1>8. ASSUME NEW n \in Names,
             \/ RunJob(n) \/ ExpireJob(n)
             \/ \E good \in BOOLEAN : FinishJob(n, good)
             \/ \E st \in {"garbled", "lost", "failed"} : SpoilJob(n, st)
      PROVE  QualityInv'
  BY <1>3, <1>8 DEF RunJob, ExpireJob, FinishJob, SpoilJob, Becomes, world
<1>9. CASE AddFinalizer
  <2>1. GateOK'
    BY <1>9 DEF AddFinalizer, GateOK, IsGate
  <2> QED BY <1>2, <1>9, <2>1 DEF AddFinalizer, world
<1>10. CASE Cleanup
  <2>1. GateOK'
    BY <1>10, RemovedGate, FreshGate DEF Cleanup
  <2> QED BY <1>2, <1>10, <2>1 DEF Cleanup, world
<1>11. CASE ReconcileEvaluate
  <2> DEFINE s == [gen |-> gate.gen, verdict |-> Verdict, basis |-> evidence,
                   telemetry |-> telemetry, dataset |-> dataset]
             pc == IF Scored THEN "score" ELSE "status"
  <2>1. rec' = [pc |-> pc, gate |-> gate, status |-> s]
        /\ UNCHANGED <<gate, telemetry, score>>
    BY <1>11 DEF ReconcileEvaluate, world
  <2>2. /\ Passes(s, gate.candidate)
        /\ Scored => s.basis.candidate = gate.candidate
        /\ gate.status.verdict = "candidate-safe" /\ s.verdict = "candidate-risk"
              => Grounds(s, gate.candidate)
    BY VerdictIsGrounded
  <2>3. s.gen = gate.gen
    OBVIOUS
  <2> HIDE DEF s
  <2>4. RecOK'
    BY <2>1, <2>2, <2>3 DEF RecOK
  <2> QED BY <1>1, <2>1, <2>4
<1>12. CASE ReconcileScore
  <2>0. rec # GateIdle /\ UNCHANGED <<gate, telemetry>> /\ rec.pc = "score"
    BY <1>12 DEF ReconcileScore, GateIdle, world
  <2>1. CASE evidence = NoEvidence
    BY <1>1, <1>12, <2>0, <2>1 DEF ReconcileScore, RecOK
  <2>2. CASE evidence # NoEvidence
    <3>1. score' = [score EXCEPT ![rec.gate.candidate] = rec.status.basis]
          /\ rec' = [rec EXCEPT !.pc = "status"]
      BY <1>12, <2>2 DEF ReconcileScore
    <3>2. rec.status.basis.candidate = rec.gate.candidate
      BY <2>0 DEF RecOK
    <3>3. ScoresOK'
      BY <3>1, <3>2 DEF ScoresOK, ScoreIsOwn
    <3>4. /\ rec' = [pc |-> "status", gate |-> rec.gate, status |-> rec.status]
      BY <2>0, <3>1 DEF RecOK
    <3>5. RecOK'
      BY <2>0, <3>4 DEF RecOK
    <3> QED BY <2>0, <3>3, <3>5 DEF GateOK
  <2> QED BY <2>1, <2>2
<1>13. CASE ReconcileStatus
  <2>1. /\ rec # GateIdle /\ rec' = GateIdle /\ UNCHANGED <<telemetry, score>>
    BY <1>13 DEF ReconcileStatus, GateIdle, world
  <2>2. GateOK'
    <3>1. CASE gate # rec.gate
      BY <1>13, <3>1 DEF ReconcileStatus, SameVersion, GateOK
    <3>2. CASE gate = rec.gate
      <4> DEFINE g == [gate EXCEPT !.status = rec.status]
      <4>1. gate' = g
        BY <1>13, <3>2 DEF ReconcileStatus, SameVersion
      <4>2. IsGate(g) /\ g.gen = gate.gen /\ g.candidate = gate.candidate
            /\ g.status = rec.status
        BY DEF GateOK, IsGate
      <4> HIDE DEF g
      <4>3. rec.status.gen = gate.gen /\ Passes(rec.status, gate.candidate)
        BY <2>1, <3>2 DEF RecOK
      <4> QED BY <4>1, <4>2, <4>3 DEF GateOK
    <3> QED BY <3>1, <3>2
  <2> QED BY <2>1, <2>2 DEF RecOK, ScoresOK, ScoreIsOwn
<1>14. CASE ReconcileCrash
  BY <1>1, <1>14 DEF ReconcileCrash, RecOK, world
<1>15. CASE UNCHANGED vars
  BY <1>3, <1>15 DEF vars
<1> QED BY <1>4, <1>5, <1>6, <1>7, <1>8, <1>9, <1>10, <1>11, <1>12, <1>13, <1>14, <1>15
        DEF Next, Reconcile

LEMMA QualityInvariant == Spec => []QualityInv
BY QualityInitHolds, QualityStepHolds, PTL DEF Spec

\* A gate that passed in its generation passed on good, complete evidence about
\* its own candidate, and a model's score is its own, however dataset, spec,
\* evidence and object change under Reconcile.
THEOREM EvidenceIsAlwaysOwn == Spec => []EvidenceIsOwn
<1>1. QualityInv => EvidenceIsOwn
  BY DEF QualityInv, GateOK, Passes, ScoresOK, EvidenceIsOwn, PassIsAboutCandidate
<1> QED BY <1>1, QualityInvariant, PTL

\* ApplyHysteresis keeps a passed gate passed while the composite score stays
\* above the exit score and the evidence stays good and complete.
THEOREM GatesDoNotFlap == Spec => NoFlapping
<1>1. ASSUME QualityInv, [Next]_vars, gate.status.verdict = "candidate-safe",
             gate'.status.verdict = "candidate-risk"
      PROVE  Grounds(gate'.status, gate.candidate)
  <2>1. gate' # gate
    BY <1>1
  <2>2. CASE ReconcileStatus
    <3>1. gate = rec.gate /\ gate' = [gate EXCEPT !.status = rec.status]
      BY <2>1, <2>2 DEF ReconcileStatus, SameVersion
    <3>2. gate'.status = rec.status
      BY <1>1, <3>1 DEF QualityInv, GateOK, IsGate
    <3>3. rec # GateIdle
      BY <2>2 DEF ReconcileStatus, GateIdle
    <3> QED BY <1>1, <3>1, <3>2, <3>3 DEF QualityInv, RecOK
  <2>3. ASSUME CreateGate(gate'.candidate) \/ DeleteGate \/ Cleanup
               \/ (\E c \in Candidates : CreateGate(c) \/ EditGate(c)) \/ AddFinalizer
        PROVE  gate'.status \in {gate.status, NoStatus}
    BY <1>1, <2>3 DEF CreateGate, EditGate, DeleteGate, Cleanup, AddFinalizer, NoGate,
       QualityInv, GateOK, IsGate
  <2>4. gate'.status \notin {gate.status, NoStatus}
    BY <1>1 DEF NoStatus
  <2> QED BY <1>1, <2>1, <2>2, <2>3, <2>4 DEF Next, Reconcile, vars, EditWorld, RunJob,
             ExpireJob, FinishJob, SpoilJob, Becomes, ReconcileEvaluate, ReconcileScore,
             ReconcileCrash
<1>2. QualityInv /\ [Next]_vars =>
        [(/\ gate.status.verdict = "candidate-safe"
          /\ gate'.status.verdict = "candidate-risk")
         => LET s == gate'.status IN
            \/ ~s.basis.good \/ s.telemetry \in {"none", "low"}
            \/ PromptIDs(s.dataset) = {}
            \/ ~Covers(s.basis, s.dataset, gate.candidate)]_vars
  BY <1>1 DEF Grounds
<1> QED BY <1>2, QualityInvariant, PTL DEF Spec, NoFlapping

-----------------------------------------------------------------------------
(* The route controllers *)

\* The index of a task never names the reserved backend.
Indexed(mb) == \A m \in Models : mb[m] # None => mb[m] # Block

\* What a controller is doing, and with which fields.
TaskOK(t) ==
    \/ t = Idle
    \/ /\ t.stage = "index" /\ Indexed(t.mb)
       /\ t = [stage |-> t.stage, want |-> t.want, block |-> t.block,
               mb |-> t.mb, object |-> t.object]
    \/ /\ t.stage \in {"update", "failed"} /\ Indexed(t.mb)
       /\ t = [stage |-> t.stage, want |-> t.want, block |-> t.block,
               mb |-> t.mb, object |-> t.object, todo |-> t.todo,
               stale |-> t.stale]

TasksOK == /\ task = [k \in Keys |-> task[k]]
           /\ \A k \in Keys : TaskOK(task[k])

\* The inductive invariant.
RouteInv == /\ TasksOK
            /\ saved = [k \in Keys |-> saved[k]]
            /\ SoleWriterRestores
            /\ NeverReroutedToBlock

-----------------------------------------------------------------------------
(* Tasks *)

\* Entering an actuation reads an index without the reserved backend.
LEMMA IndexRead == Indexed(ModelBackends)
BY DEF Indexed, ModelBackends

\* The stages of a task.
LEMMA TaskStages ==
  ASSUME NEW want, NEW block, NEW mb, NEW object, NEW todo, NEW stale,
         Indexed(mb)
  PROVE  /\ TaskOK(Idle)
         /\ TaskOK([stage |-> "index", want |-> want, block |-> block,
                    mb |-> mb, object |-> object])
         /\ \A stage \in {"update", "failed"} :
               TaskOK([stage |-> stage, want |-> want, block |-> block,
                       mb |-> mb, object |-> object, todo |-> todo,
                       stale |-> stale])
BY DEF TaskOK

\* A task under way keeps its index through every change of its other fields.
LEMMA TaskGoesOn ==
  ASSUME NEW t, TaskOK(t), t.stage = "update", NEW x
  PROVE  /\ TaskOK([t EXCEPT !.stage = "failed"])
         /\ TaskOK([t EXCEPT !.todo = x])
         /\ TaskOK([t EXCEPT !.stale = x])
         /\ [t EXCEPT !.todo = x].stage = "update"
         /\ [t EXCEPT !.todo = x].stale = t.stale
<1>1. /\ Indexed(t.mb)
      /\ t = [stage |-> t.stage, want |-> t.want, block |-> t.block,
              mb |-> t.mb, object |-> t.object, todo |-> t.todo,
              stale |-> t.stale]
  BY DEF TaskOK, Idle
<1> DEFINE f == [t EXCEPT !.stage = "failed"]
           d == [t EXCEPT !.todo = x]
           s == [t EXCEPT !.stale = x]
<1>2. f = [stage |-> "failed", want |-> t.want, block |-> t.block, mb |-> t.mb,
           object |-> t.object, todo |-> t.todo, stale |-> t.stale]
  BY <1>1
<1>3. d = [stage |-> "update", want |-> t.want, block |-> t.block, mb |-> t.mb,
           object |-> t.object, todo |-> x, stale |-> t.stale]
  BY <1>1
<1>4. s = [stage |-> "update", want |-> t.want, block |-> t.block, mb |-> t.mb,
           object |-> t.object, todo |-> t.todo, stale |-> x]
  BY <1>1
<1>5. d.stage = "update" /\ d.stale = t.stale
  BY <1>3
<1> HIDE DEF f, d, s
<1>6. TaskOK(f)
  BY <1>1, <1>2, TaskStages
<1>7. TaskOK(d)
  BY <1>1, <1>3, TaskStages
<1>8. TaskOK(s)
  BY <1>1, <1>4, TaskStages
<1> QED BY <1>5, <1>6, <1>7, <1>8 DEF f, d, s

\* A step that writes no route and moves one task keeps the invariant.
LEMMA TaskMoves ==
  ASSUME RouteInv, UNCHANGED <<rule, saved, writers>>,
         \/ UNCHANGED task
         \/ \E k \in Keys : \E t : TaskOK(t) /\ task' = [task EXCEPT ![k] = t]
  PROVE  RouteInv'
<1>1. TasksOK'
  <2>1. CASE UNCHANGED task
    BY <2>1 DEF RouteInv, TasksOK
  <2>2. ASSUME NEW k \in Keys, NEW t, TaskOK(t), task' = [task EXCEPT ![k] = t]
        PROVE  TasksOK'
    <3>1. task' = [j \in Keys |-> IF j = k THEN t ELSE task[j]]
      BY <2>2 DEF RouteInv, TasksOK
    <3> QED BY <2>2, <3>1 DEF RouteInv, TasksOK
  <2> QED BY <2>1, <2>2
<1> QED BY <1>1 DEF RouteInv, SoleWriterRestores, NeverReroutedToBlock

\* Entering and leaving an actuation.
LEMMA StartMoves ==
  ASSUME RouteInv, NEW k \in Keys, NEW want, NEW block, NEW object,
         Start(k, want, block, object), UNCHANGED <<rule, saved, writers>>
  PROVE  RouteInv'
BY IndexRead, TaskStages, TaskMoves DEF Start

LEMMA FinishMoves ==
  ASSUME RouteInv, NEW k \in Keys, Finish(k), UNCHANGED <<rule, saved, writers>>
  PROVE  RouteInv'
BY TaskMoves DEF Finish, TaskOK

LEMMA ListMoves ==
  ASSUME RouteInv, NEW k \in Keys, List(k)
  PROVE  RouteInv'
<1> DEFINE o == task[k]
           t == [stage |-> "update", want |-> o.want, block |-> o.block,
                 mb |-> o.mb, object |-> o.object, todo |-> Routes, stale |-> {}]
<1>1. o.stage = "index" /\ TaskOK(o)
  BY DEF List, RouteInv, TasksOK
<1>2. TaskOK(t)
  <2>1. Indexed(o.mb)
    BY <1>1 DEF TaskOK, Idle
  <2> QED BY <2>1, TaskStages
<1>3. task' = [task EXCEPT ![k] = t] /\ UNCHANGED <<rule, saved, writers>>
  BY DEF List
<1> HIDE DEF t
<1> QED BY <1>2, <1>3, TaskMoves

-----------------------------------------------------------------------------
(* Routes *)

\* ApplyControls never rewrites a rule to the reserved backend.
LEMMA AppliedNotToBlock ==
  ASSUME NEW k, NEW m \in Models, NEW want, NEW block, NEW mb, Indexed(mb),
         rule[m].body # None => rule[m].backend # Block
  PROVE  LET x == Applied(k, m, want, block, mb).rule
         IN  x.body # None => x.backend # Block
<1>1. \A target : BackendNamed(mb, target) # None => BackendNamed(mb, target) # Block
  BY DEF BackendNamed, Indexed
<1> QED BY <1>1 DEF Applied

\* A rule k alone ever wrote, once ApplyControls of k has been over it.
LEMMA AppliedRestores ==
  ASSUME NEW k \in Keys, NEW m \in Models, NEW want, NEW block, NEW mb,
         SoleWriterRestores, writers[m] \subseteq {k}
  PROVE  LET x == Applied(k, m, want, block, mb)
         IN  IF x.saved = None
             THEN x.rule = [backend |-> Original[m], body |-> None]
             ELSE x.saved = Original[m]
<1>1. IF saved[k][m] = None
      THEN rule[m] = [backend |-> Original[m], body |-> None]
      ELSE saved[k][m] = Original[m]
  BY DEF SoleWriterRestores
<1>2. Original[m] # None
  BY RouteAssumption
<1>3. SavedBefore(k, m) = Original[m]
  BY <1>1 DEF SavedBefore
<1> QED BY <1>1, <1>2, <1>3 DEF Applied

\* The update of one route.  A rule that changes gets its writer recorded, so
\* that of the rules of two controllers nothing is claimed.
LEMMA UpdateInv ==
  ASSUME RouteInv, NEW k \in Keys, Update(k)
  PROVE  RouteInv'
<1> DEFINE t == task[k]
           r == Next1(t)
           here == {m \in Models : RouteOf[m] = r}
           app(m) == Applied(k, m, t.want, t.block, t.mb)
           old(m) == [rule |-> rule[m], saved |-> saved[k][m]]
           val(m) == IF m \in here THEN app(m) ELSE old(m)
           new == [m \in Models |-> val(m)]
           changed == \E m \in here : Rerouted(m, t.want, t.mb) \/ saved[k][m] # None
                                      \/ (t.want[m] = None /\ m \in t.block)
           differs == {m \in here : new[m].rule # rule[m] \/ new[m].saved # saved[k][m]}
           after == [task EXCEPT ![k].todo = @ \ {r}]
<1>1. t.stage = "update" /\ TaskOK(t) /\ Indexed(t.mb)
  <2>1. t.stage = "update" /\ TaskOK(t)
    BY DEF Update, Stage, RouteInv, TasksOK
  <2> QED BY <2>1 DEF TaskOK, Idle
<1>2. task = [j \in Keys |-> task[j]] /\ \A j \in Keys : TaskOK(task[j])
  BY DEF RouteInv, TasksOK
<1>3. CASE changed /\ r \in t.stale
  <2>1. /\ task' = [task EXCEPT ![k].stage = "failed"]
        /\ UNCHANGED <<rule, saved, writers>>
    BY <1>3, Zenon DEF Update
  <2>2. task' = [task EXCEPT ![k] = [t EXCEPT !.stage = "failed"]]
    BY <2>1
  <2>3. TaskOK([t EXCEPT !.stage = "failed"])
    BY <1>1, TaskGoesOn
  <2> QED BY <2>1, <2>2, <2>3, TaskMoves
<1>4. CASE ~(changed /\ r \in t.stale)
  <2>1. /\ rule' = [m \in Models |-> new[m].rule]
        /\ saved' = [saved EXCEPT ![k] = [m \in Models |-> new[m].saved]]
        /\ task' = IF differs = {} THEN after ELSE WithStale(k, r, after)
        /\ writers' = [m \in Models |-> IF m \in differs THEN writers[m] \cup {k}
                                        ELSE writers[m]]
    BY <1>4, Zenon DEF Update
  <2>2. TasksOK'
    <3> DEFINE a == [t EXCEPT !.todo = t.todo \ {r}]
    <3>1. TaskOK(a)
      BY <1>1, TaskGoesOn
    <3>2. after = [j \in Keys |-> IF j = k THEN a ELSE task[j]]
      BY <1>2
    <3> HIDE DEF a, after
    <3>3. after = [j \in Keys |-> after[j]] /\ \A j \in Keys : TaskOK(after[j])
      BY <1>2, <3>1, <3>2
    <3> DEFINE b(j) == IF j # k /\ after[j].stage = "update"
                       THEN [after[j] EXCEPT !.stale = after[j].stale \cup {r}]
                       ELSE after[j]
    <3>4. \A j \in Keys : TaskOK(b(j))
      BY <3>3, TaskGoesOn
    <3>5. WithStale(k, r, after) = [j \in Keys |-> b(j)]
      BY DEF WithStale
    <3> HIDE DEF b
    <3> QED BY <2>1, <3>3, <3>4, <3>5 DEF TasksOK
  <2>3. \A m \in Models : /\ rule'[m] = val(m).rule
                          /\ saved'[k][m] = val(m).saved
    BY <2>1 DEF RouteInv
  <2>4. saved' = [j \in Keys |-> saved'[j]]
        /\ \A j \in Keys \ {k} : saved'[j] = saved[j]
    BY <2>1 DEF RouteInv
  <2>5. \A m \in Models : m \in differs \/ /\ rule'[m] = rule[m]
                                           /\ saved'[k][m] = saved[k][m]
    <3>1. \A m \in Models : new[m] = val(m)
      OBVIOUS
    <3>2. \A m \in Models \ here : val(m).rule = rule[m] /\ val(m).saved = saved[k][m]
      OBVIOUS
    <3> HIDE DEF val, new
    <3> QED BY <2>3, <3>1, <3>2
  <2>6. \A m \in differs : m \in here /\ m \in Models
    OBVIOUS
  <2>7. \A m \in here : val(m) = app(m)
    OBVIOUS
  <2>8. \A m \in Models : writers'[m] = IF m \in differs THEN writers[m] \cup {k}
                                        ELSE writers[m]
    BY <2>1
  <2> HIDE DEF differs, val, here
  <2>9. NeverReroutedToBlock'
    <3> SUFFICES ASSUME NEW m \in Models, rule'[m].body # None
                 PROVE  rule'[m].backend # Block
      BY DEF NeverReroutedToBlock
    <3>1. rule[m].body # None => rule[m].backend # Block
      BY DEF RouteInv, NeverReroutedToBlock
    <3>2. app(m).rule.body # None => app(m).rule.backend # Block
      BY <1>1, <3>1, AppliedNotToBlock
    <3> HIDE DEF app
    <3> QED BY <2>3, <2>5, <2>6, <2>7, <3>1, <3>2
  <2>10. SoleWriterRestores'
    <3> SUFFICES ASSUME NEW m \in Models, NEW j \in Keys, writers'[m] \subseteq {j}
                 PROVE  IF saved'[j][m] = None
                        THEN rule'[m] = [backend |-> Original[m], body |-> None]
                        ELSE saved'[j][m] = Original[m]
      BY DEF SoleWriterRestores
    <3>1. CASE m \in differs
      <4>1. j = k /\ writers[m] \subseteq {k}
        BY <2>8, <3>1
      <4>2. IF app(m).saved = None
            THEN app(m).rule = [backend |-> Original[m], body |-> None]
            ELSE app(m).saved = Original[m]
        BY <4>1, AppliedRestores DEF RouteInv
      <4> HIDE DEF app
      <4> QED BY <2>3, <2>6, <2>7, <3>1, <4>1, <4>2
    <3>2. CASE m \notin differs
      <4>1. writers[m] \subseteq {j} /\ rule'[m] = rule[m] /\ saved'[j][m] = saved[j][m]
        BY <2>4, <2>5, <2>8, <3>2
      <4> QED BY <4>1 DEF RouteInv, SoleWriterRestores
    <3> QED BY <3>1, <3>2
  <2> QED BY <2>2, <2>4, <2>9, <2>10 DEF RouteInv
<1> QED BY <1>3, <1>4

-----------------------------------------------------------------------------
(* The specification *)

\* The routes start as they are, with no controller at work.
LEMMA RouteInitInv == RouteInit => RouteInv
BY DEF RouteInit, RouteInv, TasksOK, TaskOK, SoleWriterRestores, NeverReroutedToBlock

\* Every step keeps the invariant.
LEMMA RouteNextInv == RouteInv /\ [RouteNext]_routeVars => RouteInv'
<1> SUFFICES ASSUME RouteInv, [RouteNext]_routeVars
             PROVE  RouteInv'
  OBVIOUS
<1>1. {"sovereignty", "budget", "override", "change"} = Keys
  BY DEF Keys
<1>2. CASE SovReconcile
  BY <1>1, <1>2, StartMoves DEF SovReconcile
<1>3. CASE BudgetReconcile
  BY <1>1, <1>3, StartMoves DEF BudgetReconcile
<1>4. CASE SovFinish \/ BudgetFinish \/ OverrideFinish \/ ChangeFinish
  BY <1>1, <1>4, FinishMoves DEF SovFinish, BudgetFinish, OverrideFinish, ChangeFinish
<1>5. ASSUME NEW q \in Reroutes, OverrideReconcile(q)
      PROVE  RouteInv'
  BY <1>1, <1>5, StartMoves, TaskMoves DEF OverrideReconcile
<1>6. ASSUME NEW q \in Reroutes, ChangeReconcile(q)
      PROVE  RouteInv'
  BY <1>1, <1>6, StartMoves, TaskMoves DEF ChangeReconcile
<1>7. CASE SovEdit \/ BudgetEdit
  BY <1>7, TaskMoves DEF SovEdit, BudgetEdit
<1>8. ASSUME NEW q \in Reroutes, OverrideEdit(q) \/ ChangeEdit(q)
      PROVE  RouteInv'
  BY <1>8, TaskMoves DEF OverrideEdit, ChangeEdit
<1>9. CASE UNCHANGED routeVars
  BY <1>9, TaskMoves DEF routeVars
<1> QED BY <1>2, <1>3, <1>4, <1>5, <1>6, <1>7, <1>8, <1>9, ListMoves, UpdateInv
           DEF RouteNext, Controllers

\* The controllers keep the inductive invariant.
THEOREM RouteInvariant == RouteSpec => []RouteInv
BY RouteInitInv, RouteNextInv, PTL DEF RouteSpec

\* A rule only one controller ever wrote is under its control with the original
\* backend saved, or exactly as it was: conflicts, half-done actuations, retries
\* and deletions lose no original backend.
THEOREM OriginalsAreRestored == RouteSpec => []SoleWriterRestores
<1>1. RouteInv => SoleWriterRestores
  BY DEF RouteInv
<1> QED BY <1>1, RouteInvariant, PTL

\* However old the index an actuation works from, no traffic is rewritten to
\* another model and sent to the reserved backend.
THEOREM NoRerouteToBlock == RouteSpec => []NeverReroutedToBlock
<1>1. RouteInv => NeverReroutedToBlock
  BY DEF RouteInv
<1> QED BY <1>1, RouteInvariant, PTL

-----------------------------------------------------------------------------
(* Reports and budget fallbacks: the inductive invariant *)

FinOpsInv ==
    /\ scrape \in Scrapes
    /\ catalog \in DOMAIN Catalogs
    /\ IsFiniteSet(stubs)
    /\ owned = [o \in Owners |-> owned[o]]
    /\ SeriesHaveAnOwner
    /\ FallbackSparesOthers

-----------------------------------------------------------------------------
(* Listings, price books and samples *)

\* The image of a finite set under a function is finite.
LEMMA FiniteImage ==
  ASSUME NEW S, IsFiniteSet(S), NEW f, DOMAIN f = S
  PROVE  IsFiniteSet({f[x] : x \in S})
<1> DEFINE T == {f[x] : x \in S}
           g == [x \in S |-> f[x]]
<1>1. g \in Surjection(S, T)
  BY DEF Surjection
<1> QED BY <1>1, FS_Surjection

\* A finite set of integers that is not empty has a largest and a least member.
LEMMA Extremes ==
  ASSUME NEW S, IsFiniteSet(S), S \subseteq Int, S # {}
  PROVE  /\ Max(S) \in S /\ \A y \in S : Max(S) >= y
         /\ Min(S) \in S /\ \A y \in S : Min(S) <= y
<1> DEFINE Good(A) == /\ \E x \in A : \A y \in A : x >= y
                      /\ \E x \in A : \A y \in A : x <= y
           Bad == {A \in SUBSET S : A # {} /\ ~Good(A)}
<1>1. Bad = {}
  <2>1. SUFFICES ASSUME Bad # {} PROVE FALSE
    OBVIOUS
  <2>2. PICK A \in Bad : \A B \in SUBSET A : B # A => B \notin Bad
    <3>1. Bad \subseteq SUBSET S
      OBVIOUS
    <3> HIDE DEF Bad
    <3> QED BY <2>1, <3>1, SmallestBad
  <2>3. PICK a \in A : TRUE
    OBVIOUS
  <2>4. a \in Int /\ A \subseteq Int
    OBVIOUS
  <2>5. CASE A = {a}
    <3>1. Good(A)
      BY <2>4, <2>5
    <3> QED BY <3>1
  <2>6. CASE A # {a}
    <3> DEFINE B == A \ {a}
    <3>1. B \in SUBSET S /\ B # {} /\ B # A
      BY <2>6
    <3>2. Good(B)
      BY <2>2, <3>1
    <3>3. PICK u \in B : \A y \in B : u >= y
      BY <3>2
    <3>4. PICK l \in B : \A y \in B : l <= y
      BY <3>2
    <3>5. \E x \in A : \A y \in A : x >= y
      <4>1. CASE u >= a
        BY <2>4, <3>3, <4>1
      <4>2. CASE ~(u >= a)
        <5>1. \A y \in A : a >= y
          BY <2>4, <3>3, <4>2
        <5> QED BY <5>1
      <4> QED BY <4>1, <4>2
    <3>6. \E x \in A : \A y \in A : x <= y
      <4>1. CASE l <= a
        BY <2>4, <3>4, <4>1
      <4>2. CASE ~(l <= a)
        <5>1. \A y \in A : a <= y
          BY <2>4, <3>4, <4>2
        <5> QED BY <5>1
      <4> QED BY <4>1, <4>2
    <3> QED BY <3>5, <3>6
  <2> QED BY <2>5, <2>6
<1>2. Good(S)
  BY <1>1
<1> QED BY <1>2 DEF Max, Min

\* The users' models come first, then each stub once.
ListParts(c, auto, ms, n, k) ==
    /\ n \in Nat /\ k \in Nat
    /\ DOMAIN Catalogs[c] = 1 .. n /\ DOMAIN ms = 1 .. n + k
    /\ \A i \in 1 .. n : ms[i] = Catalogs[c][i]
    /\ \A i \in (n + 1) .. (n + k) : ms[i].model \in auto /\ ms[i] = Stub(ms[i].model)
    /\ \A i, j \in (n + 1) .. (n + k) : ms[i] = ms[j] => i = j

\* loadCatalog's list has these parts.
LEMMA ListingParts ==
  ASSUME NEW c \in DOMAIN Catalogs, NEW auto, IsFiniteSet(auto)
  PROVE  \E n, k : ListParts(c, auto, Listing(c, auto), n, k)
<1> DEFINE S == {Stub(m) : m \in auto}
           T == SetToSeq(S)
           C == Catalogs[c]
           U == ToSet(C)
           ms == Listing(c, auto)
<1>1. IsFiniteSet(S)
  <2> DEFINE f == [m \in auto |-> Stub(m)]
  <2>1. IsFiniteSet({f[m] : m \in auto})
    <3>1. DOMAIN f = auto
      OBVIOUS
    <3> HIDE DEF f
    <3> QED BY <3>1, FiniteImage
  <2>2. {f[m] : m \in auto} = S
    OBVIOUS
  <2> QED BY <2>1, <2>2
<1>2. Cardinality(S) \in Nat /\ T \in [1 .. Cardinality(S) -> S] /\ IsInjective(T)
  <2> HIDE DEF S
  <2>1. Cardinality(S) \in Nat /\ ExistsBijection(1 .. Cardinality(S), S)
    BY <1>1, FS_CardinalityType
  <2>2. PICK g : g \in Bijection(1 .. Cardinality(S), S)
    BY <2>1 DEF ExistsBijection
  <2>3. g \in [1 .. Cardinality(S) -> S] /\ IsInjective(g)
    BY <2>2 DEF Bijection, Injection, IsInjective
  <2> QED BY <2>1, <2>3 DEF SetToSeq
<1>3. C \in Seq(U)
  BY FinOpsInputs DEF CatalogAssumption
<1> DEFINE n == Len(C)
           k == Cardinality(S)
<1> HIDE DEF S, T, C, U
<1>4. n \in Nat /\ DOMAIN C = 1 .. n
  BY <1>3
<1>5. T \in Seq(S) /\ Len(T) = k /\ k \in Nat
  BY <1>2
<1>6. ms = C \o T
  BY DEF Listing, S, T, C
<1>7. /\ DOMAIN ms = 1 .. n + k
      /\ \A i \in 1 .. n : ms[i] = C[i]
      /\ \A i \in (n + 1) .. (n + k) : i - n \in 1 .. k /\ ms[i] = T[i - n]
  <2>1. C \in Seq(U \cup S) /\ T \in Seq(U \cup S)
    BY <1>3, <1>5
  <2> QED BY <1>4, <1>5, <1>6, <2>1
<1> HIDE DEF n, k, ms
<1>8. \A m \in auto : Stub(m).model = m
  BY DEF Stub
<1>9. ASSUME NEW i \in (n + 1) .. (n + k)
      PROVE  ms[i].model \in auto /\ ms[i] = Stub(ms[i].model)
  <2>1. T[i - n] \in S
    BY <1>2, <1>7, <1>9 DEF k
  <2>2. PICK m \in auto : T[i - n] = Stub(m)
    BY <2>1 DEF S
  <2>3. ms[i] = Stub(m)
    BY <1>7, <1>9, <2>2
  <2> QED BY <1>8, <2>3
<1>10. ASSUME NEW i \in (n + 1) .. (n + k), NEW j \in (n + 1) .. (n + k), ms[i] = ms[j] PROVE i = j
  <2>1. T[i - n] = T[j - n] /\ i - n \in 1 .. k /\ j - n \in 1 .. k
    BY <1>7, <1>10
  <2>2. DOMAIN T = 1 .. k
    BY <1>2 DEF k
  <2>3. i - n = j - n
    BY <1>2, <2>1, <2>2 DEF IsInjective
  <2> QED BY <1>4, <1>5, <1>10, <2>3
<1>11. ListParts(c, auto, ms, n, k)
  BY <1>4, <1>5, <1>7, <1>9, <1>10 DEF ListParts, C
<1> QED BY <1>11 DEF ms

\* The users' models and the stubs are a list.
LEMMA ListingIndices ==
  ASSUME NEW c \in DOMAIN Catalogs, NEW auto, IsFiniteSet(auto)
  PROVE  IsFiniteSet(DOMAIN Listing(c, auto)) /\ DOMAIN Listing(c, auto) \subseteq Int
<1>1. PICK n, k : ListParts(c, auto, Listing(c, auto), n, k)
  BY ListingParts
<1>2. DOMAIN Listing(c, auto) = 1 .. n + k /\ n + k \in Int
  BY <1>1 DEF ListParts
<1> QED BY <1>2, FS_Interval

\* Every model of the price book has natural prices.
LEMMA PricesAreNat ==
  ASSUME NEW ms, IsFiniteSet(DOMAIN ms), DOMAIN ms \subseteq Int,
         NEW m \in DOMAIN PriceBook(ms)
  PROVE  PriceBook(ms)[m].in \in Nat /\ PriceBook(ms)[m].out \in Nat
<1> DEFINE priced == {i \in Named(ms, m) : ms[i].provider \in DOMAIN Providers}
           user == {ms[i].model : i \in {j \in DOMAIN ms : ms[j].provider \in DOMAIN Providers}}
           p == Providers[ms[Max(priced)].provider]
<1>1. m \in DOMAIN Defaults \cup user
  BY DEF PriceBook
<1>2. PriceBook(ms)[m] = IF priced = {} THEN [in |-> Defaults[m].in, out |-> Defaults[m].out]
                         ELSE [in |-> p.in, out |-> p.out]
  BY <1>1 DEF PriceBook
<1>3. CASE priced = {}
  <2>1. m \in DOMAIN Defaults
    BY <1>1, <1>3 DEF Named
  <2>2. Defaults[m].in \in Nat /\ Defaults[m].out \in Nat
    BY <2>1, FinOpsAssumption DEF DefaultModel
  <2> QED BY <1>2, <1>3, <2>2
<1>4. CASE priced # {}
  <2>1. priced \subseteq DOMAIN ms
    BY DEF Named
  <2>2. IsFiniteSet(priced)
    BY <2>1, FS_Subset
  <2>3. Max(priced) \in priced
    <3> HIDE DEF priced
    <3> QED BY <1>4, <2>1, <2>2, Extremes
  <2>4. p.in \in Nat /\ p.out \in Nat
    BY <2>3, FinOpsInputs DEF CatalogAssumption
  <2> HIDE DEF priced, p
  <2>5. PriceBook(ms)[m] = [in |-> p.in, out |-> p.out]
    BY <1>2, <1>4
  <2> QED BY <2>4, <2>5
<1> QED BY <1>3, <1>4

\* The samples of a scrape are finitely many, with natural numbers of tokens.
LEMMA SamplesAreCounted ==
  ASSUME NEW live \in Scrapes, NEW ms
  PROVE  /\ IsFiniteSet(Collect(live, ms))
         /\ \A s \in Collect(live, ms) : /\ s.input \in Nat /\ s.output \in Nat
                                        /\ s.requests \in Nat /\ s.latency \in Nat
<1> DEFINE of(i) == {j \in live : SampleKey(ms, j) = SampleKey(ms, i)}
           grp == [i \in live |-> [key |-> SampleKey(ms, i), of |-> of(i)]]
           groups == {[key |-> SampleKey(ms, i), of |-> of(i)] : i \in live}
           typed(g, t) == {i \in g.of : Scraped[i].type = t}
           sum(g, t) == SumOver([i \in g.of |-> Scraped[i].sum], typed(g, t))
           counts(g) == {Scraped[i].count : i \in typed(g, "input") \cup typed(g, "duration")}
           provider(g) == LET p == Attribution(ms, g.key.model).provider
                          IN  IF p # Empty THEN p ELSE Scraped[Min(g.of)].provider
           latency(g) == IF typed(g, "duration") = {} THEN 0
                         ELSE Scraped[Max(typed(g, "duration"))].sum
           sample(g) == [ns |-> g.key.ns, app |-> g.key.app, model |-> g.key.model,
                         provider |-> provider(g),
                         input |-> sum(g, "input"), output |-> sum(g, "output"),
                         requests |-> Max({0} \cup counts(g)), latency |-> latency(g)]
           made == [g \in groups |-> sample(g)]
<1>1. Collect(live, ms) = {sample(g) : g \in groups}
  BY DEF Collect
<1>2. /\ IsFiniteSet(live) /\ live \subseteq Int
      /\ \A i \in live : Scraped[i].sum \in Nat /\ Scraped[i].count \in Nat
  BY FinOpsInputs DEF ScrapeAssumption
<1>3. IsFiniteSet(groups)
  <2>1. IsFiniteSet({grp[i] : i \in live})
    <3>1. DOMAIN grp = live
      OBVIOUS
    <3> HIDE DEF grp
    <3> QED BY <1>2, <3>1, FiniteImage
  <2>2. {grp[i] : i \in live} = groups
    OBVIOUS
  <2> QED BY <2>1, <2>2
<1>4. IsFiniteSet({sample(g) : g \in groups})
  <2>1. IsFiniteSet({made[g] : g \in groups})
    <3>1. DOMAIN made = groups
      OBVIOUS
    <3> HIDE DEF made, groups
    <3> QED BY <1>3, <3>1, FiniteImage
  <2>2. {made[g] : g \in groups} = {sample(g) : g \in groups}
    <3> HIDE DEF sample, groups
    <3> QED OBVIOUS
  <2> QED BY <2>1, <2>2
<1>5. ASSUME NEW g \in groups, NEW t PROVE sum(g, t) \in Nat
  <2>1. g.of \subseteq live
    OBVIOUS
  <2>2. typed(g, t) \subseteq g.of /\ IsFiniteSet(typed(g, t))
    <3>1. typed(g, t) \subseteq live
      BY <2>1
    <3> QED BY <1>2, <3>1, FS_Subset
  <2> DEFINE f == [i \in g.of |-> Scraped[i].sum]
  <2>3. \A i \in typed(g, t) : f[i] \in Nat
    BY <1>2, <2>1
  <2> HIDE DEF f, typed
  <2>4. SumOver(f, typed(g, t)) \in Nat
    BY <2>2, <2>3, SumNat
  <2> QED BY <2>4 DEF f
<1>6. ASSUME NEW g \in groups, NEW t
      PROVE  typed(g, t) \subseteq live /\ IsFiniteSet(typed(g, t))
  <2>1. typed(g, t) \subseteq live
    OBVIOUS
  <2> QED BY <1>2, <2>1, FS_Subset
<1>7. ASSUME NEW g \in groups PROVE Max({0} \cup counts(g)) \in Nat
  <2> DEFINE T == typed(g, "input") \cup typed(g, "duration")
             f == [i \in T |-> Scraped[i].count]
  <2>1. T \subseteq live /\ IsFiniteSet(T)
    <3> HIDE DEF typed, groups
    <3> QED BY <1>6, FS_Union
  <2>2. IsFiniteSet({f[i] : i \in T})
    <3>1. DOMAIN f = T
      OBVIOUS
    <3> HIDE DEF f, T
    <3> QED BY <2>1, <3>1, FiniteImage
  <2>3. {f[i] : i \in T} = counts(g)
    <3> HIDE DEF typed
    <3> QED OBVIOUS
  <2>4. counts(g) \subseteq Nat
    <3> HIDE DEF typed
    <3> QED BY <1>2, <2>1
  <2>5. IsFiniteSet({0} \cup counts(g))
    <3> HIDE DEF counts
    <3> QED BY <2>2, <2>3, FS_Singleton, FS_Union
  <2>6. Max({0} \cup counts(g)) \in {0} \cup counts(g)
    <3> HIDE DEF counts
    <3> QED BY <2>4, <2>5, Extremes
  <2> HIDE DEF counts
  <2> QED BY <2>4, <2>6
<1>8. ASSUME NEW g \in groups PROVE latency(g) \in Nat
  <2>1. CASE typed(g, "duration") = {}
    BY <2>1
  <2>2. CASE typed(g, "duration") # {}
    <3>1. Max(typed(g, "duration")) \in typed(g, "duration")
      <4>1. /\ IsFiniteSet(typed(g, "duration")) /\ typed(g, "duration") \subseteq Int
            /\ typed(g, "duration") \subseteq live
        BY <1>2, <1>6
      <4> HIDE DEF typed
      <4> QED BY <2>2, <4>1, Extremes
    <3>2. typed(g, "duration") \subseteq live
      BY <1>6
    <3> HIDE DEF typed
    <3> QED BY <1>2, <2>2, <3>1, <3>2
  <2> QED BY <2>1, <2>2
<1>9. ASSUME NEW s \in Collect(live, ms)
      PROVE  s.input \in Nat /\ s.output \in Nat /\ s.requests \in Nat /\ s.latency \in Nat
  <2>1. PICK g \in groups : s = sample(g)
    BY <1>1
  <2>2. /\ s.input = sum(g, "input") /\ s.output = sum(g, "output")
        /\ s.requests = Max({0} \cup counts(g)) /\ s.latency = latency(g)
    <3> HIDE DEF sum, provider, counts, latency, groups
    <3> QED BY <2>1
  <2>3. sum(g, "input") \in Nat /\ sum(g, "output") \in Nat
    BY <1>5
  <2> HIDE DEF sum, provider, counts, latency, groups
  <2> QED BY <1>7, <1>8, <2>2, <2>3
<1> QED BY <1>1, <1>4, <1>9

\* Natural quantities at natural prices cost a natural amount.
LEMMA PricedIsNat ==
  ASSUME NEW s, s.input \in Nat, s.output \in Nat, NEW price, price.in \in Nat, price.out \in Nat
  PROVE  Priced(s, price) \in Nat
<1>1. \A a, b \in Nat : a * b \in Nat
  OBVIOUS
<1>2. \A a, b \in Nat : a + b \in Nat
  OBVIOUS
<1>3. s.input * price.in \in Nat /\ s.output * price.out \in Nat
  BY <1>1
<1> QED BY <1>2, <1>3 DEF Priced

-----------------------------------------------------------------------------
(* Budget fallbacks *)

\* If each of some models costs its users less, and nothing else changes, the
\* whole costs less.
LEMMA LowerByModel ==
  ASSUME NEW mine, IsFiniteSet(mine), NEW F, IsFiniteSet(F), F # {},
         NEW new, NEW old, \A s \in mine : new[s] \in Int /\ old[s] \in Int,
         \A n \in F : SumOver(new, {s \in mine : s.model = n})
                        < SumOver(old, {s \in mine : s.model = n}),
         \A s \in mine : s.model \notin F => new[s] = old[s]
  PROVE  SumOver(new, mine) < SumOver(old, mine)
<1> DEFINE D(A) == {s \in mine : s.model \in A}
           Bad == {A \in SUBSET F : A # {} /\ ~(SumOver(new, D(A)) < SumOver(old, D(A)))}
<1>1. \A A : D(A) \subseteq mine /\ IsFiniteSet(D(A))
  BY FS_Subset
<1>2. ASSUME NEW A PROVE SumOver(new, D(A)) \in Int /\ SumOver(old, D(A)) \in Int
  <2> HIDE DEF D
  <2> QED BY <1>1, SumInt
<1>3. ASSUME NEW n \in F PROVE SumOver(new, D({n})) < SumOver(old, D({n}))
  <2>1. D({n}) = {s \in mine : s.model = n}
    OBVIOUS
  <2> QED BY <2>1
<1>4. Bad = {}
  <2>1. SUFFICES ASSUME Bad # {} PROVE FALSE
    OBVIOUS
  <2>2. PICK A \in Bad : \A B \in SUBSET A : B # A => B \notin Bad
    <3>1. Bad \subseteq SUBSET F
      OBVIOUS
    <3> HIDE DEF Bad
    <3> QED BY <2>1, <3>1, SmallestBad
  <2>3. PICK n \in A : TRUE
    OBVIOUS
  <2>4. n \in F /\ A \subseteq F
    OBVIOUS
  <2>5. CASE A = {n}
    BY <1>3, <2>4, <2>5
  <2>6. CASE A # {n}
    <3> DEFINE B == A \ {n}
    <3>1. B \in SUBSET A /\ B # A /\ B # {} /\ B \in SUBSET F
      BY <2>4, <2>6
    <3>2. SumOver(new, D(B)) < SumOver(old, D(B))
      BY <2>2, <3>1
    <3>3. D(A) \ D({n}) = D(B) /\ D({n}) \subseteq D(A)
      BY <2>3
    <3>4. /\ SumOver(new, D(A)) = SumOver(new, D(B)) + SumOver(new, D({n}))
          /\ SumOver(old, D(A)) = SumOver(old, D(B)) + SumOver(old, D({n}))
      <4>1. /\ \A s \in D(A) : new[s] \in Int
            /\ \A s \in D(A) : old[s] \in Int
        BY <1>1
      <4>2. IsFiniteSet(D(A))
        BY <1>1
      <4> HIDE DEF D, B
      <4>3. SumOver(new, D(A)) = SumOver(new, D(A) \ D({n})) + SumOver(new, D({n}))
        BY <3>3, <4>1, <4>2, SumSplit
      <4>4. SumOver(old, D(A)) = SumOver(old, D(A) \ D({n})) + SumOver(old, D({n}))
        BY <3>3, <4>1, <4>2, SumSplit
      <4> QED BY <3>3, <4>3, <4>4
    <3>5. SumOver(new, D({n})) < SumOver(old, D({n}))
      BY <1>3, <2>4
    <3>6. SumOver(new, D(A)) < SumOver(old, D(A))
      <4> HIDE DEF D, B
      <4> QED BY <1>2, <3>2, <3>4, <3>5
    <3> QED BY <3>6
  <2> QED BY <2>5, <2>6
<1>5. SumOver(new, D(F)) < SumOver(old, D(F))
  BY <1>4
<1>6. SumOver(new, mine \ D(F)) = SumOver(old, mine \ D(F))
  <2>1. IsFiniteSet(mine \ D(F))
    BY FS_Subset
  <2>2. \A s \in mine \ D(F) : new[s] = old[s]
    OBVIOUS
  <2> HIDE DEF D
  <2> QED BY <2>1, <2>2, SumEqual
<1>7. /\ SumOver(new, mine) = SumOver(new, mine \ D(F)) + SumOver(new, D(F))
      /\ SumOver(old, mine) = SumOver(old, mine \ D(F)) + SumOver(old, D(F))
  <2> HIDE DEF D
  <2> QED BY <1>1, SumSplit
<1>8. SumOver(old, mine \ D(F)) \in Int
  <2>1. IsFiniteSet(mine \ D(F))
    BY FS_Subset
  <2> HIDE DEF D
  <2> QED BY <2>1, SumInt
<1> HIDE DEF D
<1> QED BY <1>2, <1>5, <1>6, <1>7, <1>8

\* Model d.model is in use in the target of b and not outside it, has a price,
\* and costs the target more than model to.
Saving(d, to, b, samples, ms) ==
    LET pb == PriceBook(ms)
        mine == {s \in samples : Matches(b, s)}
    IN  /\ d.to = to
        /\ to \in DOMAIN pb /\ d.model \in DOMAIN pb
        /\ d.model \in {s.model : s \in mine} \ SharedOutside(b, samples)
        /\ SumOver([s \in mine |-> Priced(s, pb[to])], {s \in mine : s.model = d.model})
             < SumOver([s \in mine |-> Priced(s, pb[d.model])], {s \in mine : s.model = d.model})

\* The model a budget falls back to.
FallbackModel(b, ms) == ms[Min({i \in DOMAIN ms : ms[i].name = b.fallback})].model

\* What budgetFallbackDesired returns saves the target something.
LEMMA DesiredIsCheaper ==
  ASSUME NEW b, NEW samples, NEW ms, NEW phase,
         IsFiniteSet(DOMAIN ms), DOMAIN ms \subseteq Int,
         NEW d \in FallbackDesired(b, samples, ms, phase)
  PROVE  Saving(d, FallbackModel(b, ms), b, samples, ms)
<1> DEFINE fs == {i \in DOMAIN ms : ms[i].name = b.fallback}
           to == FallbackModel(b, ms)
           pb == PriceBook(ms)
           mine == {s \in samples : Matches(b, s)}
           cost(m, price) == SumOver([s \in mine |-> Priced(s, price)], {s \in mine : s.model = m})
<1>1. FallbackUsable(b, samples, ms, phase)
  BY DEF FallbackDesired
<1>2. fs # {} /\ ms[Min(fs)].provider \in DOMAIN Providers
  BY <1>1 DEF FallbackUsable
<1>3. Min(fs) \in fs
  <2>1. IsFiniteSet(fs) /\ fs \subseteq Int
    BY FS_Subset
  <2> HIDE DEF fs
  <2> QED BY <1>2, <2>1, Extremes
<1>4. to \in DOMAIN pb
  BY <1>2, <1>3 DEF PriceBook, FallbackModel
<1>5. d \in {[model |-> m, to |-> to] : m \in
                {n \in {s.model : s \in mine} \ ({to} \cup SharedOutside(b, samples)) :
                    n \in DOMAIN pb /\ cost(n, pb[to]) < cost(n, pb[n])}}
  <2> HIDE DEF pb
  <2> QED BY <1>1 DEF FallbackDesired, FallbackModel, pb
<1>6. PICK n \in {s.model : s \in mine} \ ({to} \cup SharedOutside(b, samples)) :
        n \in DOMAIN pb /\ cost(n, pb[to]) < cost(n, pb[n]) /\ d = [model |-> n, to |-> to]
  <2> HIDE DEF cost, pb, mine, to
  <2> QED BY <1>5
<1>7. d.model = n /\ d.to = to
  BY <1>6
<1> HIDE DEF to, pb
<1> QED BY <1>4, <1>6, <1>7 DEF Saving, to, pb

\* The fallbacks fb touch nobody else's model and lower what the target spends.
SparesAndLowers(b, ms, samples, fb) ==
    LET pb == PriceBook(ms)
        mine == {s \in samples : Matches(b, s)}
        target(m) == {d \in fb : d.model = m}
        after(s) == IF target(s.model) = {} THEN CostOf(s, pb)
                    ELSE Priced(s, pb[(CHOOSE d \in target(s.model) : TRUE).to])
    IN  /\ \A s \in samples \ mine : target(s.model) = {}
        /\ SumOver([s \in mine |-> after(s)], mine) < Spend(mine, pb)

\* So do the fallbacks decided from a scrape.
LEMMA FallbackSound ==
  ASSUME NEW b, NEW ms, IsFiniteSet(DOMAIN ms), DOMAIN ms \subseteq Int,
         NEW live \in Scrapes, NEW phase, NEW samples, samples = Collect(live, ms),
         NEW fb, fb = FallbackDesired(b, samples, ms, phase), fb # {}
  PROVE  SparesAndLowers(b, ms, samples, fb)
<1> DEFINE pb == PriceBook(ms)
           mine == {s \in samples : Matches(b, s)}
           target(m) == {d \in fb : d.model = m}
           after(s) == IF target(s.model) = {} THEN CostOf(s, pb)
                       ELSE Priced(s, pb[(CHOOSE d \in target(s.model) : TRUE).to])
           to == FallbackModel(b, ms)
           F == {d.model : d \in fb}
           new == [s \in mine |-> after(s)]
           old == [s \in mine |-> CostOf(s, pb)]
           of(n) == {s \in mine : s.model = n}
           at(m) == [s \in mine |-> Priced(s, pb[m])]
<1>1. ASSUME NEW d \in fb
      PROVE  /\ d.to = to /\ to \in DOMAIN pb /\ d.model \in DOMAIN pb
             /\ d.model \in {s.model : s \in mine} \ SharedOutside(b, samples)
             /\ SumOver(at(to), of(d.model)) < SumOver(at(d.model), of(d.model))
  <2>1. Saving(d, to, b, samples, ms)
    BY <1>1, DesiredIsCheaper
  <2> QED BY <2>1 DEF Saving
<1>2. ASSUME NEW s \in samples \ mine PROVE target(s.model) = {}
  <2>1. SUFFICES ASSUME NEW d \in target(s.model) PROVE FALSE
    OBVIOUS
  <2>2. d \in fb /\ d.model = s.model
    OBVIOUS
  <2>3. s.model \in {x.model : x \in mine} /\ s.model \notin SharedOutside(b, samples)
    BY <1>1, <2>2
  <2>4. s \in samples /\ ~Matches(b, s)
    BY <1>2
  <2> QED BY <2>3, <2>4 DEF SharedOutside
<1>3. IsFiniteSet(samples) /\ \A s \in samples : s.input \in Nat /\ s.output \in Nat
  BY SamplesAreCounted
<1>4. IsFiniteSet(mine) /\ mine \subseteq samples
  BY <1>3, FS_Subset
<1>5. ASSUME NEW m \in DOMAIN pb, NEW s \in mine PROVE Priced(s, pb[m]) \in Nat
  <2>1. pb[m].in \in Nat /\ pb[m].out \in Nat
    BY <1>5, PricesAreNat
  <2> HIDE DEF pb, mine
  <2> QED BY <1>3, <1>4, <1>5, <2>1, PricedIsNat
<1>6. ASSUME NEW s \in mine PROVE CostOf(s, pb) \in Nat
  <2> HIDE DEF pb, mine
  <2> QED BY <1>5 DEF CostOf
<1>7. ASSUME NEW s \in mine
      PROVE  /\ s.model \in F => after(s) = Priced(s, pb[to])
             /\ s.model \notin F => after(s) = CostOf(s, pb)
  <2>1. CASE s.model \in F
    <3>1. target(s.model) # {}
      BY <2>1
    <3>2. (CHOOSE d \in target(s.model) : TRUE) \in target(s.model)
      BY <3>1
    <3>3. (CHOOSE d \in target(s.model) : TRUE).to = to
      <4> HIDE DEF to, pb
      <4> QED BY <1>1, <3>2
    <3> HIDE DEF to, pb
    <3> QED BY <2>1, <3>1, <3>3
  <2>2. CASE s.model \notin F
    <3>1. target(s.model) = {}
      BY <2>2
    <3> HIDE DEF to, pb
    <3> QED BY <2>2, <3>1
  <2> QED BY <2>1, <2>2
<1>8. \A s \in mine : new[s] \in Int /\ old[s] \in Int
  <2>1. PICK d \in fb : TRUE
    OBVIOUS
  <2>2. to \in DOMAIN pb
    BY <1>1, <2>1
  <2>3. \A s \in mine : new[s] = after(s) /\ old[s] = CostOf(s, pb)
    <3> HIDE DEF after, pb, mine
    <3> QED OBVIOUS
  <2>4. ASSUME NEW s \in mine PROVE after(s) \in Int /\ CostOf(s, pb) \in Int
    <3> HIDE DEF after, pb, mine, F, to
    <3> QED BY <1>5, <1>6, <1>7, <2>2, <2>4
  <2> HIDE DEF new, old, after, pb, mine
  <2> QED BY <2>3, <2>4
<1>9. ASSUME NEW n \in F
      PROVE  SumOver(new, of(n)) < SumOver(old, of(n))
  <2>1. PICK d \in fb : d.model = n
    OBVIOUS
  <2>2. n \in DOMAIN pb /\ SumOver(at(to), of(n)) < SumOver(at(n), of(n))
    BY <1>1, <2>1
  <2>3. IsFiniteSet(of(n)) /\ of(n) \subseteq mine
    BY <1>4, FS_Subset
  <2>4. \A s \in of(n) : new[s] = at(to)[s] /\ old[s] = at(n)[s]
    <3>1. ASSUME NEW s \in of(n) PROVE new[s] = at(to)[s] /\ old[s] = at(n)[s]
      <4>1. s \in mine /\ s.model = n
        BY <3>1
      <4>2. after(s) = Priced(s, pb[to])
        BY <1>7, <1>9, <4>1
      <4>3. CostOf(s, pb) = Priced(s, pb[n])
        <5> HIDE DEF pb, mine
        <5> QED BY <2>2, <4>1 DEF CostOf
      <4> HIDE DEF pb, mine, after, to
      <4> QED BY <4>1, <4>2, <4>3
    <3> QED BY <3>1
  <2>5. SumOver(new, of(n)) = SumOver(at(to), of(n)) /\ SumOver(old, of(n)) = SumOver(at(n), of(n))
    <3> HIDE DEF new, old, of, at
    <3> QED BY <2>3, <2>4, SumEqual
  <2> HIDE DEF new, old, of, at
  <2> QED BY <2>2, <2>5
<1>10. IsFiniteSet(F) /\ F # {}
  <2> DEFINE ms2 == [s \in mine |-> s.model]
  <2>1. IsFiniteSet({ms2[s] : s \in mine})
    <3>1. DOMAIN ms2 = mine
      OBVIOUS
    <3> HIDE DEF ms2, mine
    <3> QED BY <1>4, <3>1, FiniteImage
  <2>2. F \subseteq {ms2[s] : s \in mine}
    <3>1. {ms2[s] : s \in mine} = {s.model : s \in mine}
      OBVIOUS
    <3>2. \A d \in fb : d.model \in {s.model : s \in mine}
      BY <1>1
    <3> HIDE DEF ms2, mine
    <3> QED BY <3>1, <3>2
  <2>3. F # {}
    OBVIOUS
  <2> HIDE DEF ms2, F
  <2> QED BY <2>1, <2>2, <2>3, FS_Subset
<1>11. \A s \in mine : s.model \notin F => new[s] = old[s]
  <2> HIDE DEF after, pb, mine, F
  <2> QED BY <1>7
<1>12. SumOver(new, mine) < SumOver(old, mine)
  <2>1. \A n \in F : SumOver(new, {s \in mine : s.model = n}) < SumOver(old, {s \in mine : s.model = n})
    BY <1>9
  <2> HIDE DEF new, old, mine, F
  <2> QED BY <1>4, <1>8, <1>10, <1>11, <2>1, LowerByModel
<1>13. Spend(mine, pb) = SumOver(old, mine)
  BY DEF Spend
<1> QED BY <1>2, <1>12, <1>13 DEF SparesAndLowers

-----------------------------------------------------------------------------
(* Reports and budget fallbacks: the actions *)

\* Pruning what an owner no longer emits leaves every series with an owner.
LEMMA RetireKeepsOwners ==
  ASSUME FinOpsInv, NEW o \in Owners, NEW set, NEW now, set \subseteq now, Retire(o, set, now)
  PROVE  owned' = [p \in Owners |-> owned'[p]] /\ SeriesHaveAnOwner'
<1>1. \A p \in Owners : owned'[p] = IF p = o THEN now ELSE owned[p]
  BY DEF FinOpsInv, Retire
<1>2. owned' = [p \in Owners |-> owned'[p]]
  BY DEF FinOpsInv, Retire
<1>3. ASSUME NEW x \in series' PROVE \E p \in Owners : x \in owned'[p]
  <2>1. x \in series \cup set /\ ~(x \in owned[o] /\ x \notin now)
    BY <1>3 DEF Retire
  <2>2. CASE x \in now
    BY <1>1, <2>2
  <2>3. CASE x \notin now
    <3>1. x \in series
      BY <2>1, <2>3
    <3>2. PICK p \in Owners : x \in owned[p]
      BY <3>1 DEF FinOpsInv, SeriesHaveAnOwner
    <3>3. p # o
      BY <2>1, <2>3, <3>2
    <3> QED BY <1>1, <3>2, <3>3
  <2> QED BY <2>2, <2>3
<1>4. SeriesHaveAnOwner'
  BY <1>3 DEF SeriesHaveAnOwner
<1> QED BY <1>2, <1>4

\* A step that leaves the series and the decision alone.
LEMMA FinOpsFrame ==
  ASSUME FinOpsInv, scrape' \in Scrapes, catalog' \in DOMAIN Catalogs, IsFiniteSet(stubs'),
         UNCHANGED <<control, series, owned>>
  PROVE  FinOpsInv'
BY DEF FinOpsInv, SeriesHaveAnOwner, FallbackSparesOthers

LEMMA FinOpsInitHolds == FinOpsInit => FinOpsInv
<1> SUFFICES ASSUME FinOpsInit PROVE FinOpsInv
  OBVIOUS
<1>1. scrape \in Scrapes
  BY DEF FinOpsInit
<1>2. catalog \in DOMAIN Catalogs
  BY FinOpsInputs DEF FinOpsInit, CatalogAssumption
<1>3. IsFiniteSet(stubs)
  BY FS_EmptySet DEF FinOpsInit
<1>4. owned = [o \in Owners |-> owned[o]]
  BY DEF FinOpsInit
<1>5. SeriesHaveAnOwner
  BY DEF FinOpsInit, SeriesHaveAnOwner
<1>6. control.kind # "budget"
  BY DEF FinOpsInit, Undecided
<1>7. FallbackSparesOthers
  BY <1>6 DEF FallbackSparesOthers
<1> QED BY <1>1, <1>2, <1>3, <1>4, <1>5, <1>7 DEF FinOpsInv

LEMMA ReportReconcileHolds ==
  ASSUME FinOpsInv, NEW r \in Reports, ReportReconcile(r)
  PROVE  FinOpsInv'
<1>1. /\ scrape' \in Scrapes /\ catalog' \in DOMAIN Catalogs
      /\ control' = control
  BY DEF ReportReconcile, FinOpsInv
<1>2. CASE scrape = {}
  <2>1. UNCHANGED <<stubs, series, owned>>
    BY <1>2 DEF ReportReconcile
  <2>2. IsFiniteSet(stubs')
    BY <2>1 DEF FinOpsInv
  <2> QED BY <1>1, <2>1, <2>2, FinOpsFrame
<1>3. CASE scrape # {}
  <2>1. PICK ms, samples, now :
          /\ samples = InScope(Collect(scrape, ms), Scope[r])
          /\ stubs' = stubs \cup UnknownModels(samples, ms)
          /\ Retire(r, now, now)
    BY <1>3 DEF ReportReconcile
  <2>2. owned' = [p \in Owners |-> owned'[p]] /\ SeriesHaveAnOwner'
    <3>1. r \in Owners
      BY DEF Owners
    <3> QED BY <2>1, <3>1, RetireKeepsOwners
  <2>3. IsFiniteSet(samples)
    <3>1. IsFiniteSet(Collect(scrape, ms))
      BY SamplesAreCounted DEF FinOpsInv
    <3>2. samples \subseteq Collect(scrape, ms)
      BY <2>1 DEF InScope
    <3> QED BY <3>1, <3>2, FS_Subset
  <2>4. IsFiniteSet(stubs')
    <3> DEFINE f == [s \in samples |-> s.model]
    <3>1. IsFiniteSet({f[s] : s \in samples})
      <4>1. DOMAIN f = samples
        OBVIOUS
      <4> HIDE DEF f
      <4> QED BY <2>3, <4>1, FiniteImage
    <3>2. UnknownModels(samples, ms) \subseteq {f[s] : s \in samples}
      BY DEF UnknownModels
    <3>3. IsFiniteSet(UnknownModels(samples, ms))
      <4> HIDE DEF f
      <4> QED BY <3>1, <3>2, FS_Subset
    <3>4. IsFiniteSet(stubs)
      BY DEF FinOpsInv
    <3> QED BY <2>1, <3>3, <3>4, FS_Union
  <2>5. FallbackSparesOthers'
    BY <1>1 DEF FinOpsInv, FallbackSparesOthers
  <2> QED BY <1>1, <2>2, <2>4, <2>5 DEF FinOpsInv
<1> QED BY <1>2, <1>3

LEMMA ReportFinalizeHolds ==
  ASSUME FinOpsInv, NEW r \in Reports, ReportFinalize(r)
  PROVE  FinOpsInv'
<1>1. owned' = [p \in Owners |-> owned'[p]] /\ SeriesHaveAnOwner'
  <2>1. r \in Owners /\ Retire(r, {}, {})
    BY DEF Owners, ReportFinalize
  <2> QED BY <2>1, RetireKeepsOwners
<1>2. UNCHANGED <<scrape, catalog, stubs, control>>
  BY DEF ReportFinalize
<1>3. FallbackSparesOthers'
  BY <1>2 DEF FinOpsInv, FallbackSparesOthers
<1> QED BY <1>1, <1>2, <1>3 DEF FinOpsInv

\* Two trackers are brought up to date in one reconcile, one after the other.
LEMMA SovereigntyReconcileHolds ==
  ASSUME FinOpsInv, SovereigntyReconcile
  PROVE  FinOpsInv'
<1>1. PICK shadow, acts, decisions :
        /\ series' = ((series \cup shadow \cup acts) \ (owned["shadow"] \ shadow))
                        \ (owned["enforcement"] \ acts)
        /\ owned' = [owned EXCEPT !["shadow"] = shadow, !["enforcement"] = acts]
        /\ control' = IF scrape = {} THEN control
                      ELSE [kind |-> "sovereignty", decisions |-> decisions, seen |-> Seen]
  BY ZenonT(60) DEF SovereigntyReconcile
<1>2. UNCHANGED <<scrape, catalog, stubs>>
  BY DEF SovereigntyReconcile
<1>3. "shadow" \in Owners /\ "enforcement" \in Owners
  BY DEF Owners
<1>4. /\ owned' = [p \in Owners |-> owned'[p]]
      /\ owned'["shadow"] = shadow /\ owned'["enforcement"] = acts
      /\ \A p \in Owners \ {"shadow", "enforcement"} : owned'[p] = owned[p]
  BY <1>1, <1>3 DEF FinOpsInv
<1>5. ASSUME NEW x \in series' PROVE \E p \in Owners : x \in owned'[p]
  <2>1. CASE x \in shadow \cup acts
    BY <1>3, <1>4, <2>1
  <2>2. CASE x \notin shadow \cup acts
    <3>1. x \in series /\ x \notin owned["shadow"] /\ x \notin owned["enforcement"]
      BY <1>1, <1>5, <2>2
    <3>2. PICK p \in Owners : x \in owned[p]
      BY <3>1 DEF FinOpsInv, SeriesHaveAnOwner
    <3> QED BY <1>4, <3>1, <3>2
  <2> QED BY <2>1, <2>2
<1>6. SeriesHaveAnOwner'
  BY <1>5 DEF SeriesHaveAnOwner
<1>7. FallbackSparesOthers'
  <2>1. CASE scrape = {}
    BY <1>1, <2>1 DEF FinOpsInv, FallbackSparesOthers
  <2>2. CASE scrape # {}
    <3>1. control'.kind # "budget"
      BY <1>1, <2>2
    <3> QED BY <3>1 DEF FallbackSparesOthers
  <2> QED BY <2>1, <2>2
<1> QED BY <1>2, <1>4, <1>6, <1>7 DEF FinOpsInv

LEMMA BudgetPolicyReconcileHolds ==
  ASSUME FinOpsInv, NEW k \in DOMAIN Budgets, BudgetPolicyReconcile(k)
  PROVE  FinOpsInv'
<1>1. PICK ms, samples, phase, desired, acts, reroutes :
        /\ ms = Listing(catalog, stubs) /\ samples = Collect(scrape, ms)
        /\ desired = FallbackDesired(Budgets[k], samples, ms, phase)
        /\ control' = [kind |-> "budget", budget |-> k, fallbacks |-> desired, seen |-> Seen]
        /\ Retire("budget", acts, acts \cup reroutes)
  <2> DEFINE Alerts(phase) == {<<"action", k, phase>> : x \in {phase} \cap {"Warning", "Critical", "Exceeded"}}
             FallbackAlerts(b, phase, desired) ==
               IF PhaseRank[phase] >= PhaseRank[b.onPhase]
               THEN {<<"fallback", k, phase, desired # {}>>} ELSE {}
  <2>1. \E b \in {Budgets[k]}, ms \in {Listing(catalog, stubs)} :
        \E samples \in {Collect(scrape, ms)}, pb \in {PriceBook(ms)} :
        \E phase \in {Phase(b, Spend({s \in samples : Matches(b, s)}, pb))} :
        \E desired \in {FallbackDesired(b, samples, ms, phase)} :
           /\ control' = [kind |-> "budget", budget |-> k, fallbacks |-> desired, seen |-> Seen]
           /\ Retire("budget", Alerts(phase), Alerts(phase) \cup FallbackAlerts(b, phase, desired))
    BY Zenon DEF BudgetPolicyReconcile
  <2> HIDE DEF Alerts, FallbackAlerts
  <2>2. PICK b \in {Budgets[k]}, ms \in {Listing(catalog, stubs)} :
        \E samples \in {Collect(scrape, ms)}, pb \in {PriceBook(ms)} :
        \E phase \in {Phase(b, Spend({s \in samples : Matches(b, s)}, pb))} :
        \E desired \in {FallbackDesired(b, samples, ms, phase)} :
           /\ control' = [kind |-> "budget", budget |-> k, fallbacks |-> desired, seen |-> Seen]
           /\ Retire("budget", Alerts(phase), Alerts(phase) \cup FallbackAlerts(b, phase, desired))
    BY <2>1, Zenon
  <2>3. PICK samples, phase, desired :
           /\ samples = Collect(scrape, ms)
           /\ desired = FallbackDesired(b, samples, ms, phase)
           /\ control' = [kind |-> "budget", budget |-> k, fallbacks |-> desired, seen |-> Seen]
           /\ Retire("budget", Alerts(phase), Alerts(phase) \cup FallbackAlerts(b, phase, desired))
    BY <2>2, Zenon
  <2>4. b = Budgets[k] /\ ms = Listing(catalog, stubs)
    OBVIOUS
  <2> QED BY <2>3, <2>4, Zenon
<1>2. owned' = [p \in Owners |-> owned'[p]] /\ SeriesHaveAnOwner'
  <2>1. "budget" \in Owners
    BY DEF Owners
  <2>2. acts \subseteq acts \cup reroutes
    OBVIOUS
  <2> QED BY <1>1, <2>1, <2>2, RetireKeepsOwners
<1>3. UNCHANGED <<scrape, catalog, stubs>>
  BY DEF BudgetPolicyReconcile
<1>4. IsFiniteSet(DOMAIN ms) /\ DOMAIN ms \subseteq Int
  BY <1>1, ListingIndices DEF FinOpsInv
<1>5. /\ control'.budget = k /\ control'.fallbacks = desired
      /\ Listing(control'.seen.catalog, control'.seen.stubs) = ms
      /\ SeenSamples(control'.seen) = samples
  BY <1>1 DEF Seen, SeenSamples
<1>6. FallbackSparesOthers'
  <2>1. CASE desired = {}
    BY <1>5, <2>1 DEF FallbackSparesOthers
  <2>2. CASE desired # {}
    <3>1. scrape \in Scrapes
      BY DEF FinOpsInv
    <3>2. SparesAndLowers(Budgets[k], ms, samples, desired)
      BY <1>1, <1>4, <2>2, <3>1, FallbackSound
    <3> QED BY <1>5, <3>2 DEF FallbackSparesOthers, SparesAndLowers
  <2> QED BY <2>1, <2>2
<1> QED BY <1>2, <1>3, <1>6 DEF FinOpsInv

LEMMA RoutingReconcileHolds ==
  ASSUME FinOpsInv, RoutingReconcile
  PROVE  FinOpsInv'
<1>1. UNCHANGED <<scrape, catalog, stubs, series, owned>>
  BY DEF RoutingReconcile
<1>2. control'.kind = "routing"
  BY DEF RoutingReconcile
<1>3. FallbackSparesOthers'
  BY <1>2 DEF FallbackSparesOthers
<1>4. SeriesHaveAnOwner'
  BY <1>1 DEF FinOpsInv, SeriesHaveAnOwner
<1> QED BY <1>1, <1>3, <1>4 DEF FinOpsInv

LEMMA EnvironmentHolds ==
  ASSUME FinOpsInv, Traffic \/ EditCatalog \/ EditPolicy \/ Restart
                    \/ (\E r \in Reports : EditReport(r))
  PROVE  FinOpsInv'
<1>1. CASE Traffic
  <2>1. scrape' \in Scrapes /\ UNCHANGED <<catalog, stubs, control, series, owned>>
    BY <1>1 DEF Traffic
  <2> QED BY <2>1, FinOpsFrame DEF FinOpsInv
<1>2. CASE EditCatalog
  <2>1. catalog' \in DOMAIN Catalogs /\ UNCHANGED <<scrape, control, series, owned>>
    BY <1>2 DEF EditCatalog
  <2>2. stubs' \subseteq stubs
    BY <1>2 DEF EditCatalog
  <2>3. IsFiniteSet(stubs')
    BY <2>2, FS_Subset DEF FinOpsInv
  <2> QED BY <2>1, <2>3, FinOpsFrame DEF FinOpsInv
<1>3. CASE EditPolicy
  <2>1. UNCHANGED <<scrape, catalog, stubs>>
    BY <1>3 DEF EditPolicy
  <2>2. CASE UNCHANGED <<control, series, owned>>
    BY <2>1, <2>2, FinOpsFrame DEF FinOpsInv
  <2>3. CASE /\ series' = series \ (owned["shadow"] \cup owned["enforcement"])
             /\ owned' = [owned EXCEPT !["shadow"] = {}, !["enforcement"] = {}]
             /\ control' = Undecided
    <3>1. owned' = [p \in Owners |-> owned'[p]]
      BY <2>3 DEF FinOpsInv
    <3>2. \A p \in Owners \ {"shadow", "enforcement"} : owned'[p] = owned[p]
      BY <2>3 DEF FinOpsInv
    <3>3. SeriesHaveAnOwner'
      BY <2>3, <3>2 DEF FinOpsInv, SeriesHaveAnOwner
    <3>4. control'.kind # "budget"
      BY <2>3 DEF Undecided
    <3>5. FallbackSparesOthers'
      BY <3>4 DEF FallbackSparesOthers
    <3> QED BY <2>1, <3>1, <3>3, <3>5 DEF FinOpsInv
  <2> QED BY <1>3, <2>2, <2>3 DEF EditPolicy
<1>4. CASE Restart
  <2>1. UNCHANGED <<scrape, catalog, stubs, control>> /\ series' = {}
    BY <1>4 DEF Restart
  <2>2. owned' = [p \in Owners |-> owned'[p]]
    BY <1>4 DEF Restart
  <2>3. SeriesHaveAnOwner'
    BY <2>1 DEF SeriesHaveAnOwner
  <2>4. FallbackSparesOthers'
    BY <2>1 DEF FinOpsInv, FallbackSparesOthers
  <2> QED BY <2>1, <2>2, <2>3, <2>4 DEF FinOpsInv
<1>5. CASE \E r \in Reports : EditReport(r)
  <2>1. UNCHANGED <<scrape, catalog, stubs, control, series, owned>>
    BY <1>5 DEF EditReport
  <2> QED BY <2>1, FinOpsFrame DEF FinOpsInv
<1> QED BY <1>1, <1>2, <1>3, <1>4, <1>5

-----------------------------------------------------------------------------
(* Reports and budget fallbacks: the theorems *)

\* The invariant holds along every behaviour of the report, sovereignty, budget
\* and routing reconcilers, whatever the metrics, catalogs and policies do.
THEOREM FinOpsInvariant == FinOpsSpec => []FinOpsInv
<1>1. FinOpsInit => FinOpsInv
  BY FinOpsInitHolds
<1>2. FinOpsInv /\ [FinOpsNext]_finopsVars => FinOpsInv'
  <2> SUFFICES ASSUME FinOpsInv, [FinOpsNext]_finopsVars PROVE FinOpsInv'
    OBVIOUS
  <2>1. CASE \E r \in Reports : ReportReconcile(r)
    BY <2>1, ReportReconcileHolds
  <2>2. CASE \E r \in Reports : ReportFinalize(r)
    BY <2>2, ReportFinalizeHolds
  <2>3. CASE SovereigntyReconcile
    BY <2>3, SovereigntyReconcileHolds
  <2>4. CASE RoutingReconcile
    BY <2>4, RoutingReconcileHolds
  <2>5. CASE \E k \in DOMAIN Budgets : BudgetPolicyReconcile(k)
    BY <2>5, BudgetPolicyReconcileHolds
  <2>6. CASE Traffic \/ EditCatalog \/ EditPolicy \/ Restart \/ (\E r \in Reports : EditReport(r))
    BY <2>6, EnvironmentHolds
  <2>7. CASE UNCHANGED finopsVars
    <3>1. UNCHANGED <<scrape, catalog, stubs, control, series, owned>>
      BY <2>7 DEF finopsVars
    <3> QED BY <3>1, FinOpsFrame DEF FinOpsInv
  <2> QED BY <2>1, <2>2, <2>3, <2>4, <2>5, <2>6, <2>7 DEF FinOpsNext
<1> QED BY <1>1, <1>2, PTL DEF FinOpsSpec

\* No metric series outlives the objects that emit it: whatever is published was
\* emitted by the last reconcile of some report, policy or budget that still
\* remembers it, across deletions, restarts and changes of the catalog.
THEOREM SeriesAlwaysOwned == FinOpsSpec => []SeriesHaveAnOwner
<1>1. FinOpsInv => SeriesHaveAnOwner
  BY DEF FinOpsInv
<1> QED BY <1>1, FinOpsInvariant, PTL

\* A budget fallback never reroutes a model used outside the budget's target,
\* and what the target would have paid with it is less than what it paid.
THEOREM FallbacksSpareOthers == FinOpsSpec => []FallbackSparesOthers
<1>1. FinOpsInv => FallbackSparesOthers
  BY DEF FinOpsInv
<1> QED BY <1>1, FinOpsInvariant, PTL

-----------------------------------------------------------------------------
(* Reports: what is found is what was counted *)

\* Sample s is the one series i is counted in.
CountedIn(s, ms, i) ==
    /\ s.ns = SampleKey(ms, i).ns /\ s.app = SampleKey(ms, i).app
    /\ s.model = SampleKey(ms, i).model /\ s.provider = ProviderOf(ms, i)

\* Every sample counts some series, every series is counted in the sample of its
\* workload and model, and there is one sample for each.
LEMMA SamplesAreSeries ==
  ASSUME NEW live \in Scrapes, NEW ms
  PROVE  /\ \A s \in Collect(live, ms) : \E i \in live : CountedIn(s, ms, i)
         /\ \A i \in live : \E s \in Collect(live, ms) : \E j \in live :
                CountedIn(s, ms, j) /\ SampleKey(ms, j) = SampleKey(ms, i)
         /\ \A s, t \in Collect(live, ms) :
                s.ns = t.ns /\ s.app = t.app /\ s.model = t.model => s = t
<1> DEFINE of(i) == {j \in live : SampleKey(ms, j) = SampleKey(ms, i)}
           groups == {[key |-> SampleKey(ms, i), of |-> of(i)] : i \in live}
           typed(g, t) == {i \in g.of : Scraped[i].type = t}
           sum(g, t) == SumOver([i \in g.of |-> Scraped[i].sum], typed(g, t))
           counts(g) == {Scraped[i].count : i \in typed(g, "input") \cup typed(g, "duration")}
           provider(g) == LET p == Attribution(ms, g.key.model).provider
                          IN  IF p # Empty THEN p ELSE Scraped[Min(g.of)].provider
           latency(g) == IF typed(g, "duration") = {} THEN 0
                         ELSE Scraped[Max(typed(g, "duration"))].sum
           sample(g) == [ns |-> g.key.ns, app |-> g.key.app, model |-> g.key.model,
                         provider |-> provider(g),
                         input |-> sum(g, "input"), output |-> sum(g, "output"),
                         requests |-> Max({0} \cup counts(g)), latency |-> latency(g)]
           grp(i) == [key |-> SampleKey(ms, i), of |-> of(i)]
<1>1. Collect(live, ms) = {sample(g) : g \in groups}
  BY DEF Collect
<1>2. IsFiniteSet(live) /\ live \subseteq Int
  BY FinOpsInputs DEF ScrapeAssumption
<1>3. \A i : /\ SampleKey(ms, i).model = Scraped[i].model
            /\ SampleKey(ms, i) = [ns |-> SampleKey(ms, i).ns, app |-> SampleKey(ms, i).app,
                                   model |-> SampleKey(ms, i).model]
  BY DEF SampleKey
<1>4. ASSUME NEW i \in live
      PROVE  \E j \in live : SampleKey(ms, j) = SampleKey(ms, i) /\ provider(grp(i)) = ProviderOf(ms, j)
  <2>1. grp(i).key = SampleKey(ms, i)
    OBVIOUS
  <2>2. grp(i).of = of(i) /\ i \in of(i) /\ of(i) \subseteq live
    BY <1>4
  <2>3. IsFiniteSet(of(i)) /\ of(i) \subseteq Int /\ of(i) # {}
    BY <1>2, <2>2, FS_Subset
  <2>4. PICK j : j = Min(of(i))
    OBVIOUS
  <2>5. j \in of(i)
    <3> HIDE DEF of
    <3> QED BY <2>3, <2>4, Extremes
  <2>6. j \in live /\ SampleKey(ms, j) = SampleKey(ms, i)
    BY <2>5
  <2>7. Scraped[j].model = SampleKey(ms, i).model
    BY <1>3, <2>6
  <2> HIDE DEF of
  <2>8. provider(grp(i)) = ProviderOf(ms, j)
    BY <2>1, <2>2, <2>4, <2>7 DEF ProviderOf
  <2> QED BY <2>6, <2>8
<1>5. ASSUME NEW g
      PROVE  /\ sample(g).ns = g.key.ns /\ sample(g).app = g.key.app
             /\ sample(g).model = g.key.model /\ sample(g).provider = provider(g)
  <2> HIDE DEF sum, counts, latency, provider
  <2> QED OBVIOUS
<1>6. ASSUME NEW i \in live
      PROVE  \E j \in live : CountedIn(sample(grp(i)), ms, j) /\ SampleKey(ms, j) = SampleKey(ms, i)
  <2> DEFINE g == grp(i)
  <2>1. g.key = SampleKey(ms, i)
    OBVIOUS
  <2>2. PICK j \in live : SampleKey(ms, j) = SampleKey(ms, i) /\ provider(g) = ProviderOf(ms, j)
    <3> HIDE DEF provider
    <3> QED BY <1>4, <1>6
  <2> HIDE DEF g, sample, provider
  <2>3. CountedIn(sample(g), ms, j)
    BY <1>5, <2>1, <2>2 DEF CountedIn
  <2> QED BY <2>2, <2>3 DEF g
<1>7. groups = {grp(i) : i \in live}
  OBVIOUS
<1>8. ASSUME NEW s \in Collect(live, ms) PROVE \E i \in live : s = sample(grp(i))
  <2>1. PICK g \in groups : s = sample(g)
    <3> HIDE DEF sample, groups
    <3> QED BY <1>1, <1>8
  <2>2. PICK i \in live : g = grp(i)
    BY <2>1
  <2> HIDE DEF sample, grp
  <2> QED BY <2>1, <2>2
<1>9. ASSUME NEW i \in live PROVE sample(grp(i)) \in Collect(live, ms)
  <2>1. grp(i) \in groups
    BY <1>9
  <2> HIDE DEF sample, grp, groups
  <2> QED BY <1>1, <2>1
<1>10. ASSUME NEW s \in Collect(live, ms), NEW t \in Collect(live, ms),
              s.ns = t.ns, s.app = t.app, s.model = t.model
       PROVE  s = t
  <2> HIDE DEF sample
  <2>1. PICK i \in live : s = sample(grp(i))
    <3> HIDE DEF grp
    <3> QED BY <1>8, <1>10
  <2>2. PICK j \in live : t = sample(grp(j))
    <3> HIDE DEF grp
    <3> QED BY <1>8, <1>10
  <2>3. grp(i).key = SampleKey(ms, i) /\ grp(j).key = SampleKey(ms, j)
    OBVIOUS
  <2>4. SampleKey(ms, i) = SampleKey(ms, j)
    <3> HIDE DEF grp
    <3>1. /\ s.ns = SampleKey(ms, i).ns /\ s.app = SampleKey(ms, i).app /\ s.model = SampleKey(ms, i).model
          /\ t.ns = SampleKey(ms, j).ns /\ t.app = SampleKey(ms, j).app /\ t.model = SampleKey(ms, j).model
      BY <1>5, <2>1, <2>2, <2>3
    <3> QED BY <1>3, <1>10, <3>1
  <2>5. grp(i) = grp(j)
    BY <2>4
  <2> HIDE DEF grp
  <2> QED BY <2>1, <2>2, <2>5
<1> HIDE DEF sample, grp
<1> QED BY <1>6, <1>8, <1>9, <1>10

\* Only what is not set normalises to nothing, and what is canonical stays.
LEMMA ZonesNormalise ==
  /\ \A z : NormalizeZone(NormalizeZone(z)) = NormalizeZone(z)
  /\ \A z : NormalizeZone(z) = Empty <=> z = Empty
  /\ \A m : NormalizeZone(DefaultZone(m)) = DefaultZone(m)
<1>1. \A z \in DOMAIN Canonical : Canonical[z] \in {"FR", "EU", "US", "CN", "GB"}
  BY DEF Canonical
<1>2. Empty \notin DOMAIN Canonical
  BY DEF Canonical, Empty
<1>3. ASSUME NEW z PROVE NormalizeZone(z) = Empty <=> z = Empty
  BY <1>1, <1>2 DEF NormalizeZone, Empty
<1>4. ASSUME NEW z PROVE NormalizeZone(NormalizeZone(z)) = NormalizeZone(z)
  <2>1. \A c \in {"FR", "EU", "US", "CN", "GB"} : c \notin DOMAIN Canonical
    BY DEF Canonical
  <2> QED BY <1>1, <2>1 DEF NormalizeZone
<1>5. ASSUME NEW m PROVE NormalizeZone(DefaultZone(m)) = DefaultZone(m)
  <2>1. CASE m \in DOMAIN Defaults
    BY <2>1, FinOpsAssumption DEF DefaultZone, DefaultModel
  <2>2. CASE m \notin DOMAIN Defaults
    BY <1>3, <2>2 DEF DefaultZone
  <2> QED BY <2>1, <2>2
<1> QED BY <1>4, <1>3, <1>5

\* The critical findings are the placed samples in a forbidden zone.
LEMMA CriticalFindings ==
  ASSUME NEW p, NEW samples, NEW ms
  PROVE  Critical(EvaluateFlows(p, samples, ms)) =
            {Finding("critical", s) : s \in
                {x \in samples : Placed(x) /\ FlowZone(x) \in ZoneSet(p.forbidden)}}
<1> DEFINE E == EvaluateFlows(p, samples, ms)
           C == {Finding("critical", s) : s \in
                    {x \in samples : Placed(x) /\ FlowZone(x) \in ZoneSet(p.forbidden)}}
<1>1. \A k, s : Finding(k, s).severity = k
  BY DEF Finding
<1>2. ASSUME NEW f \in E, f.severity = "critical" PROVE f \in C
  <2>1. f \in C \/ (\E s : f = Finding("warning", s)) \/ (\E s : f = Finding("external", s))
    BY <1>2 DEF EvaluateFlows
  <2> HIDE DEF C
  <2> QED BY <1>1, <1>2, <2>1
<1>3. ASSUME NEW f \in C PROVE f \in E /\ f.severity = "critical"
  <2>1. f \in E
    BY <1>3 DEF EvaluateFlows
  <2>2. \E s : f = Finding("critical", s)
    BY <1>3
  <2> QED BY <1>1, <2>1, <2>2
<1> HIDE DEF C, E
<1>4. Critical(E) = C
  BY <1>2, <1>3 DEF Critical
<1> QED BY <1>4 DEF C, E

\* The zone the model of a series is placed in, by the words of the property.
LEMMA FlowOfSeries ==
  ASSUME NEW s, NEW ms, NEW i, CountedIn(s, ms, i), NEW z,
         z = LET q == ProviderOf(ms, i)
             IN  IF q \in DOMAIN Providers /\ Providers[q].zone # Empty
                 THEN Providers[q].zone ELSE DefaultZone(Scraped[i].model)
  PROVE  NormalizeZone(z) = FlowZone(s) /\ (Placed(s) <=> z # Empty \/ ProviderOf(ms, i) # Empty)
<1>1. s.provider = ProviderOf(ms, i) /\ s.model = Scraped[i].model
  BY DEF CountedIn, SampleKey
<1>2. NormalizeZone(z) = FlowZone(s)
  <2>1. CASE s.provider \in DOMAIN Providers /\ Providers[s.provider].zone # Empty
    BY <1>1, <2>1, ZonesNormalise DEF FlowZone
  <2>2. CASE s.provider \in DOMAIN Providers /\ Providers[s.provider].zone = Empty
    BY <1>1, <2>2, ZonesNormalise DEF FlowZone
  <2>3. CASE s.provider \notin DOMAIN Providers
    BY <1>1, <2>3, ZonesNormalise DEF FlowZone
  <2> QED BY <2>1, <2>2, <2>3
<1> QED BY <1>1, <1>2, ZonesNormalise DEF Placed

\* The critical findings of a report name the exposed series.
LEMMA ExposureSound ==
  ASSUME OneLabelPerModel, NEW live \in Scrapes, NEW ms, NEW p, NEW scope
  PROVE  {<<f.ns, f.app, f.model>> :
            f \in Critical(EvaluateFlows(p, InScope(Collect(live, ms), scope), ms))} =
         {<<SampleKey(ms, i).ns, SampleKey(ms, i).app, SampleKey(ms, i).model>> :
            i \in ExposedSeries(p, live, ms, scope)}
<1> DEFINE samples == InScope(Collect(live, ms), scope)
           Z == ZoneSet(p.forbidden)
           E == Critical(EvaluateFlows(p, samples, ms))
           X == ExposedSeries(p, live, ms, scope)
           zone(i) == LET q == ProviderOf(ms, i)
                      IN  IF q \in DOMAIN Providers /\ Providers[q].zone # Empty
                          THEN Providers[q].zone ELSE DefaultZone(Scraped[i].model)
           Bad(s) == Placed(s) /\ FlowZone(s) \in Z
           name(f) == <<f.ns, f.app, f.model>>
           work(i) == <<SampleKey(ms, i).ns, SampleKey(ms, i).app, SampleKey(ms, i).model>>
<1>1. E = {Finding("critical", s) : s \in {x \in samples : Bad(x)}}
  <2> HIDE DEF samples
  <2> QED BY CriticalFindings
<1>2. ASSUME NEW i
      PROVE  i \in X <=> (/\ i \in live /\ NormalizeZone(zone(i)) \in Z
                         /\ (zone(i) # Empty \/ ProviderOf(ms, i) # Empty)
                         /\ (scope = Empty \/ SampleKey(ms, i).ns = scope))
  BY DEF ExposedSeries
<1>3. ASSUME NEW s \in Collect(live, ms), NEW i \in live, CountedIn(s, ms, i)
      PROVE  (s \in samples /\ Bad(s) <=> i \in X) /\ name(Finding("critical", s)) = work(i)
  <2>1. /\ s.ns = SampleKey(ms, i).ns /\ s.app = SampleKey(ms, i).app
        /\ s.model = SampleKey(ms, i).model
    BY <1>3 DEF CountedIn
  <2>2. s \in samples <=> scope = Empty \/ SampleKey(ms, i).ns = scope
    BY <1>3, <2>1 DEF InScope
  <2>3. /\ NormalizeZone(zone(i)) = FlowZone(s)
        /\ Placed(s) <=> zone(i) # Empty \/ ProviderOf(ms, i) # Empty
    BY <1>3, FlowOfSeries
  <2>4. s \in samples /\ Bad(s) <=> i \in X
    <3> HIDE DEF X, Z, zone, samples
    <3> QED BY <1>2, <1>3, <2>2, <2>3
  <2>5. name(Finding("critical", s)) = work(i)
    BY <2>1 DEF Finding
  <2> QED BY <2>4, <2>5
<1> HIDE DEF name, work, Bad, X
<1>4. ASSUME NEW f \in E PROVE \E i \in X : name(f) = work(i)
  <2> HIDE DEF E, samples
  <2>1. PICK s \in samples : Bad(s) /\ f = Finding("critical", s)
    BY <1>1, <1>4
  <2>2. s \in Collect(live, ms)
    BY DEF samples, InScope
  <2>3. PICK i \in live : CountedIn(s, ms, i)
    BY <2>2, SamplesAreSeries
  <2> QED BY <1>3, <2>1, <2>2, <2>3
<1>5. ASSUME NEW i \in X PROVE \E f \in E : name(f) = work(i)
  <2> HIDE DEF E, samples
  <2>1. i \in live
    BY <1>2, <1>5
  <2>2. PICK s \in Collect(live, ms) : CountedIn(s, ms, i)
    <3>1. PICK s \in Collect(live, ms), j \in live :
            CountedIn(s, ms, j) /\ SampleKey(ms, j) = SampleKey(ms, i)
      BY <2>1, SamplesAreSeries
    <3>2. Scraped[j].model = Scraped[i].model
      <4>1. \A k : SampleKey(ms, k).model = Scraped[k].model
        BY DEF SampleKey
      <4> QED BY <3>1, <4>1
    <3>3. ProviderOf(ms, j) = ProviderOf(ms, i)
      BY <2>1, <3>1, <3>2 DEF ProviderOf, OneLabelPerModel
    <3> QED BY <3>1, <3>3 DEF CountedIn
  <2>3. s \in samples /\ Bad(s) /\ name(Finding("critical", s)) = work(i)
    BY <1>3, <1>5, <2>1, <2>2
  <2>4. Finding("critical", s) \in E
    BY <1>1, <2>3
  <2> QED BY <2>3, <2>4
<1>6. {name(f) : f \in E} = {work(i) : i \in X}
  <2> HIDE DEF E
  <2> QED BY <1>4, <1>5
<1> QED BY <1>6 DEF name, work, X

-----------------------------------------------------------------------------
(* The paths to a model's zone *)

\* A list that names each model once, with a provider.
Once(ms) ==
    /\ IsFiniteSet(DOMAIN ms) /\ DOMAIN ms \subseteq Int
    /\ \A i, j \in DOMAIN ms : ms[i].model = ms[j].model => i = j
    /\ \A i \in DOMAIN ms : ms[i].provider # Empty

\* The models a users' list names.
Listed(c) == {Catalogs[c][i].model : i \in DOMAIN Catalogs[c]}

\* Stubs are distinct and stand for models the users' list does not name.
LEMMA ListingOnce ==
  ASSUME PathsAgree, NEW c \in DOMAIN Catalogs, NEW auto, IsFiniteSet(auto), auto \cap Listed(c) = {}
  PROVE  Once(Listing(c, auto))
<1> DEFINE ms == Listing(c, auto)
<1>1. PICK n, k : ListParts(c, auto, ms, n, k)
  BY ListingParts
<1>2. IsFiniteSet(DOMAIN ms) /\ DOMAIN ms \subseteq Int
  BY ListingIndices
<1> HIDE DEF ms
<1>3. \A i \in DOMAIN ms : i \in 1 .. n \/ i \in (n + 1) .. (n + k)
  BY <1>1 DEF ListParts
<1>4. ASSUME NEW i \in (n + 1) .. (n + k)
      PROVE  ms[i].model \in auto /\ ms[i].provider = "unknown" /\ ms[i] = Stub(ms[i].model)
  BY <1>1, <1>4 DEF ListParts, Stub
<1>5. ASSUME NEW i \in 1 .. n PROVE ms[i].model \in Listed(c) /\ ms[i].provider # Empty
  BY <1>1, <1>5, FinOpsInputs DEF ListParts, Listed, CatalogAssumption
<1>6. ASSUME NEW i \in DOMAIN ms, NEW j \in DOMAIN ms, ms[i].model = ms[j].model PROVE i = j
  <2>1. CASE i \in 1 .. n /\ j \in 1 .. n
    BY <1>1, <1>6, <2>1 DEF ListParts, PathsAgree
  <2>2. CASE i \in (n + 1) .. (n + k) /\ j \in (n + 1) .. (n + k)
    <3>1. ms[i] = ms[j]
      BY <1>4, <1>6, <2>2
    <3> QED BY <1>1, <2>2, <3>1 DEF ListParts
  <2>3. CASE i \in 1 .. n /\ j \in (n + 1) .. (n + k)
    BY <1>4, <1>5, <1>6, <2>3
  <2>4. CASE i \in (n + 1) .. (n + k) /\ j \in 1 .. n
    BY <1>4, <1>5, <1>6, <2>4
  <2> QED BY <1>3, <2>1, <2>2, <2>3, <2>4
<1>7. \A i \in DOMAIN ms : ms[i].provider # Empty
  <2>1. "unknown" # Empty
    BY DEF Empty
  <2> QED BY <1>3, <1>4, <1>5, <2>1
<1>8. Once(ms)
  BY <1>2, <1>6, <1>7 DEF Once
<1> QED BY <1>8 DEF ms

\* A list names the users' models, and besides them only stubs.
LEMMA ListingModels ==
  ASSUME NEW c \in DOMAIN Catalogs, NEW auto, IsFiniteSet(auto), NEW m
  PROVE  /\ m \in Listed(c) => Named(Listing(c, auto), m) # {}
         /\ Named(Listing(c, auto), m) # {} => m \in Listed(c) \cup auto
<1> DEFINE ms == Listing(c, auto)
<1>1. PICK n, k : ListParts(c, auto, ms, n, k)
  BY ListingParts
<1> HIDE DEF ms
<1>2. ASSUME m \in Listed(c) PROVE Named(ms, m) # {}
  <2>1. PICK i \in 1 .. n : Catalogs[c][i].model = m
    BY <1>1, <1>2 DEF ListParts, Listed
  <2>2. i \in DOMAIN ms /\ ms[i].model = m
    BY <1>1, <2>1 DEF ListParts
  <2> QED BY <2>2 DEF Named
<1>3. ASSUME NEW i \in Named(ms, m) PROVE m \in Listed(c) \cup auto
  <2>1. i \in DOMAIN ms /\ ms[i].model = m
    BY <1>3 DEF Named
  <2>2. i \in 1 .. n \/ i \in (n + 1) .. (n + k)
    BY <1>1, <2>1 DEF ListParts
  <2>3. CASE i \in 1 .. n
    BY <1>1, <2>1, <2>3 DEF ListParts, Listed
  <2>4. CASE i \in (n + 1) .. (n + k)
    BY <1>1, <2>1, <2>4 DEF ListParts
  <2> QED BY <2>2, <2>3, <2>4
<1> QED BY <1>2, <1>3 DEF ms

\* The zone of a model that is listed once is that of its provider, if that is
\* known, and the built-in one otherwise.
LEMMA ZoneOfListed ==
  ASSUME NEW ms, Once(ms), NEW m
  PROVE  /\ Named(ms, m) = {} => ZoneForModel(ms, m) = DefaultZone(m)
         /\ Named(ms, m) # {} =>
              LET q == Attribution(ms, m).provider
              IN  /\ q # Empty
                  /\ ZoneForModel(ms, m) = IF q \in DOMAIN Providers
                                           THEN NormalizeZone(Providers[q].zone) ELSE DefaultZone(m)
<1>1. CASE Named(ms, m) = {}
  BY <1>1 DEF ZoneForModel
<1>2. CASE Named(ms, m) # {}
  <2>1. PICK k \in DOMAIN ms : Named(ms, m) = {k}
    <3>1. PICK k \in Named(ms, m) : TRUE
      BY <1>2
    <3>2. \A i \in Named(ms, m) : i = k
      BY <3>1 DEF Named, Once
    <3>3. k \in DOMAIN ms
      BY <3>1 DEF Named
    <3> QED BY <3>1, <3>2, <3>3
  <2>2. k \in Int
    BY <2>1 DEF Once
  <2>3. Max({k}) = k /\ Min({k}) = k
    BY <2>2 DEF Max, Min
  <2>4. Attribution(ms, m).provider = ms[k].provider
    BY <2>1, <2>3 DEF Attribution
  <2>5. ms[k].provider # Empty
    BY <2>1 DEF Once
  <2> DEFINE known == {i \in Named(ms, m) : ms[i].provider \in DOMAIN Providers}
  <2>6. CASE ms[k].provider \in DOMAIN Providers
    <3>1. known = {k}
      BY <2>1, <2>6
    <3> QED BY <1>2, <2>3, <2>4, <2>5, <2>6, <3>1 DEF ZoneForModel
  <2>7. CASE ms[k].provider \notin DOMAIN Providers
    <3>1. known = {}
      BY <2>1, <2>7
    <3> QED BY <1>2, <2>4, <2>5, <2>7, <3>1 DEF ZoneForModel
  <2> QED BY <2>6, <2>7
<1> QED BY <1>1, <1>2

\* A flow of a model either catalog knows is where the catalog says the model is.
LEMMA FlowAgrees ==
  ASSUME PathsAgree, NEW ms, Once(ms), NEW s,
         Named(ms, s.model) # {} => s.provider = Attribution(ms, s.model).provider,
         Named(ms, s.model) = {} => s.model \in DOMAIN Defaults /\ s.provider \notin DOMAIN Providers
  PROVE  FlowZone(s) = ZoneForModel(ms, s.model)
<1>1. CASE Named(ms, s.model) = {}
  <2>1. ZoneForModel(ms, s.model) = DefaultZone(s.model)
    BY <1>1, ZoneOfListed
  <2> QED BY <1>1, <2>1, ZonesNormalise DEF FlowZone
<1>2. CASE Named(ms, s.model) # {}
  <2>1. ZoneForModel(ms, s.model) = IF s.provider \in DOMAIN Providers
                                    THEN NormalizeZone(Providers[s.provider].zone) ELSE DefaultZone(s.model)
    BY <1>2, ZoneOfListed
  <2>2. CASE s.provider \in DOMAIN Providers
    <3>1. NormalizeZone(Providers[s.provider].zone) # Empty
      BY <2>2, ZonesNormalise DEF PathsAgree
    <3> QED BY <2>1, <2>2, <3>1 DEF FlowZone
  <2>3. CASE s.provider \notin DOMAIN Providers
    BY <2>1, <2>3, ZonesNormalise DEF FlowZone
  <2> QED BY <2>2, <2>3
<1> QED BY <1>1, <1>2

\* So is every sample of such a model.
LEMMA SampleAgrees ==
  ASSUME PathsAgree, NEW ms, Once(ms), NEW live \in Scrapes, NEW s \in Collect(live, ms),
         Named(ms, s.model) # {} \/ s.model \in DOMAIN Defaults
  PROVE  FlowZone(s) = ZoneForModel(ms, s.model)
<1>1. PICK i \in live : CountedIn(s, ms, i)
  BY SamplesAreSeries
<1>2. s.model = Scraped[i].model /\ s.provider = ProviderOf(ms, i)
  BY <1>1 DEF CountedIn, SampleKey
<1>3. CASE Named(ms, s.model) # {}
  <2>1. s.provider = Attribution(ms, s.model).provider
    BY <1>2, <1>3, ZoneOfListed DEF ProviderOf
  <2> QED BY <1>3, <2>1, FlowAgrees
<1>4. CASE Named(ms, s.model) = {}
  <2>1. s.provider = Scraped[i].provider
    BY <1>2, <1>4 DEF ProviderOf, Attribution
  <2>2. s.model \in DOMAIN Defaults /\ s.provider \notin DOMAIN Providers
    BY <1>2, <1>4, <2>1 DEF PathsAgree
  <2> QED BY <1>4, <2>2, FlowAgrees
<1> QED BY <1>3, <1>4

\* A zone of a model is canonical.
LEMMA ZoneIsNormal ==
  ASSUME NEW ms, NEW m PROVE NormalizeZone(ZoneForModel(ms, m)) = ZoneForModel(ms, m)
BY ZonesNormalise DEF ZoneForModel

\* A model with a price is one of the built-in catalog or of the list.
LEMMA PricedIsKnown ==
  ASSUME NEW ms, NEW m \in DOMAIN PriceBook(ms)
  PROVE  Named(ms, m) # {} \/ m \in DOMAIN Defaults
<1> DEFINE user == {ms[i].model : i \in {j \in DOMAIN ms : ms[j].provider \in DOMAIN Providers}}
<1>1. m \in DOMAIN Defaults \cup user
  BY DEF PriceBook
<1> QED BY <1>1 DEF Named

-----------------------------------------------------------------------------
(* Best choices exist *)

\* Among things with natural values one has the least.
LEMMA LeastValue ==
  ASSUME NEW S, S # {}, NEW f, \A x \in S : f[x] \in Nat
  PROVE  \E x \in S : \A y \in S : f[x] <= f[y]
<1> DEFINE V == {f[x] : x \in S}
<1>1. V \subseteq Nat /\ V # {}
  OBVIOUS
<1>2. IsWellFoundedOn(OpToRel(<, Nat), Nat)
  BY NatLessThanWellFounded
<1> HIDE DEF V
<1>3. PICK v \in V : \A u \in V : ~(<<u, v>> \in OpToRel(<, Nat))
  BY <1>1, <1>2, WFMin
<1>4. ASSUME NEW u \in V PROVE v <= u
  <2>1. v \in Nat /\ u \in Nat
    BY <1>1, <1>4
  <2>2. ~(u < v)
    BY <1>3, <1>4, <2>1 DEF OpToRel
  <2> QED BY <2>1, <2>2
<1>5. PICK x \in S : v = f[x]
  BY DEF V
<1> QED BY <1>4, <1>5 DEF V

\* Among finitely many things with integer values one has the greatest.
LEMMA GreatestValue ==
  ASSUME NEW S, IsFiniteSet(S), S # {}, NEW f, DOMAIN f = S, \A x \in S : f[x] \in Int
  PROVE  \E x \in S : \A y \in S : f[x] >= f[y]
<1> DEFINE V == {f[x] : x \in S}
<1>1. V \subseteq Int /\ V # {}
  OBVIOUS
<1>2. IsFiniteSet(V)
  BY FiniteImage
<1> HIDE DEF V
<1>3. Max(V) \in V /\ \A y \in V : Max(V) >= y
  BY <1>1, <1>2, Extremes
<1>4. PICK x \in S : Max(V) = f[x]
  BY <1>3 DEF V
<1>5. \A y \in S : f[y] \in V
  BY DEF V
<1> QED BY <1>3, <1>4, <1>5

\* Integer division by something positive yields an integer.
LEMMA QuotientIsInt == \A a \in Int : \A b \in Int : b > 0 => a \div b \in Int
OBVIOUS

-----------------------------------------------------------------------------
(* Enforcement, recommendations and routing candidates *)

\* A model that is allowed is not exposed, and of no concern to the policy.
LEMMA AllowedZone ==
  ASSUME NEW p, NEW ms, NEW m, IsZoneAllowed(p, ZoneForModel(ms, m))
  PROVE  /\ ZoneForModel(ms, m) \notin ZoneSet(p.forbidden)
         /\ ZoneAllowed(ZoneForModel(ms, m), ZoneSet(p.allowed))
BY ZoneIsNormal DEF IsZoneAllowed

\* The model enforcement reroutes to has a price and an allowed zone.
LEMMA CompliantTarget ==
  ASSUME NEW p, NEW ms, IsFiniteSet(DOMAIN ms), DOMAIN ms \subseteq Int,
         CheapestCompliant(p, ms) # NoValue
  PROVE  /\ CheapestCompliant(p, ms) \in DOMAIN PriceBook(ms)
         /\ IsZoneAllowed(p, ZoneForModel(ms, CheapestCompliant(p, ms)))
<1> DEFINE pb == PriceBook(ms)
           lawful == {m \in DOMAIN pb : IsZoneAllowed(p, ZoneForModel(ms, m))}
           f == [m \in lawful |-> pb[m].in + pb[m].out]
           to == CHOOSE m \in lawful : \A n \in lawful : pb[m].in + pb[m].out <= pb[n].in + pb[n].out
<1>1. lawful # {} /\ CheapestCompliant(p, ms) = to
  BY DEF CheapestCompliant
<1>2. \A m \in lawful : f[m] \in Nat /\ f[m] = pb[m].in + pb[m].out
  <2>1. \A m \in lawful : pb[m].in \in Nat /\ pb[m].out \in Nat
    BY PricesAreNat
  <2> HIDE DEF lawful, pb
  <2> QED BY <2>1
<1>3. \E m \in lawful : \A n \in lawful : f[m] <= f[n]
  <2> HIDE DEF lawful, f
  <2> QED BY <1>1, <1>2, LeastValue
<1>4. \E m \in lawful : \A n \in lawful : pb[m].in + pb[m].out <= pb[n].in + pb[n].out
  <2> HIDE DEF lawful, f, pb
  <2> QED BY <1>2, <1>3
<1>5. to \in lawful
  <2> HIDE DEF lawful, pb
  <2> QED BY <1>4
<1> HIDE DEF to
<1> QED BY <1>1, <1>5

\* The models in use in a zone the policy forbids.
Exposed(p, samples) ==
    {s.model : s \in {x \in samples : Placed(x) /\ FlowZone(x) \in ZoneSet(p.forbidden)}}

\* A model either catalog knows, in an allowed zone, is not exposed.
LEMMA AllowedIsNotExposed ==
  ASSUME PathsAgree, NEW p, NEW ms, Once(ms), NEW live \in Scrapes, NEW m,
         Named(ms, m) # {} \/ m \in DOMAIN Defaults, IsZoneAllowed(p, ZoneForModel(ms, m))
  PROVE  m \notin Exposed(p, Collect(live, ms))
<1> SUFFICES ASSUME m \in Exposed(p, Collect(live, ms)) PROVE FALSE
  OBVIOUS
<1>1. PICK s \in Collect(live, ms) : FlowZone(s) \in ZoneSet(p.forbidden) /\ s.model = m
  BY DEF Exposed
<1>2. FlowZone(s) = ZoneForModel(ms, m)
  BY <1>1, SampleAgrees
<1> QED BY <1>1, <1>2, AllowedZone

\* The models of the critical findings are the exposed ones.
LEMMA CriticalIsExposed ==
  ASSUME NEW p, NEW samples, NEW ms
  PROVE  {f.model : f \in Critical(EvaluateFlows(p, samples, ms))} = Exposed(p, samples)
<1> DEFINE X == {x \in samples : Placed(x) /\ FlowZone(x) \in ZoneSet(p.forbidden)}
<1>1. Critical(EvaluateFlows(p, samples, ms)) = {Finding("critical", s) : s \in X}
  BY CriticalFindings
<1>2. \A s : Finding("critical", s).model = s.model
  BY DEF Finding
<1> HIDE DEF X
<1>3. {f.model : f \in {Finding("critical", s) : s \in X}} = {s.model : s \in X}
  BY <1>2
<1> QED BY <1>1, <1>3 DEF Exposed, X

\* In enforcing mode the decisions cover the exposed models and none reroutes to one.
ReroutesOut(p, decisions, exposed) ==
    p.mode = "enforce" =>
        /\ {d.model : d \in decisions} = exposed
        /\ \A d \in decisions : d.action = "reroute" => d.to \notin exposed

\* What DecideSovereignty returns does that.
LEMMA RerouteSound ==
  ASSUME PathsAgree, NEW p, NEW ms, Once(ms), NEW live \in Scrapes, NEW samples,
         samples = Collect(live, ms)
  PROVE  ReroutesOut(p, Decide(p, EvaluateFlows(p, samples, ms), ms), Exposed(p, samples))
<1> DEFINE E == Critical(EvaluateFlows(p, samples, ms))
           D == Decide(p, EvaluateFlows(p, samples, ms), ms)
           to == CheapestCompliant(p, ms)
           decision(f) == [ns |-> f.ns, app |-> f.app, model |-> f.model, to |-> to,
                           action |-> IF to # NoValue THEN "reroute" ELSE "block"]
<1> SUFFICES ASSUME p.mode = "enforce"
             PROVE  /\ {d.model : d \in D} = Exposed(p, samples)
                    /\ \A d \in D : d.action = "reroute" => d.to \notin Exposed(p, samples)
  BY DEF ReroutesOut
<1>1. D = {decision(f) : f \in E}
  BY DEF Decide
<1>2. {f.model : f \in E} = Exposed(p, samples)
  BY CriticalIsExposed
<1> HIDE DEF E, D, to
<1>3. {d.model : d \in D} = {f.model : f \in E}
  <2>1. \A f \in E : decision(f).model = f.model
    OBVIOUS
  <2> HIDE DEF decision
  <2> QED BY <1>1, <2>1
<1>4. ASSUME NEW d \in D, d.action = "reroute" PROVE d.to \notin Exposed(p, samples)
  <2>1. d.to = to /\ to # NoValue
    BY <1>1, <1>4
  <2>2. to \in DOMAIN PriceBook(ms) /\ IsZoneAllowed(p, ZoneForModel(ms, to))
    BY <2>1, CompliantTarget DEF Once, to
  <2>3. Named(ms, to) # {} \/ to \in DOMAIN Defaults
    BY <2>2, PricedIsKnown
  <2> QED BY <2>1, <2>2, <2>3, AllowedIsNotExposed
<1> QED BY <1>2, <1>3, <1>4

\* What Collect returns are records with these fields.
LEMMA SampleShape ==
  ASSUME NEW live, NEW ms, NEW s \in Collect(live, ms)
  PROVE  s = [ns |-> s.ns, app |-> s.app, model |-> s.model, provider |-> s.provider,
              input |-> s.input, output |-> s.output, requests |-> s.requests,
              latency |-> s.latency]
<1>1. \E a, b, c, d, e, f, g, h :
        s = [ns |-> a, app |-> b, model |-> c, provider |-> d,
             input |-> e, output |-> f, requests |-> g, latency |-> h]
  BY ZenonT(60) DEF Collect
<1> QED BY <1>1

\* The swapped usage is the old one, under another model and its provider.
LEMMA MovedFields ==
  ASSUME NEW live, NEW ms, NEW s \in Collect(live, ms), NEW m
  PROVE  /\ Moved(ms, s, m).model = m
         /\ Moved(ms, s, m).input = s.input /\ Moved(ms, s, m).output = s.output
         /\ Moved(ms, s, m).provider = IF Named(ms, m) = {} THEN Defaults[m].provider
                                       ELSE Attribution(ms, m).provider
<1>1. {"model", "provider", "input", "output"} \subseteq DOMAIN s
  BY SampleShape
<1> QED BY <1>1 DEF Moved

\* The usage a swap is about costs at most four fifths as much under the new
\* model and has no zone finding there.
SwapSaves(p, ms, samples, w) ==
    LET s == CHOOSE x \in samples : x.ns = w.ns /\ x.app = w.app /\ x.model = w.current
        moved == Moved(ms, s, w.to)
    IN  /\ 5 * CostOf(moved, PriceBook(ms)) <= 4 * CostOf(s, PriceBook(ms))
        /\ p # NoValue => ~\E f \in EvaluateFlows(Policies[p], {moved}, ms) :
                              f.severity \in {"critical", "warning"}

\* What Recommend returns is such a swap.
LEMMA SwapSound ==
  ASSUME PathsAgree, NEW ms, Once(ms), NEW live \in Scrapes, NEW samples,
         samples = Collect(live, ms), NEW some, some \subseteq samples, NEW p,
         NEW w \in Swaps(some, p, ms, PriceBook(ms))
  PROVE  SwapSaves(p, ms, samples, w)
<1> DEFINE pb == PriceBook(ms)
           swap(s, m) == [ns |-> s.ns, app |-> s.app, current |-> s.model, to |-> m,
                          saving |-> CostOf(s, pb) - Priced(s, pb[m])]
           best(s, c) == CHOOSE m \in c : \A n \in c : Priced(s, pb[m]) <= Priced(s, pb[n])
           cand(s) == SwapCandidates(s, p, ms, pb)
<1>1. PICK s \in some : /\ cand(s) # {} /\ w = swap(s, best(s, cand(s)))
                        /\ 5 * swap(s, best(s, cand(s))).saving >= CostOf(s, pb)
  <2>1. Swaps(some, p, ms, pb) =
          UNION {{swap(s, best(s, c)) : c \in {x \in {cand(s)} :
                    x # {} /\ 5 * swap(s, best(s, x)).saving >= CostOf(s, pb)}} : s \in some}
    BY DEF Swaps
  <2> HIDE DEF pb, swap, best, cand
  <2> QED BY <2>1 DEF pb
<1> DEFINE c == cand(s)
<1>2. s \in samples /\ s.input \in Nat /\ s.output \in Nat
  BY SamplesAreCounted
<1>3. \A m \in DOMAIN pb : Priced(s, pb[m]) \in Nat
  BY <1>2, PricesAreNat, PricedIsNat DEF Once
<1>4. CostOf(s, pb) \in Nat
  <2> HIDE DEF pb
  <2> QED BY <1>3 DEF CostOf
<1> DEFINE to == best(s, c)
<1>5. to \in c
  <2> DEFINE f == [m \in c |-> Priced(s, pb[m])]
  <2>1. c \subseteq DOMAIN pb
    BY <1>1 DEF SwapCandidates
  <2>2. \A m \in c : f[m] \in Nat
    <3> HIDE DEF pb
    <3> QED BY <1>3, <2>1
  <2>3. \E m \in c : \A n \in c : f[m] <= f[n]
    <3> HIDE DEF f
    <3> QED BY <1>1, <2>2, LeastValue
  <2>4. \E m \in c : \A n \in c : Priced(s, pb[m]) <= Priced(s, pb[n])
    <3> HIDE DEF pb
    <3> QED BY <2>3
  <2> HIDE DEF pb
  <2> QED BY <2>4
<1> HIDE DEF best, to
<1>6. /\ w.ns = s.ns /\ w.app = s.app /\ w.current = s.model /\ w.to = to
      /\ 5 * (CostOf(s, pb) - Priced(s, pb[to])) >= CostOf(s, pb)
  <2> HIDE DEF pb
  <2> QED BY <1>1 DEF to
<1>7. to \in DOMAIN pb /\ Compliant(p, ms, to)
  BY <1>1, <1>5 DEF SwapCandidates
<1>8. (CHOOSE x \in samples : x.ns = w.ns /\ x.app = w.app /\ x.model = w.current) = s
  <2>1. \A x \in samples : x.ns = w.ns /\ x.app = w.app /\ x.model = w.current => x = s
    BY <1>2, <1>6, SamplesAreSeries
  <2> QED BY <1>2, <1>6, <2>1
<1> DEFINE moved == Moved(ms, s, to)
<1>9. /\ moved.model = to /\ moved.input = s.input /\ moved.output = s.output
      /\ moved.provider = IF Named(ms, to) = {} THEN Defaults[to].provider
                          ELSE Attribution(ms, to).provider
  BY <1>2, MovedFields
<1> HIDE DEF moved
<1>10. CostOf(moved, pb) = Priced(s, pb[to])
  <2> HIDE DEF pb
  <2> QED BY <1>7, <1>9 DEF CostOf, Priced
<1>11. 5 * CostOf(moved, pb) <= 4 * CostOf(s, pb)
  <2>1. Priced(s, pb[to]) \in Nat
    BY <1>3, <1>7
  <2> HIDE DEF pb
  <2> QED BY <1>4, <1>6, <1>10, <2>1
<1>12. ASSUME p # NoValue,
              NEW f \in EvaluateFlows(Policies[p], {moved}, ms), f.severity \in {"critical", "warning"}
       PROVE  FALSE
  <2> DEFINE P == Policies[p]
  <2>1. IsZoneAllowed(P, ZoneForModel(ms, to))
    BY <1>7, <1>12 DEF Compliant
  <2>2. Named(ms, to) # {} \/ to \in DOMAIN Defaults
    BY <1>7, PricedIsKnown
  <2>3. Named(ms, to) = {} => Defaults[to].provider \notin DOMAIN Providers
    BY <2>2 DEF PathsAgree
  <2>4. FlowZone(moved) = ZoneForModel(ms, to)
    BY <1>9, <2>2, <2>3, FlowAgrees
  <2>5. FlowZone(moved) \notin ZoneSet(P.forbidden) /\ ZoneAllowed(FlowZone(moved), ZoneSet(P.allowed))
    BY <2>1, <2>4, AllowedZone
  <2>6. f = Finding("external", moved)
    <3> HIDE DEF P
    <3> QED BY <1>12, <2>5 DEF EvaluateFlows, P
  <2> QED BY <1>12, <2>6 DEF Finding
<1> QED BY <1>6, <1>8, <1>11, <1>12 DEF SwapSaves, moved

\* Inverse1000 of a member of a finite set of integers is an integer.
LEMMA InverseIsInt ==
  ASSUME NEW all, IsFiniteSet(all), all \subseteq Int, NEW v \in all
  PROVE  Inverse1000(v, all) \in Int
<1>1. CASE \A x \in all : x = v
  BY <1>1 DEF Inverse1000
<1>2. CASE ~\A x \in all : x = v
  <2> DEFINE lo == Min(all)
             hi == Max(all)
  <2>1. /\ hi \in Int /\ \A y \in all : hi >= y
        /\ lo \in Int /\ \A y \in all : lo <= y
    BY Extremes
  <2> HIDE DEF lo, hi
  <2>2. PICK x \in all : x # v
    BY <1>2
  <2>3. hi - lo \in Int /\ hi - lo > 0
    <3>1. x \in Int /\ v \in Int /\ hi >= x /\ hi >= v /\ lo <= x /\ lo <= v
      BY <2>1
    <3> QED BY <2>1, <2>2, <3>1
  <2>4. 1000 * (v - lo) \in Int
    BY <2>1
  <2>5. (1000 * (v - lo)) \div (hi - lo) \in Int
    BY <2>3, <2>4, QuotientIsInt
  <2>6. Inverse1000(v, all) = 1000 - (1000 * (v - lo)) \div (hi - lo)
    BY <1>2 DEF Inverse1000, lo, hi
  <2> DEFINE q == (1000 * (v - lo)) \div (hi - lo)
  <2> HIDE DEF q
  <2>7. 1000 - q \in Int
    BY <2>5 DEF q
  <2> QED BY <2>6, <2>7 DEF q
<1> QED BY <1>1, <1>2

\* Every score is an integer and says of its model whether it is lawful.
LEMMA ScoresSound ==
  ASSUME NEW ms, Once(ms), NEW live \in Scrapes, NEW samples,
         samples = Collect(live, ms), NEW p
  PROVE  /\ IsFiniteSet(Scores(samples, p, ms, PriceBook(ms)))
         /\ \A c \in Scores(samples, p, ms, PriceBook(ms)) :
                c.score \in Int /\ c.compliant = Lawful(p, ms, c.model)
<1> DEFINE pb == PriceBook(ms)
           per(s) == IF s.requests > 0 THEN (1000 * CostOf(s, pb)) \div s.requests ELSE 0
           timed == {s \in samples : s.latency > 0 /\ s.requests > 0}
           tier(m) == IF Named(ms, m) = {} THEN Empty ELSE ms[Max(Named(ms, m))].tier
           quality(m) == IF tier(m) \in DOMAIN TierScore THEN TierScore[tier(m)] ELSE 600
           costs == {per(x) : x \in samples}
           times == {x.latency : x \in timed}
           pace(s) == IF s \in timed THEN Inverse1000(s.latency, times) ELSE 500
           points(s) == (4 * Inverse1000(per(s), costs) + 3 * quality(s.model)
                        + 2 * pace(s) + 1000) \div 10
           scored(s) == [ns |-> s.ns, app |-> s.app, model |-> s.model,
                         compliant |-> Lawful(p, ms, s.model),
                         score |-> IF Lawful(p, ms, s.model) THEN points(s) ELSE 0]
<1>1. Scores(samples, p, ms, pb) = {scored(s) : s \in samples}
  BY DEF Scores
<1>2. /\ IsFiniteSet(samples)
      /\ \A s \in samples : /\ s.input \in Nat /\ s.output \in Nat
                            /\ s.requests \in Nat /\ s.latency \in Nat
  BY SamplesAreCounted
<1>3. ASSUME NEW s \in samples PROVE CostOf(s, pb) \in Nat
  <2>1. \A m \in DOMAIN pb : Priced(s, pb[m]) \in Nat
    BY <1>2, PricesAreNat, PricedIsNat DEF Once
  <2> HIDE DEF pb
  <2> QED BY <2>1 DEF CostOf
<1>4. ASSUME NEW s \in samples PROVE per(s) \in Int
  <2>1. CASE s.requests > 0
    <3>1. 1000 * CostOf(s, pb) \in Int /\ s.requests \in Int
      <4> HIDE DEF pb
      <4> QED BY <1>2, <1>3
    <3> HIDE DEF pb
    <3> QED BY <2>1, <3>1, QuotientIsInt
  <2>2. CASE ~(s.requests > 0)
    BY <2>2
  <2> QED BY <2>1, <2>2
<1> HIDE DEF per
<1>5. costs \subseteq Int /\ IsFiniteSet(costs)
  <2> DEFINE f == [s \in samples |-> per(s)]
  <2>1. IsFiniteSet({f[s] : s \in samples})
    <3>1. DOMAIN f = samples
      OBVIOUS
    <3> HIDE DEF f
    <3> QED BY <1>2, <3>1, FiniteImage
  <2>2. {f[s] : s \in samples} = costs
    OBVIOUS
  <2> QED BY <1>4, <2>1, <2>2
<1>6. times \subseteq Int /\ IsFiniteSet(times)
  <2> DEFINE f == [s \in timed |-> s.latency]
  <2>1. IsFiniteSet(timed) /\ timed \subseteq samples
    BY <1>2, FS_Subset
  <2> HIDE DEF timed
  <2>2. IsFiniteSet({f[s] : s \in timed})
    <3>1. DOMAIN f = timed
      OBVIOUS
    <3> HIDE DEF f
    <3> QED BY <2>1, <3>1, FiniteImage
  <2>3. {f[s] : s \in timed} = times
    OBVIOUS
  <2>4. times \subseteq Int
    <3>1. \A s \in timed : s.latency \in Int
      BY <1>2, <2>1
    <3> QED BY <3>1
  <2> HIDE DEF f, times
  <2> QED BY <2>2, <2>3, <2>4
<1>7. ASSUME NEW s \in samples PROVE Inverse1000(per(s), costs) \in Int
  <2>1. per(s) \in costs
    OBVIOUS
  <2> HIDE DEF costs
  <2> QED BY <1>5, <2>1, InverseIsInt
<1>8. ASSUME NEW s \in samples PROVE pace(s) \in Int
  <2>1. CASE s \in timed
    <3>1. s.latency \in times
      BY <2>1
    <3>2. Inverse1000(s.latency, times) \in Int
      <4> HIDE DEF times
      <4> QED BY <1>6, <3>1, InverseIsInt
    <3> HIDE DEF times, timed
    <3> QED BY <2>1, <3>2
  <2>2. CASE s \notin timed
    <3> HIDE DEF timed, times
    <3> QED BY <2>2
  <2> QED BY <2>1, <2>2
<1>9. ASSUME NEW m PROVE quality(m) \in Int
  <2>1. \A t \in DOMAIN TierScore : TierScore[t] \in Int
    BY DEF TierScore
  <2> HIDE DEF tier
  <2> QED BY <2>1
<1>10. ASSUME NEW s \in samples PROVE points(s) \in Int
  <2> DEFINE a == Inverse1000(per(s), costs)
             q == quality(s.model)
             z == pace(s)
  <2>1. a \in Int /\ q \in Int /\ z \in Int
    <3> HIDE DEF quality, pace, costs
    <3> QED BY <1>7, <1>8, <1>9
  <2>2. points(s) = (4 * a + 3 * q + 2 * z + 1000) \div 10
    OBVIOUS
  <2> HIDE DEF a, q, z, points
  <2>3. 4 * a + 3 * q + 2 * z + 1000 \in Int
    BY <2>1
  <2>4. 10 \in Int /\ 10 > 0
    OBVIOUS
  <2> QED BY <2>2, <2>3, <2>4, QuotientIsInt
<1> HIDE DEF points
<1>11. ASSUME NEW s \in samples
       PROVE  /\ scored(s).score \in Int
              /\ scored(s).compliant = Lawful(p, ms, scored(s).model)
  BY <1>10
<1> DEFINE made == [s \in samples |-> scored(s)]
<1>12. IsFiniteSet({scored(s) : s \in samples})
  <2>1. IsFiniteSet({made[s] : s \in samples})
    <3>1. DOMAIN made = samples
      OBVIOUS
    <3> HIDE DEF made
    <3> QED BY <1>2, <3>1, FiniteImage
  <2>2. {made[s] : s \in samples} = {scored(s) : s \in samples}
    <3> HIDE DEF scored
    <3> QED OBVIOUS
  <2> QED BY <2>1, <2>2
<1> HIDE DEF scored, made
<1> QED BY <1>1, <1>11, <1>12

\* The best-scored model of an application.
Best(scores, a) ==
    CHOOSE c \in {x \in scores : x.app = a} : \A d \in {x \in scores : x.app = a} : c.score >= d.score

\* A best-scored model that is lawful and in the users' list is not exposed.
LEMMA BestIsLawful ==
  ASSUME PathsAgree, NEW c \in DOMAIN Catalogs, NEW auto, IsFiniteSet(auto), NEW ms,
         ms = Listing(c, auto), Once(ms), NEW live \in Scrapes, NEW samples,
         samples = Collect(live, ms), NEW p, p # NoValue,
         NEW scores, scores = Scores(samples, p, ms, PriceBook(ms)),
         NEW y \in scores, Best(scores, y.app).compliant,
         Named(Listing(c, {}), Best(scores, y.app).model) # {}
  PROVE  Best(scores, y.app).model \notin Exposed(Policies[p], samples)
<1> DEFINE of == {x \in scores : x.app = y.app}
           f == [x \in of |-> x.score]
           best == Best(scores, y.app)
<1>1. of \subseteq scores /\ of # {}
  OBVIOUS
<1>2. IsFiniteSet(of) /\ \A x \in of : f[x] \in Int
  BY <1>1, ScoresSound, FS_Subset
<1>3. \E x \in of : \A d \in of : f[x] >= f[d]
  <2>1. DOMAIN f = of
    OBVIOUS
  <2> HIDE DEF f, of
  <2> QED BY <1>1, <1>2, <2>1, GreatestValue
<1>4. \E x \in of : \A d \in of : x.score >= d.score
  <2> HIDE DEF of
  <2> QED BY <1>3
<1>5. best \in of
  <2>1. best = CHOOSE x \in of : \A d \in of : x.score >= d.score
    BY DEF Best
  <2> HIDE DEF of, best
  <2> QED BY <1>4, <2>1
<1>6. best.compliant = Lawful(p, ms, best.model)
  <2> HIDE DEF best
  <2> QED BY <1>5, ScoresSound
<1>7. best.model \in Listed(c)
  <2>1. best.model \in Listed(c) \cup {}
    <3> HIDE DEF best
    <3> QED BY ListingModels, FS_EmptySet DEF best
  <2> QED BY <2>1
<1>8. Named(ms, best.model) # {}
  <2> HIDE DEF best
  <2> QED BY <1>7, ListingModels
<1>9. IsZoneAllowed(Policies[p], ZoneForModel(ms, best.model))
  BY <1>6, <1>8 DEF Lawful, Compliant
<1> HIDE DEF best
<1>10. best.model \notin Exposed(Policies[p], samples)
  BY <1>8, <1>9, AllowedIsNotExposed
<1> QED BY <1>10 DEF best

-----------------------------------------------------------------------------
(* Reports and advice: the inductive invariant *)

\* What a generated report says of exposure and of swaps, given what it was
\* computed from.
ReportTold(r, x) ==
    LET from == x.seen
        ms == Listing(from.catalog, from.stubs)
    IN  /\ OneLabelPerModel /\ from.policy # NoValue =>
             {<<f.ns, f.app, f.model>> : f \in Critical(x.findings)} =
             {<<SampleKey(ms, i).ns, SampleKey(ms, i).app, SampleKey(ms, i).model>> :
                 i \in ExposedSeries(Policies[from.policy], from.scrape, ms, Scope[r])}
        /\ PathsAgree => \A w \in x.swaps : SwapSaves(from.policy, ms, SeenSamples(from), w)

\* A report has a phase, and says whether it is ready unless it is gone.
ReportShape(x) ==
    "phase" \in DOMAIN x /\ (x.phase = "live" => "ready" \in DOMAIN x)

AdviceInv ==
    /\ stubs \cap Listed(catalog) = {}
    /\ report = [r \in Reports |-> report[r]]
    /\ \A r \in Reports : ReportShape(report[r])
    /\ \A r \in Generated : ReportTold(r, report[r])
    /\ PathsAgree => RerouteLeavesTheZone /\ CandidateIsLawful

\* At first there is no stub, no generated report and no decision.
LEMMA AdviceInitHolds == FinOpsInit => AdviceInv
<1> SUFFICES ASSUME FinOpsInit PROVE AdviceInv
  OBVIOUS
<1>1. stubs \cap Listed(catalog) = {} /\ report = [r \in Reports |-> report[r]]
  BY DEF FinOpsInit
<1>2. ASSUME NEW r \in Reports
      PROVE  ReportShape(report[r]) /\ r \notin Generated
  <2>1. report[r] = Fresh
    BY DEF FinOpsInit
  <2> QED BY <2>1 DEF Fresh, ReportShape, Generated
<1>3. \A r \in Generated : r \in Reports
  BY DEF Generated
<1>4. control.kind = "none"
  BY DEF FinOpsInit, Undecided
<1>5. RerouteLeavesTheZone /\ CandidateIsLawful
  BY <1>4 DEF RerouteLeavesTheZone, CandidateIsLawful
<1> QED BY <1>1, <1>2, <1>3, <1>5 DEF AdviceInv

\* A step that changes no report and no decision.
LEMMA AdviceFrame ==
  ASSUME AdviceInv, stubs' \cap Listed(catalog') = {}, UNCHANGED <<report, control>>
  PROVE  AdviceInv'
<1>1. Generated' = Generated
  BY DEF Generated
<1>2. RerouteLeavesTheZone' = RerouteLeavesTheZone /\ CandidateIsLawful' = CandidateIsLawful
  BY DEF RerouteLeavesTheZone, CandidateIsLawful
<1> QED BY <1>1, <1>2 DEF AdviceInv

\* A step that replaces one report by one that is not generated, or sound.
LEMMA AdviceOfOne ==
  ASSUME AdviceInv, stubs' \cap Listed(catalog') = {}, control' = control,
         NEW r \in Reports, NEW x, report' = [report EXCEPT ![r] = x], ReportShape(x),
         x.phase = "live" /\ x.ready => ReportTold(r, x)
  PROVE  AdviceInv'
<1>1. /\ report'[r] = x /\ \A q \in Reports : q # r => report'[q] = report[q]
      /\ report' = [q \in Reports |-> report'[q]]
  BY DEF AdviceInv
<1>2. \A q \in Reports : ReportShape(report'[q])
  BY <1>1 DEF AdviceInv
<1>3. ASSUME NEW q \in Generated' PROVE ReportTold(q, report'[q])
  <2>1. q \in Reports /\ report'[q].phase = "live" /\ report'[q].ready
    BY <1>3 DEF Generated
  <2>2. CASE q = r
    BY <1>1, <2>1, <2>2
  <2>3. CASE q # r
    <3>1. q \in Generated
      BY <1>1, <2>1, <2>3 DEF Generated
    <3> QED BY <1>1, <2>1, <2>3, <3>1 DEF AdviceInv
  <2> QED BY <2>2, <2>3
<1>4. RerouteLeavesTheZone' = RerouteLeavesTheZone /\ CandidateIsLawful' = CandidateIsLawful
  BY DEF RerouteLeavesTheZone, CandidateIsLawful
<1> QED BY <1>1, <1>2, <1>3, <1>4 DEF AdviceInv

\* A reconcile reports what it counted and recommends what is lawful.
LEMMA ReportReconcileTells ==
  ASSUME FinOpsInv, AdviceInv, NEW r \in Reports, ReportReconcile(r)
  PROVE  AdviceInv'
<1>1. UNCHANGED <<catalog, control>> /\ report[r].phase = "live"
  BY DEF ReportReconcile
<1>2. CASE scrape = {}
  <2> DEFINE x == [report[r] EXCEPT !.ready = FALSE]
  <2>1. report' = [report EXCEPT ![r] = x] /\ stubs' = stubs
    BY <1>2 DEF ReportReconcile
  <2>2. DOMAIN x = DOMAIN report[r] /\ "ready" \in DOMAIN report[r]
    BY <1>1 DEF AdviceInv, ReportShape
  <2>3. ReportShape(x) /\ x.ready = FALSE
    BY <1>1, <2>2 DEF AdviceInv, ReportShape
  <2> HIDE DEF x
  <2> QED BY <1>1, <2>1, <2>3, AdviceOfOne DEF AdviceInv
<1>3. CASE scrape # {}
  <2>1. PICK ms, samples, swaps, findings :
          /\ ms = Listing(catalog, stubs)
          /\ samples = InScope(Collect(scrape, ms), Scope[r])
          /\ swaps = Swaps(samples, policy, ms, PriceBook(ms))
          /\ findings = ReportFindings(report[r].findings, policy, samples, ms)
          /\ stubs' = stubs \cup UnknownModels(samples, ms)
          /\ report' = [report EXCEPT ![r] =
                          [phase |-> "live", ready |-> TRUE, findings |-> findings,
                           swaps |-> swaps, seen |-> Seen]]
    BY <1>3 DEF ReportReconcile
  <2> DEFINE x == [phase |-> "live", ready |-> TRUE, findings |-> findings,
                   swaps |-> swaps, seen |-> Seen]
  <2>2. /\ ReportShape(x) /\ x.findings = findings /\ x.swaps = swaps
        /\ x.seen.policy = policy /\ x.seen.scrape = scrape
        /\ Listing(x.seen.catalog, x.seen.stubs) = ms
        /\ SeenSamples(x.seen) = Collect(scrape, ms)
    BY <2>1 DEF Seen, SeenSamples, ReportShape
  <2>3. stubs' \cap Listed(catalog') = {}
    <3>1. ASSUME NEW m \in Listed(catalog) PROVE m \notin UnknownModels(samples, ms)
      <4>1. Named(ms, m) # {}
        BY <2>1, ListingModels DEF FinOpsInv
      <4> QED BY <4>1 DEF Named, UnknownModels
    <3> QED BY <1>1, <2>1, <3>1 DEF AdviceInv
  <2>4. scrape \in Scrapes /\ samples \subseteq Collect(scrape, ms)
    BY <2>1 DEF FinOpsInv, InScope
  <2>5. ASSUME OneLabelPerModel, policy # NoValue
        PROVE  {<<f.ns, f.app, f.model>> : f \in Critical(findings)} =
               {<<SampleKey(ms, i).ns, SampleKey(ms, i).app, SampleKey(ms, i).model>> :
                   i \in ExposedSeries(Policies[policy], scrape, ms, Scope[r])}
    <3>1. findings = EvaluateFlows(Policies[policy], InScope(Collect(scrape, ms), Scope[r]), ms)
      BY <2>1, <2>5 DEF ReportFindings
    <3> QED BY <2>4, <2>5, <3>1, ExposureSound
  <2>6. ASSUME PathsAgree, NEW w \in swaps
        PROVE  SwapSaves(policy, ms, Collect(scrape, ms), w)
    <3>1. Once(ms)
      BY <2>1, <2>6, ListingOnce DEF FinOpsInv, AdviceInv
    <3> QED BY <2>1, <2>4, <2>6, <3>1, SwapSound
  <2> HIDE DEF x
  <2>7. ReportTold(r, x)
    BY <2>2, <2>5, <2>6 DEF ReportTold
  <2> QED BY <1>1, <2>1, <2>2, <2>3, <2>7, AdviceOfOne DEF x
<1> QED BY <1>2, <1>3

\* Enforcement reroutes to what its policy allows.
LEMMA SovereigntyReconcileTells ==
  ASSUME FinOpsInv, AdviceInv, SovereigntyReconcile
  PROVE  AdviceInv'
<1>1. UNCHANGED <<catalog, stubs, report>>
  BY DEF SovereigntyReconcile
<1>2. CASE scrape = {}
  <2>1. control' = control
    BY <1>2 DEF SovereigntyReconcile
  <2> QED BY <1>1, <2>1, AdviceFrame DEF AdviceInv
<1>3. CASE scrape # {}
  <2>1. PICK p, ms, samples, decisions :
          /\ p = Policies[policy] /\ ms = Listing(catalog, stubs) /\ samples = Collect(scrape, ms)
          /\ decisions = Decide(p, EvaluateFlows(p, samples, ms), ms)
          /\ control' = [kind |-> "sovereignty", decisions |-> decisions, seen |-> Seen]
    BY <1>3 DEF SovereigntyReconcile
  <2>2. /\ control'.kind = "sovereignty" /\ control'.decisions = decisions
        /\ Policies[control'.seen.policy] = p /\ SeenSamples(control'.seen) = samples
    BY <2>1 DEF Seen, SeenSamples
  <2>3. ASSUME PathsAgree PROVE RerouteLeavesTheZone'
    <3>1. Once(ms)
      BY <2>1, <2>3, ListingOnce DEF FinOpsInv, AdviceInv
    <3>2. scrape \in Scrapes
      BY DEF FinOpsInv
    <3>3. ReroutesOut(p, decisions, Exposed(p, samples))
      BY <2>1, <2>3, <3>1, <3>2, RerouteSound
    <3> QED BY <2>2, <3>3 DEF RerouteLeavesTheZone, ReroutesOut, Exposed
  <2>4. CandidateIsLawful'
    BY <2>2 DEF CandidateIsLawful
  <2>5. Generated' = Generated
    BY <1>1 DEF Generated
  <2> QED BY <1>1, <2>3, <2>4, <2>5 DEF AdviceInv
<1> QED BY <1>2, <1>3

\* A routing candidate that is not blocked is lawful.
LEMMA RoutingReconcileTells ==
  ASSUME FinOpsInv, AdviceInv, RoutingReconcile
  PROVE  AdviceInv'
<1>1. UNCHANGED <<catalog, stubs, report>>
  BY DEF RoutingReconcile
<1> DEFINE ms == Listing(catalog, stubs)
           samples == Collect(scrape, ms)
           scores == Scores(samples, policy, ms, PriceBook(ms))
           of(a) == {c \in scores : c.app = a}
           best(a) == CHOOSE c \in of(a) : \A d \in of(a) : c.score >= d.score
           current(a) == CHOOSE c \in of(a) : \A d \in of(a) : c.score <= d.score
           cand(a) == [app |-> a, current |-> current(a).model, candidate |-> best(a).model,
                       blocked |-> Blocked(best(a), 700)]
           apps == {c.app : c \in {x \in scores : best(x.app).model # current(x.app).model}}
           cands == {cand(a) : a \in apps}
<1>2. control' = [kind |-> "routing", seen |-> Seen, candidates |-> cands]
  BY DEF RoutingReconcile
<1> HIDE DEF scores
<1>3. ASSUME NEW c \in cands
      PROVE  \E y \in scores : /\ c.candidate = Best(scores, y.app).model
                               /\ c.blocked = Blocked(Best(scores, y.app), 700)
  <2>1. \A a : best(a) = Best(scores, a)
    BY DEF Best
  <2> HIDE DEF best, current
  <2>2. \A a : /\ cand(a).candidate = Best(scores, a).model
              /\ cand(a).blocked = Blocked(Best(scores, a), 700)
    BY <2>1
  <2>3. \A a \in apps : \E y \in scores : a = y.app
    OBVIOUS
  <2> HIDE DEF cand, apps
  <2> QED BY <2>2, <2>3
<1> HIDE DEF ms, samples, cands
<1>4. /\ control'.kind = "routing" /\ control'.candidates = cands
      /\ control'.seen.policy = policy /\ control'.seen.catalog = catalog
      /\ SeenSamples(control'.seen) = samples
  BY <1>2 DEF Seen, SeenSamples, samples, ms
<1>5. ASSUME PathsAgree PROVE CandidateIsLawful'
  <2>1. ASSUME policy # NoValue, NEW c \in cands, ~c.blocked,
               Named(Listing(catalog, {}), c.candidate) # {}
        PROVE  c.candidate \notin Exposed(Policies[policy], samples)
    <3>1. PICK y \in scores : /\ c.candidate = Best(scores, y.app).model
                              /\ c.blocked = Blocked(Best(scores, y.app), 700)
      BY <1>3, <2>1
    <3>2. Best(scores, y.app).compliant
      BY <2>1, <3>1 DEF Blocked
    <3>3. Once(ms)
      BY <1>5, ListingOnce DEF FinOpsInv, AdviceInv, ms
    <3>4. scrape \in Scrapes /\ catalog \in DOMAIN Catalogs /\ IsFiniteSet(stubs)
      BY DEF FinOpsInv
    <3>5. Named(Listing(catalog, {}), Best(scores, y.app).model) # {}
      BY <2>1, <3>1
    <3>6. /\ ms = Listing(catalog, stubs) /\ samples = Collect(scrape, ms)
          /\ scores = Scores(samples, policy, ms, PriceBook(ms))
      BY DEF ms, samples, scores
    <3> HIDE DEF scores
    <3>7. policy # NoValue /\ y \in scores
      BY <2>1, <3>1
    <3>8. Best(scores, y.app).model \notin Exposed(Policies[policy], samples)
      BY <1>5, <3>2, <3>3, <3>4, <3>5, <3>6, <3>7, BestIsLawful
    <3> QED BY <3>1, <3>8
  <2>2. \A P, ls : {f.model : f \in Critical(EvaluateFlows(P, samples, ls))} = Exposed(P, samples)
    BY CriticalIsExposed
  <2> QED BY <1>4, <2>1, <2>2 DEF CandidateIsLawful
<1>6. RerouteLeavesTheZone'
  BY <1>4 DEF RerouteLeavesTheZone
<1>7. Generated' = Generated
  BY <1>1 DEF Generated
<1> QED BY <1>1, <1>5, <1>6, <1>7 DEF AdviceInv

\* A budget decision, and everything the environment does.
LEMMA OthersTell ==
  ASSUME FinOpsInv, AdviceInv,
         \/ \E k \in DOMAIN Budgets : BudgetPolicyReconcile(k)
         \/ \E r \in Reports : ReportFinalize(r) \/ EditReport(r)
         \/ Traffic \/ EditCatalog \/ EditPolicy \/ Restart
  PROVE  AdviceInv'
<1>1. ASSUME UNCHANGED <<catalog, stubs, report>>, control'.kind \in {"none", "budget"}
      PROVE  AdviceInv'
  <2>1. RerouteLeavesTheZone' /\ CandidateIsLawful'
    BY <1>1 DEF RerouteLeavesTheZone, CandidateIsLawful
  <2>2. Generated' = Generated
    BY <1>1 DEF Generated
  <2> QED BY <1>1, <2>1, <2>2 DEF AdviceInv
<1>2. ASSUME NEW k, BudgetPolicyReconcile(k) PROVE AdviceInv'
  <2>1. control'.kind = "budget" /\ UNCHANGED <<catalog, stubs, report>>
    BY <1>2 DEF BudgetPolicyReconcile
  <2> QED BY <1>1, <2>1
<1>3. ASSUME NEW r \in Reports, ReportFinalize(r) PROVE AdviceInv'
  <2>1. report' = [report EXCEPT ![r] = NoReport] /\ UNCHANGED <<catalog, stubs, control>>
    BY <1>3 DEF ReportFinalize
  <2>2. ReportShape(NoReport) /\ NoReport.phase # "live"
    BY DEF ReportShape, NoReport
  <2> QED BY <2>1, <2>2, AdviceOfOne DEF AdviceInv
<1>4. ASSUME NEW r \in Reports, EditReport(r) PROVE AdviceInv'
  <2>1. UNCHANGED <<catalog, stubs, control>>
    BY <1>4 DEF EditReport
  <2>2. CASE report' = [report EXCEPT ![r] = Fresh]
    <3>1. ReportShape(Fresh) /\ Fresh.ready = FALSE
      BY DEF ReportShape, Fresh
    <3> QED BY <2>1, <2>2, <3>1, AdviceOfOne DEF AdviceInv
  <2>3. CASE report' = [report EXCEPT ![r].phase = "deleting"]
    <3> DEFINE x == [report[r] EXCEPT !.phase = "deleting"]
    <3>1. report' = [report EXCEPT ![r] = x]
      BY <2>3
    <3>2. ReportShape(x) /\ x.phase = "deleting"
      BY DEF AdviceInv, ReportShape
    <3> HIDE DEF x
    <3> QED BY <2>1, <3>1, <3>2, AdviceOfOne DEF AdviceInv
  <2> QED BY <1>4, <2>2, <2>3 DEF EditReport
<1>5. CASE Traffic \/ Restart
  <2>1. UNCHANGED <<catalog, stubs, report, control>>
    BY <1>5 DEF Traffic, Restart
  <2> QED BY <2>1, AdviceFrame DEF AdviceInv
<1>6. CASE EditCatalog
  <2>1. UNCHANGED <<report, control>> /\ stubs' \cap Listed(catalog') = {}
    BY <1>6 DEF EditCatalog, Listed
  <2> QED BY <2>1, AdviceFrame
<1>7. CASE EditPolicy
  <2>1. UNCHANGED <<catalog, stubs, report>> /\ (control' = control \/ control' = Undecided)
    BY <1>7 DEF EditPolicy
  <2>2. CASE control' = control
    BY <2>1, <2>2, AdviceFrame DEF AdviceInv
  <2>3. CASE control' = Undecided
    BY <1>1, <2>1, <2>3 DEF Undecided
  <2> QED BY <2>1, <2>2, <2>3
<1> QED BY <1>2, <1>3, <1>4, <1>5, <1>6, <1>7

-----------------------------------------------------------------------------
(* Reports and advice: the theorems *)

\* The stubs stay apart from the users' models, and every report and decision
\* keeps saying what was true of the metrics, catalog and policy it was
\* computed from.
THEOREM AdviceInvariant == FinOpsSpec => []AdviceInv
<1>1. FinOpsInit => AdviceInv
  BY AdviceInitHolds
<1>2. FinOpsInv /\ AdviceInv /\ [FinOpsNext]_finopsVars => AdviceInv'
  <2> SUFFICES ASSUME FinOpsInv, AdviceInv, [FinOpsNext]_finopsVars PROVE AdviceInv'
    OBVIOUS
  <2>1. CASE \E r \in Reports : ReportReconcile(r)
    BY <2>1, ReportReconcileTells
  <2>2. CASE SovereigntyReconcile
    BY <2>2, SovereigntyReconcileTells
  <2>3. CASE RoutingReconcile
    BY <2>3, RoutingReconcileTells
  <2>4. CASE \/ \E k \in DOMAIN Budgets : BudgetPolicyReconcile(k)
             \/ \E r \in Reports : ReportFinalize(r) \/ EditReport(r)
             \/ Traffic \/ EditCatalog \/ EditPolicy \/ Restart
    BY <2>4, OthersTell
  <2>5. CASE UNCHANGED finopsVars
    <3>1. UNCHANGED <<catalog, stubs, report, control>>
      BY <2>5 DEF finopsVars
    <3> QED BY <3>1, AdviceFrame DEF AdviceInv
  <2> QED BY <2>1, <2>2, <2>3, <2>4, <2>5 DEF FinOpsNext
<1> QED BY <1>1, <1>2, FinOpsInvariant, PTL DEF FinOpsSpec

\* The critical findings of a generated report are the workloads and models of
\* which some counted series goes to a provider in a forbidden zone, whatever
\* the gateway exposes and however the catalog and its stubs have changed.
THEOREM ExposureAlwaysReported == FinOpsSpec => []ExposureIsReported
<1>1. AdviceInv => ExposureIsReported
  BY DEF AdviceInv, ExposureIsReported, ReportTold
<1> QED BY <1>1, AdviceInvariant, PTL

\* Reports are true: no published series is without an owner, and the critical
\* findings are the exposures, along every behaviour of the reconcilers.
THEOREM ReportsAlwaysTrue == FinOpsSpec => []ReportsAreTrue
<1>1. SeriesHaveAnOwner /\ ExposureIsReported => ReportsAreTrue
  BY DEF ReportsAreTrue
<1> QED BY <1>1, SeriesAlwaysOwned, ExposureAlwaysReported, PTL

\* No recommended swap, no enforced reroute and no routing candidate moves
\* traffic to a zone the policy forbids, as long as the paths to a model's zone
\* agree; a swap saves a fifth of the cost, and enforcement misses no exposed
\* model.
THEOREM AdviceAlwaysLawful == FinOpsSpec => []AdviceIsLawful
<1>1. AdviceInv /\ PathsAgree => SwapIsLawfulAndCheaper
  BY DEF AdviceInv, SwapIsLawfulAndCheaper, ReportTold, SwapSaves
<1>2. AdviceInv => AdviceIsLawful
  BY <1>1 DEF AdviceInv, AdviceIsLawful
<1> QED BY <1>2, AdviceInvariant, PTL
=============================================================================
