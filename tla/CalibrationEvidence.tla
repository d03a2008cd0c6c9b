------------------------- MODULE CalibrationEvidence -------------------------
(***************************************************************************)
(* The evidence that lets GOV-AR hold less than the provider's output cap. *)
(* A split authority registers, before any admission, which requests may   *)
(* calibrate and which may monitor; the ledger settles them; producers     *)
(* (several replicas, each pass several transactions) copy final usage     *)
(* into observations, build one immutable artifact per version and drift   *)
(* windows, and publish them into the routing policy's status with a       *)
(* compare-and-swap; the policy controller updates the same status; an     *)
(* administrator edits the specification at any moment.                    *)
(*                                                                         *)
(* Digests are the values they commit to: an artifact is its version,      *)
(* software regime, source requests and bound.  The resourceVersion of the *)
(* policy is what a reader compares, so it is kept as the set `current` of *)
(* producers whose copy is still the stored one.                           *)
(***************************************************************************)
EXTENDS Integers, Sequences, FiniteSets, FiniteSetsExt

CONSTANTS
    Scenarios,      \* a sequence of: the split of each request of a registry, the producers
                    \* deployed and the software digest of each, and as bounds the requests that may be
                    \* admitted before the registration, those that may be admitted under
                    \* another route or price, those whose usage may be provisional, and
                    \* how often the controller may rewrite a status it already observed
    MaxTokens,      \* output tokens are 1 .. MaxTokens
    Producers,
    Fair,           \* the producer that keeps running; bound: the others make one pass
                    \* each, and may stop anywhere in it
    Versions,       \* artifact versions a policy may name
    Thresholds,     \* drift thresholds a policy may name, in parts of Scale
    Target,         \* coverage target, in parts of Scale
    Scale,
    MinimumSupport, \* of the artifact and of the monitoring window
    MaxEdits        \* bound on policy edits

None == [version |-> 0]

ASSUME EvidenceAssumption ==
    /\ \A i \in DOMAIN Scenarios : Scenarios[i] \in
         [split : Seq({"train", "development", "calibration", "monitoring", "frozen_test"}),
          deployed : SUBSET Producers, software : [Producers -> Nat], early : SUBSET Nat,
          misfit : SUBSET Nat, corrected : SUBSET Nat, touches : Nat]
    /\ Fair \in Producers
    /\ Versions # {} /\ Versions \subseteq Nat \ {0}
    /\ Thresholds # {} /\ Thresholds \subseteq Nat
    /\ Scale \in Nat /\ Target \in 1 .. Scale
    /\ MaxTokens \in Nat /\ MinimumSupport \in Nat \ {0}

VARIABLES
    scenario,     \* what never changes
    registry,     \* the split registry: "none", being registered, "done"
    ledger,       \* [Requests -> reservation], the authoritative ledger's rows
    observations, \* [Requests -> observation], insert-only
    artifacts,    \* [Versions -> artifact], insert-only
    published,    \* policy publications with their drift windows, insert-only
    policy,       \* spec and generation of the AIRoutingPolicy
    status,       \* its status.govar, with the generation it observed
    pass,         \* [Producers -> the pass of runOnce in progress]
    current,      \* producers whose copy of the policy is the stored one
    touches

vars == <<scenario, registry, ledger, observations, artifacts, published, policy, status,
          pass, current, touches>>

\* The registered requests, numbered as the producer lists them, and their splits.
Frozen == Scenarios[scenario]
Requests == DOMAIN Frozen.split
SplitOf(r) == Frozen.split[r]

NoEvidence(generation) == [source |-> "none", generation |-> generation]

Waiting(at) == [at |-> at, version |-> 0, threshold |-> 0, todo |-> {},
         artifact |-> None, drift |-> None]

Init ==
    /\ scenario \in DOMAIN Scenarios
    /\ registry = "none"
    /\ ledger = [r \in Requests |-> [state |-> "none"]]
    /\ observations = [r \in Requests |-> [present |-> FALSE]]
    /\ artifacts = [v \in Versions |-> None]
    /\ published = {}
    /\ policy = [generation |-> 1, version |-> Min(Versions), pinned |-> None,
                 threshold |-> Min(Thresholds)]
    /\ status = NoEvidence(0)
    /\ pass = [p \in Producers |-> Waiting(IF p \in Frozen.deployed THEN "idle" ELSE "stopped")]
    /\ current = {}
    /\ touches = 0

-----------------------------------------------------------------------------
(* The split authority and the ledger *)

\* Register, a serializable transaction: it reads that no assigned request was
\* admitted, inserts the assignments and commits.
RegisterRead ==
    /\ registry = "none"
    /\ \A r \in Requests : ledger[r].state = "none"
    /\ registry' = "reading"
    /\ UNCHANGED <<scenario, ledger, observations, artifacts, published, policy, status, pass,
                   current, touches>>

RegisterCommit ==
    /\ registry = "reading"
    /\ registry' = "done"
    /\ UNCHANGED <<scenario, ledger, observations, artifacts, published, policy, status, pass,
                   current, touches>>

\* A request is admitted, before or after the assignments' time, under the registered
\* route, price and cap or another, and its usage arrives ...
Settle(r) ==
    /\ ledger[r].state = "none"
    /\ registry = "done" \/ r \in Frozen.early
    /\ \E t \in 1 .. MaxTokens, fits \in {TRUE} \union {~(r \in Frozen.misfit /\ registry = "done")},
          s \in {"final"} \union {IF r \in Frozen.corrected THEN "provisional" ELSE "final"} :
         ledger' = [ledger EXCEPT ![r] = [state |-> s, tokens |-> t, fits |-> fits,
                                          assignedBefore |-> registry = "done",
                                          finals |-> {t : x \in {s} \ {"provisional"}}]]
    /\ UNCHANGED <<scenario, registry, observations, artifacts, published, policy, status, pass,
                   current, touches>>

\* ... and is corrected: until it is final and, by an event that names its
\* predecessor, after that too (bound: once).
Correct(r) ==
    /\ \/ ledger[r].state = "provisional"
       \/ ledger[r].state = "final" /\ r \in Frozen.corrected /\ Cardinality(ledger[r].finals) = 1
    /\ \E t \in 1 .. MaxTokens :
         /\ t \notin ledger[r].finals
         /\ ledger' = [ledger EXCEPT ![r].state = "final", ![r].tokens = t, ![r].finals = @ \union {t}]
    /\ UNCHANGED <<scenario, registry, observations, artifacts, published, policy, status, pass,
                   current, touches>>

-----------------------------------------------------------------------------
(* The pure part: govarcalibration *)

\* Fault: provisional usage is taken for final.
AuthoritativeSettled(r) == ledger[r].state \in {"provisional", "final"}

\* The reservation is finalized and its output usage is not provisional.
AuthoritativeFinal(r) == ledger[r].state = "final"

Observed(split) == {r \in Requests : SplitOf(r) = split /\ observations[r].present}

\* The k-th smallest of the tokens of a set of observations.
OrderStatistic(rows, k) ==
    Min({t \in 1 .. MaxTokens : Cardinality({r \in rows : observations[r].tokens <= t}) >= k})

\* Fault: the rank is rounded down.
RankRoundedDown(n) == (Target * (n + 1)) \div Scale

ConformalRank(n) == (Target * (n + 1) + Scale - 1) \div Scale

BuildAuthoritativeArtifact(version, sw, rows) ==
    LET n == Cardinality(rows) IN
    IF n < MinimumSupport \/ ConformalRank(n) > n
         \/ \E r \in rows : observations[r].software # sw
    THEN None
    ELSE [version |-> version, software |-> sw, rows |-> rows,
          upper |-> OrderStatistic(rows, ConformalRank(n))]

BuildAuthoritativeDriftWindow(artifact, threshold, rows) ==
    LET covered == Cardinality({r \in rows : observations[r].tokens <= artifact.upper})
        gap == Target - (covered * Scale) \div Cardinality(rows)
    IN [artifact |-> artifact, threshold |-> threshold, rows |-> rows, detected |-> gap > threshold]

-----------------------------------------------------------------------------
(* One pass of a producer *)

Goto(p, next) == pass' = [pass EXCEPT ![p] = next]
Done(p) == Goto(p, Waiting(IF p = Fair THEN "idle" ELSE "stopped"))
Fail(p) == Done(p)

\* runOnce reads the policy and lists the final, unobserved requests of the
\* splits it may see.
StartPass(p) ==
    /\ pass[p].at = "idle"
    /\ current' = current \union {p}
    /\ Goto(p, [Waiting("materialize") EXCEPT !.version = policy.version,
                !.threshold = policy.threshold,
                !.todo = {r \in Requests : /\ registry = "done" /\ AuthoritativeFinal(r)
                                           /\ SplitOf(r) \in {"development", "calibration", "monitoring"}
                                           /\ ~observations[r].present}])
    /\ UNCHANGED <<scenario, registry, ledger, observations, artifacts, published, policy, status,
                   touches>>

\* Fault: the time of the assignment is not compared with that of the admission.
MaterializableLate(r) ==
    AuthoritativeFinal(r) /\ SplitOf(r) \notin {"train", "frozen_test"} /\ ledger[r].fits

\* MaterializeAuthoritativeObservation accepts the row.
Materializable(r) ==
    /\ AuthoritativeFinal(r)
    /\ ledger[r].assignedBefore
    /\ SplitOf(r) \notin {"train", "frozen_test"}
    /\ ledger[r].fits

\* The listed requests in order; an existing row is kept, a refused one ends the pass.
Materialize(p) ==
    /\ pass[p].at = "materialize" /\ pass[p].todo # {}
    /\ LET r == Min(pass[p].todo) IN
       IF observations[r].present \/ Materializable(r)
       THEN /\ Goto(p, [pass[p] EXCEPT !.todo = @ \ {r}])
            /\ observations' = IF observations[r].present THEN observations
                               ELSE [observations EXCEPT ![r] =
                                      [present |-> TRUE, tokens |-> ledger[r].tokens,
                                       software |-> Frozen.software[p]]]
       ELSE Fail(p) /\ UNCHANGED observations
    /\ UNCHANGED <<scenario, registry, ledger, artifacts, published, policy, status, current,
                   touches>>

\* RegimesForSplit and the support check after it: one regime, enough rows.
RegimesForSplit(split) ==
    LET rows == Observed(split) IN
    IF Cardinality(rows) >= MinimumSupport THEN {observations[r].software : r \in rows} ELSE {}

\* BuildArtifact with the regime just read, under the lock of the artifact's name: the
\* stored artifact of this version if its regime is the one asked for, else a new row.
BuildArtifact(p) ==
    /\ pass[p].at = "materialize" /\ pass[p].todo = {}
    /\ LET v == pass[p].version
           regimes == RegimesForSplit("calibration")
           sw == CHOOSE x \in regimes : TRUE
           built == IF Cardinality(regimes) # 1 THEN None
                    ELSE IF artifacts[v] # None THEN artifacts[v]
                    ELSE BuildAuthoritativeArtifact(v, sw, Observed("calibration"))
       IN IF built = None \/ built.software # sw
          THEN Fail(p) /\ UNCHANGED artifacts
          ELSE /\ artifacts' = [artifacts EXCEPT ![v] = built]
               /\ Goto(p, [pass[p] EXCEPT !.at = "drift", !.artifact = built])
    /\ UNCHANGED <<scenario, registry, ledger, observations, published, policy, status, current,
                   touches>>

\* Fault: a pass is skipped once its artifact is published.
ArtifactPublished(p, drift) ==
    /\ p \in current
    /\ status.source = "postgresql-v8" /\ status.artifact = pass[p].artifact
    /\ status.generation = policy.generation

\* runOnce skips what the status it read already says.  A copy that is no longer the
\* stored one ends the pass either way: here, or at Publish's comparison.
AlreadyPublished(p, drift) ==
    /\ p \in current
    /\ status.source = "postgresql-v8"
    /\ status.artifact = pass[p].artifact
    /\ status.drift = drift
    /\ status.generation = policy.generation

\* BuildDriftWindow over every monitoring row of the artifact's regime, then the skip.
BuildDriftWindow(p) ==
    /\ pass[p].at = "drift"
    /\ LET rows == Observed("monitoring")
           a == pass[p].artifact
           window == BuildAuthoritativeDriftWindow(a, pass[p].threshold, rows)
       IN IF RegimesForSplit("monitoring") # {a.software}
          THEN Fail(p)
          ELSE IF AlreadyPublished(p, window) THEN Done(p)
          ELSE Goto(p, [pass[p] EXCEPT !.at = "publish", !.drift = window])
    /\ UNCHANGED <<scenario, registry, ledger, observations, artifacts, published, policy, status, current,
                   touches>>

\* Publish: the policy must be the one read, its digest that of the artifact; the
\* publication is recorded in the database first.
PublishPolicyEvidence(p) ==
    /\ pass[p].at = "publish"
    /\ IF p \in current /\ policy.pinned = pass[p].artifact
            /\ Cardinality(pass[p].drift.rows) >= MinimumSupport
       THEN /\ published' = published \union {[artifact |-> pass[p].artifact,
                                               drift |-> pass[p].drift]}
            /\ Goto(p, [pass[p] EXCEPT !.at = "update"])
       ELSE Fail(p) /\ UNCHANGED published
    /\ UNCHANGED <<scenario, registry, ledger, observations, artifacts, policy, status, current,
                   touches>>

\* ... and then, if the policy is still the one read, its status.
UpdateStatus(p) ==
    /\ pass[p].at = "update"
    /\ IF p \in current
       THEN /\ status' = [source |-> "postgresql-v8", generation |-> policy.generation,
                          artifact |-> pass[p].artifact, drift |-> pass[p].drift,
                          valid |-> ~pass[p].drift.detected]
            /\ current' = {}
       ELSE UNCHANGED <<status, current>>
    /\ Done(p)
    /\ UNCHANGED <<scenario, registry, ledger, observations, artifacts, published, policy,
                   touches>>

-----------------------------------------------------------------------------
(* The policy object *)

\* The controller's status update, a compare-and-swap on what it read (so one
\* step): ledger evidence is kept and the generation marked as observed.
Reconcile ==
    /\ IF status.generation = policy.generation
       THEN touches < Frozen.touches /\ touches' = touches + 1
       ELSE UNCHANGED touches
    /\ status' = IF status.source = "postgresql-v8"
                 THEN [status EXCEPT !.generation = policy.generation]
                 ELSE NoEvidence(policy.generation)
    /\ current' = {}
    /\ UNCHANGED <<scenario, registry, ledger, observations, artifacts, published, policy, pass>>

\* An administrator names the version and the digest of a stored artifact, and a
\* threshold (other digests only make every check fail).
EditPolicy ==
    /\ policy.generation <= MaxEdits
    /\ \E v \in {x \in Versions : artifacts[x] # None}, t \in Thresholds :
         policy' = [generation |-> policy.generation + 1, version |-> v,
                    pinned |-> artifacts[v], threshold |-> t]
    /\ current' = {}
    /\ UNCHANGED <<scenario, registry, ledger, observations, artifacts, published, status, pass,
                   touches>>

-----------------------------------------------------------------------------
Pass(p) ==
    \/ StartPass(p) \/ Materialize(p) \/ BuildArtifact(p) \/ BuildDriftWindow(p)
    \/ PublishPolicyEvidence(p) \/ UpdateStatus(p)

Next ==
    \/ RegisterRead \/ RegisterCommit \/ Reconcile \/ EditPolicy
    \/ \E r \in Requests : Settle(r) \/ Correct(r)
    \/ \E p \in Producers : Pass(p)

Spec == Init /\ [][Next]_vars

\* One replica keeps looping on its ticker; any other may crash between two steps
\* of a pass (a restarted one is a replica that starts a pass).
FairSpec == Spec /\ WF_vars(Pass(Fair))

-----------------------------------------------------------------------------
(* Admission *)

\* Fault: the threshold the window was judged by is not compared with the policy's.
AcceptsAnyThreshold ==
    /\ status.source = "postgresql-v8"
    /\ status.generation = policy.generation
    /\ status.artifact = policy.pinned /\ status.artifact.version = policy.version
    /\ status.valid /\ ~status.drift.detected

\* validateCalibrationEvidence, as far as the status and the specification
\* decide it (ages are the business of AdmissionPolicy).
Accepts ==
    /\ status.source = "postgresql-v8"
    /\ status.generation = policy.generation
    /\ status.artifact = policy.pinned /\ status.artifact.version = policy.version
    /\ status.valid
    /\ Cardinality(status.artifact.rows) >= MinimumSupport
    /\ Cardinality(status.drift.rows) >= MinimumSupport
    /\ status.drift.threshold = policy.threshold
    /\ ~status.drift.detected

-----------------------------------------------------------------------------
(* Properties *)

\* An observation is usage that the ledger settled as final, never a provisional
\* figure (the producer reads the reservation without locking it,
\* calibration_evidence_postgres.go:448).  A correction after finality does not
\* reach the observation: the row is immutable.
ObservationWasFinal ==
    \A r \in Requests : observations[r].present => observations[r].tokens \in ledger[r].finals

\* No outcome that could have been seen when the split was drawn becomes evidence:
\* every observed request was assigned before its admission, to a split other than
\* train and frozen_test, and ran under the registered route and price.
ObservationIsPreregistered ==
    \A r \in Requests : observations[r].present =>
        /\ ledger[r].assignedBefore /\ ledger[r].fits
        /\ SplitOf(r) \in {"development", "calibration", "monitoring"}

\* An artifact states a split-conformal bound about its own frozen rows for ever: its
\* rank is the least k with k / (n + 1) >= Target, and its bound is the least token
\* count that k of its rows do not exceed.
ArtifactIsConformal ==
    \A v \in Versions : artifacts[v] # None =>
        LET a == artifacts[v]
            n == Cardinality(a.rows)
            Within(t) == Cardinality({r \in a.rows : observations[r].tokens <= t})
        IN /\ a.rows \subseteq {r \in Requests : SplitOf(r) = "calibration"}
           /\ Within(a.upper) * Scale >= Target * (n + 1)
           /\ \A t \in 1 .. a.upper - 1 : Within(t) * Scale < Target * (n + 1)

\* Calibration rests on final, preregistered usage and bounds it conformally.
EvidenceIsSound == ObservationWasFinal /\ ObservationIsPreregistered /\ ArtifactIsConformal

\* Whenever admission would rely on the status, the administrator's current
\* specification was judged: the pinned artifact is the stored one of the named
\* version, a recorded publication and drift window carry it, and the usage observed
\* in that window is within the threshold the policy now names, however edits,
\* controller writes, two producers and crashes interleaved.
AcceptedIsJudged ==
    Accepts =>
        LET a == artifacts[policy.version]
            d == status.drift
            covered == Cardinality({r \in d.rows : observations[r].tokens <= a.upper})
        IN /\ a = policy.pinned
           /\ \E pub \in published : pub.artifact = a /\ pub.drift = d
           /\ d.artifact = a
           /\ Target - (covered * Scale) \div Cardinality(d.rows) <= policy.threshold

\* Final usage that must go through one pass: nothing in it is refused and one
\* software produced all of it.
Unblocked ==
    /\ \A r \in Requests : AuthoritativeFinal(r)
         /\ SplitOf(r) \in {"development", "calibration", "monitoring"} => Materializable(r)
    /\ \A r \in Requests : observations[r].present =>
         observations[r].software = Frozen.software[Fair]

DriftShown ==
    LET rows == {r \in Requests : SplitOf(r) = "monitoring" /\ AuthoritativeFinal(r)}
        Usage(r) == IF observations[r].present THEN observations[r].tokens ELSE ledger[r].tokens
        covered == Cardinality({r \in rows : Usage(r) <= policy.pinned.upper})
    IN /\ policy.pinned # None /\ rows # {}
       /\ Target - (covered * Scale) \div Cardinality(rows) > policy.threshold

\* Admission does not rely for ever on evidence that the ledger's monitoring usage
\* contradicts, as long as no settled request is refused by the producer (one that
\* is ends every pass before the drift window is built, main.go:112).
DriftIsNoticed == []<>~(Accepts /\ DriftShown /\ Unblocked)

=============================================================================
