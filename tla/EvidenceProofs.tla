---------------------------- MODULE EvidenceProofs ----------------------------
(***************************************************************************)
(* Calibration evidence, for any versions, thresholds, scale and token     *)
(* range, the publication of an experiment's results, for any plans, and   *)
(* the causal experiment runner, for any streams, usages and prices.       *)
(*                                                                         *)
(* Evidence: everything a pass, a status or a policy refers to is stored,  *)
(* never changes once stored and says what its rows show.  The arithmetic  *)
(* is in two lemmas: the conformal rank is the least k a division rounds   *)
(* up to, and the threshold is the minimum of a set that is not empty.     *)
(*                                                                         *)
(* Publication: an attempt holds its file alone, leaves only kept files    *)
(* behind, and the marker stands on kept files; what was synced and named  *)
(* survives a loss of power.                                               *)
(*                                                                         *)
(* The causal runner: the events are processed in the order of their       *)
(* instants, the columns of a ledger are the sums of what its requests     *)
(* add, and two runs whose usages differ have the same ledgers until the   *)
(* first differing usage settles.                                          *)
(***************************************************************************)
EXTENDS CalibrationEvidence, ExperimentArtifacts, ExperimentCausal, SumTheorems,
        FiniteSetTheorems, WellFoundedInduction, TLAPS

-----------------------------------------------------------------------------
(* Minima, divisions and counts.                                             *)

\* The minimum of a set of natural numbers is its least member.
LEMMA MinIsLeast ==
  ASSUME NEW S, S \subseteq Nat, S # {}
  PROVE  Min(S) \in S /\ \A y \in S : Min(S) <= y
<1>1. PICK x \in S : \A y \in S : ~(<<y, x>> \in OpToRel(<, Nat))
  BY NatLessThanWellFounded, WFMin
<1>2. \A y \in S : x <= y
  <2>1. SUFFICES ASSUME NEW y \in S, ~(x <= y) PROVE FALSE
    OBVIOUS
  <2>2. y < x /\ x \in Nat /\ y \in Nat
    BY <2>1
  <2>3. <<y, x>> \in OpToRel(<, Nat)
    BY <2>2 DEF OpToRel
  <2> QED BY <1>1, <2>3
<1> QED BY <1>1, <1>2 DEF Min

\* Division rounded up: the least k with k * b >= a.
LEMMA RoundedUp ==
  ASSUME NEW a \in Nat, NEW b \in Nat \ {0}
  PROVE  LET k == (a + b - 1) \div b
         IN  k \in Nat /\ k * b >= a /\ \A j \in Nat : j < k => j * b < a
<1> DEFINE k == (a + b - 1) \div b
<1>1. k \in Int /\ k * b <= a + b - 1 /\ a + b - 1 < (k + 1) * b
  OBVIOUS
<1>2. k \in Nat
  BY <1>1
<1>3. k * b >= a
  BY <1>1, <1>2
<1>4. ASSUME NEW j \in Nat, j < k PROVE j * b < a
  <2>1. (j + 1) * b <= k * b
    BY <1>2, <1>4
  <2> QED BY <1>1, <2>1
<1> QED BY <1>2, <1>3, <1>4

-----------------------------------------------------------------------------
(* Calibration evidence.                                                     *)

\* An observation, once present, is never changed.
KeepsRows(R, obs, obs2) == \A r \in R : obs[r].present => obs2[r] = obs[r]

\* How many of the rows do not exceed t.
CoveredBy(obs, rows, t) == Cardinality({r \in rows : obs[r].tokens <= t})

Conformal(a, obs) ==
    /\ CoveredBy(obs, a.rows, a.upper) * Scale >= Target * (Cardinality(a.rows) + 1)
    /\ \A t \in 1 .. a.upper - 1 :
         CoveredBy(obs, a.rows, t) * Scale < Target * (Cardinality(a.rows) + 1)

\* A stored artifact of version v, over the requests R with their splits.
ArtifactOK(a, v, R, split, obs) ==
    /\ a.version = v
    /\ a.rows \subseteq {r \in R : split[r] = "calibration" /\ obs[r].present}
    /\ Conformal(a, obs)

\* A drift window says what its rows show of its artifact.
DriftOK(d, R, obs) ==
    /\ d.rows \subseteq {r \in R : obs[r].present}
    /\ d.detected = (Target - (CoveredBy(obs, d.rows, d.artifact.upper) * Scale)
                                \div Cardinality(d.rows) > d.threshold)

LedgerRowOK(l) ==
    /\ l.state \in {"none", "provisional", "final"}
    /\ l.state # "none" => l.tokens \in 1 .. MaxTokens
    /\ l.state = "final" => l.tokens \in l.finals

ObservationOK(o, l, s) ==
    /\ o.present \in BOOLEAN
    /\ o.present =>
         /\ o.tokens \in 1 .. MaxTokens /\ o.tokens \in l.finals
         /\ l.state # "none" /\ l.assignedBefore /\ l.fits
         /\ s \in {"development", "calibration", "monitoring"}

RowsInv ==
    /\ scenario \in DOMAIN Scenarios
    /\ ledger = [r \in Requests |-> ledger[r]]
    /\ observations = [r \in Requests |-> observations[r]]
    /\ \A r \in Requests : /\ LedgerRowOK(ledger[r])
                           /\ ObservationOK(observations[r], ledger[r], SplitOf(r))

ArtifactsInv ==
    /\ artifacts = [v \in Versions |-> artifacts[v]]
    /\ \A v \in Versions : artifacts[v] # None =>
         ArtifactOK(artifacts[v], v, Requests, Frozen.split, observations)

PolicyInv ==
    /\ policy.version \in Versions /\ policy.threshold \in Thresholds
    /\ policy.pinned \in {None, artifacts[policy.version]}

\* What the status of the policy says was judged and recorded, given the stored
\* artifacts, the requests, their observations and the publications.
StatusOK(s, arts, R, obs, pubs) ==
    s.source = "postgresql-v8" =>
      /\ s.artifact # None
      /\ \E v \in Versions : arts[v] = s.artifact
      /\ s.drift.artifact = s.artifact
      /\ DriftOK(s.drift, R, obs)
      /\ \E pub \in pubs : pub.artifact = s.artifact /\ pub.drift = s.drift

StatusInv == StatusOK(status, artifacts, Requests, observations, published)

\* How far a producer's pass has come, and what it carries.
PassOK(w, arts, R, obs, pubs) ==
    /\ w.at \in {"idle", "stopped", "materialize", "drift", "publish", "update"}
    /\ w.at \notin {"idle", "stopped"} => w.version \in Versions
    /\ w.at \in {"drift", "publish", "update"} =>
         w.artifact # None /\ arts[w.version] = w.artifact
    /\ w.at \in {"publish", "update"} =>
         w.drift.artifact = w.artifact /\ DriftOK(w.drift, R, obs)
    /\ w.at = "update" =>
         \E pub \in pubs : pub.artifact = w.artifact /\ pub.drift = w.drift

PassesInv ==
    /\ pass = [p \in Producers |-> pass[p]]
    /\ \A p \in Producers : PassOK(pass[p], artifacts, Requests, observations, published)

EvidenceInv == RowsInv /\ ArtifactsInv /\ PolicyInv /\ StatusInv /\ PassesInv

-----------------------------------------------------------------------------
\* The requests of a registry are finitely many and each has a split.
LEMMA RequestsTyped ==
  ASSUME scenario \in DOMAIN Scenarios
  PROVE  /\ IsFiniteSet(Requests)
         /\ \A r \in Requests : SplitOf(r) \in
              {"train", "development", "calibration", "monitoring", "frozen_test"}
<1> DEFINE Splits == {"train", "development", "calibration", "monitoring", "frozen_test"}
<1>1. Frozen.split \in Seq(Splits)
  BY EvidenceAssumption DEF Frozen
<1> HIDE DEF Splits
<1>2. Requests = 1 .. Len(Frozen.split) /\ Len(Frozen.split) \in Nat
  BY <1>1 DEF Requests
<1>3. IsFiniteSet(Requests)
  BY <1>2, FS_Interval
<1>4. \A r \in Requests : SplitOf(r) \in Splits
  BY <1>1, <1>2 DEF SplitOf
<1> QED BY <1>3, <1>4 DEF Splits

\* Kept rows are counted as before.
LEMMA CountKept ==
  ASSUME NEW R, NEW obs, NEW obs2, KeepsRows(R, obs, obs2),
         NEW rows, rows \subseteq {r \in R : obs[r].present}, NEW t
  PROVE  CoveredBy(obs2, rows, t) = CoveredBy(obs, rows, t)
<1>1. {r \in rows : obs2[r].tokens <= t} = {r \in rows : obs[r].tokens <= t}
  BY DEF KeepsRows
<1> QED BY <1>1 DEF CoveredBy

LEMMA ArtifactKept ==
  ASSUME NEW R, NEW obs, NEW obs2, KeepsRows(R, obs, obs2), NEW split,
         NEW a, NEW v, ArtifactOK(a, v, R, split, obs)
  PROVE  ArtifactOK(a, v, R, split, obs2)
<1>1. a.rows \subseteq {r \in R : obs[r].present}
  BY DEF ArtifactOK
<1>2. \A t : CoveredBy(obs2, a.rows, t) = CoveredBy(obs, a.rows, t)
  BY <1>1, CountKept
<1>3. Conformal(a, obs2)
  BY <1>2 DEF ArtifactOK, Conformal
<1> QED BY <1>3 DEF ArtifactOK, KeepsRows

LEMMA DriftKept ==
  ASSUME NEW R, NEW obs, NEW obs2, KeepsRows(R, obs, obs2),
         NEW d, DriftOK(d, R, obs)
  PROVE  DriftOK(d, R, obs2)
<1>1. d.rows \subseteq {r \in R : obs[r].present}
  BY DEF DriftOK
<1>2. CoveredBy(obs2, d.rows, d.artifact.upper) = CoveredBy(obs, d.rows, d.artifact.upper)
  BY <1>1, CountKept
<1> QED BY <1>2 DEF DriftOK, KeepsRows

\* What is stored only grows.
Grows(arts, arts2, R, obs, obs2, pubs, pubs2) ==
    /\ \A v \in Versions : arts[v] # None => arts2[v] = arts[v]
    /\ KeepsRows(R, obs, obs2)
    /\ pubs \subseteq pubs2

\* Whatever a status or a pass relies on stays true while the store grows.
LEMMA ReliedOnKept ==
  ASSUME NEW arts, NEW arts2, NEW R, NEW obs, NEW obs2, NEW pubs, NEW pubs2,
         Grows(arts, arts2, R, obs, obs2, pubs, pubs2)
  PROVE  /\ \A s : StatusOK(s, arts, R, obs, pubs) => StatusOK(s, arts2, R, obs2, pubs2)
         /\ \A w : PassOK(w, arts, R, obs, pubs) => PassOK(w, arts2, R, obs2, pubs2)
<1>1. \A d : DriftOK(d, R, obs) => DriftOK(d, R, obs2)
  BY DriftKept DEF Grows
<1>2. ASSUME NEW s, StatusOK(s, arts, R, obs, pubs) PROVE StatusOK(s, arts2, R, obs2, pubs2)
  BY <1>1, <1>2 DEF StatusOK, Grows
<1>3. ASSUME NEW w, PassOK(w, arts, R, obs, pubs) PROVE PassOK(w, arts2, R, obs2, pubs2)
  BY <1>1, <1>3 DEF PassOK, Grows
<1> QED BY <1>2, <1>3

\* The rows of a split are requests with an observation, and finitely many.
LEMMA ObservedRows ==
  ASSUME RowsInv, NEW split
  PROVE  /\ Observed(split) \subseteq {r \in Requests : observations[r].present}
         /\ \A r \in Observed(split) : observations[r].tokens \in 1 .. MaxTokens
         /\ IsFiniteSet(Observed(split))
<1>1. Observed(split) \subseteq Requests
  BY DEF Observed
<1>2. IsFiniteSet(Requests)
  BY RequestsTyped DEF RowsInv
<1>3. IsFiniteSet(Observed(split))
  BY <1>1, <1>2, FS_Subset
<1>4. \A r \in Observed(split) : observations[r].tokens \in 1 .. MaxTokens
  BY DEF Observed, RowsInv, ObservationOK
<1>5. Observed(split) \subseteq {r \in Requests : observations[r].present}
  BY DEF Observed
<1> QED BY <1>3, <1>4, <1>5

\* The artifact a producer builds bounds its rows conformally.
LEMMA BuiltIsConformal ==
  ASSUME RowsInv, NEW v \in Versions, NEW sw,
         BuildAuthoritativeArtifact(v, sw, Observed("calibration")) # None
  PROVE  ArtifactOK(BuildAuthoritativeArtifact(v, sw, Observed("calibration")), v,
                    Requests, Frozen.split, observations)
<1> DEFINE rows == Observed("calibration")
           n == Cardinality(rows)
           k == ConformalRank(n)
           T == {t \in 1 .. MaxTokens : CoveredBy(observations, rows, t) >= k}
           a == BuildAuthoritativeArtifact(v, sw, rows)
<1>1. IsFiniteSet(rows) /\ n \in Nat
  BY ObservedRows, FS_CardinalityType
<1>2. ~(n < MinimumSupport) /\ ~(k > n)
      /\ a = [version |-> v, software |-> sw, rows |-> rows, upper |-> OrderStatistic(rows, k)]
  <2> DEFINE Bad == n < MinimumSupport \/ k > n \/ \E r \in rows : observations[r].software # sw
             Good == [version |-> v, software |-> sw, rows |-> rows,
                      upper |-> OrderStatistic(rows, k)]
  <2>1. a = IF Bad THEN None ELSE Good
    BY DEF BuildAuthoritativeArtifact
  <2>2. a # None
    OBVIOUS
  <2> HIDE DEF a
  <2>3. ~Bad /\ a = Good
    BY <2>1, <2>2
  <2> QED BY <2>3
<1>3. OrderStatistic(rows, k) = Min(T)
  BY DEF OrderStatistic, CoveredBy
<1>4. Scale \in Nat \ {0} /\ Target \in Nat /\ MinimumSupport \in Nat \ {0} /\ MaxTokens \in Nat
  BY EvidenceAssumption
<1>5. k = (Target * (n + 1) + Scale - 1) \div Scale
  BY DEF ConformalRank
<1>6. /\ k \in Nat /\ k * Scale >= Target * (n + 1)
      /\ \A j \in Nat : j < k => j * Scale < Target * (n + 1)
  <2>1. Target * (n + 1) \in Nat
    BY <1>1, <1>4
  <2> QED BY <2>1, <1>4, <1>5, RoundedUp
<1>7. \A t : CoveredBy(observations, rows, t) \in Nat
  <2>1. ASSUME NEW t PROVE CoveredBy(observations, rows, t) \in Nat
    <3>1. {r \in rows : observations[r].tokens <= t} \subseteq rows
      OBVIOUS
    <3>2. IsFiniteSet({r \in rows : observations[r].tokens <= t})
      BY <3>1, <1>1, FS_Subset
    <3> QED BY <3>2, FS_CardinalityType DEF CoveredBy
  <2> QED BY <2>1
<1>8. MaxTokens \in T
  <2>1. rows # {}
    BY <1>1, <1>2, <1>4, FS_EmptySet
  <2>2. \A r \in rows : observations[r].tokens \in 1 .. MaxTokens
    BY ObservedRows
  <2>3. {r \in rows : observations[r].tokens <= MaxTokens} = rows
    BY <2>2, <1>4
  <2>4. CoveredBy(observations, rows, MaxTokens) = n
    BY <2>3 DEF CoveredBy
  <2>5. MaxTokens \in 1 .. MaxTokens
    BY <2>1, <2>2, <1>4
  <2> QED BY <2>4, <2>5, <1>1, <1>2, <1>6
<1> HIDE DEF k
<1>9. Min(T) \in T /\ \A t \in T : Min(T) <= t
  <2>1. T \subseteq Nat
    BY <1>4
  <2> HIDE DEF T
  <2> QED BY <2>1, <1>8, MinIsLeast
<1>10. CoveredBy(observations, rows, Min(T)) * Scale >= Target * (n + 1)
  <2> DEFINE c == CoveredBy(observations, rows, Min(T))
  <2>1. c >= k /\ c \in Nat
    BY <1>9, <1>7
  <2> HIDE DEF c
  <2>2. c * Scale >= k * Scale
    BY <2>1, <1>4, <1>6
  <2>3. c * Scale \in Nat /\ k * Scale \in Nat /\ Target * (n + 1) \in Nat
    BY <2>1, <1>4, <1>6, <1>1
  <2>4. c * Scale >= Target * (n + 1)
    BY <2>2, <2>3, <1>6
  <2> QED BY <2>4 DEF c
<1>11. ASSUME NEW t \in 1 .. Min(T) - 1
       PROVE  CoveredBy(observations, rows, t) * Scale < Target * (n + 1)
  <2>1. Min(T) \in 1 .. MaxTokens
    BY <1>9
  <2>2. t \in 1 .. MaxTokens /\ ~(Min(T) <= t)
    BY <2>1, <1>4
  <2>3. t \notin T
    BY <1>9, <2>2
  <2>4. CoveredBy(observations, rows, t) < k
    BY <2>2, <2>3, <1>6, <1>7
  <2> QED BY <2>4, <1>6, <1>7
<1>12. a.version = v /\ a.rows = rows /\ a.upper = Min(T)
  BY <1>2, <1>3
<1>13. rows \subseteq {r \in Requests : Frozen.split[r] = "calibration" /\ observations[r].present}
  BY DEF Observed, SplitOf
<1> QED
  BY <1>10, <1>11, <1>12, <1>13 DEF ArtifactOK, Conformal

-----------------------------------------------------------------------------
(* The actions.                                                              *)

\* Primed, the stored, policy, status and pass facts, when the store grew.
LEMMA StoreCarries ==
  ASSUME EvidenceInv, scenario' = scenario,
         Grows(artifacts, artifacts', Requests, observations, observations',
               published, published')
  PROVE  /\ Requests' = Requests /\ Frozen' = Frozen
         /\ StatusOK(status, artifacts', Requests', observations', published')
         /\ \A p \in Producers :
              PassOK(pass[p], artifacts', Requests', observations', published')
         /\ \A v \in Versions : artifacts[v] # None =>
              /\ artifacts'[v] = artifacts[v]
              /\ ArtifactOK(artifacts[v], v, Requests', Frozen'.split, observations')
         /\ policy.pinned \in {None, artifacts'[policy.version]}
<1>1. Requests' = Requests /\ Frozen' = Frozen
  BY DEF Requests, Frozen
<1>2. StatusOK(status, artifacts', Requests, observations', published')
  BY ReliedOnKept DEF EvidenceInv, StatusInv
<1>3. \A p \in Producers : PassOK(pass[p], artifacts', Requests, observations', published')
  BY ReliedOnKept DEF EvidenceInv, PassesInv
<1>4. \A v \in Versions : artifacts[v] # None =>
        /\ artifacts'[v] = artifacts[v]
        /\ ArtifactOK(artifacts[v], v, Requests, Frozen.split, observations')
  BY ArtifactKept DEF EvidenceInv, ArtifactsInv, Grows
<1>5. policy.pinned \in {None, artifacts'[policy.version]}
  BY <1>4 DEF EvidenceInv, PolicyInv
<1> QED BY <1>1, <1>2, <1>3, <1>4, <1>5

\* A step that leaves the rows and the store alone keeps what they say.
LEMMA StoreStays ==
  ASSUME EvidenceInv,
         UNCHANGED <<scenario, ledger, observations, artifacts>>, published \subseteq published'
  PROVE  /\ RowsInv' /\ ArtifactsInv'
         /\ Grows(artifacts, artifacts', Requests, observations, observations',
                  published, published')
<1>1. Requests' = Requests /\ Frozen' = Frozen
  BY DEF Requests, Frozen
<1>2. RowsInv'
  BY <1>1 DEF EvidenceInv, RowsInv, SplitOf
<1>3. ArtifactsInv'
  BY <1>1 DEF EvidenceInv, ArtifactsInv
<1> QED BY <1>2, <1>3 DEF Grows, KeepsRows

\* A step that changes rows of the ledger or the observations.
LEMMA RowsStep ==
  ASSUME EvidenceInv, RowsInv', KeepsRows(Requests, observations, observations'),
         UNCHANGED <<scenario, artifacts, published, policy, status>>,
         PassesInv'
  PROVE  EvidenceInv'
<1>1. Grows(artifacts, artifacts', Requests, observations, observations',
            published, published')
  BY DEF Grows
<1>2. /\ Requests' = Requests /\ Frozen' = Frozen
      /\ StatusOK(status, artifacts', Requests', observations', published')
      /\ \A v \in Versions : artifacts[v] # None =>
           ArtifactOK(artifacts[v], v, Requests', Frozen'.split, observations')
  BY <1>1, StoreCarries
<1>3. ArtifactsInv'
  BY <1>2 DEF EvidenceInv, ArtifactsInv
<1>4. PolicyInv'
  BY DEF EvidenceInv, PolicyInv
<1>5. StatusInv'
  BY <1>2 DEF StatusInv
<1> QED BY <1>3, <1>4, <1>5 DEF EvidenceInv

\* The passes in progress when none of them moves.
LEMMA PassesStay ==
  ASSUME EvidenceInv, UNCHANGED <<scenario, pass>>,
         Grows(artifacts, artifacts', Requests, observations, observations',
               published, published')
  PROVE  PassesInv'
<1>1. \A p \in Producers : PassOK(pass[p], artifacts', Requests', observations', published')
  BY StoreCarries
<1> QED BY <1>1 DEF EvidenceInv, PassesInv

\* One pass moves to w, which carries only what it may.
LEMMA PassMoves ==
  ASSUME EvidenceInv, scenario' = scenario, NEW p \in Producers, NEW w, Goto(p, w),
         Grows(artifacts, artifacts', Requests, observations, observations',
               published, published'),
         PassOK(w, artifacts', Requests', observations', published')
  PROVE  PassesInv'
<1>1. \A q \in Producers : PassOK(pass[q], artifacts', Requests', observations', published')
  BY StoreCarries
<1>2. pass' = [pass EXCEPT ![p] = w]
  BY DEF Goto
<1>3. pass = [q \in Producers |-> pass[q]]
  BY DEF EvidenceInv, PassesInv
<1>4. pass' = [q \in Producers |-> pass'[q]]
  BY <1>2, <1>3
<1>5. ASSUME NEW q \in Producers
      PROVE  PassOK(pass'[q], artifacts', Requests', observations', published')
  <2>1. CASE q = p
    <3>1. pass'[q] = w
      BY <1>2, <1>3, <2>1
    <3> QED BY <3>1
  <2>2. CASE q # p
    <3>1. pass'[q] = pass[q]
      BY <1>2, <1>3, <2>2
    <3> QED BY <3>1, <1>1
  <2> QED BY <2>1, <2>2
<1> QED BY <1>4, <1>5 DEF PassesInv

\* A pass that waits carries nothing.
LEMMA WaitingOK ==
  ASSUME NEW stop \in {"idle", "stopped"}, NEW arts, NEW R, NEW obs, NEW pubs
  PROVE  PassOK(Waiting(stop), arts, R, obs, pubs)
BY DEF PassOK, Waiting

LEMMA EvidenceInitially == Init => EvidenceInv
<1> SUFFICES ASSUME Init PROVE EvidenceInv
  OBVIOUS
<1>1. RowsInv
  BY DEF Init, RowsInv, LedgerRowOK, ObservationOK
<1>2. ArtifactsInv
  BY DEF Init, ArtifactsInv
<1>3. PolicyInv
  <2>1. Min(Versions) \in Versions
    BY MinIsLeast, EvidenceAssumption
  <2>2. Min(Thresholds) \in Thresholds
    BY MinIsLeast, EvidenceAssumption
  <2> QED BY <2>1, <2>2 DEF Init, PolicyInv
<1>4. StatusInv
  BY DEF Init, StatusInv, StatusOK, NoEvidence
<1>5. PassesInv
  <2>1. ASSUME NEW p \in Producers
        PROVE  PassOK(pass[p], artifacts, Requests, observations, published)
    BY WaitingOK DEF Init
  <2> QED BY <2>1 DEF Init, PassesInv
<1> QED BY <1>1, <1>2, <1>3, <1>4, <1>5 DEF EvidenceInv

LEMMA RegisterKeeps ==
  ASSUME EvidenceInv, RegisterRead \/ RegisterCommit
  PROVE  EvidenceInv'
<1>1. UNCHANGED <<scenario, ledger, observations, artifacts, published, policy, status, pass>>
  BY DEF RegisterRead, RegisterCommit
<1>2. RowsInv' /\ KeepsRows(Requests, observations, observations')
      /\ Grows(artifacts, artifacts', Requests, observations, observations',
               published, published')
  BY <1>1, StoreStays DEF Grows
<1>3. PassesInv'
  BY <1>1, <1>2, PassesStay
<1> QED BY <1>1, <1>2, <1>3, RowsStep

LEMMA SettleKeeps ==
  ASSUME EvidenceInv, NEW r \in Requests, Settle(r) \/ Correct(r)
  PROVE  EvidenceInv'
<1>1. UNCHANGED <<scenario, observations, artifacts, published, policy, status, pass>>
  BY DEF Settle, Correct
<1>2. Requests' = Requests /\ Frozen' = Frozen
  BY <1>1 DEF Requests, Frozen
<1>3. KeepsRows(Requests, observations, observations')
  BY <1>1 DEF KeepsRows
<1>4. ledger = [q \in Requests |-> ledger[q]]
  BY DEF EvidenceInv, RowsInv
<1>5. LedgerRowOK(ledger[r]) /\ ObservationOK(observations[r], ledger[r], SplitOf(r))
  BY DEF EvidenceInv, RowsInv
<1>6. /\ ledger' = [q \in Requests |-> ledger'[q]]
      /\ \A q \in Requests : q # r => ledger'[q] = ledger[q]
      /\ LedgerRowOK(ledger'[r]) /\ ObservationOK(observations[r], ledger'[r], SplitOf(r))
  <2>1. CASE Settle(r)
    <3>0. PICK t \in 1 .. MaxTokens,
               f \in {TRUE} \union {~(r \in Frozen.misfit /\ registry = "done")},
               s \in {"final"} \union {IF r \in Frozen.corrected THEN "provisional" ELSE "final"} :
            ledger' = [ledger EXCEPT ![r] = [state |-> s, tokens |-> t, fits |-> f,
                                             assignedBefore |-> registry = "done",
                                             finals |-> {t : x \in {s} \ {"provisional"}}]]
      BY <2>1, Zenon DEF Settle
    <3>1. s \in {"final", "provisional"}
      OBVIOUS
    <3>2. s = "final" => t \in {t : x \in {s} \ {"provisional"}}
      OBVIOUS
    <3>3. /\ ledger'[r].state = s /\ ledger'[r].tokens = t
          /\ ledger'[r].finals = {t : x \in {s} \ {"provisional"}}
      BY <3>0, <1>4
    <3>4. LedgerRowOK(ledger'[r])
      BY <3>1, <3>2, <3>3 DEF LedgerRowOK
    <3>5. ~observations[r].present /\ observations[r].present \in BOOLEAN
      BY <2>1, <1>5 DEF Settle, ObservationOK
    <3>6. ObservationOK(observations[r], ledger'[r], SplitOf(r))
      BY <3>5 DEF ObservationOK
    <3>7. ledger' = [q \in Requests |-> ledger'[q]]
          /\ \A q \in Requests : q # r => ledger'[q] = ledger[q]
      BY <3>0, <1>4
    <3> QED BY <3>4, <3>6, <3>7
  <2>2. CASE Correct(r)
    <3>1. PICK t \in 1 .. MaxTokens :
            ledger' = [ledger EXCEPT ![r].state = "final", ![r].tokens = t,
                                     ![r].finals = @ \union {t}]
      BY <2>2 DEF Correct
    <3>2. /\ ledger'[r].state = "final" /\ ledger'[r].tokens = t
          /\ ledger'[r].finals = ledger[r].finals \union {t}
          /\ ledger'[r].assignedBefore = ledger[r].assignedBefore
          /\ ledger'[r].fits = ledger[r].fits
      BY <3>1, <1>4
    <3>3. LedgerRowOK(ledger'[r])
      BY <3>2 DEF LedgerRowOK
    <3>4. ObservationOK(observations[r], ledger'[r], SplitOf(r))
      BY <3>2, <1>5 DEF ObservationOK
    <3>5. ledger' = [q \in Requests |-> ledger'[q]]
          /\ \A q \in Requests : q # r => ledger'[q] = ledger[q]
      BY <3>1, <1>4
    <3> QED BY <3>3, <3>4, <3>5
  <2> QED BY <2>1, <2>2
<1>7. RowsInv'
  BY <1>1, <1>2, <1>6 DEF EvidenceInv, RowsInv, SplitOf
<1>8. PassesInv'
  BY <1>1, <1>3, PassesStay DEF Grows
<1> QED BY <1>1, <1>3, <1>7, <1>8, RowsStep

\* Materialize either copies a final row, which the ledger keeps, or ends the pass.
LEMMA MaterializeKeeps ==
  ASSUME EvidenceInv, NEW p \in Producers, Materialize(p)
  PROVE  EvidenceInv'
<1> DEFINE r == Min(pass[p].todo)
           row == [present |-> TRUE, tokens |-> ledger[r].tokens,
                   software |-> Frozen.software[p]]
<1>1. UNCHANGED <<scenario, ledger, artifacts, published, policy, status>>
  BY DEF Materialize
<1>2. Requests' = Requests /\ Frozen' = Frozen
  BY <1>1 DEF Requests, Frozen
<1>3. PassOK(pass[p], artifacts, Requests, observations, published)
      /\ pass[p].at = "materialize"
  BY DEF EvidenceInv, PassesInv, Materialize
<1>4. \/ /\ observations' = observations
         /\ Goto(p, [pass[p] EXCEPT !.todo = @ \ {r}]) \/ Done(p)
      \/ /\ ~observations[r].present /\ Materializable(r)
         /\ observations' = [observations EXCEPT ![r] = row]
         /\ Goto(p, [pass[p] EXCEPT !.todo = @ \ {r}])
  BY DEF Materialize, Fail
<1>5. observations = [q \in Requests |-> observations[q]]
  BY DEF EvidenceInv, RowsInv
<1>6. /\ observations' = [q \in Requests |-> observations'[q]]
      /\ KeepsRows(Requests, observations, observations')
      /\ \A q \in Requests : ObservationOK(observations'[q], ledger[q], SplitOf(q))
  <2>1. \A q \in Requests : ObservationOK(observations[q], ledger[q], SplitOf(q))
    BY DEF EvidenceInv, RowsInv
  <2>2. CASE observations' = observations
    BY <2>1, <2>2, <1>5 DEF KeepsRows
  <2>3. CASE ~observations[r].present /\ Materializable(r)
             /\ observations' = [observations EXCEPT ![r] = row]
    <3> HIDE DEF r
    <3>1. r \in Requests => ObservationOK(row, ledger[r], SplitOf(r))
      <4>1. SUFFICES ASSUME r \in Requests PROVE ObservationOK(row, ledger[r], SplitOf(r))
        OBVIOUS
      <4>2. LedgerRowOK(ledger[r])
        BY <4>1 DEF EvidenceInv, RowsInv
      <4>3. SplitOf(r) \in {"train", "development", "calibration", "monitoring", "frozen_test"}
        BY <4>1, RequestsTyped DEF EvidenceInv, RowsInv
      <4> QED BY <2>3, <4>2, <4>3
              DEF Materializable, AuthoritativeFinal, LedgerRowOK, ObservationOK
    <3> HIDE DEF row
    <3>2. observations' = [q \in Requests |-> observations'[q]]
      BY <2>3, <1>5
    <3>3. KeepsRows(Requests, observations, observations')
      BY <2>3, <1>5 DEF KeepsRows
    <3>4. ASSUME NEW q \in Requests
          PROVE  ObservationOK(observations'[q], ledger[q], SplitOf(q))
      <4>1. CASE q = r
        <5>1. observations'[q] = row
          BY <2>3, <1>5, <4>1
        <5> QED BY <5>1, <4>1, <3>1
      <4>2. CASE q # r
        <5>1. observations'[q] = observations[q]
          BY <2>3, <1>5, <4>2
        <5> QED BY <5>1, <2>1
      <4> QED BY <4>1, <4>2
    <3> QED BY <3>2, <3>3, <3>4
  <2> QED BY <1>4, <2>2, <2>3
<1>7. RowsInv'
  BY <1>1, <1>2, <1>6 DEF EvidenceInv, RowsInv, SplitOf
<1>8. Grows(artifacts, artifacts', Requests, observations, observations',
            published, published')
  BY <1>1, <1>6 DEF Grows
<1>9. PassesInv'
  <2>1. CASE Goto(p, [pass[p] EXCEPT !.todo = @ \ {r}])
    <3> DEFINE w == [pass[p] EXCEPT !.todo = @ \ {r}]
    <3>1. PassOK(w, artifacts, Requests, observations, published)
      BY <1>3 DEF PassOK
    <3>2. PassOK(w, artifacts', Requests', observations', published')
      BY <3>1, <1>2, <1>8, ReliedOnKept
    <3> QED BY <3>2, <2>1, <1>1, <1>8, PassMoves
  <2>2. CASE Done(p)
    <3>1. PICK stop \in {"idle", "stopped"} : Goto(p, Waiting(stop))
      BY <2>2 DEF Done
    <3>2. PassOK(Waiting(stop), artifacts', Requests', observations', published')
      BY WaitingOK
    <3> QED BY <3>1, <3>2, <1>1, <1>8, PassMoves
  <2> QED BY <1>4, <2>1, <2>2
<1> QED BY <1>1, <1>6, <1>7, <1>9, RowsStep

\* The end of a pass, whatever the step stored before.
LEMMA DoneKeeps ==
  ASSUME EvidenceInv, scenario' = scenario, NEW p \in Producers, Done(p),
         Grows(artifacts, artifacts', Requests, observations, observations',
               published, published')
  PROVE  PassesInv'
<1>1. PICK stop \in {"idle", "stopped"} : Goto(p, Waiting(stop))
  BY DEF Done
<1>2. PassOK(Waiting(stop), artifacts', Requests', observations', published')
  BY WaitingOK
<1> QED BY <1>1, <1>2, PassMoves

LEMMA StartPassKeeps ==
  ASSUME EvidenceInv, NEW p \in Producers, StartPass(p)
  PROVE  EvidenceInv'
<1>1. UNCHANGED <<scenario, ledger, observations, artifacts, published, policy, status>>
  BY DEF StartPass
<1>2. RowsInv' /\ KeepsRows(Requests, observations, observations')
      /\ Grows(artifacts, artifacts', Requests, observations, observations',
               published, published')
  BY <1>1, StoreStays DEF Grows
<1>3. PICK w : Goto(p, w) /\ w.at = "materialize" /\ w.version = policy.version
  <2> DEFINE todo == {r \in Requests : /\ registry = "done" /\ AuthoritativeFinal(r)
                                        /\ SplitOf(r) \in {"development", "calibration", "monitoring"}
                                        /\ ~observations[r].present}
             w == [Waiting("materialize") EXCEPT !.version = policy.version,
                     !.threshold = policy.threshold, !.todo = todo]
  <2>1. Goto(p, w)
    BY DEF StartPass
  <2>2. w.at = "materialize" /\ w.version = policy.version
    BY DEF Waiting
  <2> QED BY <2>1, <2>2
<1>4. policy.version \in Versions
  BY DEF EvidenceInv, PolicyInv
<1>5. PassOK(w, artifacts', Requests', observations', published')
  BY <1>3, <1>4 DEF PassOK
<1>6. PassesInv'
  BY <1>1, <1>2, <1>3, <1>5, PassMoves
<1> QED BY <1>1, <1>2, <1>6, RowsStep

\* BuildArtifact stores a conformal artifact, or returns the one stored before.
LEMMA BuildArtifactKeeps ==
  ASSUME EvidenceInv, NEW p \in Producers, BuildArtifact(p)
  PROVE  EvidenceInv'
<1> DEFINE v == pass[p].version
           regimes == RegimesForSplit("calibration")
           sw == CHOOSE x \in regimes : TRUE
           built == IF Cardinality(regimes) # 1 THEN None
                    ELSE IF artifacts[v] # None THEN artifacts[v]
                    ELSE BuildAuthoritativeArtifact(v, sw, Observed("calibration"))
           w == [pass[p] EXCEPT !.at = "drift", !.artifact = built]
<1>1. UNCHANGED <<scenario, ledger, observations, published, policy, status>>
  BY DEF BuildArtifact
<1>2. Requests' = Requests /\ Frozen' = Frozen
  BY <1>1 DEF Requests, Frozen
<1>3. v \in Versions /\ PassOK(pass[p], artifacts, Requests, observations, published)
      /\ pass[p].at = "materialize"
  BY DEF EvidenceInv, PassesInv, BuildArtifact, PassOK
<1>4. \/ Done(p) /\ artifacts' = artifacts
      \/ built # None /\ artifacts' = [artifacts EXCEPT ![v] = built] /\ Goto(p, w)
  BY DEF BuildArtifact, Fail
<1>5. artifacts = [u \in Versions |-> artifacts[u]]
  BY DEF EvidenceInv, ArtifactsInv
<1>6. CASE Done(p) /\ artifacts' = artifacts
  <2>1. RowsInv' /\ KeepsRows(Requests, observations, observations')
        /\ Grows(artifacts, artifacts', Requests, observations, observations',
                 published, published')
    BY <1>1, <1>6, StoreStays DEF Grows
  <2>2. PassesInv'
    BY <1>1, <1>6, <2>1, DoneKeeps
  <2> QED BY <1>1, <1>6, <2>1, <2>2, RowsStep
<1>7. CASE built # None /\ artifacts' = [artifacts EXCEPT ![v] = built] /\ Goto(p, w)
  <2>1. built = artifacts[v] \/ (artifacts[v] = None
          /\ built = BuildAuthoritativeArtifact(v, sw, Observed("calibration")))
    BY <1>7
  <2>2. ArtifactOK(built, v, Requests, Frozen.split, observations)
    <3>1. CASE built = artifacts[v]
      BY <3>1, <1>3, <1>7 DEF EvidenceInv, ArtifactsInv
    <3>2. CASE built = BuildAuthoritativeArtifact(v, sw, Observed("calibration"))
      <4> HIDE DEF built, sw, v
      <4> QED BY <3>2, <1>3, <1>7, BuiltIsConformal DEF EvidenceInv
    <3> QED BY <2>1, <3>1, <3>2
  <2> HIDE DEF built, sw, v
  <2>3. artifacts' = [u \in Versions |-> artifacts'[u]] /\ artifacts'[v] = built
        /\ \A u \in Versions : u # v => artifacts'[u] = artifacts[u]
    BY <1>3, <1>5, <1>7
  <2>4. Grows(artifacts, artifacts', Requests, observations, observations',
              published, published')
    BY <1>1, <2>1, <2>3 DEF Grows, KeepsRows
  <2>5. RowsInv'
    BY <1>1, <1>2 DEF EvidenceInv, RowsInv, SplitOf
  <2>6. ArtifactsInv'
    BY <1>1, <1>2, <2>2, <2>3 DEF EvidenceInv, ArtifactsInv
  <2>7. /\ StatusOK(status, artifacts', Requests', observations', published')
        /\ policy.pinned \in {None, artifacts'[policy.version]}
    BY <1>1, <2>4, StoreCarries
  <2>8. PolicyInv' /\ StatusInv'
    BY <1>1, <2>7 DEF EvidenceInv, PolicyInv, StatusInv
  <2>9. PassOK(w, artifacts', Requests', observations', published')
    <3>1. w.at = "drift" /\ w.version = v /\ w.artifact = built
      BY <1>3 DEF v, PassOK
    <3> QED BY <3>1, <1>3, <1>7, <2>3 DEF PassOK
  <2>10. PassesInv'
    BY <1>1, <1>7, <2>4, <2>9, PassMoves
  <2> QED BY <2>5, <2>6, <2>8, <2>10 DEF EvidenceInv
<1> QED BY <1>4, <1>6, <1>7

LEMMA BuildDriftWindowKeeps ==
  ASSUME EvidenceInv, NEW p \in Producers, BuildDriftWindow(p)
  PROVE  EvidenceInv'
<1> DEFINE rows == Observed("monitoring")
           d == BuildAuthoritativeDriftWindow(pass[p].artifact, pass[p].threshold, rows)
           w == [pass[p] EXCEPT !.at = "publish", !.drift = d]
<1>1. UNCHANGED <<scenario, ledger, observations, artifacts, published, policy, status>>
  BY DEF BuildDriftWindow
<1>2. RowsInv' /\ KeepsRows(Requests, observations, observations')
      /\ Grows(artifacts, artifacts', Requests, observations, observations',
               published, published')
  BY <1>1, StoreStays DEF Grows
<1>3. Requests' = Requests
  BY <1>1 DEF Requests, Frozen
<1>4. Done(p) \/ Goto(p, w)
  BY DEF BuildDriftWindow, Fail
<1>5. PassOK(pass[p], artifacts, Requests, observations, published) /\ pass[p].at = "drift"
  BY DEF EvidenceInv, PassesInv, BuildDriftWindow
<1>6. d.artifact = pass[p].artifact /\ DriftOK(d, Requests, observations)
  <2>1. rows \subseteq {r \in Requests : observations[r].present}
    BY ObservedRows DEF EvidenceInv
  <2> HIDE DEF rows
  <2> QED BY <2>1 DEF BuildAuthoritativeDriftWindow, DriftOK, CoveredBy
<1> HIDE DEF d
<1>7. PassOK(w, artifacts', Requests', observations', published')
  <2>1. w.at = "publish" /\ w.version = pass[p].version /\ w.artifact = pass[p].artifact
        /\ w.drift = d
    BY <1>5 DEF PassOK
  <2> QED BY <1>1, <1>3, <1>5, <1>6, <2>1 DEF PassOK
<1>8. PassesInv'
  BY <1>1, <1>2, <1>4, <1>7, PassMoves, DoneKeeps
<1> QED BY <1>1, <1>2, <1>8, RowsStep

\* The publication is recorded before the status may say it.
LEMMA PublishKeeps ==
  ASSUME EvidenceInv, NEW p \in Producers, PublishPolicyEvidence(p)
  PROVE  EvidenceInv'
<1> DEFINE pub == [artifact |-> pass[p].artifact, drift |-> pass[p].drift]
           w == [pass[p] EXCEPT !.at = "update"]
<1>1. UNCHANGED <<scenario, ledger, observations, artifacts, policy, status>>
  BY DEF PublishPolicyEvidence
<1>2. \/ Done(p) /\ published' = published
      \/ published' = published \union {pub} /\ Goto(p, w)
  BY DEF PublishPolicyEvidence, Fail
<1>3. RowsInv' /\ ArtifactsInv'
      /\ Grows(artifacts, artifacts', Requests, observations, observations',
               published, published')
  BY <1>1, <1>2, StoreStays
<1>4. /\ Requests' = Requests
      /\ StatusOK(status, artifacts', Requests', observations', published')
      /\ policy.pinned \in {None, artifacts'[policy.version]}
      /\ PassOK(pass[p], artifacts', Requests', observations', published')
  BY <1>1, <1>3, StoreCarries
<1>5. PolicyInv' /\ StatusInv'
  BY <1>1, <1>4 DEF EvidenceInv, PolicyInv, StatusInv
<1>6. PassesInv'
  <2>1. CASE Done(p)
    BY <2>1, <1>1, <1>3, DoneKeeps
  <2>2. CASE published' = published \union {pub} /\ Goto(p, w)
    <3>1. w.at = "update" /\ w.version = pass[p].version /\ w.artifact = pass[p].artifact
          /\ w.drift = pass[p].drift /\ pass[p].at = "publish"
      BY DEF PublishPolicyEvidence
    <3>2. \E q \in published' : q.artifact = w.artifact /\ q.drift = w.drift
      BY <2>2, <3>1
    <3>3. PassOK(w, artifacts', Requests', observations', published')
      BY <1>4, <3>1, <3>2 DEF PassOK
    <3> QED BY <2>2, <3>3, <1>1, <1>3, PassMoves
  <2> QED BY <1>2, <2>1, <2>2
<1> QED BY <1>3, <1>5, <1>6 DEF EvidenceInv

LEMMA UpdateStatusKeeps ==
  ASSUME EvidenceInv, NEW p \in Producers, UpdateStatus(p)
  PROVE  EvidenceInv'
<1>1. UNCHANGED <<scenario, ledger, observations, artifacts, published, policy>> /\ Done(p)
  BY DEF UpdateStatus
<1>2. RowsInv' /\ ArtifactsInv'
      /\ Grows(artifacts, artifacts', Requests, observations, observations',
               published, published')
  BY <1>1, StoreStays
<1>3. /\ StatusOK(status, artifacts', Requests', observations', published')
      /\ PassOK(pass[p], artifacts', Requests', observations', published')
  BY <1>1, <1>2, StoreCarries
<1>4. pass[p].at = "update"
      /\ \/ status' = status
         \/ /\ status'.artifact = pass[p].artifact /\ status'.drift = pass[p].drift
            /\ status'.source = "postgresql-v8"
  BY DEF UpdateStatus
<1>5. StatusInv'
  <2>1. CASE status' = status
    BY <2>1, <1>3 DEF StatusInv
  <2>2. CASE /\ status'.artifact = pass[p].artifact /\ status'.drift = pass[p].drift
    <3>1. StatusOK(status', artifacts', Requests', observations', published')
      BY <2>2, <1>3, <1>4 DEF StatusOK, PassOK
    <3> QED BY <3>1 DEF StatusInv
  <2> QED BY <1>4, <2>1, <2>2
<1>6. PolicyInv'
  BY <1>1 DEF EvidenceInv, PolicyInv
<1>7. PassesInv'
  BY <1>1, <1>2, DoneKeeps
<1> QED BY <1>2, <1>5, <1>6, <1>7 DEF EvidenceInv

\* The controller keeps what producers wrote; an administrator pins what is stored.
LEMMA PolicyKeeps ==
  ASSUME EvidenceInv, Reconcile \/ EditPolicy
  PROVE  EvidenceInv'
<1>1. UNCHANGED <<scenario, ledger, observations, artifacts, published, pass>>
  BY DEF Reconcile, EditPolicy
<1>2. RowsInv' /\ ArtifactsInv'
      /\ Grows(artifacts, artifacts', Requests, observations, observations',
               published, published')
  BY <1>1, StoreStays
<1>3. StatusOK(status, artifacts', Requests', observations', published')
  BY <1>1, <1>2, StoreCarries
<1>4. PassesInv'
  BY <1>1, <1>2, PassesStay
<1>5. CASE Reconcile
  <2>1. PolicyInv'
    BY <1>1, <1>5 DEF EvidenceInv, PolicyInv, Reconcile
  <2>2. \/ status'.source = "none"
        \/ /\ status'.source = status.source
           /\ status'.artifact = status.artifact /\ status'.drift = status.drift
    BY <1>5 DEF Reconcile, NoEvidence
  <2>3. StatusOK(status', artifacts', Requests', observations', published')
    BY <1>3, <2>2 DEF StatusOK
  <2> QED BY <1>2, <1>4, <2>1, <2>3 DEF EvidenceInv, StatusInv
<1>6. CASE EditPolicy
  <2>1. PolicyInv'
    BY <1>1, <1>6 DEF PolicyInv, EditPolicy
  <2>2. StatusInv'
    BY <1>3, <1>6 DEF StatusInv, EditPolicy
  <2> QED BY <1>2, <1>4, <2>1, <2>2 DEF EvidenceInv
<1> QED BY <1>5, <1>6

\* The inductive invariant of the evidence: whatever a pass, a status or a policy
\* refers to is stored, immutable and says what its rows show.
THEOREM EvidenceInvariant == Spec => []EvidenceInv
<1>1. Init => EvidenceInv
  BY EvidenceInitially
<1>2. EvidenceInv /\ [Next]_vars => EvidenceInv'
  <2> SUFFICES ASSUME EvidenceInv, [Next]_vars PROVE EvidenceInv'
    OBVIOUS
  <2>1. CASE UNCHANGED vars
    BY <2>1 DEF vars, EvidenceInv, RowsInv, ArtifactsInv, PolicyInv, StatusInv, PassesInv,
                Requests, Frozen, SplitOf
  <2>2. CASE RegisterRead \/ RegisterCommit
    BY <2>2, RegisterKeeps
  <2>3. CASE Reconcile \/ EditPolicy
    BY <2>3, PolicyKeeps
  <2>4. ASSUME NEW r \in Requests, Settle(r) \/ Correct(r) PROVE EvidenceInv'
    BY <2>4, SettleKeeps
  <2>5. ASSUME NEW p \in Producers, Pass(p) PROVE EvidenceInv'
    BY <2>5, StartPassKeeps, MaterializeKeeps, BuildArtifactKeeps, BuildDriftWindowKeeps,
       PublishKeeps, UpdateStatusKeeps DEF Pass
  <2> QED BY <2>1, <2>2, <2>3, <2>4, <2>5 DEF Next
<1> QED BY <1>1, <1>2, PTL DEF Spec

\* Calibration rests on final, preregistered usage, and every stored artifact bounds
\* its own rows conformally for ever, however producers, corrections, late admissions
\* and crashed passes interleave.
THEOREM EvidenceAlwaysSound == Spec => []EvidenceIsSound
<1>1. EvidenceInv => EvidenceIsSound
  <2> SUFFICES ASSUME EvidenceInv PROVE EvidenceIsSound
    OBVIOUS
  <2>1. ObservationWasFinal /\ ObservationIsPreregistered
    BY DEF EvidenceInv, RowsInv, ObservationOK, ObservationWasFinal, ObservationIsPreregistered
  <2>2. ArtifactIsConformal
    <3>1. ASSUME NEW v \in Versions, artifacts[v] # None
          PROVE  /\ artifacts[v].rows \subseteq {r \in Requests : SplitOf(r) = "calibration"}
                 /\ Conformal(artifacts[v], observations)
      BY <3>1 DEF EvidenceInv, ArtifactsInv, ArtifactOK, SplitOf
    <3> QED BY <3>1 DEF ArtifactIsConformal, Conformal, CoveredBy
  <2> QED BY <2>1, <2>2 DEF EvidenceIsSound
<1> QED BY <1>1, EvidenceInvariant, PTL

\* Whenever admission would rely on the status, the current specification was judged
\* on a recorded publication and drift window.
THEOREM AcceptedEvidenceJudged == Spec => []AcceptedIsJudged
<1>1. EvidenceInv => AcceptedIsJudged
  <2> SUFFICES ASSUME EvidenceInv, Accepts PROVE AcceptedIsJudged
    BY DEF AcceptedIsJudged
  <2> DEFINE a == artifacts[policy.version]
             d == status.drift
             covered == CoveredBy(observations, d.rows, a.upper)
  <2>1. /\ status.artifact # None /\ d.artifact = status.artifact
        /\ DriftOK(d, Requests, observations)
        /\ \E pub \in published : pub.artifact = status.artifact /\ pub.drift = d
    BY DEF EvidenceInv, StatusInv, StatusOK, Accepts
  <2>2. a = policy.pinned /\ status.artifact = a
    BY <2>1 DEF EvidenceInv, PolicyInv, Accepts
  <2>3. policy.threshold \in Nat /\ Target \in Nat /\ Scale \in Nat /\ MinimumSupport \in Nat \ {0}
    <3>1. policy.threshold \in Thresholds
      BY DEF EvidenceInv, PolicyInv
    <3>2. Thresholds \subseteq Nat /\ Scale \in Nat /\ Target \in 1 .. Scale
          /\ MinimumSupport \in Nat \ {0}
      BY EvidenceAssumption
    <3>3. \A t \in Thresholds : t \in Nat
      BY <3>2
    <3>4. policy.threshold \in Nat
      BY <3>1, <3>3
    <3>5. Target \in Nat
      BY <3>2
    <3> QED BY <3>2, <3>4, <3>5
  <2>4. IsFiniteSet(d.rows)
    <3>1. d.rows \subseteq Requests
      BY <2>1 DEF DriftOK
    <3> QED BY <3>1, RequestsTyped, FS_Subset DEF EvidenceInv, RowsInv
  <2>5. covered \in Nat
    <3>1. IsFiniteSet({r \in d.rows : observations[r].tokens <= a.upper})
      BY <2>4, FS_Subset
    <3> QED BY <3>1, FS_CardinalityType DEF CoveredBy
  <2>6. Cardinality(d.rows) \in Nat \ {0}
    BY <2>3, <2>4, FS_CardinalityType DEF Accepts
  <2>7. ~(Target - (covered * Scale) \div Cardinality(d.rows) > policy.threshold)
    BY <2>1, <2>2 DEF DriftOK, Accepts
  <2>8. Target - (covered * Scale) \div Cardinality(d.rows) <= policy.threshold
    <3> HIDE DEF covered, d
    <3>1. (covered * Scale) \div Cardinality(d.rows) \in Int
      BY <2>3, <2>5, <2>6
    <3> QED BY <3>1, <2>3, <2>7
  <2> QED BY <2>1, <2>2, <2>8 DEF AcceptedIsJudged, CoveredBy
<1> QED BY <1>1, EvidenceInvariant, PTL

-----------------------------------------------------------------------------
(* Published results.                                                        *)

Steps == {"preflight", "create", "write", "sync", "verify"} \cup Ended

\* Part m of what plan q publishes is on the disk, whole, and no power loss takes
\* its bytes or, in edition 2, its name.
Kept(q, m, dsk) ==
    LET n == Name(q, Parts(q.edition)[m])
    IN  /\ n \in DOMAIN dsk /\ dsk[n].body = <<q>> /\ dsk[n].synced
        /\ q.edition = 2 => dsk[n].named

\* How far an attempt a to publish q has come, on a disk that lost power or not.
AttemptOK(q, a, dsk, lost) ==
    LET n == Name(q, Parts(q.edition)[a.part])
        last == Len(Parts(q.edition))
    IN  /\ a.step \in Steps /\ a.part \in 1 .. last
        /\ a.step \in {"create", "write", "sync"} => \A m \in 1 .. a.part - 1 : Kept(q, m, dsk)
        /\ a.step = "write" => n \in DOMAIN dsk /\ dsk[n].body = <<>>
        /\ a.step = "sync" => n \in DOMAIN dsk /\ dsk[n].body = <<q>>
        /\ a.step = "verify" => \A m \in 1 .. a.part : Kept(q, m, dsk)
        /\ a.step = "done" =>
             /\ a.part = last
             /\ q.edition = 2 \/ ~lost => \A m \in 1 .. last : Kept(q, m, dsk)

\* The attempt created the file it is at, and nobody else can.
Holds(q, a) ==
    a.step \in {"write", "sync", "verify"} \/ (a.step = "done" /\ q.edition = 2)

DiskOK(dsk) ==
    /\ dsk = [n \in DOMAIN dsk |-> dsk[n]]
    /\ \A n \in DOMAIN dsk :
         dsk[n] \in [body : {<<>>} \cup {<<q>> : q \in Plans}, synced : BOOLEAN, named : BOOLEAN]

\* Behind a whole terminal file of q are all the files before it.
MarkersOK(dsk, lost) ==
    \A q \in Plans :
        LET last == Len(Parts(q.edition))
            n == Name(q, Parts(q.edition)[last])
        IN (n \in DOMAIN dsk /\ dsk[n].body = <<q>> /\ (q.edition = 2 \/ ~lost))
           => \A m \in 1 .. last - 1 : Kept(q, m, dsk)

PublicationInv ==
    /\ plan \in [Publishers -> Plans]
    /\ at = [p \in Publishers |-> at[p]]
    /\ losses \in Nat
    /\ DiskOK(disk)
    /\ \A p \in Publishers : AttemptOK(plan[p], at[p], disk, losses > 0)
    /\ \A p, r \in Publishers :
         p # r /\ Holds(plan[p], at[p]) /\ Holds(plan[r], at[r]) => Current(p) # Current(r)
    /\ MarkersOK(disk, losses > 0)

-----------------------------------------------------------------------------
\* The files of each edition, and that they have different names.
LEMMA PartsAre ==
  /\ Parts(1) = <<"inputs", "results", "manifest">>
  /\ Parts(2) = <<"inputs", "results", "manifest", "COMPLETED">>
BY DEF Parts

LEMMA NamesDiffer ==
  ASSUME NEW q, q.edition \in {1, 2}
  PROVE  /\ Len(Parts(q.edition)) = q.edition + 2
         /\ \A m, k \in 1 .. q.edition + 2 :
              Name(q, Parts(q.edition)[m]) = Name(q, Parts(q.edition)[k]) => m = k
<1>1. CASE q.edition = 1
  <2>1. Parts(q.edition) = <<"inputs", "results", "manifest">>
    BY <1>1, PartsAre
  <2>2. ASSUME NEW m \in 1 .. 3, NEW k \in 1 .. 3,
               Name(q, Parts(q.edition)[m]) = Name(q, Parts(q.edition)[k])
        PROVE  m = k
    BY <2>1, <2>2 DEF Name
  <2> QED BY <1>1, <2>1, <2>2
<1>2. CASE q.edition = 2
  <2>1. Parts(q.edition) = <<"inputs", "results", "manifest", "COMPLETED">>
    BY <1>2, PartsAre
  <2>2. ASSUME NEW m \in 1 .. 4, NEW k \in 1 .. 4,
               Name(q, Parts(q.edition)[m]) = Name(q, Parts(q.edition)[k])
        PROVE  m = k
    BY <2>1, <2>2 DEF Name
  <2> QED BY <1>2, <2>1, <2>2
<1> QED BY <1>1, <1>2


\* The disk changed at no other name than x, and only gained.
Calm(x, dsk, dsk2) ==
    \A n \in DOMAIN dsk :
        /\ n \in DOMAIN dsk2
        /\ n # x => dsk2[n].body = dsk[n].body
        /\ dsk[n].body # <<>> => dsk2[n].body = dsk[n].body
        /\ dsk[n].synced => dsk2[n].synced
        /\ dsk[n].named => dsk2[n].named

LEMMA KeptCalmly ==
  ASSUME NEW x, NEW dsk, NEW dsk2, Calm(x, dsk, dsk2), NEW q, NEW m, Kept(q, m, dsk)
  PROVE  Kept(q, m, dsk2)
<1>1. <<q>> # <<>>
  OBVIOUS
<1> QED BY <1>1 DEF Kept, Calm

\* An attempt elsewhere than at x is where it was.
LEMMA AttemptCalmly ==
  ASSUME NEW x, NEW dsk, NEW dsk2, Calm(x, dsk, dsk2), NEW q, NEW a, NEW lost \in BOOLEAN,
         AttemptOK(q, a, dsk, lost),
         Holds(q, a) => Name(q, Parts(q.edition)[a.part]) # x
  PROVE  AttemptOK(q, a, dsk2, lost)
<1>1. \A m : Kept(q, m, dsk) => Kept(q, m, dsk2)
  BY KeptCalmly
<1>2. <<q>> # <<>>
  OBVIOUS
<1> QED BY <1>1, <1>2 DEF AttemptOK, Calm, Holds

\* No file turned into a terminal file: the markers stay true.
LEMMA MarkersCalmly ==
  ASSUME NEW x, NEW dsk, NEW dsk2, Calm(x, dsk, dsk2), NEW lost \in BOOLEAN,
         MarkersOK(dsk, lost),
         \A n \in DOMAIN dsk2 : \/ n \in DOMAIN dsk /\ dsk2[n].body = dsk[n].body
                                \/ dsk2[n].body = <<>>
  PROVE  MarkersOK(dsk2, lost)
<1>1. ASSUME NEW q \in Plans,
             Name(q, Parts(q.edition)[Len(Parts(q.edition))]) \in DOMAIN dsk2,
             dsk2[Name(q, Parts(q.edition)[Len(Parts(q.edition))])].body = <<q>>,
             q.edition = 2 \/ ~lost
      PROVE  \A m \in 1 .. Len(Parts(q.edition)) - 1 : Kept(q, m, dsk2)
  <2> DEFINE n == Name(q, Parts(q.edition)[Len(Parts(q.edition))])
  <2>1. <<q>> # <<>>
    OBVIOUS
  <2>2. n \in DOMAIN dsk /\ dsk[n].body = <<q>>
    BY <1>1, <2>1
  <2>3. \A m \in 1 .. Len(Parts(q.edition)) - 1 : Kept(q, m, dsk)
    BY <1>1, <2>2 DEF MarkersOK
  <2> QED BY <2>3, KeptCalmly
<1> QED BY <1>1 DEF MarkersOK

\* The file an attempt holds is there.
LEMMA HeldIsThere ==
  ASSUME NEW q \in Plans, NEW a, NEW dsk, NEW lost \in BOOLEAN,
         AttemptOK(q, a, dsk, lost), Holds(q, a)
  PROVE  Name(q, Parts(q.edition)[a.part]) \in DOMAIN dsk
<1>1. q.edition \in {1, 2} /\ Len(Parts(q.edition)) = q.edition + 2
  BY PlansAssumption, NamesDiffer
<1> QED BY <1>1 DEF AttemptOK, Holds, Kept

LEMMA PublicationInitially == ArtifactsInit => PublicationInv
<1> SUFFICES ASSUME ArtifactsInit PROVE PublicationInv
  OBVIOUS
<1>1. \A p \in Publishers : plan[p].edition \in {1, 2}
  BY PlansAssumption DEF ArtifactsInit
<1>2. \A p \in Publishers : AttemptOK(plan[p], at[p], disk, losses > 0)
  <2>1. ASSUME NEW p \in Publishers PROVE AttemptOK(plan[p], at[p], disk, losses > 0)
    <3>1. at[p].step = "preflight" /\ at[p].part = 1
      BY DEF ArtifactsInit
    <3>2. Len(Parts(plan[p].edition)) = plan[p].edition + 2
      BY <1>1, NamesDiffer
    <3>3. 1 \in 1 .. Len(Parts(plan[p].edition))
      BY <3>2, <1>1
    <3> QED BY <3>1, <3>3 DEF AttemptOK, Steps
  <2> QED BY <2>1
<1>3. \A p \in Publishers : ~Holds(plan[p], at[p])
  BY DEF ArtifactsInit, Holds
<1> QED BY <1>2, <1>3 DEF ArtifactsInit, PublicationInv, DiskOK, MarkersOK

\* One attempt moves to a; the disk changes, if at all, calmly.
LEMMA AttemptMoves ==
  ASSUME PublicationInv, NEW p \in Publishers, NEW a, at' = [at EXCEPT ![p] = a],
         UNCHANGED <<plan, losses>>, NEW x, Calm(x, disk, disk'), DiskOK(disk'),
         MarkersOK(disk', losses > 0),
         AttemptOK(plan[p], a, disk', losses > 0),
         \A r \in Publishers : r # p /\ Holds(plan[r], at[r]) => Current(r) # x,
         Holds(plan[p], a) =>
            \A r \in Publishers : r # p /\ Holds(plan[r], at[r]) =>
                Current(r) # Name(plan[p], Parts(plan[p].edition)[a.part])
  PROVE  PublicationInv'
<1>1. at = [r \in Publishers |-> at[r]]
  BY DEF PublicationInv
<1>2. at' = [r \in Publishers |-> at'[r]] /\ at'[p] = a
      /\ \A r \in Publishers : r # p => at'[r] = at[r]
  BY <1>1
<1>3. (losses > 0) \in BOOLEAN
  OBVIOUS
<1>4. ASSUME NEW r \in Publishers PROVE AttemptOK(plan[r], at'[r], disk', losses > 0)
  <2>1. CASE r = p
    BY <2>1, <1>2
  <2>2. CASE r # p
    <3>1. AttemptOK(plan[r], at[r], disk, losses > 0)
      BY DEF PublicationInv
    <3>2. Holds(plan[r], at[r]) => Name(plan[r], Parts(plan[r].edition)[at[r].part]) # x
      BY <2>2 DEF Current
    <3>3. AttemptOK(plan[r], at[r], disk', losses > 0)
      <4>1. Calm(x, disk, disk')
        OBVIOUS
      <4> DEFINE q == plan[r]
                 z == at[r]
                 lost == losses > 0
      <4>2. AttemptOK(q, z, disk, lost) /\ (Holds(q, z) => Name(q, Parts(q.edition)[z.part]) # x) /\ lost \in BOOLEAN
        BY <1>3, <3>1, <3>2
      <4> HIDE DEF q, z, lost
      <4>3. AttemptOK(q, z, disk', lost)
        BY <4>1, <4>2, AttemptCalmly
      <4> QED BY <4>3 DEF q, z, lost
    <3> QED BY <3>3, <2>2, <1>2
  <2> QED BY <2>1, <2>2
<1>5. ASSUME NEW r \in Publishers, NEW s \in Publishers, r # s,
             Holds(plan[r], at'[r]), Holds(plan[s], at'[s])
      PROVE  Name(plan[r], Parts(plan[r].edition)[at'[r].part])
               # Name(plan[s], Parts(plan[s].edition)[at'[s].part])
  <2>1. CASE r # p /\ s # p
    BY <2>1, <1>2, <1>5 DEF PublicationInv, Current
  <2>2. CASE r = p
    BY <2>2, <1>2, <1>5 DEF Current
  <2>3. CASE s = p
    BY <2>3, <1>2, <1>5 DEF Current
  <2> QED BY <2>1, <2>2, <2>3
<1> QED BY <1>2, <1>4, <1>5 DEF PublicationInv, Current


\* A plan is of one of the editions, whose parts have names of their own.
LEMMA PlanParts ==
  ASSUME PublicationInv, NEW p \in Publishers
  PROVE  /\ plan[p] \in Plans /\ plan[p].edition \in {1, 2}
         /\ Len(Parts(plan[p].edition)) = plan[p].edition + 2
         /\ AttemptOK(plan[p], at[p], disk, losses > 0)
         /\ at[p].part \in 1 .. plan[p].edition + 2
         /\ \A m, k \in 1 .. plan[p].edition + 2 :
              Name(plan[p], Parts(plan[p].edition)[m]) = Name(plan[p], Parts(plan[p].edition)[k])
              => m = k
<1>1. plan[p] \in Plans /\ plan[p].edition \in {1, 2}
  BY PlansAssumption DEF PublicationInv
<1>2. AttemptOK(plan[p], at[p], disk, losses > 0)
  BY DEF PublicationInv
<1>3. Len(Parts(plan[p].edition)) = plan[p].edition + 2
  BY <1>1, NamesDiffer
<1>4. at[p].part \in 1 .. plan[p].edition + 2
  BY <1>2, <1>3 DEF AttemptOK
<1> QED BY <1>1, <1>2, <1>3, <1>4, NamesDiffer

\* A file's name is a pair.
LEMMA CurrentIsName ==
  ASSUME NEW p \in Publishers PROVE Current(p) # <<>>
BY DEF Current, Name

\* Steps that leave the disk alone.
LEMMA DiskStays ==
  ASSUME PublicationInv
  PROVE  /\ \A x : Calm(x, disk, disk)
         /\ DiskOK(disk) /\ MarkersOK(disk, losses > 0)
BY DEF PublicationInv, Calm

LEMMA PreflightKeeps ==
  ASSUME PublicationInv, NEW p \in Publishers, Preflight(p) \/ Restart(p) \/ Crash(p)
  PROVE  PublicationInv'
<1>1. UNCHANGED <<plan, disk, losses>>
  BY DEF Preflight, Restart, Crash
<1>2. PICK a : /\ at' = [at EXCEPT ![p] = a] /\ a.part \in {1, at[p].part}
               /\ \/ a.step \in {"refused", "preflight", "dead"}
                  \/ a.step = "create" /\ a.part = 1
  <2>1. CASE Preflight(p)
    <3>1. Go(p, "create", 1) \/ Go(p, "refused", 1)
      BY <2>1 DEF Preflight
    <3>2. PICK s \in {"create", "refused"} : at' = [at EXCEPT ![p] = [step |-> s, part |-> 1]]
      BY <3>1 DEF Go
    <3> WITNESS [step |-> s, part |-> 1]
    <3> QED BY <3>2
  <2>2. CASE Restart(p)
    <3>1. at' = [at EXCEPT ![p] = [step |-> "preflight", part |-> 1]]
      BY <2>2 DEF Restart, Go
    <3> WITNESS [step |-> "preflight", part |-> 1]
    <3> QED BY <3>1
  <2>3. CASE Crash(p)
    <3>1. at' = [at EXCEPT ![p] = [step |-> "dead", part |-> at[p].part]]
      BY <2>3 DEF Crash, Go
    <3> WITNESS [step |-> "dead", part |-> at[p].part]
    <3> QED BY <3>1
  <2> QED BY <2>1, <2>2, <2>3
<1>3. AttemptOK(plan[p], a, disk, losses > 0)
  <2>1. a.part \in 1 .. Len(Parts(plan[p].edition)) /\ a.step \in Steps
    BY <1>2, PlanParts DEF Steps, Ended
  <2>2. a.step = "create" => 1 .. a.part - 1 = {}
    BY <1>2
  <2> QED BY <1>2, <2>1, <2>2 DEF AttemptOK
<1>4. ~Holds(plan[p], a)
  BY <1>2 DEF Holds
<1>5. \A r \in Publishers : Current(r) # <<>>
  BY CurrentIsName
<1> QED BY <1>1, <1>2, <1>3, <1>4, <1>5, DiskStays, AttemptMoves


\* The exclusive creation makes the file the creator's.
LEMMA CreateKeeps ==
  ASSUME PublicationInv, NEW p \in Publishers, Create(p)
  PROVE  PublicationInv'
<1> DEFINE n == Current(p)
           empty == [body |-> <<>>, synced |-> FALSE, named |-> FALSE]
           a == [step |-> "write", part |-> at[p].part]
           b == [step |-> "failed", part |-> at[p].part]
<1>1. UNCHANGED <<plan, losses>> /\ at[p].step = "create"
  BY DEF Create
<1>2. \A m \in 1 .. at[p].part - 1 : Kept(plan[p], m, disk)
  BY <1>1, PlanParts DEF AttemptOK
<1>3. CASE n \in DOMAIN disk
  <2>1. at' = [at EXCEPT ![p] = b] /\ disk' = disk
    BY <1>3 DEF Create, Go
  <2>2. AttemptOK(plan[p], b, disk, losses > 0)
    BY PlanParts DEF AttemptOK, Steps, Ended
  <2>3. ~Holds(plan[p], b)
    BY DEF Holds
  <2> QED BY <1>1, <2>1, <2>2, <2>3, CurrentIsName, DiskStays, AttemptMoves
<1>4. CASE n \notin DOMAIN disk
  <2>1. at' = [at EXCEPT ![p] = a]
        /\ disk' = [k \in DOMAIN disk \cup {n} |-> IF k = n THEN empty ELSE disk[k]]
    BY <1>4 DEF Create, Go
  <2>2. DOMAIN disk' = DOMAIN disk \cup {n} /\ disk'[n] = empty
        /\ \A k \in DOMAIN disk : disk'[k] = disk[k]
    BY <2>1, <1>4
  <2>3. Calm(n, disk, disk')
    BY <2>2 DEF Calm
  <2>4. DiskOK(disk')
    <3>1. disk' = [k \in DOMAIN disk' |-> disk'[k]]
      BY <2>1
    <3>2. ASSUME NEW k \in DOMAIN disk'
          PROVE  disk'[k] \in [body : {<<>>} \cup {<<q>> : q \in Plans},
                               synced : BOOLEAN, named : BOOLEAN]
      <4>1. CASE k = n
        BY <4>1, <2>2
      <4>2. CASE k # n
        <5>1. k \in DOMAIN disk /\ disk'[k] = disk[k]
          BY <4>2, <2>2
        <5> QED BY <5>1 DEF PublicationInv, DiskOK
      <4> QED BY <4>1, <4>2
    <3> QED BY <3>1, <3>2 DEF DiskOK
  <2>5. MarkersOK(disk', losses > 0)
    <3>1. \A k \in DOMAIN disk' : \/ k \in DOMAIN disk /\ disk'[k].body = disk[k].body
                                  \/ disk'[k].body = <<>>
      BY <2>2
    <3>2. MarkersOK(disk, losses > 0) /\ (losses > 0) \in BOOLEAN
      BY DiskStays
    <3> QED BY <2>3, <3>1, <3>2, MarkersCalmly
  <2>6. AttemptOK(plan[p], a, disk', losses > 0)
    <3>1. \A m \in 1 .. at[p].part - 1 : Kept(plan[p], m, disk')
      BY <1>2, <2>3, KeptCalmly
    <3>2. n = Name(plan[p], Parts(plan[p].edition)[at[p].part])
      BY DEF Current
    <3>3. n \in DOMAIN disk' /\ disk'[n].body = <<>>
      BY <2>2
    <3>4. a.step = "write" /\ a.part = at[p].part /\ at[p].part \in 1 .. Len(Parts(plan[p].edition))
      BY PlanParts
    <3> HIDE DEF a, n
    <3> QED BY <3>1, <3>2, <3>3, <3>4 DEF AttemptOK, Steps
  <2>7. \A r \in Publishers : r # p /\ Holds(plan[r], at[r]) => Current(r) # n
    <3>1. ASSUME NEW r \in Publishers, Holds(plan[r], at[r]) PROVE Current(r) \in DOMAIN disk
      <4>1. plan[r] \in Plans /\ AttemptOK(plan[r], at[r], disk, losses > 0)
            /\ (losses > 0) \in BOOLEAN
        BY PlanParts
      <4> QED BY <3>1, <4>1, HeldIsThere DEF Current
    <3> QED BY <3>1, <1>4
  <2>8. n = Name(plan[p], Parts(plan[p].edition)[a.part])
    BY DEF Current
  <2> HIDE DEF a, n
  <2>9. /\ UNCHANGED <<plan, losses>> /\ at' = [at EXCEPT ![p] = a]
    BY <1>1, <2>1
  <2> QED BY <2>3, <2>4, <2>5, <2>6, <2>7, <2>8, <2>9, AttemptMoves, ZenonT(60)
<1> QED BY <1>3, <1>4

\* Whoever holds the file it is at, holds it alone.
LEMMA HeldAlone ==
  ASSUME PublicationInv, NEW p \in Publishers, Holds(plan[p], at[p])
  PROVE  \A r \in Publishers : r # p /\ Holds(plan[r], at[r]) => Current(r) # Current(p)
BY DEF PublicationInv

\* The write makes a terminal file only behind files that are kept.
LEMMA WriteKeeps ==
  ASSUME PublicationInv, NEW p \in Publishers, Write(p)
  PROVE  PublicationInv'
<1> DEFINE n == Current(p)
           a == [step |-> "sync", part |-> at[p].part]
<1>1. /\ UNCHANGED <<plan, losses>> /\ at[p].step = "write"
      /\ at' = [at EXCEPT ![p] = a] /\ disk' = [disk EXCEPT ![n].body = <<plan[p]>>]
  BY DEF Write, Go
<1>2. n = Name(plan[p], Parts(plan[p].edition)[at[p].part])
  BY DEF Current
<1>3. /\ \A m \in 1 .. at[p].part - 1 : Kept(plan[p], m, disk)
      /\ n \in DOMAIN disk /\ disk[n].body = <<>>
  BY <1>1, <1>2, PlanParts DEF AttemptOK
<1>4. DiskOK(disk)
  BY DEF PublicationInv
<1>5. /\ DOMAIN disk' = DOMAIN disk /\ disk' = [k \in DOMAIN disk |-> disk'[k]]
      /\ \A k \in DOMAIN disk : k # n => disk'[k] = disk[k]
      /\ disk'[n] = [disk[n] EXCEPT !.body = <<plan[p]>>]
  BY <1>1, <1>3, <1>4 DEF DiskOK
<1>6. /\ disk'[n].body = <<plan[p]>>
      /\ disk'[n].synced = disk[n].synced /\ disk'[n].named = disk[n].named
  BY <1>3, <1>4, <1>5 DEF DiskOK
<1>7. Calm(n, disk, disk')
  BY <1>3, <1>5, <1>6 DEF Calm
<1>8. DiskOK(disk')
  <2>1. plan[p] \in Plans
    BY PlanParts
  <2>2. disk'[n] \in [body : {<<>>} \cup {<<q>> : q \in Plans},
                      synced : BOOLEAN, named : BOOLEAN]
    BY <2>1, <1>3, <1>4, <1>5 DEF DiskOK
  <2> HIDE DEF n
  <2>3. ASSUME NEW k \in DOMAIN disk'
        PROVE  disk'[k] \in [body : {<<>>} \cup {<<q>> : q \in Plans},
                             synced : BOOLEAN, named : BOOLEAN]
    BY <2>2, <1>4, <1>5 DEF DiskOK
  <2> QED BY <2>3, <1>5 DEF DiskOK
<1>9. \A m \in 1 .. at[p].part - 1 : Kept(plan[p], m, disk')
  BY <1>3, <1>7, KeptCalmly
<1>10. MarkersOK(disk', losses > 0)
  <2>1. ASSUME NEW q \in Plans,
               Name(q, Parts(q.edition)[Len(Parts(q.edition))]) \in DOMAIN disk',
               disk'[Name(q, Parts(q.edition)[Len(Parts(q.edition))])].body = <<q>>,
               q.edition = 2 \/ ~(losses > 0)
        PROVE  \A m \in 1 .. Len(Parts(q.edition)) - 1 : Kept(q, m, disk')
    <3> DEFINE k == Name(q, Parts(q.edition)[Len(Parts(q.edition))])
    <3>1. CASE k = n
      <4>1. q = plan[p]
        <5>1. <<q>> = <<plan[p]>>
          BY <2>1, <3>1, <1>6
        <5> QED BY <5>1
      <4>2. Len(Parts(q.edition)) = at[p].part
        BY <3>1, <4>1, <1>2, PlanParts
      <4> QED BY <4>1, <4>2, <1>9
    <3>2. CASE k # n
      <4>1. k \in DOMAIN disk /\ disk[k].body = <<q>>
        BY <2>1, <3>2, <1>5
      <4>2. \A m \in 1 .. Len(Parts(q.edition)) - 1 : Kept(q, m, disk)
        BY <2>1, <4>1, DiskStays DEF MarkersOK
      <4> QED BY <4>2, <1>7, KeptCalmly
    <3> QED BY <3>1, <3>2
  <2> QED BY <2>1 DEF MarkersOK
<1>11. AttemptOK(plan[p], a, disk', losses > 0)
  BY <1>2, <1>3, <1>5, <1>6, <1>9, PlanParts DEF AttemptOK, Steps
<1>12. \A r \in Publishers : r # p /\ Holds(plan[r], at[r]) => Current(r) # n
  BY <1>1, HeldAlone DEF Holds
<1>13. n = Name(plan[p], Parts(plan[p].edition)[a.part])
  BY <1>2
<1> HIDE DEF a, n
<1> QED BY <1>1, <1>7, <1>8, <1>10, <1>11, <1>12, <1>13, AttemptMoves, ZenonT(60)


\* After the sync the file at hand is kept, and the attempt goes on behind it.
LEMMA SyncKeeps ==
  ASSUME PublicationInv, NEW p \in Publishers, Sync(p)
  PROVE  PublicationInv'
<1> DEFINE n == Current(p)
           q == plan[p]
           part == at[p].part
           next == AfterPart(q, part)
           a == [step |-> next, part |-> IF next = "create" THEN part + 1 ELSE part]
<1>1. /\ UNCHANGED <<plan, losses>> /\ at[p].step = "sync" /\ at' = [at EXCEPT ![p] = a]
      /\ disk' = [k \in DOMAIN disk |->
                    [disk[k] EXCEPT !.synced = @ \/ k = n, !.named = @ \/ q.edition = 2]]
  BY DEF Sync, Advance, Go
<1>2. n = Name(q, Parts(q.edition)[part])
  BY DEF Current
<1>3. /\ \A m \in 1 .. part - 1 : Kept(q, m, disk)
      /\ n \in DOMAIN disk /\ disk[n].body = <<q>>
  BY <1>1, <1>2, PlanParts DEF AttemptOK
<1>4. /\ q.edition \in {1, 2} /\ part \in 1 .. q.edition + 2
      /\ Len(Parts(q.edition)) = q.edition + 2
  BY PlanParts
<1>5. ASSUME NEW k \in DOMAIN disk
      PROVE  /\ k \in DOMAIN disk' /\ disk'[k].body = disk[k].body
             /\ disk'[k].synced = (disk[k].synced \/ k = n)
             /\ disk'[k].named = (disk[k].named \/ q.edition = 2)
             /\ disk'[k] \in [body : {<<>>} \cup {<<r>> : r \in Plans},
                              synced : BOOLEAN, named : BOOLEAN]
  <2> HIDE DEF n, q
  <2>1. disk[k] \in [body : {<<>>} \cup {<<r>> : r \in Plans}, synced : BOOLEAN, named : BOOLEAN]
    BY DEF PublicationInv, DiskOK
  <2> QED BY <2>1, <1>1
<1>6. DOMAIN disk' = DOMAIN disk /\ disk' = [k \in DOMAIN disk' |-> disk'[k]]
  BY <1>1
<1>7. Calm(n, disk, disk')
  BY <1>5 DEF Calm
<1>8. DiskOK(disk')
  BY <1>5, <1>6 DEF DiskOK
<1>9. MarkersOK(disk', losses > 0)
  <2>1. \A k \in DOMAIN disk' : \/ k \in DOMAIN disk /\ disk'[k].body = disk[k].body
                                \/ disk'[k].body = <<>>
    BY <1>5, <1>6
  <2>2. MarkersOK(disk, losses > 0) /\ (losses > 0) \in BOOLEAN
    BY DiskStays
  <2> QED BY <1>7, <2>1, <2>2, MarkersCalmly
<1>10. \A m \in 1 .. part : Kept(q, m, disk')
  <2>1. Kept(q, part, disk')
    BY <1>2, <1>3, <1>5 DEF Kept
  <2>2. \A m \in 1 .. part - 1 : Kept(q, m, disk')
    BY <1>3, <1>7, KeptCalmly
  <2> QED BY <2>1, <2>2, <1>4
<1> HIDE DEF n, q, part
<1>11. \/ next = "verify" /\ a.part = part
       \/ next = "create" /\ a.part = part + 1 /\ part + 1 \in 1 .. q.edition + 2
       \/ next = "done" /\ a.part = part /\ part = q.edition + 2
  BY <1>4 DEF AfterPart
<1>12. a.step = next
  OBVIOUS
<1> HIDE DEF a, next
<1>13. AttemptOK(q, a, disk', losses > 0)
  <2>1. a.part \in 1 .. Len(Parts(q.edition)) /\ a.step \in Steps
    BY <1>4, <1>11, <1>12 DEF Steps, Ended
  <2>2. a.step = "create" => \A m \in 1 .. a.part - 1 : Kept(q, m, disk')
    BY <1>4, <1>10, <1>11, <1>12
  <2>3. a.step = "verify" => \A m \in 1 .. a.part : Kept(q, m, disk')
    BY <1>10, <1>11, <1>12
  <2>4. a.step = "done" => a.part = Len(Parts(q.edition))
                           /\ \A m \in 1 .. Len(Parts(q.edition)) : Kept(q, m, disk')
    BY <1>4, <1>10, <1>11, <1>12
  <2>5. a.step \notin {"write", "sync"}
    BY <1>11, <1>12
  <2> QED BY <2>1, <2>2, <2>3, <2>4, <2>5 DEF AttemptOK
<1>14. \A r \in Publishers : r # p /\ Holds(plan[r], at[r]) => Current(r) # n
  BY <1>1, HeldAlone DEF Holds, n
<1>15. Holds(q, a) => n = Name(q, Parts(q.edition)[a.part])
  BY <1>2, <1>11, <1>12 DEF Holds
<1>16. Holds(q, a) =>
         \A r \in Publishers : r # p /\ Holds(plan[r], at[r]) =>
             Current(r) # Name(q, Parts(q.edition)[a.part])
  BY <1>14, <1>15
<1>17. at' = [at EXCEPT ![p] = a] /\ UNCHANGED <<plan, losses>>
  BY <1>1 DEF a, next
<1> QED BY <1>17, <1>7, <1>8, <1>9, <1>13, <1>14, <1>16, AttemptMoves DEF q

LEMMA SelfVerifyKeeps ==
  ASSUME PublicationInv, NEW p \in Publishers, SelfVerify(p)
  PROVE  PublicationInv'
<1> DEFINE q == plan[p]
           part == at[p].part
<1>1. UNCHANGED <<plan, disk, losses>> /\ at[p].step = "verify"
  BY DEF SelfVerify
<1>2. \A m \in 1 .. part : Kept(q, m, disk)
  BY <1>1, PlanParts DEF AttemptOK
<1>3. q.edition \in {1, 2} /\ part \in 1 .. q.edition + 2 /\ Len(Parts(q.edition)) = q.edition + 2
  BY PlanParts
<1>4. PICK a : /\ at' = [at EXCEPT ![p] = a]
               /\ \/ a.step = "failed" /\ a.part = part
                  \/ a.step = "done" /\ a.part = part /\ part = Len(Parts(q.edition))
                  \/ a.step = "create" /\ a.part = part + 1 /\ part # Len(Parts(q.edition))
  <2>1. \/ Go(p, "failed", part)
        \/ Go(p, "done", part) /\ part = Len(Parts(q.edition))
        \/ Go(p, "create", part + 1) /\ part # Len(Parts(q.edition))
    BY DEF SelfVerify
  <2>2. PICK s, k : /\ at' = [at EXCEPT ![p] = [step |-> s, part |-> k]]
                    /\ \/ s = "failed" /\ k = part
                       \/ s = "done" /\ k = part /\ part = Len(Parts(q.edition))
                       \/ s = "create" /\ k = part + 1 /\ part # Len(Parts(q.edition))
    BY <2>1 DEF Go
  <2> HIDE DEF part, q
  <2> WITNESS [step |-> s, part |-> k]
  <2> QED BY <2>2
<1> HIDE DEF part, q
<1>5. AttemptOK(q, a, disk, losses > 0)
  <2>1. a.part \in 1 .. Len(Parts(q.edition)) /\ a.step \in Steps
    BY <1>3, <1>4 DEF Steps, Ended
  <2>2. a.step = "create" => \A m \in 1 .. a.part - 1 : Kept(q, m, disk)
    BY <1>2, <1>3, <1>4
  <2>3. a.step = "done" => a.part = Len(Parts(q.edition))
                           /\ \A m \in 1 .. Len(Parts(q.edition)) : Kept(q, m, disk)
    BY <1>2, <1>4
  <2>4. a.step \notin {"write", "sync", "verify"}
    BY <1>4
  <2> QED BY <2>1, <2>2, <2>3, <2>4 DEF AttemptOK
<1>6. \A r \in Publishers : r # p /\ Holds(plan[r], at[r]) => Current(r) # Current(p)
  BY <1>1, HeldAlone DEF Holds
<1>7. Holds(q, a) => Current(p) = Name(q, Parts(q.edition)[a.part])
  BY <1>4 DEF Holds, Current, q, part
<1>8. Holds(q, a) =>
        \A r \in Publishers : r # p /\ Holds(plan[r], at[r]) =>
            Current(r) # Name(q, Parts(q.edition)[a.part])
  BY <1>6, <1>7
<1>9. /\ Calm(Current(p), disk, disk') /\ DiskOK(disk') /\ MarkersOK(disk', losses > 0)
      /\ AttemptOK(q, a, disk', losses > 0)
  BY <1>1, <1>5, DiskStays
<1> QED BY <1>1, <1>4, <1>6, <1>8, <1>9, AttemptMoves DEF q


\* A power loss takes no byte that was synced and no name that was; what edition 2
\* has kept is kept, and no attempt goes on.
LEMMA PowerLossKeeps ==
  ASSUME PublicationInv, PowerLoss
  PROVE  PublicationInv'
<1>1. /\ plan' = plan /\ losses' = losses + 1
      /\ at' = [p \in Publishers |-> IF at[p].step \in Ended THEN at[p]
                                     ELSE [step |-> "dead", part |-> 1]]
  BY DEF PowerLoss
<1>2. PICK gone \in SUBSET {n \in DOMAIN disk : ~disk[n].named},
           torn \in SUBSET {n \in DOMAIN disk : ~disk[n].synced} :
        disk' = [n \in DOMAIN disk \ gone |->
                  [body |-> IF n \in torn THEN <<>> ELSE disk[n].body,
                   synced |-> TRUE, named |-> TRUE]]
  BY DEF PowerLoss
<1>3. losses' \in Nat /\ losses' > 0
  BY <1>1 DEF PublicationInv
<1>4. ASSUME NEW n \in DOMAIN disk'
      PROVE  /\ n \in DOMAIN disk /\ disk'[n].synced /\ disk'[n].named
             /\ disk'[n].body = <<>> \/ disk'[n].body = disk[n].body
             /\ disk'[n] \in [body : {<<>>} \cup {<<q>> : q \in Plans},
                              synced : BOOLEAN, named : BOOLEAN]
  <2>1. n \in DOMAIN disk /\ disk[n].body \in {<<>>} \cup {<<q>> : q \in Plans}
    BY <1>2, <1>4 DEF PublicationInv, DiskOK
  <2>2. disk'[n] = [body |-> IF n \in torn THEN <<>> ELSE disk[n].body,
                    synced |-> TRUE, named |-> TRUE]
    BY <1>2, <1>4
  <2> QED BY <2>1, <2>2
<1>5. ASSUME NEW n \in DOMAIN disk, disk[n].named, disk[n].synced
      PROVE  n \in DOMAIN disk' /\ disk'[n].body = disk[n].body
  <2>1. n \notin gone /\ n \notin torn
    BY <1>2, <1>5
  <2> QED BY <2>1, <1>2
<1>6. ASSUME NEW q, q.edition = 2, NEW m, Kept(q, m, disk) PROVE Kept(q, m, disk')
  <2>1. Name(q, Parts(q.edition)[m]) \in DOMAIN disk'
        /\ disk'[Name(q, Parts(q.edition)[m])].body = <<q>>
    BY <1>5, <1>6 DEF Kept
  <2> QED BY <2>1, <1>4 DEF Kept
<1>7. DiskOK(disk')
  BY <1>2, <1>4 DEF DiskOK
<1>8. MarkersOK(disk', losses' > 0)
  <2>1. ASSUME NEW q \in Plans,
               Name(q, Parts(q.edition)[Len(Parts(q.edition))]) \in DOMAIN disk',
               disk'[Name(q, Parts(q.edition)[Len(Parts(q.edition))])].body = <<q>>,
               q.edition = 2
        PROVE  \A m \in 1 .. Len(Parts(q.edition)) - 1 : Kept(q, m, disk')
    <3> DEFINE n == Name(q, Parts(q.edition)[Len(Parts(q.edition))])
    <3>1. <<q>> # <<>>
      OBVIOUS
    <3>2. n \in DOMAIN disk /\ disk[n].body = <<q>>
      BY <2>1, <3>1, <1>4
    <3>3. \A m \in 1 .. Len(Parts(q.edition)) - 1 : Kept(q, m, disk)
      BY <2>1, <3>2, DiskStays DEF MarkersOK
    <3> QED BY <3>3, <2>1, <1>6
  <2> QED BY <2>1, <1>3 DEF MarkersOK
<1>9. ASSUME NEW p \in Publishers PROVE AttemptOK(plan[p], at'[p], disk', losses' > 0)
  <2>1. CASE at[p].step \in Ended
    <3>1. at'[p] = at[p]
      BY <2>1, <1>1
    <3>2. AttemptOK(plan[p], at[p], disk, losses > 0)
      BY DEF PublicationInv
    <3>3. at[p].step \notin {"create", "write", "sync", "verify"}
      BY <2>1 DEF Ended
    <3>4. at[p].step = "done" =>
            /\ at[p].part = Len(Parts(plan[p].edition))
            /\ plan[p].edition = 2 =>
                 \A m \in 1 .. Len(Parts(plan[p].edition)) : Kept(plan[p], m, disk')
      BY <3>2, <1>6 DEF AttemptOK
    <3> QED BY <3>1, <3>2, <3>3, <3>4, <1>3 DEF AttemptOK
  <2>2. CASE at[p].step \notin Ended
    <3>1. at'[p] = [step |-> "dead", part |-> 1]
      BY <2>2, <1>1
    <3>2. 1 \in 1 .. Len(Parts(plan[p].edition))
      BY PlanParts
    <3> QED BY <3>1, <3>2 DEF AttemptOK, Steps, Ended
  <2> QED BY <2>1, <2>2
<1>10. ASSUME NEW p \in Publishers, Holds(plan[p], at'[p])
       PROVE  at'[p] = at[p]
  <2>1. CASE at[p].step \in Ended
    BY <2>1, <1>1
  <2>2. CASE at[p].step \notin Ended
    BY <2>2, <1>1, <1>10 DEF Holds
  <2> QED BY <2>1, <2>2
<1>11. ASSUME NEW p \in Publishers, NEW r \in Publishers, p # r,
              Holds(plan[p], at'[p]), Holds(plan[r], at'[r])
       PROVE  Name(plan[p], Parts(plan[p].edition)[at'[p].part])
                # Name(plan[r], Parts(plan[r].edition)[at'[r].part])
  <2>1. at'[p] = at[p] /\ at'[r] = at[r]
    BY <1>10, <1>11
  <2> QED BY <1>11, <2>1 DEF PublicationInv, Current
<1>12. at' = [p \in Publishers |-> at'[p]] /\ plan' \in [Publishers -> Plans]
  BY <1>1 DEF PublicationInv
<1> QED BY <1>1, <1>3, <1>7, <1>8, <1>9, <1>11, <1>12 DEF PublicationInv, Current

\* The inductive invariant of publication: an attempt leaves behind it only files
\* that are kept, holds its current file alone, and a terminal file stands behind
\* kept files only.
THEOREM PublicationInvariant == ArtifactsSpec => []PublicationInv
<1>1. PublicationInv /\ [ArtifactsNext]_artifactVars => PublicationInv'
  <2> SUFFICES ASSUME PublicationInv, [ArtifactsNext]_artifactVars PROVE PublicationInv'
    OBVIOUS
  <2>1. CASE UNCHANGED artifactVars
    BY <2>1 DEF artifactVars, PublicationInv, Current
  <2>2. CASE PowerLoss
    BY <2>2, PowerLossKeeps
  <2>3. ASSUME NEW p \in DOMAIN at,
               \/ Preflight(p) \/ Create(p) \/ Write(p) \/ Sync(p)
               \/ SelfVerify(p) \/ Crash(p) \/ Restart(p)
        PROVE  PublicationInv'
    <3>1. p \in Publishers
      BY DEF PublicationInv
    <3> QED BY <2>3, <3>1, PreflightKeeps, CreateKeeps, WriteKeeps, SyncKeeps, SelfVerifyKeeps
  <2> QED BY <2>1, <2>2, <2>3 DEF ArtifactsNext
<1> QED BY <1>1, PublicationInitially, PTL DEF ArtifactsSpec

\* A published result is whole for whoever published it and for whoever finds it, for
\* any number of publishers, restarts and power losses.
THEOREM ResultsAlwaysWhole == ArtifactsSpec => []ResultsAreWhole
<1>1. PublicationInv => ResultsAreWhole
  <2> SUFFICES ASSUME PublicationInv PROVE ResultsAreWhole
    OBVIOUS
  <2>1. losses \in Nat /\ DOMAIN at = Publishers
    BY DEF PublicationInv
  <2>2. MarkerImpliesWhole
    <3> SUFFICES ASSUME NEW n \in DOMAIN disk, disk[n].body # <<>>,
                        n = Name(disk[n].body[1], Parts(disk[n].body[1].edition)
                                                    [Len(Parts(disk[n].body[1].edition))]),
                        disk[n].body[1].edition = 2 \/ losses = 0
                 PROVE  Readable(disk[n].body[1], Len(Parts(disk[n].body[1].edition)))
      BY DEF MarkerImpliesWhole
    <3>1. PICK q \in Plans : disk[n].body = <<q>>
      BY DEF PublicationInv, DiskOK
    <3>2. disk[n].body[1] = q
      BY <3>1
    <3>3. Len(Parts(q.edition)) \in Nat
      BY PlansAssumption, NamesDiffer
    <3>4. \A m \in 1 .. Len(Parts(q.edition)) - 1 : Kept(q, m, disk)
      BY <2>1, <3>1, <3>2 DEF PublicationInv, MarkersOK
    <3>5. ASSUME NEW m \in 1 .. Len(Parts(q.edition))
          PROVE  /\ Name(q, Parts(q.edition)[m]) \in DOMAIN disk
                 /\ disk[Name(q, Parts(q.edition)[m])].body = <<q>>
      <4>1. CASE m = Len(Parts(q.edition))
        BY <4>1, <3>1, <3>2
      <4>2. CASE m # Len(Parts(q.edition))
        <5>1. m \in 1 .. Len(Parts(q.edition)) - 1
          BY <4>2, <3>3
        <5> QED BY <5>1, <3>4 DEF Kept
      <4> QED BY <4>1, <4>2
    <3> QED BY <3>2, <3>5 DEF Readable
  <2>3. ASSUME NEW p \in Publishers, at[p].step = "done", plan[p].edition = 2 \/ losses = 0
        PROVE  Readable(plan[p], Len(Parts(plan[p].edition)))
    <3>1. \A m \in 1 .. Len(Parts(plan[p].edition)) : Kept(plan[p], m, disk)
      BY <2>1, <2>3, PlanParts DEF AttemptOK
    <3> QED BY <3>1 DEF Readable, Kept
  <2>4. ASSUME NEW p \in Publishers, NEW r \in Publishers, p # r,
               at[p].step = "done", at[r].step = "done",
               plan[p].edition # 1, plan[r].edition # 1
        PROVE  FALSE
    <3>1. ASSUME NEW s \in Publishers, at[s].step = "done", plan[s].edition # 1
          PROVE  Holds(plan[s], at[s]) /\ Current(s) = <<"any", "COMPLETED">>
      <4>1. plan[s].edition = 2 /\ at[s].part = 4
        BY <3>1, PlanParts DEF AttemptOK
      <4> QED BY <3>1, <4>1, PartsAre DEF Holds, Current, Name
    <3> QED BY <2>4, <3>1 DEF PublicationInv
  <2> QED BY <2>1, <2>2, <2>3, <2>4 DEF ResultsAreWhole, SuccessIsKept
<1> QED BY <1>1, PublicationInvariant, PTL

-----------------------------------------------------------------------------
(* The causal runner: the inductive invariant.                               *)

ReqStates == {"none", "refused", "dispatched", "revealed", "final"}
Taken == {"dispatched", "revealed", "final"}

Keys(str) == {Key(str[i]) : i \in DOMAIN str}

\* What the run was started with; no event changes it.
Setting ==
    /\ method \in CausalMethods
    /\ method = "gov_ar" => evidence \in Evidence
    /\ stream \in Streams /\ ValidateStreamV2(stream)
    /\ usage \in Usages(stream) /\ ValidateOpportunityCoverage(stream, usage)
    /\ stage \in [DOMAIN stream -> 0 .. 4]
    /\ world = [w \in Worlds |-> world[w]]

\* Every event that was processed is before every event that was not.
InOrder ==
    \A i, j \in DOMAIN stream : \A k, l \in 1 .. 4 :
        k <= stage[i] /\ stage[j] < l => Before(i, k, j, l)

LogRow ==
    [event : {"admission", "dispatch_claim", "dispatch_delivered", "provider_response",
              "usage_available", "settlement_final"}, req : Int, at : Int]
LogAccess == [kind : {"authorize", "reveal"}, req : Int, at : Int]

RunRecord(s, str) ==
    /\ DOMAIN s = {"req", "book", "exposed", "rows", "access", "aborted"}
    /\ s.req \in [DOMAIN str -> [state : ReqStates, reserved : Nat, cost : Nat]]
    /\ s.book \in [Keys(str) -> [settled : Int, held : Int, active : Int]]
    /\ s.exposed \in [Keys(str) -> Int]
    /\ s.rows \in Seq(LogRow)
    /\ s.access \in Seq(LogAccess)
    /\ s.aborted \in BOOLEAN

\* How far a request is that n events of were processed.
Progress(s, i, n) ==
    /\ n = 0 => s.req[i].state = "none"
    /\ ~s.aborted =>
          /\ n \in {1, 2} => s.req[i].state \in {"refused", "dispatched"}
          /\ n = 3 => s.req[i].state \in {"refused", "revealed"}
          /\ n = 4 => s.req[i].state \in {"refused", "final"}

\* The reservation and the cost of request q for the opportunity op with usage u.
Amounts(q, op, u, m, e) ==
    /\ q.reserved = IF q.state \in Taken THEN expectedReservation(m, e, op) ELSE 0
    /\ q.cost = IF q.state \in {"revealed", "final"} THEN ActualCost(u) ELSE 0

\* Where the log or the rows name a request.
Accesses(log, kind, i) == {n \in DOMAIN log : log[n].kind = kind /\ log[n].req = i}
Deliveries(rows, i) == {n \in DOMAIN rows : rows[n].event = "dispatch_delivered" /\ rows[n].req = i}

\* Nothing was logged for a request before it is dispatched; then one delivery
\* and one authorization, and at most one reveal, after it and in time.
Logged(s, i, n, op) ==
    IF s.req[i].state \in Taken
    THEN /\ \E d \in DOMAIN s.rows : Deliveries(s.rows, i) = {d}
         /\ \E a \in DOMAIN s.access : /\ Accesses(s.access, "authorize", i) = {a}
                   /\ \A b \in Accesses(s.access, "reveal", i) :
                        a < b /\ n >= 3 /\ s.access[b].at = op.available
         /\ \A b, c \in Accesses(s.access, "reveal", i) : b = c
    ELSE Deliveries(s.rows, i) = {} /\ Accesses(s.access, "authorize", i) = {} /\ Accesses(s.access, "reveal", i) = {}

\* What a request adds to the columns of its window's ledger.
HeldBy(q) == IF q.state \in {"dispatched", "revealed"} THEN q.reserved ELSE 0
Actives(q, m) == IF q.state \in {"dispatched", "revealed"} /\ Reserving(m) THEN 1 ELSE 0
Settles(q) == IF q.state = "final" THEN q.cost ELSE 0
Exposes(q, m) == IF q.state = "revealed" /\ m = "settled_only" THEN q.cost ELSE 0

Share(v, str, k) == [i \in DOMAIN str |-> IF Key(str[i]) = k THEN v[i] ELSE 0]
SumOf(v, str, k) == SumOver(Share(v, str, k), DOMAIN str)

\* The columns are the sums of what the requests add.
Books(s, str, m) ==
    \A k \in Keys(str) :
        /\ s.book[k].held = SumOf([i \in DOMAIN str |-> HeldBy(s.req[i])], str, k)
        /\ s.book[k].active = SumOf([i \in DOMAIN str |-> Actives(s.req[i], m)], str, k)
        /\ s.book[k].settled = SumOf([i \in DOMAIN str |-> Settles(s.req[i])], str, k)
        /\ s.exposed[k] = SumOf([i \in DOMAIN str |-> Exposes(s.req[i], m)], str, k)

\* The method reserves the verified cap.
ReservesCap(m, e) == m = "strict_max" \/ (m = "gov_ar" /\ govarEvidenceFallsBack(e))

OpenIn(s, str, k) == {i \in DOMAIN str : Key(str[i]) = k /\ s.req[i].state \in Taken}
Nominal(op, u) == OutcomeInBounds([op EXCEPT !.fault = "nominal"], u)

\* A window whose dispatched requests are all nominal stays inside its budget.
Covered(s, str, u) ==
    \A k \in Keys(str) :
        (\A i \in OpenIn(s, str, k) : Nominal(str[i], u[i])) =>
            \A i \in OpenIn(s, str, k) : s.book[k].settled + s.book[k].held <= str[i].budget

RunOK(s, str, st, u, m, e) ==
    /\ RunRecord(s, str)
    /\ \A i \in DOMAIN str : /\ Progress(s, i, st[i]) /\ Logged(s, i, st[i], str[i])
                             /\ Amounts(s.req[i], str[i], u[i], m, e)
    /\ Books(s, str, m)
    /\ ReservesCap(m, e) => Covered(s, str, u)

\* Two requests that were decided alike.
Alike(p, q) == /\ (p.state = "refused") = (q.state = "refused")
               /\ p.reserved = q.reserved

\* As long as no request was settled whose usages differ, two runs have the
\* same ledgers and have decided alike.
Agree(s, t, u, v, str, st) ==
    ~s.aborted /\ ~t.aborted /\ (\A j \in DOMAIN str : u[j] # v[j] => st[j] # 4) =>
        s.book = t.book /\ \A i \in DOMAIN str : Alike(s.req[i], t.req[i])

CausalInv ==
    /\ Setting /\ InOrder /\ NoForesight
    /\ \A w \in Worlds : RunOK(world[w], stream, stage, usage[w], method, evidence)
    /\ \A v, w \in Worlds : Agree(world[v], world[w], usage[v], usage[w], stream, stage)

-----------------------------------------------------------------------------
(* The causal runner: streams, amounts and the order of events *)

\* What a validated stream and its usages are.
LEMMA StreamFacts ==
  ASSUME Setting
  PROVE  /\ IsFiniteSet(DOMAIN stream) /\ DOMAIN stream \subseteq Nat
         /\ \A i \in DOMAIN stream : stream[i] \in OpportunityV2 /\ ValidOpportunity(stream[i])
         /\ \A i, j \in DOMAIN stream :
              Key(stream[i]) = Key(stream[j]) => stream[i].budget = stream[j].budget
         /\ \A w \in Worlds : \A i \in DOMAIN stream :
              usage[w][i].in \in Nat /\ usage[w][i].out \in Nat
<1>1. Len(stream) \in Nat /\ DOMAIN stream = 1 .. Len(stream)
  <2>1. stream \in Seq(OpportunityV2)
    BY CausalAssumption DEF Setting
  <2> QED BY <2>1
<1>2. IsFiniteSet(1 .. Len(stream))
  BY <1>1, FS_Interval
<1>3. \A i \in DOMAIN stream : stream[i] \in OpportunityV2
  <2>1. stream \in Seq(OpportunityV2)
    BY CausalAssumption DEF Setting
  <2> QED BY <2>1
<1>4. \A i \in DOMAIN stream : ValidOpportunity(stream[i])
  BY DEF Setting, ValidateStreamV2
<1>5. \A i, j \in DOMAIN stream :
        Key(stream[i]) = Key(stream[j]) => stream[i].budget = stream[j].budget
  BY DEF Setting, ValidateStreamV2
<1>6. \A w \in Worlds : \A i \in DOMAIN stream :
        usage[w][i].in \in Nat /\ usage[w][i].out \in Nat
  BY CausalAssumption DEF Setting
<1> QED BY <1>1, <1>2, <1>3, <1>4, <1>5, <1>6

\* A ceiling is a natural number and grows with the quantity.
LEMMA Ceilings ==
  ASSUME NEW p \in Nat, NEW q \in Nat, NEW r \in Nat, q <= r
  PROVE  /\ ceilingProduct(p, q) \in Nat /\ ceilingProduct(p, r) \in Nat
         /\ ceilingProduct(p, q) <= ceilingProduct(p, r)
<1>1. PriceUnit \in Nat \ {0}
  BY PriceAssumption
<1>2. p * q \in Nat /\ p * r \in Nat /\ p * q <= p * r
  <2>1. p * r = p * q + p * (r - q)
    OBVIOUS
  <2>2. p * q \in Nat /\ p * r \in Nat /\ p * (r - q) \in Nat
    OBVIOUS
  <2> QED BY <2>1, <2>2
<1> DEFINE a == p * q
           b == p * r
           k == (a + PriceUnit - 1) \div PriceUnit
           l == (b + PriceUnit - 1) \div PriceUnit
<1>3. a \in Nat /\ b \in Nat /\ a <= b
  BY <1>2
<1>4. ceilingProduct(p, q) = k /\ ceilingProduct(p, r) = l
  BY DEF ceilingProduct
<1> HIDE DEF a, b
<1>5. k \in Nat /\ \A j \in Nat : j < k => j * PriceUnit < a
  BY <1>1, <1>3, RoundedUp
<1>6. l \in Nat /\ l * PriceUnit >= b
  BY <1>1, <1>3, RoundedUp
<1> HIDE DEF k, l
<1>7. k <= l
  <2>1. l * PriceUnit \in Nat
    BY <1>1, <1>6
  <2> QED BY <1>3, <1>5, <1>6, <2>1
<1> QED BY <1>4, <1>5, <1>6, <1>7

\* A rounded-up price is a natural number.
LEMMA CeilingNat == \A p, q \in Nat : ceilingProduct(p, q) \in Nat
BY Ceilings

\* The reservation mode of each method, spelled out.
LEMMA Modes ==
  /\ Methods = {"no_budget", "settled_only", "strict_max", "mean", "mean_margin",
                "fixed_quantile", "fixed_estimate", "gov_ar"}
  /\ budgetAdmissionMethods["strict_max"] = "strict_provider_cap"
  /\ budgetAdmissionMethods["mean"] = "mean"
  /\ budgetAdmissionMethods["mean_margin"] = "fixed_margin"
  /\ budgetAdmissionMethods["fixed_quantile"] = "fixed_quantile"
  /\ budgetAdmissionMethods["fixed_estimate"] = "mean"
  /\ budgetAdmissionMethods["gov_ar"] = "govar_fixed_cohort"
BY DEF Methods, budgetAdmissionMethods

\* A reserving method reserves a number of tokens, the cap if it reserves the cap.
LEMMA TokensReserved ==
  ASSUME Setting, NEW i \in DOMAIN stream, Reserving(method)
  PROVE  /\ ReservedTokens(method, evidence, stream[i]) \in Nat
         /\ ReservesCap(method, evidence) =>
              ReservedTokens(method, evidence, stream[i]) = stream[i].max
<1>1. stream[i].max \in Nat
  BY StreamFacts DEF OpportunityV2
<1>2. Estimate \in Nat /\ Margin \in Nat /\ (method = "gov_ar" => evidence.upper \in Nat)
  BY CausalAssumption DEF Setting
<1>3. method \in {"strict_max", "mean", "mean_margin", "fixed_quantile", "fixed_estimate", "gov_ar"}
  BY CausalAssumption, Modes DEF Setting, Reserving
<1>4. CASE method = "strict_max"
  BY <1>1, <1>4, Modes DEF ReservedTokens
<1>5. CASE method \in {"mean", "fixed_quantile", "fixed_estimate"}
  BY <1>1, <1>2, <1>5, Modes DEF ReservedTokens, Lesser, ReservesCap
<1>6. CASE method = "mean_margin"
  BY <1>1, <1>2, <1>6, Modes DEF ReservedTokens, Lesser, ReservesCap
<1>7. CASE method = "gov_ar"
  BY <1>1, <1>2, <1>7, Modes DEF ReservedTokens, Lesser, ReservesCap
<1> QED BY <1>3, <1>4, <1>5, <1>6, <1>7

\* What is reserved and what is spent are amounts, and a reservation of the cap
\* covers a nominal usage.
LEMMA AmountFacts ==
  ASSUME Setting, NEW i \in DOMAIN stream
  PROVE  /\ expectedReservation(method, evidence, stream[i]) \in Nat
         /\ ~Reserving(method) => expectedReservation(method, evidence, stream[i]) = 0
         /\ \A w \in Worlds :
              /\ ActualCost(usage[w][i]) \in Nat
              /\ ReservesCap(method, evidence) /\ Nominal(stream[i], usage[w][i]) =>
                   ActualCost(usage[w][i]) <= expectedReservation(method, evidence, stream[i])
<1> DEFINE op == stream[i]
           n == ReservedTokens(method, evidence, op)
<1>1. op.input \in Nat /\ op.max \in Nat
  BY StreamFacts DEF OpportunityV2
<1>2. InputPrice \in Nat /\ OutputPrice \in Nat
  BY PriceAssumption
<1>3. Reserving(method) =>
        /\ n \in Nat
        /\ expectedReservation(method, evidence, op)
             = ceilingProduct(InputPrice, op.input) + ceilingProduct(OutputPrice, n)
  BY TokensReserved DEF expectedReservation
<1>4. ~Reserving(method) => expectedReservation(method, evidence, op) = 0
  BY DEF expectedReservation
<1>5. expectedReservation(method, evidence, op) \in Nat
  <2>1. CASE Reserving(method)
    <3> HIDE DEF op, n
    <3>1. ceilingProduct(InputPrice, op.input) \in Nat /\ ceilingProduct(OutputPrice, n) \in Nat
      BY <1>1, <1>2, <1>3, <2>1, CeilingNat
    <3> QED BY <1>3, <2>1, <3>1
  <2> QED BY <1>4, <2>1
<1>6. ASSUME NEW w \in Worlds
      PROVE  /\ ActualCost(usage[w][i]) \in Nat
             /\ ReservesCap(method, evidence) /\ Nominal(op, usage[w][i]) =>
                  ActualCost(usage[w][i]) <= expectedReservation(method, evidence, op)
  <2>1. usage[w][i].in \in Nat /\ usage[w][i].out \in Nat
    BY StreamFacts
  <2>2. /\ ceilingProduct(InputPrice, usage[w][i].in) \in Nat
        /\ ceilingProduct(OutputPrice, usage[w][i].out) \in Nat
    BY <1>2, <2>1, CeilingNat
  <2>3. ASSUME ReservesCap(method, evidence), Nominal(op, usage[w][i])
        PROVE  ActualCost(usage[w][i]) <= expectedReservation(method, evidence, op)
    <3>1. usage[w][i].in = op.input
      BY DEF Setting, ValidateOpportunityCoverage
    <3>2. ~(usage[w][i].out > op.max)
      <4>1. /\ [op EXCEPT !.fault = "nominal"].max = op.max
            /\ [op EXCEPT !.fault = "nominal"].fault = "nominal"
        BY StreamFacts DEF OpportunityV2
      <4> DEFINE nop == [op EXCEPT !.fault = "nominal"]
      <4>2. OutcomeInBounds(nop, usage[w][i])
        BY <2>3 DEF Nominal
      <4>3. nop.fault = "nominal" /\ nop.max = op.max
        BY <4>1
      <4> HIDE DEF nop, op
      <4> QED BY <4>2, <4>3 DEF OutcomeInBounds
    <3>3. Reserving(method) /\ n = op.max
      BY <2>3, TokensReserved DEF ReservesCap, Reserving
    <3>4. usage[w][i].out <= op.max
      BY <1>1, <2>1, <3>2
    <3>5. /\ ceilingProduct(OutputPrice, op.max) \in Nat
          /\ ceilingProduct(OutputPrice, usage[w][i].out) <= ceilingProduct(OutputPrice, op.max)
      BY <1>1, <1>2, <2>1, <3>4, Ceilings
    <3> HIDE DEF op, n
    <3> QED BY <1>3, <2>2, <3>1, <3>3, <3>5 DEF ActualCost
  <2> QED BY <2>2, <2>3 DEF ActualCost
<1> QED BY <1>4, <1>5, <1>6

\* The order of events is transitive, and a request's own events are in order.
LEMMA BeforeFacts ==
  ASSUME Setting
  PROVE  /\ \A h, i, j \in DOMAIN stream : \A k, l, m \in 1 .. 4 :
              Before(h, k, i, l) /\ Before(i, l, j, m) => Before(h, k, j, m)
         /\ \A i \in DOMAIN stream : \A k, l \in 1 .. 4 : k < l => Before(i, k, i, l)
<1>1. \A i \in DOMAIN stream : i \in Nat /\ \A k \in 1 .. 4 : Instant(stream[i], k) \in Nat
  BY StreamFacts DEF Instant, OpportunityV2
<1>2. ASSUME NEW i \in DOMAIN stream, NEW k \in 1 .. 4, NEW l \in 1 .. 4, k < l
      PROVE  Instant(stream[i], k) <= Instant(stream[i], l)
  BY <1>1, <1>2, StreamFacts DEF Instant, ValidOpportunity, OpportunityV2
<1>3. \A i \in DOMAIN stream : \A k, l \in 1 .. 4 : k < l => Before(i, k, i, l)
  <2> SUFFICES ASSUME NEW i \in DOMAIN stream, NEW k \in 1 .. 4, NEW l \in 1 .. 4, k < l
               PROVE  Before(i, k, i, l)
    OBVIOUS
  <2> QED BY <1>1, <1>2 DEF Before
<1>4. \A h, i, j \in DOMAIN stream : \A k, l, m \in 1 .. 4 :
        Before(h, k, i, l) /\ Before(i, l, j, m) => Before(h, k, j, m)
  BY <1>1 DEF Before
<1> QED BY <1>3, <1>4

\* An event that is next keeps the processed events before the others.
LEMMA OrderStep ==
  ASSUME Setting, InOrder, NEW i \in DOMAIN stream, IsNext(i),
         stage' = [stage EXCEPT ![i] = @ + 1], stream' = stream
  PROVE  InOrder'
<1> SUFFICES ASSUME NEW g \in DOMAIN stream, NEW j \in DOMAIN stream,
                    NEW k \in 1 .. 4, NEW l \in 1 .. 4, k <= stage'[g], stage'[j] < l
             PROVE  Before(g, k, j, l)
  BY DEF InOrder, Before
<1>0. stage \in [DOMAIN stream -> 0 .. 4] /\ stage[i] < 4 /\ DOMAIN stage = DOMAIN stream
  BY DEF Setting, IsNext
<1>1. CASE k <= stage[g] /\ stage[j] < l
  BY <1>1 DEF InOrder
<1>2. CASE ~(k <= stage[g])
  <2>1. g = i /\ k = stage[i] + 1 /\ stage[j] < l
    BY <1>0, <1>2
  <2>2. CASE j = i
    BY <1>0, <2>1, <2>2, BeforeFacts
  <2>3. CASE j # i
    <3>1. Before(i, k, j, stage[j] + 1)
      BY <1>0, <2>1, <2>3 DEF IsNext
    <3>2. CASE l = stage[j] + 1
      BY <2>1, <3>1, <3>2
    <3>3. CASE l # stage[j] + 1
      <4>1. Before(j, stage[j] + 1, j, l)
        BY <1>0, <2>1, <3>3, BeforeFacts
      <4> QED BY <1>0, <2>1, <3>1, <4>1, BeforeFacts
    <3> QED BY <3>2, <3>3
  <2> QED BY <2>2, <2>3
<1>3. CASE k <= stage[g] /\ ~(stage[j] < l)
  BY <1>0, <1>3
<1> QED BY <1>1, <1>2, <1>3


-----------------------------------------------------------------------------
(* The causal runner: what each event does to one run *)

\* The run s becomes t: request i becomes q, its window's ledger b and exposure x.
Becomes(s, t, i, str, q, b, x) ==
    /\ DOMAIN t = DOMAIN s
    /\ t.req = [s.req EXCEPT ![i] = q]
    /\ t.book = [s.book EXCEPT ![Key(str[i])] = b]
    /\ t.exposed = [s.exposed EXCEPT ![Key(str[i])] = x]

LEMMA ThreeAppended ==
  ASSUME NEW T, NEW s \in Seq(T), NEW a \in T, NEW b \in T, NEW c \in T
  PROVE  s \o <<a, b, c>> = Append(Append(Append(s, a), b), c)
OBVIOUS

\* What an appended element does to a sequence.
LEMMA Appended ==
  ASSUME NEW T, NEW s \in Seq(T), NEW a \in T
  PROVE  /\ Append(s, a) \in Seq(T) /\ Last(Append(s, a)) = a
         /\ DOMAIN Append(s, a) = DOMAIN s \cup {Len(s) + 1} /\ Len(s) + 1 \notin DOMAIN s
         /\ Append(s, a)[Len(s) + 1] = a /\ \A n \in DOMAIN s : Append(s, a)[n] = s[n] /\ n < Len(s) + 1
BY DEF Last

LEMMA ThreeRows ==
  ASSUME NEW r \in Seq(LogRow), NEW a \in LogRow, NEW b \in LogRow, NEW c \in LogRow
  PROVE  /\ r \o <<a, b, c>> = Append(Append(Append(r, a), b), c)
         /\ Append(Append(Append(r, a), b), c) \in Seq(LogRow)
         /\ Last(Append(Append(Append(r, a), b), c)) = c
<1>1. Append(r, a) \in Seq(LogRow)
  BY Appended
<1>2. Append(Append(r, a), b) \in Seq(LogRow)
  BY <1>1, Appended
<1>3. /\ Append(Append(Append(r, a), b), c) \in Seq(LogRow)
      /\ Last(Append(Append(Append(r, a), b), c)) = c
  <2> DEFINE u == Append(Append(r, a), b)
  <2>1. u \in Seq(LogRow)
    BY <1>2
  <2> HIDE DEF u
  <2>2. Append(u, c) \in Seq(LogRow) /\ Last(Append(u, c)) = c
    BY <2>1, Appended
  <2> QED BY <2>2 DEF u
<1>4. r \o <<a, b, c>> = Append(Append(Append(r, a), b), c)
  BY ThreeAppended
<1> QED BY <1>3, <1>4

\* The rows the runner writes.
LEMMA RowFacts ==
  ASSUME Setting, NEW i \in DOMAIN stream, NEW k \in 1 .. 4,
         NEW e \in {"admission", "dispatch_claim", "dispatch_delivered", "provider_response",
                    "usage_available", "settlement_final"}
  PROVE  /\ Row(e, i, k) \in LogRow
         /\ Row(e, i, k).event = e /\ Row(e, i, k).req = i
         /\ Row(e, i, k).at = Instant(stream[i], k)
BY StreamFacts DEF Row, Instant, LogRow, OpportunityV2

LEMMA ArrivalInstant == \A op : Instant(op, 1) = op.arrival
BY DEF Instant

\* An arrival is admitted and dispatched, or refused; it never ends the run.
LEMMA ArrivalEffect ==
  ASSUME Setting, NEW i \in DOMAIN stream, NEW s, RunRecord(s, stream), ~s.aborted,
         Accesses(s.access, "authorize", i) = {}
  PROVE  LET t == OnArrival(s, i)
             k == Key(stream[i])
             r == expectedReservation(method, evidence, stream[i])
             when == stream[i].arrival
         IN \/ /\ Admits(method, r, stream[i], s.book[k])
               /\ Becomes(s, t, i, stream, [state |-> "dispatched", reserved |-> r, cost |-> 0],
                          AdmitIn(method, r, s.book[k]), s.exposed[k])
               /\ t.rows = Append(Append(Append(s.rows, Row("admission", i, 1)),
                                         Row("dispatch_claim", i, 1)),
                                  Row("dispatch_delivered", i, 1))
               /\ t.access = Append(s.access, Access("authorize", i, when))
               /\ ~t.aborted
            \/ /\ ~Admits(method, r, stream[i], s.book[k])
               /\ Becomes(s, t, i, stream, [s.req[i] EXCEPT !.state = "refused"],
                          s.book[k], s.exposed[k])
               /\ t.rows = Append(s.rows, Row("admission", i, 1))
               /\ t.access = s.access /\ ~t.aborted
<1> DEFINE key == Key(stream[i])
           amt == expectedReservation(method, evidence, stream[i])
           arr == stream[i].arrival
           ra == Row("admission", i, 1)
           rc == Row("dispatch_claim", i, 1)
           rd == Row("dispatch_delivered", i, 1)
           rec == [state |-> "dispatched", reserved |-> amt, cost |-> 0]
           bk == AdmitIn(method, amt, s.book[key])
           rows == Append(Append(Append(s.rows, ra), rc), rd)
           disp == [s EXCEPT !.req[i] = rec, !.book[key] = bk, !.rows = rows]
<1>1. key \in Keys(stream) /\ key \in DOMAIN s.book /\ key \in DOMAIN s.exposed
  BY DEF Keys, RunRecord
<1>2. /\ ra \in LogRow /\ rc \in LogRow /\ rd \in LogRow
      /\ rd.at = arr /\ rd.event = "dispatch_delivered" /\ rd.req = i
  <2>1. ra \in LogRow
    BY RowFacts
  <2>2. rc \in LogRow
    BY RowFacts
  <2>3. /\ rd \in LogRow /\ rd.event = "dispatch_delivered" /\ rd.req = i
        /\ rd.at = Instant(stream[i], 1)
    BY RowFacts
  <2> QED BY <2>1, <2>2, <2>3, ArrivalInstant
<1>3. s.rows \in Seq(LogRow)
  BY DEF RunRecord
<1> HIDE DEF key, amt, arr, ra, rc, rd, bk
<1>4. s.rows \o <<ra, rc, rd>> = rows /\ Last(rows) = rd
  <2> DEFINE old == s.rows
  <2>1. old \in Seq(LogRow)
    BY <1>3
  <2> HIDE DEF old
  <2>2. /\ old \o <<ra, rc, rd>> = Append(Append(Append(old, ra), rc), rd)
        /\ Last(Append(Append(Append(old, ra), rc), rd)) = rd
    BY <1>2, <2>1, ThreeRows
  <2> QED BY <2>2 DEF old
<1> HIDE DEF rows, rec
<1>6. CASE Admits(method, amt, stream[i], s.book[key])
  <2>1. OnArrival(s, i) = authorizeUsage(disp, i)
    BY <1>4, <1>6 DEF OnArrival, key, amt, ra, rc, rd, rec, bk
  <2>2. /\ DOMAIN disp = DOMAIN s
        /\ disp.req = [s.req EXCEPT ![i] = rec]
        /\ disp.book = [s.book EXCEPT ![key] = bk]
        /\ disp.exposed = s.exposed /\ disp.rows = rows /\ disp.access = s.access
        /\ disp.aborted = s.aborted
    <3>1. DOMAIN s = {"req", "book", "exposed", "rows", "access", "aborted"}
      BY DEF RunRecord
    <3> QED BY <3>1
  <2> HIDE DEF disp
  <2>3. ValidProof(Last(disp.rows), i) /\ Last(disp.rows).at = arr
    <3>1. arr <= stream[i].available
      BY StreamFacts DEF OpportunityV2, ValidOpportunity, arr
    <3> QED BY <1>2, <1>4, <2>2, <3>1 DEF ValidProof
  <2>4. ~Authorized(disp, i)
    BY <2>2 DEF Authorized, Accesses
  <2>5. authorizeUsage(disp, i) = [disp EXCEPT !.access = Append(@, Access("authorize", i, arr))]
    BY <2>3, <2>4 DEF authorizeUsage
  <2> DEFINE new == authorizeUsage(disp, i)
  <2>6. /\ DOMAIN new = DOMAIN s
        /\ new.req = disp.req /\ new.book = disp.book /\ new.exposed = disp.exposed /\ new.rows = disp.rows
        /\ new.access = Append(s.access, Access("authorize", i, arr))
        /\ new.aborted = disp.aborted
    BY <2>2, <2>5
  <2> HIDE DEF new
  <2>7. new.exposed = [s.exposed EXCEPT ![key] = s.exposed[key]]
    BY <1>1, <2>2, <2>6 DEF RunRecord
  <2>8. Becomes(s, new, i, stream, rec, bk, s.exposed[key])
    BY <2>2, <2>6, <2>7 DEF Becomes, key
  <2> QED BY <1>6, <2>1, <2>2, <2>6, <2>8 DEF new, rec, key, amt, arr, bk, rows, ra, rc, rd
<1>7. CASE ~Admits(method, amt, stream[i], s.book[key])
  <2> DEFINE new == OnArrival(s, i)
             ref == [s.req[i] EXCEPT !.state = "refused"]
  <2>1. new = [s EXCEPT !.req[i].state = "refused", !.rows = Append(@, ra)]
    BY <1>7 DEF OnArrival, key, amt, ra
  <2>2. /\ DOMAIN new = DOMAIN s
        /\ new.req = [s.req EXCEPT ![i] = ref]
        /\ new.book = s.book /\ new.exposed = s.exposed /\ new.access = s.access
        /\ new.rows = Append(s.rows, ra) /\ new.aborted = s.aborted
    BY <1>1, <2>1 DEF RunRecord
  <2> HIDE DEF new, ref
  <2>3. /\ new.exposed = [s.exposed EXCEPT ![key] = s.exposed[key]]
        /\ new.book = [s.book EXCEPT ![key] = s.book[key]]
    BY <1>1, <2>2 DEF RunRecord
  <2>4. Becomes(s, new, i, stream, ref, s.book[key], s.exposed[key])
    BY <2>2, <2>3 DEF Becomes, key
  <2> QED BY <1>7, <2>2, <2>4 DEF new, ref, key, amt, ra
<1> QED BY <1>6, <1>7

\* A response adds a row.
LEMMA ResponseEffect ==
  ASSUME Setting, NEW i \in DOMAIN stream, NEW s, RunRecord(s, stream)
  PROVE  LET t == OnResponse(s, i)
         IN  \/ t = s
             \/ /\ DOMAIN t = DOMAIN s
                /\ t.req = s.req /\ t.book = s.book /\ t.exposed = s.exposed
                /\ t.access = s.access /\ t.aborted = s.aborted
                /\ t.rows = Append(s.rows, Row("provider_response", i, 2))
BY DEF OnResponse, RunRecord


\* The run ends with an error: only the access log may have grown.
Ends(s, t) ==
    /\ DOMAIN t = DOMAIN s /\ t.aborted = TRUE
    /\ t.req = s.req /\ t.book = s.book /\ t.exposed = s.exposed /\ t.rows = s.rows

\* Available usage is revealed and priced, or the run ends.
LEMMA UsageEffect ==
  ASSUME Setting, NEW i \in DOMAIN stream, NEW w \in Worlds, NEW s, RunRecord(s, stream),
         ~s.aborted
  PROVE  LET t == OnUsage(s, i, w)
             k == Key(stream[i])
             c == ActualCost(usage[w][i])
             log == Append(s.access, Access("reveal", i, stream[i].available))
         IN \/ s.req[i].state = "refused" /\ t = s
            \/ s.req[i].state # "refused" /\ Ends(s, t) /\ t.access \in {s.access, log}
            \/ /\ s.req[i].state # "refused"
               /\ Becomes(s, t, i, stream,
                          [s.req[i] EXCEPT !.state = "revealed", !.cost = c], s.book[k],
                          IF method = "settled_only" THEN s.exposed[k] + c ELSE s.exposed[k])
               /\ t.rows = Append(s.rows, Row("usage_available", i, 3))
               /\ t.access = log /\ ~t.aborted
<1> DEFINE key == Key(stream[i])
           cst == ActualCost(usage[w][i])
           log == Append(s.access, Access("reveal", i, stream[i].available))
           rev == revealUsage(s, i, stream[i].available)
           new == OnUsage(s, i, w)
           row == Row("usage_available", i, 3)
           exp == IF method = "settled_only" THEN s.exposed[key] + cst ELSE s.exposed[key]
           rec == [s.req[i] EXCEPT !.state = "revealed", !.cost = cst]
<1>1. key \in Keys(stream) /\ key \in DOMAIN s.book /\ key \in DOMAIN s.exposed
  BY DEF Keys, RunRecord
<1>2. DOMAIN s = {"req", "book", "exposed", "rows", "access", "aborted"} /\ s.aborted = FALSE
  BY DEF RunRecord
<1>3. /\ DOMAIN rev = DOMAIN s /\ rev.req = s.req /\ rev.book = s.book
      /\ rev.exposed = s.exposed /\ rev.rows = s.rows
      /\ \/ rev.aborted = TRUE /\ rev.access = s.access
         \/ rev.aborted = FALSE /\ rev.access = log
  BY <1>2 DEF revealUsage
<1>4. CASE s.req[i].state = "refused"
  BY <1>4 DEF OnUsage
<1>5. CASE s.req[i].state # "refused" /\ (rev.aborted \/ ~OutcomeInBounds(stream[i], usage[w][i]))
  <2>1. new = [rev EXCEPT !.aborted = TRUE]
    BY <1>5 DEF OnUsage
  <2> HIDE DEF rev, new
  <2>2. Ends(s, new) /\ new.access = rev.access
    BY <1>2, <1>3, <2>1 DEF Ends
  <2> QED BY <1>3, <1>5, <2>2 DEF new
<1>6. CASE s.req[i].state # "refused" /\ ~rev.aborted /\ OutcomeInBounds(stream[i], usage[w][i])
  <2>1. new = [rev EXCEPT !.req[i].state = "revealed", !.req[i].cost = cst,
                          !.exposed[key] = IF method = "settled_only" THEN @ + cst ELSE @,
                          !.rows = Append(@, row)]
    BY <1>6 DEF OnUsage
  <2> HIDE DEF rev, new, cst, row, key, log
  <2>2. s.req[i] \in [state : ReqStates, reserved : Nat, cost : Nat] /\ i \in DOMAIN s.req
    BY DEF RunRecord
  <2>3. /\ DOMAIN new = DOMAIN s /\ new.book = s.book
        /\ new.access = log /\ new.aborted = FALSE /\ new.rows = Append(s.rows, row)
    BY <1>2, <1>3, <1>6, <2>1
  <2>4. new.exposed = [s.exposed EXCEPT ![key] = exp]
    BY <1>1, <1>2, <1>3, <2>1
  <2>5. new.req = [s.req EXCEPT ![i] = rec]
    BY <1>2, <1>3, <2>1, <2>2
  <2>6. new.book = [s.book EXCEPT ![key] = s.book[key]]
    BY <1>1, <2>3 DEF RunRecord
  <2> HIDE DEF rec, exp
  <2>7. Becomes(s, new, i, stream, rec, s.book[key], exp)
    BY <2>3, <2>4, <2>5, <2>6 DEF Becomes, key
  <2> QED BY <1>6, <2>3, <2>7 DEF new, rec, exp, key, cst, row, log
<1> QED BY <1>4, <1>5, <1>6

\* A settlement closes a revealed request, or the run ends.
LEMMA SettlementEffect ==
  ASSUME Setting, NEW i \in DOMAIN stream, NEW s, RunRecord(s, stream), ~s.aborted
  PROVE  LET t == OnSettlement(s, i)
             k == Key(stream[i])
             c == s.req[i].cost
         IN \/ s.req[i].state = "refused" /\ t = s
            \/ s.req[i].state # "refused" /\ Ends(s, t) /\ t.access = s.access
            \/ /\ s.req[i].state = "revealed"
               /\ Becomes(s, t, i, stream, [s.req[i] EXCEPT !.state = "final"],
                          SettleIn(method, s.req[i].reserved, c, s.book[k]),
                          IF method = "settled_only" THEN s.exposed[k] - c ELSE s.exposed[k])
               /\ t.rows = Append(s.rows, Row("settlement_final", i, 4))
               /\ t.access = s.access /\ ~t.aborted
<1> DEFINE key == Key(stream[i])
           cst == s.req[i].cost
           new == OnSettlement(s, i)
           row == Row("settlement_final", i, 4)
           bk == SettleIn(method, s.req[i].reserved, cst, s.book[key])
           exp == IF method = "settled_only" THEN s.exposed[key] - cst ELSE s.exposed[key]
           rec == [s.req[i] EXCEPT !.state = "final"]
           bad == s.req[i].state # "revealed" \/ (method = "settled_only" /\ s.exposed[key] < cst)
<1>1. key \in Keys(stream) /\ key \in DOMAIN s.book /\ key \in DOMAIN s.exposed
  BY DEF Keys, RunRecord
<1>2. DOMAIN s = {"req", "book", "exposed", "rows", "access", "aborted"} /\ s.aborted = FALSE
  BY DEF RunRecord
<1>3. CASE s.req[i].state = "refused"
  BY <1>3 DEF OnSettlement
<1>4. CASE s.req[i].state # "refused" /\ bad
  <2>1. new = [s EXCEPT !.aborted = TRUE]
    BY <1>4 DEF OnSettlement
  <2> HIDE DEF new
  <2>2. Ends(s, new) /\ new.access = s.access
    BY <1>2, <2>1 DEF Ends
  <2> QED BY <1>4, <2>2 DEF new
<1>5. CASE s.req[i].state # "refused" /\ ~bad
  <2>1. new = [s EXCEPT !.req[i].state = "final",
                        !.book[key] = SettleIn(method, s.req[i].reserved, cst, @),
                        !.exposed[key] = IF method = "settled_only" THEN @ - cst ELSE @,
                        !.rows = Append(@, row)]
    BY <1>5 DEF OnSettlement
  <2>2. s.req[i].state = "revealed"
    BY <1>5
  <2> HIDE DEF new, cst, row, key
  <2>3. s.req[i] \in [state : ReqStates, reserved : Nat, cost : Nat] /\ i \in DOMAIN s.req
    BY DEF RunRecord
  <2>4. /\ DOMAIN new = DOMAIN s
        /\ new.access = s.access /\ new.aborted = FALSE /\ new.rows = Append(s.rows, row)
    BY <1>2, <2>1
  <2>5. new.exposed = [s.exposed EXCEPT ![key] = exp]
    BY <1>1, <1>2, <2>1
  <2>6. new.req = [s.req EXCEPT ![i] = rec]
    BY <1>2, <2>1, <2>3
  <2>7. new.book = [s.book EXCEPT ![key] = bk]
    BY <1>1, <1>2, <2>1
  <2> HIDE DEF rec, exp, bk
  <2>8. Becomes(s, new, i, stream, rec, bk, exp)
    BY <2>4, <2>5, <2>6, <2>7 DEF Becomes, key
  <2> QED BY <2>2, <2>4, <2>8 DEF new, rec, exp, key, cst, row, bk
<1> QED BY <1>3, <1>4, <1>5


-----------------------------------------------------------------------------
(* The causal runner: logs, ledgers and budgets under a change of one request *)

ReqRecord == [state : ReqStates, reserved : Nat, cost : Nat]
BookRecord == [settled : Int, held : Int, active : Int]

\* An appended access is one more of its request and kind, and of no other.
LEMMA AccessAppended ==
  ASSUME NEW old \in Seq(LogAccess), NEW a \in LogAccess
  PROVE  LET new == Append(old, a)
             m == Len(old) + 1
         IN  /\ new \in Seq(LogAccess) /\ m \in DOMAIN new /\ new[m] = a
             /\ Accesses(new, a.kind, a.req) = Accesses(old, a.kind, a.req) \cup {m}
             /\ \A kind, j : ~(a.kind = kind /\ a.req = j) => Accesses(new, kind, j) = Accesses(old, kind, j)
             /\ \A n \in DOMAIN old : n \in DOMAIN new /\ new[n] = old[n] /\ n < m
<1> DEFINE new == Append(old, a)
           m == Len(old) + 1
<1>1. /\ new \in Seq(LogAccess) /\ DOMAIN new = DOMAIN old \cup {m} /\ m \notin DOMAIN old
      /\ new[m] = a /\ \A n \in DOMAIN old : new[n] = old[n] /\ n < m
  BY Appended
<1> HIDE DEF new, m
<1>2. Accesses(new, a.kind, a.req) = Accesses(old, a.kind, a.req) \cup {m}
  BY <1>1 DEF Accesses
<1>3. ASSUME NEW kind, NEW j, ~(a.kind = kind /\ a.req = j)
      PROVE  Accesses(new, kind, j) = Accesses(old, kind, j)
  <2>1. \A n \in DOMAIN new : new[n].kind = kind /\ new[n].req = j => n \in DOMAIN old
    BY <1>1, <1>3
  <2> QED BY <1>1, <2>1 DEF Accesses
<1> QED BY <1>1, <1>2, <1>3 DEF new, m

\* An appended row is a delivery only if it says so.
LEMMA RowAppended ==
  ASSUME NEW old \in Seq(LogRow), NEW a \in LogRow
  PROVE  LET new == Append(old, a)
             m == Len(old) + 1
         IN  /\ new \in Seq(LogRow) /\ m \in DOMAIN new /\ DOMAIN old \subseteq DOMAIN new
             /\ a.event = "dispatch_delivered" =>
                  Deliveries(new, a.req) = Deliveries(old, a.req) \cup {m}
             /\ \A j : ~(a.event = "dispatch_delivered" /\ a.req = j) =>
                        Deliveries(new, j) = Deliveries(old, j)
<1> DEFINE new == Append(old, a)
           m == Len(old) + 1
<1>1. /\ new \in Seq(LogRow) /\ DOMAIN new = DOMAIN old \cup {m} /\ m \notin DOMAIN old
      /\ new[m] = a /\ \A n \in DOMAIN old : new[n] = old[n] /\ n < m
  BY Appended
<1> HIDE DEF new, m
<1>2. a.event = "dispatch_delivered" => Deliveries(new, a.req) = Deliveries(old, a.req) \cup {m}
  BY <1>1 DEF Deliveries
<1>3. ASSUME NEW j, ~(a.event = "dispatch_delivered" /\ a.req = j)
      PROVE  Deliveries(new, j) = Deliveries(old, j)
  <2>1. \A n \in DOMAIN new :
           new[n].event = "dispatch_delivered" /\ new[n].req = j => n \in DOMAIN old
    BY <1>1, <1>3
  <2> QED BY <1>1, <2>1 DEF Deliveries
<1> QED BY <1>1, <1>2, <1>3 DEF new, m

\* The logs of request j are the same in s and t.
SameLog(s, t, j) ==
    /\ Deliveries(t.rows, j) = Deliveries(s.rows, j)
    /\ \A kind : Accesses(t.access, kind, j) = Accesses(s.access, kind, j)
    /\ DOMAIN s.rows \subseteq DOMAIN t.rows /\ DOMAIN s.access \subseteq DOMAIN t.access
    /\ \A n \in DOMAIN s.access : t.access[n] = s.access[n]

\* What was logged of a request stays as it is while its logs do.
LEMMA LoggedStays ==
  ASSUME NEW s, NEW t, NEW j, NEW n \in Nat, NEW m \in Nat, n <= m, NEW op,
         SameLog(s, t, j), Logged(s, j, n, op),
         (t.req[j].state \in Taken) = (s.req[j].state \in Taken)
  PROVE  Logged(t, j, m, op)
<1>1. \A kind : Accesses(s.access, kind, j) \subseteq DOMAIN s.access
  BY DEF Accesses
<1>2. CASE s.req[j].state \in Taken
  <2>1. PICK a \in DOMAIN s.access :
           /\ Accesses(s.access, "authorize", j) = {a}
           /\ \A b \in Accesses(s.access, "reveal", j) : a < b /\ n >= 3 /\ s.access[b].at = op.available
    BY <1>2 DEF Logged
  <2>2. \A b \in Accesses(t.access, "reveal", j) : a < b /\ m >= 3 /\ t.access[b].at = op.available
    BY <1>1, <2>1 DEF SameLog
  <2>3. a \in DOMAIN t.access /\ Accesses(t.access, "authorize", j) = {a}
    BY <2>1 DEF SameLog
  <2>4. \E d \in DOMAIN t.rows : Deliveries(t.rows, j) = {d}
    BY <1>2 DEF Logged, SameLog
  <2>5. \A b, c \in Accesses(t.access, "reveal", j) : b = c
    BY <1>2 DEF Logged, SameLog
  <2> QED BY <1>2, <2>2, <2>3, <2>4, <2>5 DEF Logged
<1>3. CASE s.req[j].state \notin Taken
  BY <1>3 DEF Logged, SameLog
<1> QED BY <1>2, <1>3

\* A column moves with the summand of the one request that changes.
LEMMA SumOfMoves ==
  ASSUME NEW str, IsFiniteSet(DOMAIN str), NEW v, NEW u, NEW i \in DOMAIN str,
         \A j \in DOMAIN str : v[j] \in Int /\ u[j] \in Int,
         \A j \in DOMAIN str \ {i} : u[j] = v[j], NEW k
  PROVE  /\ SumOf(v, str, k) \in Int
         /\ Key(str[i]) = k => SumOf(u, str, k) = SumOf(v, str, k) + (u[i] - v[i])
         /\ Key(str[i]) # k => SumOf(u, str, k) = SumOf(v, str, k)
<1> DEFINE D == DOMAIN str
           f == Share(v, str, k)
           g == Share(u, str, k)
<1>1. /\ \A j \in D : f[j] \in Int
      /\ g[i] \in Int /\ \A j \in D \ {i} : g[j] = f[j]
      /\ g[i] - f[i] = IF Key(str[i]) = k THEN u[i] - v[i] ELSE 0
  BY DEF Share
<1> HIDE DEF D, f, g
<1>2. SumOver(f, D) \in Int
  BY <1>1, SumInt DEF D
<1>3. SumOver(g, D) = SumOver(f, D) + (g[i] - f[i])
  BY <1>1, SumPoint DEF D
<1> QED BY <1>1, <1>2, <1>3 DEF SumOf, D, f, g

\* The ledger b and the exposure x move with what request i adds.
BookMoves(s, k, p, q, b, x, m) ==
    /\ b.held = s.book[k].held + (HeldBy(q) - HeldBy(p))
    /\ b.active = s.book[k].active + (Actives(q, m) - Actives(p, m))
    /\ b.settled = s.book[k].settled + (Settles(q) - Settles(p))
    /\ x = s.exposed[k] + (Exposes(q, m) - Exposes(p, m))

\* What a request adds to a column is a natural number.
LEMMA AddsInt ==
  ASSUME NEW q \in ReqRecord, NEW m
  PROVE  HeldBy(q) \in Nat /\ Actives(q, m) \in Nat /\ Settles(q) \in Nat /\ Exposes(q, m) \in Nat
BY DEF ReqRecord, HeldBy, Actives, Settles, Exposes

\* The columns remain sums when one request and its window move alike.
LEMMA BooksStep ==
  ASSUME NEW str, IsFiniteSet(DOMAIN str), NEW i \in DOMAIN str, NEW m,
         NEW s, NEW t, NEW q \in ReqRecord, NEW b \in BookRecord, NEW x \in Int,
         RunRecord(s, str), Books(s, str, m), Becomes(s, t, i, str, q, b, x),
         BookMoves(s, Key(str[i]), s.req[i], q, b, x, m)
  PROVE  Books(t, str, m)
<1> SUFFICES ASSUME NEW k \in Keys(str)
             PROVE  /\ t.book[k].held = SumOf([j \in DOMAIN str |-> HeldBy(t.req[j])], str, k)
                    /\ t.book[k].active = SumOf([j \in DOMAIN str |-> Actives(t.req[j], m)], str, k)
                    /\ t.book[k].settled = SumOf([j \in DOMAIN str |-> Settles(t.req[j])], str, k)
                    /\ t.exposed[k] = SumOf([j \in DOMAIN str |-> Exposes(t.req[j], m)], str, k)
  BY DEF Books
<1> DEFINE D == DOMAIN str
<1>1. /\ s.req \in [D -> ReqRecord] /\ t.req = [s.req EXCEPT ![i] = q]
      /\ s.book \in [Keys(str) -> BookRecord] /\ s.exposed \in [Keys(str) -> Int]
  BY DEF RunRecord, Becomes, ReqRecord, BookRecord
<1>2. /\ \A j \in D : s.req[j] \in ReqRecord /\ t.req[j] \in ReqRecord
      /\ t.req[i] = q /\ \A j \in D \ {i} : t.req[j] = s.req[j]
  BY <1>1
<1>3. /\ Key(str[i]) = k => t.book[k] = b /\ t.exposed[k] = x
      /\ Key(str[i]) # k => t.book[k] = s.book[k] /\ t.exposed[k] = s.exposed[k]
      /\ s.book[k] \in BookRecord /\ s.exposed[k] \in Int
  BY <1>1 DEF Becomes
<1>4. /\ s.book[k].held = SumOf([j \in D |-> HeldBy(s.req[j])], str, k)
      /\ s.book[k].active = SumOf([j \in D |-> Actives(s.req[j], m)], str, k)
      /\ s.book[k].settled = SumOf([j \in D |-> Settles(s.req[j])], str, k)
      /\ s.exposed[k] = SumOf([j \in D |-> Exposes(s.req[j], m)], str, k)
  BY DEF Books
<1>5. /\ Key(str[i]) = k => SumOf([j \in D |-> HeldBy(t.req[j])], str, k)
                               = s.book[k].held + (HeldBy(q) - HeldBy(s.req[i]))
      /\ Key(str[i]) # k => SumOf([j \in D |-> HeldBy(t.req[j])], str, k) = s.book[k].held
  <2> DEFINE v == [j \in D |-> HeldBy(s.req[j])]
             u == [j \in D |-> HeldBy(t.req[j])]
  <2>1. \A j \in DOMAIN str : v[j] \in Int /\ u[j] \in Int
    BY <1>2, AddsInt
  <2>2. \A j \in DOMAIN str \ {i} : u[j] = v[j]
    BY <1>2
  <2>3. u[i] = HeldBy(q) /\ v[i] = HeldBy(s.req[i])
    BY <1>2
  <2>4. s.book[k].held = SumOf(v, str, k)
    BY <1>4
  <2> HIDE DEF u, v
  <2>5. /\ Key(str[i]) = k => SumOf(u, str, k) = SumOf(v, str, k) + (u[i] - v[i])
        /\ Key(str[i]) # k => SumOf(u, str, k) = SumOf(v, str, k)
    BY <2>1, <2>2, SumOfMoves, SMTT(60)
  <2> QED BY <2>3, <2>4, <2>5 DEF u
<1>6. /\ Key(str[i]) = k => SumOf([j \in D |-> Actives(t.req[j], m)], str, k)
                               = s.book[k].active + (Actives(q, m) - Actives(s.req[i], m))
      /\ Key(str[i]) # k => SumOf([j \in D |-> Actives(t.req[j], m)], str, k) = s.book[k].active
  <2> DEFINE v == [j \in D |-> Actives(s.req[j], m)]
             u == [j \in D |-> Actives(t.req[j], m)]
  <2>1. \A j \in DOMAIN str : v[j] \in Int /\ u[j] \in Int
    BY <1>2, AddsInt
  <2>2. \A j \in DOMAIN str \ {i} : u[j] = v[j]
    BY <1>2
  <2>3. u[i] = Actives(q, m) /\ v[i] = Actives(s.req[i], m)
    BY <1>2
  <2>4. s.book[k].active = SumOf(v, str, k)
    BY <1>4
  <2> HIDE DEF u, v
  <2>5. /\ Key(str[i]) = k => SumOf(u, str, k) = SumOf(v, str, k) + (u[i] - v[i])
        /\ Key(str[i]) # k => SumOf(u, str, k) = SumOf(v, str, k)
    BY <2>1, <2>2, SumOfMoves, SMTT(60)
  <2> QED BY <2>3, <2>4, <2>5 DEF u
<1>7. /\ Key(str[i]) = k => SumOf([j \in D |-> Settles(t.req[j])], str, k)
                               = s.book[k].settled + (Settles(q) - Settles(s.req[i]))
      /\ Key(str[i]) # k => SumOf([j \in D |-> Settles(t.req[j])], str, k) = s.book[k].settled
  <2> DEFINE v == [j \in D |-> Settles(s.req[j])]
             u == [j \in D |-> Settles(t.req[j])]
  <2>1. \A j \in DOMAIN str : v[j] \in Int /\ u[j] \in Int
    BY <1>2, AddsInt
  <2>2. \A j \in DOMAIN str \ {i} : u[j] = v[j]
    BY <1>2
  <2>3. u[i] = Settles(q) /\ v[i] = Settles(s.req[i])
    BY <1>2
  <2>4. s.book[k].settled = SumOf(v, str, k)
    BY <1>4
  <2> HIDE DEF u, v
  <2>5. /\ Key(str[i]) = k => SumOf(u, str, k) = SumOf(v, str, k) + (u[i] - v[i])
        /\ Key(str[i]) # k => SumOf(u, str, k) = SumOf(v, str, k)
    BY <2>1, <2>2, SumOfMoves, SMTT(60)
  <2> QED BY <2>3, <2>4, <2>5 DEF u
<1>8. /\ Key(str[i]) = k => SumOf([j \in D |-> Exposes(t.req[j], m)], str, k)
                               = s.exposed[k] + (Exposes(q, m) - Exposes(s.req[i], m))
      /\ Key(str[i]) # k => SumOf([j \in D |-> Exposes(t.req[j], m)], str, k) = s.exposed[k]
  <2> DEFINE v == [j \in D |-> Exposes(s.req[j], m)]
             u == [j \in D |-> Exposes(t.req[j], m)]
  <2>1. \A j \in DOMAIN str : v[j] \in Int /\ u[j] \in Int
    BY <1>2, AddsInt
  <2>2. \A j \in DOMAIN str \ {i} : u[j] = v[j]
    BY <1>2
  <2>3. u[i] = Exposes(q, m) /\ v[i] = Exposes(s.req[i], m)
    BY <1>2
  <2>4. s.exposed[k] = SumOf(v, str, k)
    BY <1>4
  <2> HIDE DEF u, v
  <2>5. /\ Key(str[i]) = k => SumOf(u, str, k) = SumOf(v, str, k) + (u[i] - v[i])
        /\ Key(str[i]) # k => SumOf(u, str, k) = SumOf(v, str, k)
    BY <2>1, <2>2, SumOfMoves, SMTT(60)
  <2> QED BY <2>3, <2>4, <2>5 DEF u
<1>9. s.book[k].held \in Int /\ s.book[k].active \in Int /\ s.book[k].settled \in Int
  BY <1>3 DEF BookRecord
<1>10. CASE Key(str[i]) = k
  BY <1>3, <1>5, <1>6, <1>7, <1>8, <1>10 DEF BookMoves
<1>11. CASE Key(str[i]) # k
  BY <1>3, <1>5, <1>6, <1>7, <1>8, <1>9, <1>11
<1> QED BY <1>10, <1>11

\* A window stays inside its budget when request i enters within it, or weighs no more.
LEMMA CoveredStep ==
  ASSUME NEW str, NEW i \in DOMAIN str, NEW u, NEW s, NEW t, NEW q \in ReqRecord,
         NEW b \in BookRecord, NEW x, RunRecord(s, str), Becomes(s, t, i, str, q, b, x),
         Covered(s, str, u), \A j \in DOMAIN str : str[j].budget \in Nat,
         \A j \in DOMAIN str : Key(str[i]) = Key(str[j]) => str[i].budget = str[j].budget,
         s.req[i].state \in Taken => q.state \in Taken,
         q.state \notin Taken => b = s.book[Key(str[i])],
         q.state \in Taken /\ Nominal(str[i], u[i]) =>
            \/ b.settled + b.held <= str[i].budget
            \/ /\ s.req[i].state \in Taken
               /\ b.settled + b.held <= s.book[Key(str[i])].settled + s.book[Key(str[i])].held
  PROVE  Covered(t, str, u)
<1> SUFFICES ASSUME NEW k \in Keys(str),
                    \A j \in OpenIn(t, str, k) : Nominal(str[j], u[j]),
                    NEW j \in OpenIn(t, str, k)
             PROVE  t.book[k].settled + t.book[k].held <= str[j].budget
  BY DEF Covered
<1>1. /\ s.req \in [DOMAIN str -> ReqRecord] /\ t.req = [s.req EXCEPT ![i] = q]
      /\ s.book \in [Keys(str) -> BookRecord]
  BY DEF RunRecord, Becomes, ReqRecord, BookRecord
<1>2. /\ t.req[i] = q /\ \A h \in DOMAIN str \ {i} : t.req[h] = s.req[h]
      /\ j \in DOMAIN str /\ Key(str[j]) = k /\ t.req[j].state \in Taken
  BY <1>1 DEF OpenIn
<1>3. OpenIn(s, str, k) \subseteq OpenIn(t, str, k)
  BY <1>2 DEF OpenIn
<1>4. \A h \in OpenIn(s, str, k) : s.book[k].settled + s.book[k].held <= str[h].budget
  BY <1>3 DEF Covered
<1>5. /\ Key(str[i]) = k => t.book[k] = b
      /\ Key(str[i]) # k => t.book[k] = s.book[k]
      /\ s.book[k] \in BookRecord
  BY <1>1 DEF Becomes
<1>6. CASE Key(str[i]) # k
  <2>1. j \in OpenIn(s, str, k)
    BY <1>2, <1>6 DEF OpenIn
  <2> QED BY <1>4, <1>5, <1>6, <2>1
<1>7. CASE Key(str[i]) = k /\ q.state \notin Taken
  <2>1. j \in OpenIn(s, str, k)
    BY <1>2, <1>7 DEF OpenIn
  <2> QED BY <1>4, <1>5, <1>7, <2>1
<1>8. CASE Key(str[i]) = k /\ q.state \in Taken
  <2>1. i \in OpenIn(t, str, k)
    BY <1>2, <1>8 DEF OpenIn
  <2>2. Nominal(str[i], u[i]) /\ str[i].budget = str[j].budget
    BY <1>2, <1>8, <2>1
  <2>3. CASE b.settled + b.held <= str[i].budget
    BY <1>5, <1>8, <2>2, <2>3
  <2>4. CASE /\ s.req[i].state \in Taken
             /\ b.settled + b.held <= s.book[k].settled + s.book[k].held
    <3>1. i \in OpenIn(s, str, k)
      BY <1>8, <2>4 DEF OpenIn
    <3>2. s.book[k].settled + s.book[k].held <= str[i].budget
      BY <1>4, <3>1
    <3> QED BY <1>5, <1>8, <2>2, <2>4, <3>2 DEF BookRecord
  <2> QED BY <1>8, <2>2, <2>3, <2>4
<1> QED BY <1>6, <1>7, <1>8


-----------------------------------------------------------------------------
(* The causal runner: every event keeps a run in order *)

\* The run s, in world w and with st events processed, is in order.
InOrderAt(s, w, st) == RunOK(s, stream, st, usage[w], method, evidence)

\* What is true of a run whose request i changes.
LEMMA ChangeStep ==
  ASSUME Setting, NEW i \in DOMAIN stream, NEW w \in Worlds, NEW s, NEW t,
         NEW st, st = [stage EXCEPT ![i] = @ + 1],
         InOrderAt(s, w, stage), ~s.aborted, t.aborted = FALSE,
         NEW q \in ReqRecord, NEW b \in BookRecord, NEW x \in Int,
         Becomes(s, t, i, stream, q, b, x),
         t.rows \in Seq(LogRow), t.access \in Seq(LogAccess),
         \A j \in DOMAIN stream \ {i} : SameLog(s, t, j),
         Progress(t, i, stage[i] + 1), Logged(t, i, stage[i] + 1, stream[i]),
         Amounts(q, stream[i], usage[w][i], method, evidence),
         BookMoves(s, Key(stream[i]), s.req[i], q, b, x, method),
         s.req[i].state \in Taken => q.state \in Taken,
         q.state \notin Taken => b = s.book[Key(stream[i])],
         ReservesCap(method, evidence) /\ q.state \in Taken /\ Nominal(stream[i], usage[w][i]) =>
            \/ b.settled + b.held <= stream[i].budget
            \/ /\ s.req[i].state \in Taken
               /\ b.settled + b.held
                    <= s.book[Key(stream[i])].settled + s.book[Key(stream[i])].held
  PROVE  InOrderAt(t, w, st)
<1> DEFINE u == usage[w]
<1>0. /\ RunRecord(s, stream) /\ Books(s, stream, method)
      /\ ReservesCap(method, evidence) => Covered(s, stream, u)
      /\ \A j \in DOMAIN stream : /\ Progress(s, j, stage[j]) /\ Logged(s, j, stage[j], stream[j])
                                  /\ Amounts(s.req[j], stream[j], u[j], method, evidence)
  BY DEF InOrderAt, RunOK
<1>1. /\ s.req \in [DOMAIN stream -> ReqRecord] /\ s.book \in [Keys(stream) -> BookRecord]
      /\ s.exposed \in [Keys(stream) -> Int]
      /\ DOMAIN s = {"req", "book", "exposed", "rows", "access", "aborted"}
  BY <1>0 DEF RunRecord, ReqRecord, BookRecord
<1>2. RunRecord(t, stream)
  <2>1. /\ t.req \in [DOMAIN stream -> ReqRecord] /\ t.book \in [Keys(stream) -> BookRecord]
        /\ t.exposed \in [Keys(stream) -> Int]
    BY <1>1, ZenonT(60) DEF Becomes
  <2> QED BY <1>1, <2>1 DEF RunRecord, Becomes, ReqRecord, BookRecord
<1>3. /\ t.req[i] = q /\ \A j \in DOMAIN stream \ {i} : t.req[j] = s.req[j]
      /\ st[i] = stage[i] + 1 /\ \A j \in DOMAIN stream \ {i} : st[j] = stage[j]
      /\ \A j \in DOMAIN stream : stage[j] \in Nat
  <2>1. t.req[i] = q /\ \A j \in DOMAIN stream \ {i} : t.req[j] = s.req[j]
    BY <1>1 DEF Becomes
  <2>2. stage \in [DOMAIN stream -> 0 .. 4]
    BY DEF Setting
  <2> QED BY <2>1, <2>2
<1>4. ASSUME NEW j \in DOMAIN stream
      PROVE  /\ Progress(t, j, st[j]) /\ Logged(t, j, st[j], stream[j])
             /\ Amounts(t.req[j], stream[j], u[j], method, evidence)
  <2>1. CASE j = i
    BY <1>3, <2>1
  <2>2. CASE j # i
    <3>1. t.req[j] = s.req[j] /\ st[j] = stage[j] /\ stage[j] \in Nat /\ SameLog(s, t, j)
      BY <1>3, <2>2
    <3>2. Logged(t, j, st[j], stream[j])
      BY <1>0, <3>1, LoggedStays
    <3>3. Progress(t, j, st[j])
      BY <1>0, <3>1 DEF Progress
    <3> QED BY <1>0, <3>1, <3>2, <3>3
  <2> QED BY <2>1, <2>2
<1>5. Books(t, stream, method)
  BY <1>0, StreamFacts, BooksStep
<1>6. ASSUME ReservesCap(method, evidence) PROVE Covered(t, stream, u)
  <2>1. /\ \A j \in DOMAIN stream : stream[j].budget \in Nat
        /\ \A j \in DOMAIN stream :
             Key(stream[i]) = Key(stream[j]) => stream[i].budget = stream[j].budget
    BY StreamFacts DEF OpportunityV2
  <2>2. Covered(s, stream, u)
    BY <1>0, <1>6
  <2>3. q.state \in Taken /\ Nominal(stream[i], u[i]) =>
          \/ b.settled + b.held <= stream[i].budget
          \/ /\ s.req[i].state \in Taken
             /\ b.settled + b.held
                  <= s.book[Key(stream[i])].settled + s.book[Key(stream[i])].held
    BY <1>6
  <2> HIDE DEF u
  <2> QED BY <1>0, <2>1, <2>2, <2>3, CoveredStep
<1> QED BY <1>2, <1>4, <1>5, <1>6 DEF InOrderAt, RunOK

\* What is true of a run whose requests and ledgers stay.
LEMMA FrameStep ==
  ASSUME Setting, NEW i \in DOMAIN stream, NEW w \in Worlds, NEW s, NEW t,
         NEW st, st = [stage EXCEPT ![i] = @ + 1], InOrderAt(s, w, stage),
         DOMAIN t = DOMAIN s, t.aborted \in BOOLEAN,
         t.req = s.req, t.book = s.book, t.exposed = s.exposed,
         t.rows \in Seq(LogRow), t.access \in Seq(LogAccess),
         \A j \in DOMAIN stream \ {i} : SameLog(s, t, j),
         Logged(t, i, stage[i] + 1, stream[i]),
         Progress(t, i, stage[i] + 1),
         s.aborted => t.aborted
  PROVE  InOrderAt(t, w, st)
<1> DEFINE u == usage[w]
<1>0. /\ RunRecord(s, stream) /\ Books(s, stream, method)
      /\ ReservesCap(method, evidence) => Covered(s, stream, u)
      /\ \A j \in DOMAIN stream : /\ Progress(s, j, stage[j]) /\ Logged(s, j, stage[j], stream[j])
                                  /\ Amounts(s.req[j], stream[j], u[j], method, evidence)
  BY DEF InOrderAt, RunOK
<1>1. RunRecord(t, stream)
  BY <1>0 DEF RunRecord
<1>2. /\ st[i] = stage[i] + 1 /\ \A j \in DOMAIN stream \ {i} : st[j] = stage[j]
      /\ \A j \in DOMAIN stream : stage[j] \in Nat
  BY DEF Setting
<1>3. ASSUME NEW j \in DOMAIN stream
      PROVE  /\ Progress(t, j, st[j]) /\ Logged(t, j, st[j], stream[j])
             /\ Amounts(t.req[j], stream[j], u[j], method, evidence)
  <2>1. CASE j = i
    BY <1>0, <1>2, <2>1
  <2>2. CASE j # i
    <3>1. st[j] = stage[j] /\ stage[j] \in Nat /\ SameLog(s, t, j)
      BY <1>2, <2>2
    <3>2. Logged(t, j, st[j], stream[j])
      BY <1>0, <3>1, LoggedStays
    <3>3. Progress(t, j, st[j])
      BY <1>0, <3>1 DEF Progress
    <3> QED BY <1>0, <3>1, <3>2, <3>3
  <2> QED BY <2>1, <2>2
<1>4. Books(t, stream, method)
  BY <1>0 DEF Books
<1>5. ReservesCap(method, evidence) => Covered(t, stream, u)
  BY <1>0 DEF Covered, OpenIn
<1> QED BY <1>1, <1>3, <1>4, <1>5 DEF InOrderAt, RunOK

\* Nothing happens in a run that has ended, or to a request that was refused.
LEMMA StayStep ==
  ASSUME Setting, NEW i \in DOMAIN stream, NEW w \in Worlds, NEW s,
         NEW st, st = [stage EXCEPT ![i] = @ + 1], InOrderAt(s, w, stage),
         s.aborted \/ s.req[i].state = "refused"
  PROVE  InOrderAt(s, w, st)
<1>1. /\ RunRecord(s, stream) /\ Progress(s, i, stage[i]) /\ Logged(s, i, stage[i], stream[i])
      /\ stage[i] \in Nat
  BY DEF InOrderAt, RunOK, Setting
<1>2. \A j : SameLog(s, s, j)
  BY DEF SameLog
<1>3. Logged(s, i, stage[i] + 1, stream[i])
  <2>1. stage[i] + 1 \in Nat /\ stage[i] <= stage[i] + 1
    BY <1>1
  <2> QED BY <1>1, <1>2, <2>1, LoggedStays
<1>4. Progress(s, i, stage[i] + 1)
  BY <1>1 DEF Progress
<1>5. s.aborted \in BOOLEAN /\ s.rows \in Seq(LogRow) /\ s.access \in Seq(LogAccess)
  BY <1>1 DEF RunRecord
<1>6. /\ DOMAIN s = DOMAIN s /\ s.req = s.req /\ s.book = s.book /\ s.exposed = s.exposed
      /\ (s.aborted => s.aborted)
  OBVIOUS
<1> QED BY <1>2, <1>3, <1>4, <1>5, <1>6, FrameStep, ZenonT(90)


\* What is known of a run, and of its request i, before an event of i.
LEMMA BeforeEvent ==
  ASSUME Setting, NEW i \in DOMAIN stream, NEW w \in Worlds, NEW s, InOrderAt(s, w, stage)
  PROVE  /\ RunRecord(s, stream) /\ s.rows \in Seq(LogRow) /\ s.access \in Seq(LogAccess)
         /\ s.aborted \in BOOLEAN /\ s.req[i] \in ReqRecord
         /\ s.book[Key(stream[i])] \in BookRecord /\ s.exposed[Key(stream[i])] \in Int
         /\ Progress(s, i, stage[i]) /\ Logged(s, i, stage[i], stream[i])
         /\ Amounts(s.req[i], stream[i], usage[w][i], method, evidence)
BY DEF InOrderAt, RunOK, RunRecord, ReqRecord, BookRecord, Keys

\* Admitting and settling keep a ledger a ledger.
LEMMA BookTypes ==
  ASSUME NEW m, NEW r \in Int, NEW c \in Int, NEW b \in BookRecord
  PROVE  AdmitIn(m, r, b) \in BookRecord /\ SettleIn(m, r, c, b) \in BookRecord
<1>1. b.settled \in Int /\ b.held \in Int /\ b.active \in Int
  BY DEF BookRecord
<1>2. AdmitIn(m, r, b) \in BookRecord
  <2>1. CASE Reserving(m)
    <3> DEFINE h == b.held + r
               a == b.active + 1
               c1 == [b EXCEPT !.held = h]
               c2 == [c1 EXCEPT !.active = a]
    <3>1. h \in Int /\ a \in Int
      BY <1>1
    <3>2. AdmitIn(m, r, b) = c2
      BY <2>1, <1>1 DEF AdmitIn, BookRecord
    <3> HIDE DEF h, a
    <3>3. c1 \in BookRecord
      BY <3>1 DEF BookRecord
    <3> HIDE DEF c1
    <3>4. c2 \in BookRecord
      BY <3>1, <3>3 DEF BookRecord
    <3> QED BY <3>2, <3>4
  <2>2. CASE ~Reserving(m)
    BY <2>2 DEF AdmitIn
  <2> QED BY <2>1, <2>2
<1>3. SettleIn(m, r, c, b) \in BookRecord
  BY <1>1 DEF SettleIn, BookRecord
<1> QED BY <1>2, <1>3

\* An arrival keeps a run in order: what it admits fits the budget that is left.
LEMMA ArrivalStep ==
  ASSUME Setting, NEW i \in DOMAIN stream, NEW w \in Worlds, NEW s,
         NEW st, st = [stage EXCEPT ![i] = @ + 1], InOrderAt(s, w, stage),
         ~s.aborted, stage[i] = 0
  PROVE  InOrderAt(OnArrival(s, i), w, st)
<1> DEFINE t == OnArrival(s, i)
           key == Key(stream[i])
           amt == expectedReservation(method, evidence, stream[i])
           ra == Row("admission", i, 1)
           rc == Row("dispatch_claim", i, 1)
           rd == Row("dispatch_delivered", i, 1)
           aa == Access("authorize", i, stream[i].arrival)
           bk == s.book[key]
<1>0. /\ RunRecord(s, stream) /\ s.rows \in Seq(LogRow) /\ s.access \in Seq(LogAccess)
      /\ s.req[i] \in ReqRecord /\ bk \in BookRecord /\ s.exposed[key] \in Int
      /\ s.req[i].state = "none" /\ s.req[i].reserved = 0 /\ s.req[i].cost = 0
  BY BeforeEvent DEF Progress, Amounts, Taken
<1>1. /\ Deliveries(s.rows, i) = {} /\ Accesses(s.access, "authorize", i) = {}
      /\ Accesses(s.access, "reveal", i) = {}
  BY <1>0, BeforeEvent DEF Logged, Taken
<1>2. amt \in Nat /\ (~Reserving(method) => amt = 0)
  BY AmountFacts
<1>3. /\ ra \in LogRow /\ ra.event = "admission" /\ rc \in LogRow /\ rc.event = "dispatch_claim"
      /\ rd \in LogRow /\ rd.event = "dispatch_delivered" /\ rd.req = i
  <2>1. ra \in LogRow /\ ra.event = "admission"
    BY RowFacts
  <2>2. rc \in LogRow /\ rc.event = "dispatch_claim"
    BY RowFacts
  <2>3. rd \in LogRow /\ rd.event = "dispatch_delivered" /\ rd.req = i
    BY RowFacts
  <2> QED BY <2>1, <2>2, <2>3
<1>4. aa \in LogAccess /\ aa.kind = "authorize" /\ aa.req = i
  BY StreamFacts DEF Access, LogAccess, OpportunityV2
<1>5. CASE /\ Admits(method, amt, stream[i], bk)
           /\ Becomes(s, t, i, stream, [state |-> "dispatched", reserved |-> amt, cost |-> 0],
                      AdmitIn(method, amt, bk), s.exposed[key])
           /\ t.rows = Append(Append(Append(s.rows, ra), rc), rd)
           /\ t.access = Append(s.access, aa)
           /\ ~t.aborted
  <2> DEFINE q == [state |-> "dispatched", reserved |-> amt, cost |-> 0]
             b == AdmitIn(method, amt, bk)
             r1 == Append(s.rows, ra)
             r2 == Append(r1, rc)
             m == Len(r2) + 1
             n == Len(s.access) + 1
  <2> HIDE DEF t, amt, ra, rc, rd, aa, bk
  <2>1. q \in ReqRecord /\ b \in BookRecord
    <3>1. q \in ReqRecord
      BY <1>2 DEF ReqRecord, ReqStates
    <3>2. b \in BookRecord
      <4>1. amt \in Int /\ 0 \in Int /\ bk \in BookRecord
        BY <1>0, <1>2
      <4> QED BY <4>1, BookTypes
    <3> QED BY <3>1, <3>2
  <2>2. /\ r1 \in Seq(LogRow) /\ DOMAIN s.rows \subseteq DOMAIN r1
        /\ \A j : Deliveries(r1, j) = Deliveries(s.rows, j)
    <3> DEFINE old == s.rows
    <3>1. old \in Seq(LogRow)
      BY <1>0
    <3> HIDE DEF old
    <3>2. LET new == Append(old, ra)
          IN  /\ new \in Seq(LogRow) /\ DOMAIN old \subseteq DOMAIN new
              /\ \A j : Deliveries(new, j) = Deliveries(old, j)
      BY <1>3, <3>1, RowAppended
    <3> QED BY <3>2 DEF old
  <2>3. /\ r2 \in Seq(LogRow) /\ DOMAIN r1 \subseteq DOMAIN r2
        /\ \A j : Deliveries(r2, j) = Deliveries(r1, j)
    <3> HIDE DEF r1
    <3> QED BY <1>3, <2>2, RowAppended
  <2>4. /\ t.rows \in Seq(LogRow) /\ m \in DOMAIN t.rows /\ DOMAIN r2 \subseteq DOMAIN t.rows
        /\ Deliveries(t.rows, i) = Deliveries(r2, i) \cup {m}
        /\ \A j : j # i => Deliveries(t.rows, j) = Deliveries(r2, j)
    <3>1. t.rows = Append(r2, rd)
      BY <1>5
    <3> HIDE DEF r2
    <3>2. LET new == Append(r2, rd)
          IN  /\ new \in Seq(LogRow) /\ m \in DOMAIN new /\ DOMAIN r2 \subseteq DOMAIN new
              /\ Deliveries(new, rd.req) = Deliveries(r2, rd.req) \cup {m}
              /\ \A j : rd.req # j => Deliveries(new, j) = Deliveries(r2, j)
      BY <1>3, <2>3, RowAppended
    <3> QED BY <1>3, <3>1, <3>2
  <2>5. /\ t.access \in Seq(LogAccess) /\ n \in DOMAIN t.access
        /\ Accesses(t.access, "authorize", i) = Accesses(s.access, "authorize", i) \cup {n}
        /\ \A kind, j : ~(kind = "authorize" /\ i = j) =>
                           Accesses(t.access, kind, j) = Accesses(s.access, kind, j)
        /\ \A h \in DOMAIN s.access : h \in DOMAIN t.access /\ t.access[h] = s.access[h]
    <3> DEFINE old == s.access
    <3>1. old \in Seq(LogAccess) /\ t.access = Append(old, aa)
      BY <1>0, <1>5
    <3> HIDE DEF old
    <3>2. LET new == Append(old, aa)
              k == Len(old) + 1
          IN  /\ new \in Seq(LogAccess) /\ k \in DOMAIN new
              /\ Accesses(new, aa.kind, aa.req) = Accesses(old, aa.kind, aa.req) \cup {k}
              /\ \A kind, j : ~(aa.kind = kind /\ aa.req = j) =>
                                 Accesses(new, kind, j) = Accesses(old, kind, j)
              /\ \A h \in DOMAIN old : h \in DOMAIN new /\ new[h] = old[h]
      BY <1>4, <3>1, AccessAppended, SMTT(60)
    <3>3. /\ Accesses(t.access, "authorize", i) = Accesses(old, "authorize", i) \cup {Len(old) + 1}
          /\ \A kind, j : ~(kind = "authorize" /\ i = j) =>
                             Accesses(t.access, kind, j) = Accesses(old, kind, j)
      BY <1>4, <3>1, <3>2
    <3> QED BY <3>1, <3>2, <3>3 DEF old
  <2> HIDE DEF m, n, r1, r2
  <2>6. \A j \in DOMAIN stream \ {i} : SameLog(s, t, j)
    BY <2>2, <2>3, <2>4, <2>5 DEF SameLog
  <2>7. t.req[i] = q
    BY <1>0, <1>5 DEF Becomes, RunRecord
  <2>8. Logged(t, i, 1, stream[i])
    <3>1. t.req[i].state \in Taken
      BY <2>7 DEF Taken
    <3>2. Deliveries(t.rows, i) = {m} /\ m \in DOMAIN t.rows
      BY <1>1, <2>2, <2>3, <2>4
    <3>3. /\ Accesses(t.access, "authorize", i) = {n} /\ n \in DOMAIN t.access
          /\ Accesses(t.access, "reveal", i) = {}
      BY <1>1, <2>5
    <3> QED BY <3>1, <3>2, <3>3 DEF Logged
  <2>9. Progress(t, i, 1)
    BY <2>7 DEF Progress
  <2>10. Amounts(q, stream[i], usage[w][i], method, evidence)
    BY DEF Amounts, Taken, amt
  <2>11. BookMoves(s, key, s.req[i], q, b, s.exposed[key], method)
    <3>1. HeldBy(q) = amt /\ Settles(q) = 0 /\ Exposes(q, method) = 0
          /\ Actives(q, method) = IF Reserving(method) THEN 1 ELSE 0
      BY DEF HeldBy, Settles, Exposes, Actives
    <3>2. HeldBy(s.req[i]) = 0 /\ Settles(s.req[i]) = 0 /\ Exposes(s.req[i], method) = 0
          /\ Actives(s.req[i], method) = 0
      BY <1>0 DEF HeldBy, Settles, Exposes, Actives
    <3>3. /\ b.held = bk.held + amt /\ b.settled = bk.settled
          /\ b.active = bk.active + (IF Reserving(method) THEN 1 ELSE 0)
      BY <1>0, <1>2 DEF AdmitIn, BookRecord
    <3> HIDE DEF q, b
    <3>4. bk.held \in Int /\ bk.settled \in Int /\ bk.active \in Int /\ bk = s.book[key]
      BY <1>0 DEF BookRecord, bk
    <3> QED BY <1>0, <1>2, <3>1, <3>2, <3>3, <3>4 DEF BookMoves
  <2>12. ReservesCap(method, evidence) => b.settled + b.held <= stream[i].budget
    <3>1. SUFFICES ASSUME ReservesCap(method, evidence)
                   PROVE  b.settled + b.held <= stream[i].budget
      OBVIOUS
    <3>2. Reserving(method) /\ amt <= stream[i].budget - bk.settled - bk.held
      BY <1>5, <3>1 DEF ReservesCap, Reserving, Admits
    <3>3. b.held = bk.held + amt /\ b.settled = bk.settled
      BY <1>0, <3>2 DEF AdmitIn, BookRecord
    <3>4. bk.held \in Int /\ bk.settled \in Int /\ stream[i].budget \in Nat
      BY <1>0, StreamFacts DEF BookRecord, OpportunityV2
    <3> QED BY <1>2, <3>2, <3>3, <3>4
  <2>13. q.state \in Taken /\ t.aborted = FALSE /\ s.req[i].state \notin Taken
    BY <1>0, <1>5 DEF Taken
  <2>14. Becomes(s, t, i, stream, q, b, s.exposed[key])
    BY <1>5
  <2> HIDE DEF q, b
  <2>15. Logged(t, i, stage[i] + 1, stream[i]) /\ Progress(t, i, stage[i] + 1)
    BY <2>8, <2>9
  <2>16. InOrderAt(t, w, st)
    BY <1>0, <2>1, <2>4, <2>5, <2>6, <2>10, <2>11, <2>12, <2>13, <2>14, <2>15, ChangeStep
  <2> QED BY <2>16 DEF t
<1>6. CASE /\ ~Admits(method, amt, stream[i], bk)
           /\ Becomes(s, t, i, stream, [s.req[i] EXCEPT !.state = "refused"], bk, s.exposed[key])
           /\ t.rows = Append(s.rows, ra) /\ t.access = s.access /\ ~t.aborted
  <2> DEFINE q == [s.req[i] EXCEPT !.state = "refused"]
  <2> HIDE DEF t, amt, ra, rc, rd, aa
  <2>1. q \in ReqRecord /\ q.state = "refused" /\ q.reserved = 0 /\ q.cost = 0
    BY <1>0 DEF ReqRecord, ReqStates
  <2>2. /\ t.rows \in Seq(LogRow) /\ DOMAIN s.rows \subseteq DOMAIN t.rows
        /\ \A j : Deliveries(t.rows, j) = Deliveries(s.rows, j)
    <3> DEFINE old == s.rows
    <3>1. old \in Seq(LogRow) /\ t.rows = Append(old, ra)
      BY <1>0, <1>6
    <3> HIDE DEF old
    <3> QED BY <1>3, <3>1, RowAppended DEF old
  <2> HIDE DEF q
  <2>3. \A j : SameLog(s, t, j)
    BY <1>6, <2>2 DEF SameLog
  <2>4. t.req[i] = q
    BY <1>0, <1>6 DEF Becomes, RunRecord, q
  <2>5. Logged(t, i, 1, stream[i])
    BY <1>1, <1>6, <2>1, <2>2, <2>4 DEF Logged, Taken
  <2>6. Progress(t, i, 1)
    BY <2>1, <2>4 DEF Progress
  <2>7. Amounts(q, stream[i], usage[w][i], method, evidence)
    BY <2>1 DEF Amounts, Taken
  <2>8. BookMoves(s, key, s.req[i], q, bk, s.exposed[key], method)
    <3>1. HeldBy(q) = 0 /\ Settles(q) = 0 /\ Exposes(q, method) = 0 /\ Actives(q, method) = 0
      BY <2>1 DEF HeldBy, Settles, Exposes, Actives
    <3>2. HeldBy(s.req[i]) = 0 /\ Settles(s.req[i]) = 0 /\ Exposes(s.req[i], method) = 0
          /\ Actives(s.req[i], method) = 0
      BY <1>0 DEF HeldBy, Settles, Exposes, Actives
    <3> QED BY <1>0, <3>1, <3>2 DEF BookMoves, BookRecord
  <2>9. q.state \notin Taken /\ t.aborted = FALSE /\ s.req[i].state \notin Taken
    BY <1>0, <1>6, <2>1 DEF Taken
  <2>10. Becomes(s, t, i, stream, q, bk, s.exposed[key]) /\ t.access \in Seq(LogAccess)
    BY <1>0, <1>6 DEF q
  <2>11. Logged(t, i, stage[i] + 1, stream[i]) /\ Progress(t, i, stage[i] + 1)
    BY <2>5, <2>6
  <2>12. InOrderAt(t, w, st)
    BY <1>0, <2>1, <2>2, <2>3, <2>7, <2>8, <2>9, <2>10, <2>11, ChangeStep
  <2> QED BY <2>12 DEF t
<1>7. \/ /\ Admits(method, amt, stream[i], bk)
         /\ Becomes(s, t, i, stream, [state |-> "dispatched", reserved |-> amt, cost |-> 0],
                    AdmitIn(method, amt, bk), s.exposed[key])
         /\ t.rows = Append(Append(Append(s.rows, ra), rc), rd)
         /\ t.access = Append(s.access, aa)
         /\ ~t.aborted
      \/ /\ ~Admits(method, amt, stream[i], bk)
         /\ Becomes(s, t, i, stream, [s.req[i] EXCEPT !.state = "refused"], bk, s.exposed[key])
         /\ t.rows = Append(s.rows, ra) /\ t.access = s.access /\ ~t.aborted
  BY <1>0, <1>1, ArrivalEffect
<1> QED BY <1>5, <1>6, <1>7


\* A row that is no delivery leaves every request's logs alone.
LEMMA RowOnly ==
  ASSUME NEW s, NEW t, s.rows \in Seq(LogRow), NEW a \in LogRow, a.event # "dispatch_delivered",
         t.rows = Append(s.rows, a), t.access = s.access
  PROVE  t.rows \in Seq(LogRow) /\ \A j : SameLog(s, t, j)
<1> DEFINE old == s.rows
<1>1. old \in Seq(LogRow) /\ t.rows = Append(old, a)
  OBVIOUS
<1>2. /\ t.rows \in Seq(LogRow) /\ DOMAIN old \subseteq DOMAIN t.rows
      /\ \A j : Deliveries(t.rows, j) = Deliveries(old, j)
  <2> HIDE DEF old
  <2> QED BY <1>1, RowAppended
<1> QED BY <1>2 DEF SameLog

\* The first reveal of a dispatched request, at the instant its usage is available.
LEMMA RevealLogged ==
  ASSUME Setting, NEW i \in DOMAIN stream, NEW s, NEW t,
         s.rows \in Seq(LogRow), s.access \in Seq(LogAccess), s.req[i].state \in Taken,
         t.req[i].state \in Taken, Logged(s, i, 2, stream[i]),
         NEW r, r.rows = t.rows, r.access = s.access, \A j : SameLog(s, r, j),
         t.access = Append(s.access, Access("reveal", i, stream[i].available))
  PROVE  /\ t.access \in Seq(LogAccess) /\ Logged(t, i, 3, stream[i])
         /\ \A j \in DOMAIN stream \ {i} : SameLog(s, t, j)
<1> DEFINE old == s.access
           aa == Access("reveal", i, stream[i].available)
           n == Len(old) + 1
<1>1. aa \in LogAccess /\ aa.kind = "reveal" /\ aa.req = i /\ aa.at = stream[i].available
  BY StreamFacts DEF Access, LogAccess, OpportunityV2
<1>2. old \in Seq(LogAccess) /\ t.access = Append(old, aa)
  OBVIOUS
<1> HIDE DEF aa
<1>3. LET new == Append(old, aa)
      IN  /\ new \in Seq(LogAccess) /\ n \in DOMAIN new /\ new[n] = aa
          /\ Accesses(new, aa.kind, aa.req) = Accesses(old, aa.kind, aa.req) \cup {n}
          /\ \A kind, j : ~(aa.kind = kind /\ aa.req = j) =>
                             Accesses(new, kind, j) = Accesses(old, kind, j)
          /\ \A h \in DOMAIN old : h \in DOMAIN new /\ new[h] = old[h] /\ h < n
  <2> HIDE DEF old
  <2> QED BY <1>1, <1>2, AccessAppended DEF n
<1>4. /\ t.access \in Seq(LogAccess) /\ n \in DOMAIN t.access
      /\ t.access[n].at = stream[i].available
      /\ Accesses(t.access, "reveal", i) = Accesses(old, "reveal", i) \cup {n}
      /\ \A kind, j : ~(kind = "reveal" /\ i = j) =>
                         Accesses(t.access, kind, j) = Accesses(old, kind, j)
      /\ \A h \in DOMAIN old : h \in DOMAIN t.access /\ t.access[h] = old[h] /\ h < n
  BY <1>1, <1>2, <1>3
<1>5. Accesses(old, "reveal", i) = {}
  BY DEF Logged
<1>6. PICK d \in DOMAIN s.rows : Deliveries(s.rows, i) = {d}
  BY DEF Logged
<1>7. PICK a \in DOMAIN old : Accesses(old, "authorize", i) = {a}
  BY DEF Logged
<1> HIDE DEF old, n
<1>8. d \in DOMAIN t.rows /\ Deliveries(t.rows, i) = {d}
  BY <1>6 DEF SameLog
<1>9. a \in DOMAIN t.access /\ Accesses(t.access, "authorize", i) = {a} /\ a < n
  BY <1>4, <1>7
<1>10. Logged(t, i, 3, stream[i])
  <2>1. Accesses(t.access, "reveal", i) = {n}
    BY <1>4, <1>5
  <2>2. \A b \in Accesses(t.access, "reveal", i) :
          a < b /\ 3 >= 3 /\ t.access[b].at = stream[i].available
    BY <1>4, <1>9, <2>1
  <2>3. \A b, c \in Accesses(t.access, "reveal", i) : b = c
    BY <2>1
  <2>4. \E e \in DOMAIN t.rows : Deliveries(t.rows, i) = {e}
    BY <1>8
  <2>5. \E e \in DOMAIN t.access :
          /\ Accesses(t.access, "authorize", i) = {e}
          /\ \A b \in Accesses(t.access, "reveal", i) :
               e < b /\ 3 >= 3 /\ t.access[b].at = stream[i].available
    BY <1>9, <2>2
  <2> QED BY <2>3, <2>4, <2>5 DEF Logged
<1>11. \A j \in DOMAIN stream \ {i} : SameLog(s, t, j)
  BY <1>4 DEF SameLog, old
<1> QED BY <1>4, <1>10, <1>11

\* A response is a row and nothing else.
LEMMA ResponseStep ==
  ASSUME Setting, NEW i \in DOMAIN stream, NEW w \in Worlds, NEW s,
         NEW st, st = [stage EXCEPT ![i] = @ + 1], InOrderAt(s, w, stage),
         ~s.aborted, stage[i] = 1
  PROVE  InOrderAt(OnResponse(s, i), w, st)
<1> DEFINE t == OnResponse(s, i)
           ra == Row("provider_response", i, 2)
<1>0. /\ RunRecord(s, stream) /\ s.rows \in Seq(LogRow) /\ s.access \in Seq(LogAccess)
      /\ Progress(s, i, 1) /\ Logged(s, i, 1, stream[i])
  BY BeforeEvent
<1>1. ra \in LogRow /\ ra.event # "dispatch_delivered"
  BY RowFacts
<1>2. CASE s.req[i].state = "refused"
  BY <1>2, StayStep DEF OnResponse
<1>3. CASE s.req[i].state # "refused"
  <2>1. /\ DOMAIN t = DOMAIN s /\ t.req = s.req /\ t.book = s.book /\ t.exposed = s.exposed
        /\ t.access = s.access /\ t.aborted = s.aborted /\ t.rows = Append(s.rows, ra)
    BY <1>0, <1>3 DEF OnResponse, RunRecord
  <2> HIDE DEF t, ra
  <2>2. t.rows \in Seq(LogRow) /\ \A j : SameLog(s, t, j)
    BY <1>0, <1>1, <2>1, RowOnly
  <2>3. Logged(t, i, stage[i] + 1, stream[i])
    <3>1. 1 \in Nat /\ 2 \in Nat /\ 1 <= 2 /\ stage[i] + 1 = 2
      OBVIOUS
    <3>2. Logged(t, i, 2, stream[i])
      BY <1>0, <2>1, <2>2, <3>1, LoggedStays
    <3> QED BY <3>1, <3>2
  <2>4. Progress(t, i, stage[i] + 1)
    BY <1>0, <2>1 DEF Progress
  <2>5. t.aborted \in BOOLEAN /\ t.access \in Seq(LogAccess) /\ (s.aborted => t.aborted)
    BY <1>0, <2>1 DEF RunRecord
  <2>6. InOrderAt(t, w, st)
    BY <2>1, <2>2, <2>3, <2>4, <2>5, FrameStep, ZenonT(90)
  <2> QED BY <2>6 DEF t
<1> QED BY <1>2, <1>3


\* Revealing a usage exposes its cost to settled_only, and moves no ledger.
LEMMA UsageStep ==
  ASSUME Setting, NEW i \in DOMAIN stream, NEW w \in Worlds, NEW s,
         NEW st, st = [stage EXCEPT ![i] = @ + 1], InOrderAt(s, w, stage),
         ~s.aborted, stage[i] = 2
  PROVE  InOrderAt(OnUsage(s, i, w), w, st)
<1> DEFINE t == OnUsage(s, i, w)
           key == Key(stream[i])
           bk == s.book[key]
           c == ActualCost(usage[w][i])
           ra == Row("usage_available", i, 3)
           log == Append(s.access, Access("reveal", i, stream[i].available))
           q == [s.req[i] EXCEPT !.state = "revealed", !.cost = c]
           x == IF method = "settled_only" THEN s.exposed[key] + c ELSE s.exposed[key]
<1>0. /\ RunRecord(s, stream) /\ s.rows \in Seq(LogRow) /\ s.access \in Seq(LogAccess)
      /\ s.req[i] \in ReqRecord /\ bk \in BookRecord /\ s.exposed[key] \in Int
      /\ Progress(s, i, 2) /\ Logged(s, i, 2, stream[i])
      /\ Amounts(s.req[i], stream[i], usage[w][i], method, evidence)
  BY BeforeEvent
<1>1. ra \in LogRow /\ ra.event # "dispatch_delivered"
  BY RowFacts
<1>2. c \in Nat
  BY AmountFacts
<1>3. s.req[i].state # "refused" => s.req[i].state = "dispatched"
  BY <1>0 DEF Progress
<1>4. CASE s.req[i].state = "refused" /\ t = s
  BY <1>4, StayStep
<1>5. CASE s.req[i].state # "refused" /\ Ends(s, t) /\ t.access \in {s.access, log}
  <2> HIDE DEF t, log
  <2>1. /\ DOMAIN t = DOMAIN s /\ t.aborted = TRUE /\ t.req = s.req /\ t.book = s.book
        /\ t.exposed = s.exposed /\ t.rows = s.rows
    BY <1>5 DEF Ends
  <2>2. t.access \in Seq(LogAccess) /\ Logged(t, i, 3, stream[i])
        /\ \A j \in DOMAIN stream \ {i} : SameLog(s, t, j)
    <3>1. CASE t.access = s.access
      <4>1. \A j : SameLog(s, t, j)
        BY <2>1, <3>1 DEF SameLog
      <4>2. 2 \in Nat /\ 3 \in Nat /\ 2 <= 3
        OBVIOUS
      <4>3. Logged(t, i, 3, stream[i])
        BY <1>0, <2>1, <4>1, <4>2, LoggedStays
      <4> QED BY <1>0, <3>1, <4>1, <4>3
    <3>2. CASE t.access = log
      <4>1. \A j : SameLog(s, s, j)
        BY DEF SameLog
      <4>2. s.req[i].state \in Taken /\ t.req[i].state \in Taken
        BY <1>3, <1>5, <2>1 DEF Taken
      <4>3. t.access = Append(s.access, Access("reveal", i, stream[i].available))
        BY <3>2 DEF log
      <4> QED BY <1>0, <2>1, <4>1, <4>2, <4>3, RevealLogged
    <3> QED BY <1>5, <3>1, <3>2
  <2>3. Logged(t, i, stage[i] + 1, stream[i])
    BY <2>2
  <2>4. Progress(t, i, stage[i] + 1)
    BY <2>1 DEF Progress
  <2>5. t.aborted \in BOOLEAN /\ t.rows \in Seq(LogRow) /\ (s.aborted => t.aborted)
    BY <1>0, <2>1
  <2>6. InOrderAt(t, w, st)
    BY <2>1, <2>2, <2>3, <2>4, <2>5, FrameStep
  <2> QED BY <2>6 DEF t
<1>6. CASE /\ s.req[i].state # "refused" /\ Becomes(s, t, i, stream, q, bk, x)
           /\ t.rows = Append(s.rows, ra) /\ t.access = log /\ ~t.aborted
  <2> HIDE DEF t, log, ra
  <2>1. s.req[i].state = "dispatched"
    BY <1>3, <1>6
  <2>2. /\ q \in ReqRecord /\ q.state = "revealed" /\ q.cost = c /\ q.reserved = s.req[i].reserved
    BY <1>0, <1>2 DEF ReqRecord, ReqStates
  <2>3. x \in Int
    BY <1>0, <1>2
  <2> HIDE DEF c, q, x
  <2>4. t.req[i] = q
    BY <1>0, <1>6 DEF Becomes, RunRecord
  <2>5. t.rows \in Seq(LogRow) /\ t.access \in Seq(LogAccess) /\ Logged(t, i, 3, stream[i])
        /\ \A j \in DOMAIN stream \ {i} : SameLog(s, t, j)
    <3> DEFINE r == [rows |-> t.rows, access |-> s.access]
    <3>1. r.rows = t.rows /\ r.access = s.access
      OBVIOUS
    <3>2. r.rows = Append(s.rows, ra)
      BY <1>6
    <3> HIDE DEF r
    <3>3. r.rows \in Seq(LogRow) /\ \A j : SameLog(s, r, j)
      BY <1>0, <1>1, <3>1, <3>2, RowOnly
    <3>4. s.req[i].state \in Taken /\ t.req[i].state \in Taken
      BY <2>1, <2>2, <2>4 DEF Taken
    <3>5. t.access = Append(s.access, Access("reveal", i, stream[i].available))
      BY <1>6 DEF log
    <3> QED BY <1>0, <3>1, <3>3, <3>4, <3>5, RevealLogged
  <2>6. Logged(t, i, stage[i] + 1, stream[i])
    BY <2>5
  <2>7. Progress(t, i, stage[i] + 1)
    BY <1>6, <2>2, <2>4 DEF Progress
  <2>8. Amounts(q, stream[i], usage[w][i], method, evidence)
    BY <1>0, <2>1, <2>2 DEF Amounts, Taken, c
  <2>9. BookMoves(s, key, s.req[i], q, bk, x, method)
    <3>1. /\ HeldBy(q) = s.req[i].reserved /\ Settles(q) = 0
          /\ Exposes(q, method) = IF method = "settled_only" THEN c ELSE 0
          /\ Actives(q, method) = IF Reserving(method) THEN 1 ELSE 0
      BY <2>2 DEF HeldBy, Settles, Exposes, Actives
    <3>2. /\ HeldBy(s.req[i]) = s.req[i].reserved /\ Settles(s.req[i]) = 0
          /\ Exposes(s.req[i], method) = 0
          /\ Actives(s.req[i], method) = IF Reserving(method) THEN 1 ELSE 0
      BY <2>1 DEF HeldBy, Settles, Exposes, Actives
    <3>3. bk.held \in Int /\ bk.settled \in Int /\ bk.active \in Int /\ s.req[i].reserved \in Int
      BY <1>0 DEF BookRecord, ReqRecord
    <3> QED BY <1>0, <1>2, <3>1, <3>2, <3>3, SMTT(60) DEF BookMoves, x
  <2>10. /\ q.state \in Taken /\ t.aborted = FALSE /\ s.req[i].state \in Taken
         /\ bk.settled + bk.held <= s.book[Key(stream[i])].settled + s.book[Key(stream[i])].held
    BY <1>0, <1>6, <2>1, <2>2 DEF Taken, BookRecord
  <2>11. Becomes(s, t, i, stream, q, bk, x)
    BY <1>6
  <2>12. InOrderAt(t, w, st)
    BY <1>0, <2>2, <2>3, <2>5, <2>6, <2>7, <2>8, <2>9, <2>10, <2>11, ChangeStep
  <2> QED BY <2>12 DEF t
<1>7. \/ s.req[i].state = "refused" /\ t = s
      \/ s.req[i].state # "refused" /\ Ends(s, t) /\ t.access \in {s.access, log}
      \/ /\ s.req[i].state # "refused" /\ Becomes(s, t, i, stream, q, bk, x)
         /\ t.rows = Append(s.rows, ra) /\ t.access = log /\ ~t.aborted
  BY <1>0, UsageEffect
<1> QED BY <1>4, <1>5, <1>6, <1>7

\* A settlement frees the hold and charges the cost, which a cap reservation covers.
LEMMA SettlementStep ==
  ASSUME Setting, NEW i \in DOMAIN stream, NEW w \in Worlds, NEW s,
         NEW st, st = [stage EXCEPT ![i] = @ + 1], InOrderAt(s, w, stage),
         ~s.aborted, stage[i] = 3
  PROVE  InOrderAt(OnSettlement(s, i), w, st)
<1> DEFINE t == OnSettlement(s, i)
           key == Key(stream[i])
           bk == s.book[key]
           c == s.req[i].cost
           rsv == s.req[i].reserved
           ra == Row("settlement_final", i, 4)
           q == [s.req[i] EXCEPT !.state = "final"]
           b == SettleIn(method, rsv, c, bk)
           x == IF method = "settled_only" THEN s.exposed[key] - c ELSE s.exposed[key]
<1>0. /\ RunRecord(s, stream) /\ s.rows \in Seq(LogRow) /\ s.access \in Seq(LogAccess)
      /\ s.req[i] \in ReqRecord /\ bk \in BookRecord /\ s.exposed[key] \in Int
      /\ Progress(s, i, 3) /\ Logged(s, i, 3, stream[i])
      /\ Amounts(s.req[i], stream[i], usage[w][i], method, evidence)
  BY BeforeEvent
<1>1. ra \in LogRow /\ ra.event # "dispatch_delivered"
  BY RowFacts
<1>2. c \in Nat /\ rsv \in Nat
  BY <1>0 DEF ReqRecord
<1>3. CASE s.req[i].state = "refused" /\ t = s
  BY <1>3, StayStep
<1>4. CASE s.req[i].state # "refused" /\ Ends(s, t) /\ t.access = s.access
  <2> HIDE DEF t
  <2>1. /\ DOMAIN t = DOMAIN s /\ t.aborted = TRUE /\ t.req = s.req /\ t.book = s.book
        /\ t.exposed = s.exposed /\ t.rows = s.rows
    BY <1>4 DEF Ends
  <2>2. \A j : SameLog(s, t, j)
    BY <1>4, <2>1 DEF SameLog
  <2>3. Logged(t, i, stage[i] + 1, stream[i])
    <3>1. 3 \in Nat /\ 4 \in Nat /\ 3 <= 4 /\ stage[i] + 1 = 4
      OBVIOUS
    <3>2. Logged(t, i, 4, stream[i])
      BY <1>0, <2>1, <2>2, <3>1, LoggedStays
    <3> QED BY <3>1, <3>2
  <2>4. Progress(t, i, stage[i] + 1)
    BY <2>1 DEF Progress
  <2>5. t.aborted \in BOOLEAN /\ t.rows \in Seq(LogRow) /\ t.access \in Seq(LogAccess)
        /\ (s.aborted => t.aborted)
    BY <1>0, <1>4, <2>1
  <2>6. InOrderAt(t, w, st)
    BY <2>1, <2>2, <2>3, <2>4, <2>5, FrameStep, ZenonT(90)
  <2> QED BY <2>6 DEF t
<1>5. CASE /\ s.req[i].state = "revealed" /\ Becomes(s, t, i, stream, q, b, x)
           /\ t.rows = Append(s.rows, ra) /\ t.access = s.access /\ ~t.aborted
  <2> HIDE DEF t, ra
  <2>2. q \in ReqRecord /\ q.state = "final" /\ q.cost = c /\ q.reserved = rsv
    BY <1>0, <1>2 DEF ReqRecord, ReqStates
  <2>3. x \in Int
    BY <1>0, <1>2
  <2>4. b \in BookRecord
    <3>1. c \in Int /\ rsv \in Int
      BY <1>2
    <3> HIDE DEF c, rsv, bk
    <3> QED BY <1>0, <3>1, BookTypes
  <2>5. /\ b.settled = bk.settled + c
        /\ b.held = bk.held - (IF Reserving(method) THEN rsv ELSE 0)
        /\ b.active = bk.active - (IF Reserving(method) THEN 1 ELSE 0)
    <3>1. bk.held \in Int /\ bk.settled \in Int /\ bk.active \in Int
      BY <1>0 DEF BookRecord
    <3>2. CASE Reserving(method)
      BY <3>1, <3>2 DEF SettleIn
    <3>3. CASE ~Reserving(method)
      BY <1>0, <3>1, <3>3 DEF SettleIn, BookRecord
    <3> QED BY <3>2, <3>3
  <2>6. /\ rsv = expectedReservation(method, evidence, stream[i]) /\ c = ActualCost(usage[w][i])
    BY <1>0, <1>5 DEF Amounts, Taken
  <2>7. ~Reserving(method) => rsv = 0
    BY <2>6, AmountFacts
  <2> HIDE DEF c, rsv, q, b, x
  <2>8. t.req[i] = q
    BY <1>0, <1>5 DEF Becomes, RunRecord
  <2>9. t.rows \in Seq(LogRow) /\ \A j : SameLog(s, t, j)
    BY <1>0, <1>1, <1>5, RowOnly
  <2>10. Logged(t, i, stage[i] + 1, stream[i])
    <3>1. 3 \in Nat /\ 4 \in Nat /\ 3 <= 4 /\ stage[i] + 1 = 4
      OBVIOUS
    <3>2. s.req[i].state \in Taken /\ t.req[i].state \in Taken
      BY <1>5, <2>2, <2>8 DEF Taken
    <3>3. Logged(t, i, 4, stream[i])
      BY <1>0, <2>9, <3>1, <3>2, LoggedStays
    <3> QED BY <3>1, <3>3
  <2>11. Progress(t, i, stage[i] + 1)
    BY <1>5, <2>2, <2>8 DEF Progress
  <2>12. Amounts(q, stream[i], usage[w][i], method, evidence)
    BY <2>2, <2>6 DEF Amounts, Taken
  <2>13. BookMoves(s, key, s.req[i], q, b, x, method)
    <3>1. HeldBy(q) = 0 /\ Settles(q) = c /\ Exposes(q, method) = 0 /\ Actives(q, method) = 0
      BY <2>2 DEF HeldBy, Settles, Exposes, Actives
    <3>2. /\ HeldBy(s.req[i]) = rsv /\ Settles(s.req[i]) = 0
          /\ Exposes(s.req[i], method) = IF method = "settled_only" THEN c ELSE 0
          /\ Actives(s.req[i], method) = IF Reserving(method) THEN 1 ELSE 0
      BY <1>5 DEF HeldBy, Settles, Exposes, Actives, rsv, c
    <3>3. bk.held \in Int /\ bk.settled \in Int /\ bk.active \in Int
      BY <1>0 DEF BookRecord
    <3> QED BY <1>0, <1>2, <2>5, <2>7, <3>1, <3>2, <3>3, SMTT(60) DEF BookMoves, x
  <2>14. ReservesCap(method, evidence) /\ Nominal(stream[i], usage[w][i]) =>
            b.settled + b.held <= bk.settled + bk.held
    <3>1. SUFFICES ASSUME ReservesCap(method, evidence), Nominal(stream[i], usage[w][i])
                   PROVE  b.settled + b.held <= bk.settled + bk.held
      OBVIOUS
    <3>2. c <= rsv
      BY <2>6, <3>1, AmountFacts
    <3>3. Reserving(method)
      BY <3>1 DEF ReservesCap, Reserving
    <3>4. bk.held \in Int /\ bk.settled \in Int
      BY <1>0 DEF BookRecord
    <3> QED BY <1>2, <2>5, <3>2, <3>3, <3>4
  <2>15. q.state \in Taken /\ t.aborted = FALSE /\ s.req[i].state \in Taken
    BY <1>5, <2>2 DEF Taken
  <2>16. Becomes(s, t, i, stream, q, b, x) /\ t.access \in Seq(LogAccess)
    BY <1>0, <1>5
  <2>17. InOrderAt(t, w, st)
    BY <1>0, <2>2, <2>3, <2>4, <2>9, <2>10, <2>11, <2>12, <2>13, <2>14, <2>15, <2>16, ChangeStep
  <2> QED BY <2>17 DEF t
<1>6. \/ s.req[i].state = "refused" /\ t = s
      \/ s.req[i].state # "refused" /\ Ends(s, t) /\ t.access = s.access
      \/ /\ s.req[i].state = "revealed" /\ Becomes(s, t, i, stream, q, b, x)
         /\ t.rows = Append(s.rows, ra) /\ t.access = s.access /\ ~t.aborted
  BY <1>0, SettlementEffect
<1> QED BY <1>3, <1>4, <1>5, <1>6


-----------------------------------------------------------------------------
(* The causal runner: two runs of one stream *)

\* Two runs with the same ledgers that have decided every request alike.
Matched(s, t) == s.book = t.book /\ \A j \in DOMAIN stream : Alike(s.req[j], t.req[j])

\* What was decided of request j in s is what is decided in t.
Upheld(s, t, j) == /\ t.req[j].state # "none" => s.req[j].state # "none"
                 /\ Alike(t.req[j], s.req[j])

\* Two matched runs in which one request changes alike stay matched.
LEMMA BecomesMatched ==
  ASSUME NEW i \in DOMAIN stream, NEW s, NEW t, NEW s2, NEW t2, NEW q, NEW p, NEW b, NEW x, NEW y,
         RunRecord(s, stream), RunRecord(s2, stream), Matched(s, s2),
         Becomes(s, t, i, stream, q, b, x), Becomes(s2, t2, i, stream, p, b, y), Alike(q, p)
  PROVE  Matched(t, t2)
<1>1. t.book = t2.book
  BY DEF Becomes, Matched
<1>2. ASSUME NEW j \in DOMAIN stream PROVE Alike(t.req[j], t2.req[j])
  <2>1. s.req \in [DOMAIN stream -> ReqRecord] /\ s2.req \in [DOMAIN stream -> ReqRecord]
    BY DEF RunRecord, ReqRecord
  <2>2. CASE j = i
    <3>1. t.req[j] = q /\ t2.req[j] = p
      BY <2>1, <2>2 DEF Becomes
    <3> QED BY <3>1
  <2>3. CASE j # i
    <3>1. t.req[j] = s.req[j] /\ t2.req[j] = s2.req[j]
      BY <2>1, <2>3 DEF Becomes
    <3> QED BY <3>1 DEF Matched
  <2> QED BY <2>2, <2>3
<1> QED BY <1>1, <1>2 DEF Matched

\* A change of one request upholds what was decided of the others.
LEMMA BecomesKept ==
  ASSUME NEW i \in DOMAIN stream, NEW s, NEW t, NEW q, NEW b, NEW x,
         RunRecord(s, stream), Becomes(s, t, i, stream, q, b, x)
  PROVE  /\ t.req[i] = q /\ \A j \in DOMAIN stream \ {i} : Upheld(s, t, j)
<1>1. s.req \in [DOMAIN stream -> ReqRecord]
  BY DEF RunRecord, ReqRecord
<1>2. t.req[i] = q /\ \A j \in DOMAIN stream \ {i} : t.req[j] = s.req[j]
  BY <1>1 DEF Becomes
<1> QED BY <1>2 DEF Upheld, Alike

\* An arrival is decided alike in two runs with the same ledgers, and touches
\* no other request.
LEMMA ArrivalAlike ==
  ASSUME Setting, NEW i \in DOMAIN stream, stage[i] = 0, NEW v \in Worlds, NEW w \in Worlds,
         NEW s, NEW s2, InOrderAt(s, v, stage), InOrderAt(s2, w, stage),
         ~s.aborted, ~s2.aborted, Matched(s, s2)
  PROVE  Matched(OnArrival(s, i), OnArrival(s2, i))
<1> DEFINE t == OnArrival(s, i)
           t2 == OnArrival(s2, i)
           key == Key(stream[i])
           amt == expectedReservation(method, evidence, stream[i])
           bk == s.book[key]
           new == [state |-> "dispatched", reserved |-> amt, cost |-> 0]
           q == [s.req[i] EXCEPT !.state = "refused"]
           p == [s2.req[i] EXCEPT !.state = "refused"]
<1>1. /\ RunRecord(s, stream) /\ s.req[i] \in ReqRecord /\ s.req[i].state = "none"
      /\ Accesses(s.access, "authorize", i) = {}
  <2>1. RunRecord(s, stream) /\ s.req[i] \in ReqRecord /\ s.req[i].state = "none"
    BY BeforeEvent DEF Progress
  <2> QED BY <2>1, BeforeEvent DEF Logged, Taken
<1>2. /\ RunRecord(s2, stream) /\ s2.req[i] \in ReqRecord /\ s2.req[i].state = "none"
      /\ Accesses(s2.access, "authorize", i) = {}
  <2>1. RunRecord(s2, stream) /\ s2.req[i] \in ReqRecord /\ s2.req[i].state = "none"
    BY BeforeEvent DEF Progress
  <2> QED BY <2>1, BeforeEvent DEF Logged, Taken
<1>3. bk = s2.book[key] /\ Alike(s.req[i], s2.req[i])
  BY DEF Matched
<1>4. \/ /\ Admits(method, amt, stream[i], bk)
         /\ Becomes(s, t, i, stream, new, AdmitIn(method, amt, bk), s.exposed[key])
      \/ /\ ~Admits(method, amt, stream[i], bk)
         /\ Becomes(s, t, i, stream, q, bk, s.exposed[key])
  BY <1>1, ArrivalEffect
<1>5. \/ /\ Admits(method, amt, stream[i], bk)
         /\ Becomes(s2, t2, i, stream, new, AdmitIn(method, amt, bk), s2.exposed[key])
      \/ /\ ~Admits(method, amt, stream[i], bk)
         /\ Becomes(s2, t2, i, stream, p, bk, s2.exposed[key])
  <2>1. \/ /\ Admits(method, amt, stream[i], s2.book[key])
           /\ Becomes(s2, t2, i, stream, new, AdmitIn(method, amt, s2.book[key]), s2.exposed[key])
        \/ /\ ~Admits(method, amt, stream[i], s2.book[key])
           /\ Becomes(s2, t2, i, stream, p, s2.book[key], s2.exposed[key])
    BY <1>2, ArrivalEffect
  <2> HIDE DEF amt, new, p, t2, bk
  <2> QED BY <1>3, <2>1
<1>6. Alike(new, new) /\ Alike(q, p)
  BY <1>1, <1>2, <1>3 DEF Alike, ReqRecord
<1> HIDE DEF t, t2, new, q, p, bk, amt
<1>7. CASE Admits(method, amt, stream[i], bk)
  <2>1. /\ Becomes(s, t, i, stream, new, AdmitIn(method, amt, bk), s.exposed[key])
        /\ Becomes(s2, t2, i, stream, new, AdmitIn(method, amt, bk), s2.exposed[key])
    BY <1>4, <1>5, <1>7
  <2>2. Matched(t, t2)
    BY <1>1, <1>2, <1>6, <2>1, BecomesMatched
  <2> QED BY <2>2 DEF t, t2
<1>8. CASE ~Admits(method, amt, stream[i], bk)
  <2>1. /\ Becomes(s, t, i, stream, q, bk, s.exposed[key])
        /\ Becomes(s2, t2, i, stream, p, bk, s2.exposed[key])
    BY <1>4, <1>5, <1>8
  <2>2. Matched(t, t2)
    BY <1>1, <1>2, <1>6, <2>1, BecomesMatched
  <2> QED BY <2>2 DEF t, t2
<1> QED BY <1>7, <1>8

\* An arrival upholds what was decided of the other requests.
LEMMA ArrivalKeeps ==
  ASSUME Setting, NEW i \in DOMAIN stream, stage[i] = 0, NEW w \in Worlds,
         NEW s, InOrderAt(s, w, stage), ~s.aborted
  PROVE  \A j \in DOMAIN stream \ {i} : Upheld(s, OnArrival(s, i), j)
<1> DEFINE t == OnArrival(s, i)
           key == Key(stream[i])
           amt == expectedReservation(method, evidence, stream[i])
           new == [state |-> "dispatched", reserved |-> amt, cost |-> 0]
           q == [s.req[i] EXCEPT !.state = "refused"]
<1>1. RunRecord(s, stream) /\ s.req[i].state = "none" /\ Accesses(s.access, "authorize", i) = {}
  <2>1. RunRecord(s, stream) /\ s.req[i].state = "none"
    BY BeforeEvent DEF Progress
  <2> QED BY <2>1, BeforeEvent DEF Logged, Taken
<1>2. \/ Becomes(s, t, i, stream, new, AdmitIn(method, amt, s.book[key]), s.exposed[key])
      \/ Becomes(s, t, i, stream, q, s.book[key], s.exposed[key])
  BY <1>1, ArrivalEffect
<1> HIDE DEF t, new, q, amt
<1>3. \A j \in DOMAIN stream \ {i} : Upheld(s, t, j)
  BY <1>1, <1>2, BecomesKept
<1> QED BY <1>3 DEF t


\* A response or a usage decides nothing and moves no ledger.
LEMMA ResponseKeeps ==
  ASSUME Setting, NEW i \in DOMAIN stream, NEW s, RunRecord(s, stream)
  PROVE  OnResponse(s, i).book = s.book /\ \A j \in DOMAIN stream : Upheld(s, OnResponse(s, i), j)
<1> DEFINE t == OnResponse(s, i)
<1>1. t.book = s.book /\ t.req = s.req
  BY ResponseEffect
<1> HIDE DEF t
<1>2. t.book = s.book /\ \A j \in DOMAIN stream : Upheld(s, t, j)
  BY <1>1 DEF Upheld, Alike
<1> QED BY <1>2 DEF t

\* A usage upholds every decision and moves no ledger.
LEMMA UsageKeeps ==
  ASSUME Setting, NEW i \in DOMAIN stream, NEW w \in Worlds, NEW s, InOrderAt(s, w, stage),
         ~s.aborted, stage[i] = 2
  PROVE  OnUsage(s, i, w).book = s.book /\ \A j \in DOMAIN stream : Upheld(s, OnUsage(s, i, w), j)
<1> DEFINE t == OnUsage(s, i, w)
           key == Key(stream[i])
           c == ActualCost(usage[w][i])
           q == [s.req[i] EXCEPT !.state = "revealed", !.cost = c]
           x == IF method = "settled_only" THEN s.exposed[key] + c ELSE s.exposed[key]
<1>0. /\ RunRecord(s, stream) /\ s.req[i] \in ReqRecord /\ Progress(s, i, 2)
      /\ s.book \in [Keys(stream) -> BookRecord]
  BY BeforeEvent DEF RunRecord, BookRecord
<1>1. CASE t.book = s.book /\ t.req = s.req
  <2> HIDE DEF t
  <2>1. t.book = s.book /\ \A j \in DOMAIN stream : Upheld(s, t, j)
    BY <1>1 DEF Upheld, Alike
  <2> QED BY <2>1 DEF t
<1>2. CASE s.req[i].state # "refused" /\ Becomes(s, t, i, stream, q, s.book[key], x)
  <2>1. q.state = "revealed" /\ q.reserved = s.req[i].reserved
    BY <1>0 DEF ReqRecord
  <2>2. s.req[i].state = "dispatched"
    BY <1>0, <1>2 DEF Progress
  <2> HIDE DEF t, q, x
  <2>3. t.req[i] = q /\ \A j \in DOMAIN stream \ {i} : Upheld(s, t, j)
    BY <1>0, <1>2, BecomesKept
  <2>4. Upheld(s, t, i)
    BY <2>1, <2>2, <2>3 DEF Upheld, Alike
  <2>5. t.book = s.book
    BY <1>0, <1>2 DEF Becomes
  <2>6. t.book = s.book /\ \A j \in DOMAIN stream : Upheld(s, t, j)
    BY <2>3, <2>4, <2>5
  <2> QED BY <2>6 DEF t
<1>3. \/ t.book = s.book /\ t.req = s.req
      \/ s.req[i].state # "refused" /\ Becomes(s, t, i, stream, q, s.book[key], x)
  BY <1>0, UsageEffect DEF Ends
<1> QED BY <1>1, <1>2, <1>3

\* A settlement upholds every decision.
LEMMA SettlementKeeps ==
  ASSUME Setting, NEW i \in DOMAIN stream, NEW w \in Worlds, NEW s, InOrderAt(s, w, stage),
         ~s.aborted, stage[i] = 3
  PROVE  \A j \in DOMAIN stream : Upheld(s, OnSettlement(s, i), j)
<1> DEFINE t == OnSettlement(s, i)
           key == Key(stream[i])
           q == [s.req[i] EXCEPT !.state = "final"]
           b == SettleIn(method, s.req[i].reserved, s.req[i].cost, s.book[key])
           x == IF method = "settled_only" THEN s.exposed[key] - s.req[i].cost ELSE s.exposed[key]
<1>0. RunRecord(s, stream) /\ s.req[i] \in ReqRecord
  BY BeforeEvent
<1>1. CASE t.req = s.req
  <2> HIDE DEF t
  <2>1. \A j \in DOMAIN stream : Upheld(s, t, j)
    BY <1>1 DEF Upheld, Alike
  <2> QED BY <2>1 DEF t
<1>2. CASE s.req[i].state = "revealed" /\ Becomes(s, t, i, stream, q, b, x)
  <2>1. q.state = "final" /\ q.reserved = s.req[i].reserved
    BY <1>0 DEF ReqRecord
  <2> HIDE DEF t, q, b, x
  <2>2. t.req[i] = q /\ \A j \in DOMAIN stream \ {i} : Upheld(s, t, j)
    BY <1>0, <1>2, BecomesKept
  <2>3. Upheld(s, t, i)
    BY <1>2, <2>1, <2>2 DEF Upheld, Alike
  <2>4. \A j \in DOMAIN stream : Upheld(s, t, j)
    BY <2>2, <2>3
  <2> QED BY <2>4 DEF t
<1>3. t.req = s.req \/ (s.req[i].state = "revealed" /\ Becomes(s, t, i, stream, q, b, x))
  BY <1>0, SettlementEffect DEF Ends
<1> QED BY <1>1, <1>2, <1>3

\* A request settles alike in two matched runs that have the same usage of it.
LEMMA SettlementAlike ==
  ASSUME Setting, NEW i \in DOMAIN stream, stage[i] = 3, NEW v \in Worlds, NEW w \in Worlds,
         NEW s, NEW s2, InOrderAt(s, v, stage), InOrderAt(s2, w, stage),
         ~s.aborted, ~s2.aborted, Matched(s, s2), usage[v][i] = usage[w][i],
         ~OnSettlement(s, i).aborted, ~OnSettlement(s2, i).aborted
  PROVE  Matched(OnSettlement(s, i), OnSettlement(s2, i))
<1> DEFINE t == OnSettlement(s, i)
           t2 == OnSettlement(s2, i)
           key == Key(stream[i])
           q == [s.req[i] EXCEPT !.state = "final"]
           p == [s2.req[i] EXCEPT !.state = "final"]
           b(run) == SettleIn(method, run.req[i].reserved, run.req[i].cost, run.book[key])
           x(run) == IF method = "settled_only" THEN run.exposed[key] - run.req[i].cost
                     ELSE run.exposed[key]
<1>1. /\ RunRecord(s, stream) /\ s.req[i] \in ReqRecord
      /\ Amounts(s.req[i], stream[i], usage[v][i], method, evidence)
  BY BeforeEvent
<1>2. /\ RunRecord(s2, stream) /\ s2.req[i] \in ReqRecord
      /\ Amounts(s2.req[i], stream[i], usage[w][i], method, evidence)
  BY BeforeEvent
<1>3. \/ s.req[i].state = "refused" /\ t = s
      \/ s.req[i].state = "revealed" /\ Becomes(s, t, i, stream, q, b(s), x(s))
  BY <1>1, SettlementEffect DEF Ends
<1>4. \/ s2.req[i].state = "refused" /\ t2 = s2
      \/ s2.req[i].state = "revealed" /\ Becomes(s2, t2, i, stream, p, b(s2), x(s2))
  BY <1>2, SettlementEffect DEF Ends
<1>5. Alike(s.req[i], s2.req[i]) /\ s.book = s2.book
  BY DEF Matched
<1>6. CASE s.req[i].state = "refused" /\ t = s
  <2>1. s2.req[i].state = "refused"
    BY <1>5, <1>6 DEF Alike
  <2>2. t2 = s2
    BY <1>4, <2>1
  <2> QED BY <1>6, <2>2
<1>7. CASE s.req[i].state = "revealed" /\ Becomes(s, t, i, stream, q, b(s), x(s))
  <2>1. s2.req[i].state # "refused"
    BY <1>5, <1>7 DEF Alike
  <2>2. s2.req[i].state = "revealed" /\ Becomes(s2, t2, i, stream, p, b(s2), x(s2))
    BY <1>4, <2>1
  <2>3. s.req[i].cost = s2.req[i].cost /\ s.req[i].reserved = s2.req[i].reserved
    BY <1>1, <1>2, <1>5, <1>7, <2>2 DEF Amounts, Alike
  <2>4. b(s) = b(s2)
    BY <1>5, <2>3
  <2>5. Alike(q, p)
    BY <1>1, <1>2, <2>3 DEF Alike, ReqRecord
  <2>6. Becomes(s2, t2, i, stream, p, b(s), x(s2))
    BY <2>2, <2>4
  <2> HIDE DEF t, t2, q, p, b, x
  <2>7. Matched(t, t2)
    BY <1>1, <1>2, <1>7, <2>5, <2>6, BecomesMatched
  <2> QED BY <2>7 DEF t, t2
<1> QED BY <1>3, <1>6, <1>7

\* Runs stay matched when their ledgers and decisions stay.
LEMMA KeptMatched ==
  ASSUME NEW s, NEW t, NEW s2, NEW t2, Matched(s, s2), t.book = s.book, t2.book = s2.book,
         \A j \in DOMAIN stream : Upheld(s, t, j) /\ Upheld(s2, t2, j)
  PROVE  Matched(t, t2)
BY DEF Matched, Upheld, Alike


-----------------------------------------------------------------------------
(* The causal runner: the invariant *)

\* The run s of world w after the next event of request i.
After(i, s, w) ==
    IF stage[i] = 0 THEN OnArrival(s, i)
    ELSE IF stage[i] = 1 THEN OnResponse(s, i)
    ELSE IF stage[i] = 2 THEN OnUsage(s, i, w)
    ELSE OnSettlement(s, i)

\* A step processes the next event of one request in every run that has not ended.
LEMMA StepShape ==
  ASSUME Setting, CausalNext
  PROVE  \E i \in DOMAIN stream :
            /\ IsNext(i) /\ stage[i] \in 0 .. 3
            /\ stage' = [stage EXCEPT ![i] = @ + 1]
            /\ world' = [w \in Worlds |-> IF world[w].aborted THEN world[w]
                                          ELSE After(i, world[w], w)]
            /\ method' = method /\ evidence' = evidence /\ stream' = stream /\ usage' = usage
<1>1. DOMAIN stage = DOMAIN stream
  BY DEF Setting
<1>2. PICK i \in DOMAIN stream : Arrival(i) \/ ProviderResponse(i) \/ UsageAvailable(i) \/ Settlement(i)
  BY <1>1 DEF CausalNext
<1>3. CASE Arrival(i)
  <2>1. /\ stage[i] = 0 /\ IsNext(i) /\ stage' = [stage EXCEPT ![i] = @ + 1]
        /\ world' = [w \in Worlds |-> IF world[w].aborted THEN world[w] ELSE OnArrival(world[w], i)]
        /\ method' = method /\ evidence' = evidence /\ stream' = stream /\ usage' = usage
    BY <1>3 DEF Arrival, Process
  <2>2. \A s, w : After(i, s, w) = OnArrival(s, i)
    BY <2>1 DEF After
  <2>3. world' = [w \in Worlds |-> IF world[w].aborted THEN world[w] ELSE After(i, world[w], w)]
    BY <2>1, <2>2
  <2>4. stage[i] \in 0 .. 3
    BY <2>1
  <2> QED BY <2>1, <2>3, <2>4
<1>4. CASE ProviderResponse(i)
  <2>1. /\ stage[i] = 1 /\ IsNext(i) /\ stage' = [stage EXCEPT ![i] = @ + 1]
        /\ world' = [w \in Worlds |-> IF world[w].aborted THEN world[w] ELSE OnResponse(world[w], i)]
        /\ method' = method /\ evidence' = evidence /\ stream' = stream /\ usage' = usage
    BY <1>4 DEF ProviderResponse, Process
  <2>2. \A s, w : After(i, s, w) = OnResponse(s, i)
    BY <2>1 DEF After
  <2>3. world' = [w \in Worlds |-> IF world[w].aborted THEN world[w] ELSE After(i, world[w], w)]
    BY <2>1, <2>2
  <2>4. stage[i] \in 0 .. 3
    BY <2>1
  <2> QED BY <2>1, <2>3, <2>4
<1>5. CASE UsageAvailable(i)
  <2>1. /\ stage[i] = 2 /\ IsNext(i) /\ stage' = [stage EXCEPT ![i] = @ + 1]
        /\ world' = [w \in Worlds |-> IF world[w].aborted THEN world[w] ELSE OnUsage(world[w], i, w)]
        /\ method' = method /\ evidence' = evidence /\ stream' = stream /\ usage' = usage
    BY <1>5 DEF UsageAvailable, Process
  <2>2. \A s, w : After(i, s, w) = OnUsage(s, i, w)
    BY <2>1 DEF After
  <2>3. world' = [w \in Worlds |-> IF world[w].aborted THEN world[w] ELSE After(i, world[w], w)]
    BY <2>1, <2>2
  <2>4. stage[i] \in 0 .. 3
    BY <2>1
  <2> QED BY <2>1, <2>3, <2>4
<1>6. CASE Settlement(i)
  <2>1. /\ stage[i] = 3 /\ IsNext(i) /\ stage' = [stage EXCEPT ![i] = @ + 1]
        /\ world' = [w \in Worlds |-> IF world[w].aborted THEN world[w] ELSE OnSettlement(world[w], i)]
        /\ method' = method /\ evidence' = evidence /\ stream' = stream /\ usage' = usage
    BY <1>6 DEF Settlement, Process
  <2>2. \A s, w : After(i, s, w) = OnSettlement(s, i)
    BY <2>1 DEF After
  <2>3. world' = [w \in Worlds |-> IF world[w].aborted THEN world[w] ELSE After(i, world[w], w)]
    BY <2>1, <2>2
  <2>4. stage[i] \in 0 .. 3
    BY <2>1
  <2> QED BY <2>1, <2>3, <2>4
<1> QED BY <1>2, <1>3, <1>4, <1>5, <1>6

\* Every event keeps a run in order.
LEMMA AfterInOrder ==
  ASSUME Setting, NEW i \in DOMAIN stream, stage[i] \in 0 .. 3, NEW w \in Worlds, NEW s,
         NEW st, st = [stage EXCEPT ![i] = @ + 1], InOrderAt(s, w, stage), ~s.aborted
  PROVE  InOrderAt(After(i, s, w), w, st)
<1>1. CASE stage[i] = 0
  <2>1. After(i, s, w) = OnArrival(s, i)
    BY <1>1 DEF After
  <2>2. InOrderAt(OnArrival(s, i), w, st)
    BY <1>1, ArrivalStep
  <2> QED BY <2>1, <2>2
<1>2. CASE stage[i] = 1
  <2>1. After(i, s, w) = OnResponse(s, i)
    BY <1>2 DEF After
  <2>2. InOrderAt(OnResponse(s, i), w, st)
    BY <1>2, ResponseStep
  <2> QED BY <2>1, <2>2
<1>3. CASE stage[i] = 2
  <2>1. After(i, s, w) = OnUsage(s, i, w)
    BY <1>3 DEF After
  <2>2. InOrderAt(OnUsage(s, i, w), w, st)
    BY <1>3, UsageStep
  <2> QED BY <2>1, <2>2
<1>4. CASE stage[i] = 3
  <2>1. After(i, s, w) = OnSettlement(s, i)
    BY <1>4 DEF After
  <2>2. InOrderAt(OnSettlement(s, i), w, st)
    BY <1>4, SettlementStep
  <2> QED BY <2>1, <2>2
<1> QED BY <1>1, <1>2, <1>3, <1>4

\* An event keeps what was decided; only an arrival decides its own request.
LEMMA AfterKeeps ==
  ASSUME Setting, NEW i \in DOMAIN stream, stage[i] \in 0 .. 3, NEW w \in Worlds, NEW s,
         InOrderAt(s, w, stage), ~s.aborted, NEW j \in DOMAIN stream, j # i \/ stage[i] # 0
  PROVE  Upheld(s, After(i, s, w), j)
<1>1. CASE stage[i] = 0
  BY <1>1, ArrivalKeeps DEF After
<1>2. CASE stage[i] = 1
  <2>1. RunRecord(s, stream)
    BY BeforeEvent
  <2> QED BY <1>2, <2>1, ResponseKeeps DEF After
<1>3. CASE stage[i] = 2
  BY <1>3, UsageKeeps DEF After
<1>4. CASE stage[i] = 3
  BY <1>4, SettlementKeeps DEF After
<1> QED BY <1>1, <1>2, <1>3, <1>4

\* Two matched runs stay matched, but for a settlement whose usages differ.
LEMMA AfterMatched ==
  ASSUME Setting, NEW i \in DOMAIN stream, stage[i] \in 0 .. 3, NEW v \in Worlds, NEW w \in Worlds,
         NEW s, NEW s2, InOrderAt(s, v, stage), InOrderAt(s2, w, stage),
         ~s.aborted, ~s2.aborted, Matched(s, s2),
         stage[i] = 3 => usage[v][i] = usage[w][i],
         ~After(i, s, v).aborted, ~After(i, s2, w).aborted
  PROVE  Matched(After(i, s, v), After(i, s2, w))
<1>0. RunRecord(s, stream) /\ RunRecord(s2, stream)
  <2>1. RunRecord(s, stream)
    BY BeforeEvent
  <2>2. RunRecord(s2, stream)
    BY BeforeEvent
  <2> QED BY <2>1, <2>2
<1>1. CASE stage[i] = 0
  BY <1>1, ArrivalAlike DEF After
<1>2. CASE stage[i] = 1
  <2> DEFINE t == OnResponse(s, i)
             t2 == OnResponse(s2, i)
  <2>1. t.book = s.book /\ \A j \in DOMAIN stream : Upheld(s, t, j)
    BY <1>0, ResponseKeeps
  <2>2. t2.book = s2.book /\ \A j \in DOMAIN stream : Upheld(s2, t2, j)
    BY <1>0, ResponseKeeps
  <2>3. After(i, s, v) = t /\ After(i, s2, w) = t2
    BY <1>2 DEF After
  <2> HIDE DEF t, t2
  <2> QED BY <2>1, <2>2, <2>3, KeptMatched
<1>3. CASE stage[i] = 2
  <2> DEFINE t == OnUsage(s, i, v)
             t2 == OnUsage(s2, i, w)
  <2>1. t.book = s.book /\ \A j \in DOMAIN stream : Upheld(s, t, j)
    BY <1>3, UsageKeeps
  <2>2. t2.book = s2.book /\ \A j \in DOMAIN stream : Upheld(s2, t2, j)
    BY <1>3, UsageKeeps
  <2>3. After(i, s, v) = t /\ After(i, s2, w) = t2
    BY <1>3 DEF After
  <2> HIDE DEF t, t2
  <2> QED BY <2>1, <2>2, <2>3, KeptMatched
<1>4. CASE stage[i] = 3
  <2>1. After(i, s, v) = OnSettlement(s, i) /\ After(i, s2, w) = OnSettlement(s2, i)
    BY <1>4 DEF After
  <2> QED BY <1>4, <2>1, SettlementAlike
<1> QED BY <1>1, <1>2, <1>3, <1>4

\* A run starts with empty ledgers and logs.
LEMMA CausalInitInv == ASSUME CausalInit PROVE CausalInv
<1> DEFINE s == Fresh(stream)
           e == [i \in DOMAIN stream |-> 0]
<1>1. Setting
  BY DEF CausalInit, Setting
<1>2. InOrder
  BY DEF CausalInit, InOrder
<1>3. NoForesight
  BY DEF CausalInit, NoForesight
<1>4. /\ s.req = [i \in DOMAIN stream |-> [state |-> "none", reserved |-> 0, cost |-> 0]]
      /\ s.book = [k \in Keys(stream) |-> EmptyBook] /\ s.exposed = [k \in Keys(stream) |-> 0]
      /\ s.rows = <<>> /\ s.access = <<>> /\ s.aborted = FALSE
      /\ DOMAIN s = {"req", "book", "exposed", "rows", "access", "aborted"}
  BY DEF Fresh, Keys
<1>5. world = [w \in Worlds |-> s] /\ stage = e
  BY DEF CausalInit
<1> HIDE DEF s
<1>6. RunRecord(s, stream)
  <2>1. s.req \in [DOMAIN stream -> [state : ReqStates, reserved : Nat, cost : Nat]]
    BY <1>4 DEF ReqStates
  <2>2. s.book \in [Keys(stream) -> [settled : Int, held : Int, active : Int]]
    BY <1>4 DEF EmptyBook
  <2>3. s.rows \in Seq(LogRow) /\ s.access \in Seq(LogAccess)
    BY <1>4
  <2>4. s.exposed \in [Keys(stream) -> Int]
    BY <1>4
  <2>5. DOMAIN s = {"req", "book", "exposed", "rows", "access", "aborted"}
    BY <1>4
  <2>6. s.aborted \in BOOLEAN
    BY <1>4
  <2> QED BY <2>1, <2>2, <2>3, <2>4, <2>5, <2>6 DEF RunRecord
<1>7. ASSUME NEW i \in DOMAIN stream, NEW u
      PROVE  /\ Progress(s, i, 0) /\ Logged(s, i, 0, stream[i])
             /\ Amounts(s.req[i], stream[i], u, method, evidence)
  <2>1. s.req[i].state = "none" /\ s.req[i].reserved = 0 /\ s.req[i].cost = 0
    BY <1>4
  <2>2. /\ Deliveries(s.rows, i) = {} /\ Accesses(s.access, "authorize", i) = {}
        /\ Accesses(s.access, "reveal", i) = {}
    BY <1>4 DEF Deliveries, Accesses
  <2> QED BY <2>1, <2>2 DEF Progress, Logged, Amounts, Taken
<1>8. Books(s, stream, method)
  <2>0. IsFiniteSet(DOMAIN stream)
    BY <1>1, StreamFacts
  <2>1. SUFFICES ASSUME NEW k \in Keys(stream)
                 PROVE  /\ s.book[k].held = SumOf([i \in DOMAIN stream |-> HeldBy(s.req[i])], stream, k)
                        /\ s.book[k].active = SumOf([i \in DOMAIN stream |-> Actives(s.req[i], method)], stream, k)
                        /\ s.book[k].settled = SumOf([i \in DOMAIN stream |-> Settles(s.req[i])], stream, k)
                        /\ s.exposed[k] = SumOf([i \in DOMAIN stream |-> Exposes(s.req[i], method)], stream, k)
    BY DEF Books
  <2>2. s.book[k].held = 0 /\ s.book[k].active = 0 /\ s.book[k].settled = 0 /\ s.exposed[k] = 0
    BY <1>4 DEF EmptyBook
  <2>3. \A i \in DOMAIN stream : /\ HeldBy(s.req[i]) = 0 /\ Actives(s.req[i], method) = 0
                                 /\ Settles(s.req[i]) = 0 /\ Exposes(s.req[i], method) = 0
    BY <1>4 DEF HeldBy, Actives, Settles, Exposes
  <2>4. ASSUME NEW v, \A i \in DOMAIN stream : v[i] = 0 PROVE SumOf(v, stream, k) = 0
    <3>1. \A i \in DOMAIN stream : Share(v, stream, k)[i] = 0
      BY <2>4 DEF Share
    <3> QED BY <2>0, <3>1, SumZero DEF SumOf
  <2> QED BY <2>2, <2>3, <2>4
<1>9. ASSUME NEW u PROVE Covered(s, stream, u)
  BY <1>4 DEF Covered, OpenIn, Taken
<1>10. \A w \in Worlds : RunOK(world[w], stream, stage, usage[w], method, evidence)
  BY <1>5, <1>6, <1>7, <1>8, <1>9 DEF RunOK
<1>11. \A v, w \in Worlds : Agree(world[v], world[w], usage[v], usage[w], stream, stage)
  BY <1>5 DEF Agree, Alike
<1> QED BY <1>1, <1>2, <1>3, <1>10, <1>11 DEF CausalInv


\* Every event keeps the invariant.
LEMMA CausalStepInv == ASSUME CausalInv, CausalNext PROVE CausalInv'
<1>0. Setting /\ InOrder /\ NoForesight
  BY DEF CausalInv
<1>1. /\ \A w \in Worlds : InOrderAt(world[w], w, stage)
      /\ \A v, w \in Worlds : Agree(world[v], world[w], usage[v], usage[w], stream, stage)
  BY DEF CausalInv, InOrderAt
<1>2. PICK i \in DOMAIN stream :
         /\ IsNext(i) /\ stage[i] \in 0 .. 3
         /\ stage' = [stage EXCEPT ![i] = @ + 1]
         /\ world' = [w \in Worlds |-> IF world[w].aborted THEN world[w]
                                       ELSE After(i, world[w], w)]
         /\ method' = method /\ evidence' = evidence /\ stream' = stream /\ usage' = usage
  BY <1>0, StepShape
<1>3. /\ stage \in [DOMAIN stream -> 0 .. 4] /\ DOMAIN stage = DOMAIN stream /\ DOMAIN world = Worlds
      /\ stage'[i] = stage[i] + 1 /\ \A j \in DOMAIN stream \ {i} : stage'[j] = stage[j]
      /\ stage' \in [DOMAIN stream -> 0 .. 4] /\ DOMAIN stage' = DOMAIN stream
      /\ DOMAIN world' = Worlds
  <2>1. stage \in [DOMAIN stream -> 0 .. 4] /\ world = [w \in Worlds |-> world[w]]
    BY <1>0 DEF Setting
  <2>2. DOMAIN world = Worlds /\ DOMAIN world' = Worlds
    BY <1>2, <2>1
  <2>3. /\ stage'[i] = stage[i] + 1 /\ \A j \in DOMAIN stream \ {i} : stage'[j] = stage[j]
        /\ stage' \in [DOMAIN stream -> 0 .. 4]
    BY <1>2, <2>1
  <2> QED BY <2>1, <2>2, <2>3
<1>4. ASSUME NEW w \in Worlds
      PROVE  /\ world[w].aborted => world'[w] = world[w]
             /\ ~world[w].aborted => world'[w] = After(i, world[w], w)
  BY <1>2
<1>5. Setting'
  <2>1. world' = [w \in Worlds |-> world'[w]]
    BY <1>2
  <2>2. /\ ValidateStreamV2(stream)' /\ ValidateOpportunityCoverage(stream, usage)'
    BY <1>0, <1>2 DEF Setting, ValidateStreamV2, ValidateOpportunityCoverage, ValidOpportunity, Key
  <2> QED BY <1>0, <1>2, <1>3, <2>1, <2>2 DEF Setting
<1>6. InOrder'
  BY <1>0, <1>2, OrderStep
<1>7. ASSUME NEW w \in Worlds PROVE InOrderAt(world'[w], w, stage')
  <2>1. CASE world[w].aborted
    BY <1>0, <1>1, <1>2, <1>4, <2>1, StayStep
  <2>2. CASE ~world[w].aborted
    <3>1. InOrderAt(After(i, world[w], w), w, stage')
      BY <1>0, <1>1, <1>2, <2>2, AfterInOrder
    <3> QED BY <1>4, <2>2, <3>1
  <2> QED BY <2>1, <2>2
<1>8. (\A w \in Worlds : RunOK(world[w], stream, stage, usage[w], method, evidence))'
  <2>1. \A w \in Worlds : RunOK(world'[w], stream, stage', usage[w], method, evidence)
    BY <1>7 DEF InOrderAt
  <2>2. ASSUME NEW w \in Worlds
        PROVE  RunOK(world[w], stream, stage, usage[w], method, evidence)'
    BY <1>2, <2>1
  <2> QED BY <2>2
<1>9. (\A v, w \in Worlds : Agree(world[v], world[w], usage[v], usage[w], stream, stage))'
  <2>1. ASSUME NEW v \in Worlds, NEW w \in Worlds, ~world'[v].aborted, ~world'[w].aborted,
               \A j \in DOMAIN stream : usage[v][j] # usage[w][j] => stage'[j] # 4
        PROVE  Matched(world'[v], world'[w])
    <3>1. ~world[v].aborted /\ ~world[w].aborted
      BY <1>4, <2>1
    <3>2. \A j \in DOMAIN stream : usage[v][j] # usage[w][j] => stage[j] # 4
      BY <1>2, <1>3, <2>1
    <3>3. Matched(world[v], world[w])
      BY <1>1, <3>1, <3>2 DEF Agree, Matched
    <3>4. stage[i] = 3 => usage[v][i] = usage[w][i]
      BY <1>3, <2>1
    <3>5. world'[v] = After(i, world[v], v) /\ world'[w] = After(i, world[w], w)
      BY <1>4, <3>1
    <3>6. ~After(i, world[v], v).aborted /\ ~After(i, world[w], w).aborted
      BY <2>1, <3>5
    <3>7. InOrderAt(world[v], v, stage) /\ InOrderAt(world[w], w, stage)
      BY <1>1
    <3>8. Matched(After(i, world[v], v), After(i, world[w], w))
      BY <1>0, <1>2, <3>1, <3>3, <3>4, <3>6, <3>7, AfterMatched
    <3> QED BY <3>5, <3>8
  <2>2. \A v, w \in Worlds : Agree(world'[v], world'[w], usage[v], usage[w], stream, stage')
    BY <2>1 DEF Agree, Matched
  <2>3. ASSUME NEW v \in Worlds, NEW w \in Worlds
        PROVE  Agree(world[v], world[w], usage[v], usage[w], stream, stage)'
    BY <1>2, <2>2
  <2> QED BY <2>3
<1>10. NoForesight'
  <2>1. ASSUME NEW h \in DOMAIN stream, NEW v \in Worlds, NEW w \in Worlds, stage'[h] > 0,
               world'[v].req[h].state # "none", world'[w].req[h].state # "none",
               \A j \in DOMAIN stream : usage[v][j] # usage[w][j] => ~Before(j, 4, h, 1)
        PROVE  Alike(world'[v].req[h], world'[w].req[h])
    <3>1. CASE h # i \/ stage[i] # 0
      <4>1. ASSUME NEW x \in Worlds PROVE Upheld(world[x], world'[x], h)
        <5>1. CASE world[x].aborted
          BY <1>4, <5>1 DEF Upheld, Alike
        <5>2. CASE ~world[x].aborted
          <6>1. Upheld(world[x], After(i, world[x], x), h)
            BY <1>0, <1>1, <1>2, <3>1, <5>2, AfterKeeps
          <6> QED BY <1>4, <5>2, <6>1
        <5> QED BY <5>1, <5>2
      <4>2. Upheld(world[v], world'[v], h) /\ Upheld(world[w], world'[w], h)
        BY <4>1
      <4>3. stage[h] > 0
        BY <1>2, <1>3, <2>1, <3>1
      <4>4. world[v].req[h].state # "none" /\ world[w].req[h].state # "none"
        BY <2>1, <4>2 DEF Upheld
      <4>5. Alike(world[v].req[h], world[w].req[h])
        BY <1>0, <1>3, <2>1, <4>3, <4>4 DEF NoForesight, Alike
      <4> QED BY <4>2, <4>5 DEF Upheld, Alike
    <3>2. CASE h = i /\ stage[i] = 0
      <4>1. ASSUME NEW x \in Worlds, world'[x].req[i].state # "none"
            PROVE  ~world[x].aborted /\ world'[x] = After(i, world[x], x)
        <5>1. InOrderAt(world[x], x, stage)
          BY <1>1
        <5>2. Progress(world[x], i, stage[i])
          BY <1>0, <5>1, BeforeEvent
        <5>3. world[x].req[i].state = "none"
          BY <3>2, <5>2 DEF Progress
        <5> QED BY <1>4, <4>1, <5>3
      <4>2. /\ ~world[v].aborted /\ world'[v] = After(i, world[v], v)
            /\ ~world[w].aborted /\ world'[w] = After(i, world[w], w)
        BY <2>1, <3>2, <4>1
      <4>3. ASSUME NEW j \in DOMAIN stream, usage[v][j] # usage[w][j] PROVE stage[j] # 4
        <5>1. SUFFICES ASSUME stage[j] = 4 PROVE FALSE
          OBVIOUS
        <5>2. 4 \in 1 .. 4 /\ 1 \in 1 .. 4 /\ 4 <= stage[j] /\ stage[i] < 1
          BY <3>2, <5>1
        <5>3. Before(j, 4, i, 1)
          BY <1>0, <5>2 DEF InOrder
        <5> QED BY <2>1, <3>2, <4>3, <5>3
      <4>4. Matched(world[v], world[w])
        BY <1>1, <4>2, <4>3 DEF Agree, Matched
      <4>5. After(i, world[v], v) = OnArrival(world[v], i) /\ After(i, world[w], w) = OnArrival(world[w], i)
        BY <3>2 DEF After
      <4>6. InOrderAt(world[v], v, stage) /\ InOrderAt(world[w], w, stage)
        BY <1>1
      <4>7. Matched(OnArrival(world[v], i), OnArrival(world[w], i))
        BY <1>0, <3>2, <4>2, <4>4, <4>6, ArrivalAlike
      <4> QED BY <3>2, <4>2, <4>5, <4>7 DEF Matched
    <3> QED BY <3>1, <3>2
  <2>2. \A j, h \in DOMAIN stream : Before(j, 4, h, 1)' = Before(j, 4, h, 1)
    BY <1>2 DEF Before
  <2> QED BY <1>2, <1>3, <2>1, <2>2 DEF NoForesight, Alike
<1> QED BY <1>5, <1>6, <1>8, <1>9, <1>10 DEF CausalInv

\* The invariant of the causal runner: events in order, every run accounted for,
\* and runs that agree until a differing usage settles (RunWithUsageIssuerV2).
THEOREM CausalInvariant == CausalSpec => []CausalInv
<1>1. CausalInit => CausalInv
  BY CausalInitInv
<1>2. CausalInv /\ [CausalNext]_causalVars => CausalInv'
  <2>1. SUFFICES ASSUME CausalInv, [CausalNext]_causalVars PROVE CausalInv'
    OBVIOUS
  <2>2. CASE CausalNext
    BY <2>1, <2>2, CausalStepInv
  <2>3. CASE UNCHANGED causalVars
    BY <2>1, <2>3 DEF causalVars, CausalInv, Setting, InOrder, NoForesight, Before, ValidateStreamV2,
       ValidateOpportunityCoverage, RunOK, Agree
  <2> QED BY <2>1, <2>2, <2>3
<1> QED BY <1>1, <1>2, PTL DEF CausalSpec


\* What the invariant says of the run of world w.
LEMMA RunFacts ==
  ASSUME CausalInv, NEW w \in DOMAIN world
  PROVE  /\ w \in Worlds /\ Setting /\ DOMAIN stage = DOMAIN stream
         /\ RunRecord(world[w], stream) /\ DOMAIN world[w].book = Keys(stream)
         /\ world[w].req \in [DOMAIN stream -> ReqRecord]
         /\ Books(world[w], stream, method)
         /\ ReservesCap(method, evidence) => Covered(world[w], stream, usage[w])
         /\ \A i \in DOMAIN stream :
              /\ Progress(world[w], i, stage[i]) /\ Logged(world[w], i, stage[i], stream[i])
              /\ Amounts(world[w].req[i], stream[i], usage[w][i], method, evidence)
<1>1. Setting /\ w \in Worlds /\ DOMAIN stage = DOMAIN stream
  BY DEF CausalInv, Setting
<1>2. RunOK(world[w], stream, stage, usage[w], method, evidence)
  BY <1>1 DEF CausalInv
<1>3. /\ RunRecord(world[w], stream) /\ Books(world[w], stream, method)
      /\ ReservesCap(method, evidence) => Covered(world[w], stream, usage[w])
      /\ \A i \in DOMAIN stream :
           /\ Progress(world[w], i, stage[i]) /\ Logged(world[w], i, stage[i], stream[i])
           /\ Amounts(world[w].req[i], stream[i], usage[w][i], method, evidence)
  BY <1>2 DEF RunOK
<1>4. DOMAIN world[w].book = Keys(stream) /\ world[w].req \in [DOMAIN stream -> ReqRecord]
  BY <1>3 DEF RunRecord, ReqRecord
<1> QED BY <1>1, <1>3, <1>4

\* One delivery, one authorization and at most one reveal are counts of one.
LEMMA EarnedHolds == ASSUME CausalInv PROVE UsageIsEarned
<1>1. ASSUME NEW w \in DOMAIN world, NEW i \in DOMAIN stage
      PROVE  LET s == world[w]
                 auth == Accesses(s.access, "authorize", i)
                 rev == Accesses(s.access, "reveal", i)
             IN  /\ Cardinality(auth) = Cardinality(Deliveries(s.rows, i))
                 /\ Cardinality(rev) <= Cardinality(auth)
                 /\ \A n \in rev : /\ s.access[n].at = stream[i].available
                                   /\ \E m \in auth : m < n
                                   /\ stage[i] >= 3
  <2> DEFINE s == world[w]
             auth == Accesses(s.access, "authorize", i)
             rev == Accesses(s.access, "reveal", i)
             del == Deliveries(s.rows, i)
  <2>0. Logged(s, i, stage[i], stream[i])
    BY RunFacts
  <2>1. CASE s.req[i].state \in Taken
    <3>1. PICK d : del = {d}
      BY <2>0, <2>1 DEF Logged
    <3>2. PICK a : auth = {a} /\ \A b \in rev : a < b /\ stage[i] >= 3 /\ s.access[b].at = stream[i].available
      BY <2>0, <2>1 DEF Logged
    <3>3. \A b, c \in rev : b = c
      BY <2>0, <2>1 DEF Logged
    <3> HIDE DEF auth, rev, del, s
    <3>4. Cardinality(auth) = 1 /\ Cardinality(del) = 1
      BY <3>1, <3>2, FS_Singleton
    <3>5. Cardinality(rev) \in {0, 1}
      <4>1. CASE rev = {}
        BY <4>1, FS_EmptySet
      <4>2. CASE rev # {}
        <5>1. PICK b : rev = {b}
          BY <3>3, <4>2
        <5> QED BY <5>1, FS_Singleton
      <4> QED BY <4>1, <4>2
    <3>6. /\ Cardinality(auth) = Cardinality(del) /\ Cardinality(rev) <= Cardinality(auth)
      BY <3>4, <3>5
    <3>7. \A n \in rev : s.access[n].at = stream[i].available /\ (\E m \in auth : m < n) /\ stage[i] >= 3
      BY <3>2
    <3> QED BY <3>6, <3>7 DEF auth, rev, del, s
  <2>2. CASE s.req[i].state \notin Taken
    <3>1. auth = {} /\ rev = {} /\ del = {}
      BY <2>0, <2>2 DEF Logged
    <3> HIDE DEF auth, rev, del, s
    <3>2. Cardinality(auth) = 0 /\ Cardinality(rev) = 0 /\ Cardinality(del) = 0
      BY <3>1, FS_EmptySet
    <3>3. /\ Cardinality(auth) = Cardinality(del) /\ Cardinality(rev) <= Cardinality(auth)
      BY <3>2
    <3>4. \A n \in rev : s.access[n].at = stream[i].available /\ (\E m \in auth : m < n) /\ stage[i] >= 3
      BY <3>1
    <3> QED BY <3>3, <3>4 DEF auth, rev, del, s
  <2> QED BY <2>1, <2>2
<1> QED BY <1>1 DEF UsageIsEarned, Accesses, Deliveries

\* At the end only settled requests add anything, and only to the settled column.
LEMMA SettledHolds == ASSUME CausalInv PROVE RunEndsSettled
<1>1. SUFFICES ASSUME NEW w \in DOMAIN world, ~world[w].aborted, \A i \in DOMAIN stage : stage[i] = 4
               PROVE  LET Mine(k) == {i \in DOMAIN stage :
                                        Key(stream[i]) = k /\ world[w].req[i].state = "final"}
                      IN /\ \A i \in DOMAIN stage : world[w].req[i].state \in {"refused", "final"}
                         /\ \A k \in DOMAIN world[w].book :
                              /\ world[w].book[k].held = 0 /\ world[w].book[k].active = 0
                              /\ world[w].exposed[k] = 0
                              /\ world[w].book[k].settled =
                                  SumOver([i \in DOMAIN stage |-> ActualCost(usage[w][i])], Mine(k))
  BY DEF RunEndsSettled
<1> DEFINE s == world[w]
           D == DOMAIN stream
           Mine(k) == {i \in D : Key(stream[i]) = k /\ s.req[i].state = "final"}
<1>2. /\ w \in Worlds /\ Setting /\ DOMAIN stage = D /\ DOMAIN s.book = Keys(stream)
      /\ s.req \in [D -> ReqRecord] /\ Books(s, stream, method)
      /\ \A i \in D : Progress(s, i, stage[i]) /\ Amounts(s.req[i], stream[i], usage[w][i], method, evidence)
  BY RunFacts
<1>3. \A i \in D : s.req[i].state \in {"refused", "final"}
  BY <1>1, <1>2 DEF Progress
<1>4. IsFiniteSet(D)
  BY <1>2, StreamFacts
<1>5. \A i \in D : /\ HeldBy(s.req[i]) = 0 /\ Actives(s.req[i], method) = 0 /\ Exposes(s.req[i], method) = 0
                   /\ s.req[i].state # "final" => Settles(s.req[i]) = 0
                   /\ s.req[i].state = "final" => Settles(s.req[i]) = ActualCost(usage[w][i])
                   /\ Settles(s.req[i]) \in Int
  <2>1. SUFFICES ASSUME NEW i \in D
                 PROVE  /\ HeldBy(s.req[i]) = 0 /\ Actives(s.req[i], method) = 0 /\ Exposes(s.req[i], method) = 0
                        /\ s.req[i].state # "final" => Settles(s.req[i]) = 0
                        /\ s.req[i].state = "final" => Settles(s.req[i]) = ActualCost(usage[w][i])
                        /\ Settles(s.req[i]) \in Int
    OBVIOUS
  <2>2. s.req[i] \in ReqRecord /\ s.req[i].state \in {"refused", "final"}
        /\ Amounts(s.req[i], stream[i], usage[w][i], method, evidence)
    BY <1>2, <1>3
  <2>3. Settles(s.req[i]) \in Int
    BY <2>2, AddsInt
  <2> HIDE DEF s
  <2> QED BY <2>2, <2>3 DEF HeldBy, Actives, Exposes, Settles, Amounts
<1>6. ASSUME NEW k \in Keys(stream)
      PROVE  /\ s.book[k].held = 0 /\ s.book[k].active = 0 /\ s.exposed[k] = 0
             /\ s.book[k].settled = SumOver([i \in D |-> ActualCost(usage[w][i])], Mine(k))
  <2> DEFINE hold == [i \in D |-> HeldBy(s.req[i])]
             act == [i \in D |-> Actives(s.req[i], method)]
             exp == [i \in D |-> Exposes(s.req[i], method)]
             set == [i \in D |-> Settles(s.req[i])]
             cost == [i \in D |-> ActualCost(usage[w][i])]
             f == Share(set, stream, k)
  <2>1. /\ s.book[k].held = SumOf(hold, stream, k) /\ s.book[k].active = SumOf(act, stream, k)
        /\ s.book[k].settled = SumOf(set, stream, k) /\ s.exposed[k] = SumOf(exp, stream, k)
    BY <1>2 DEF Books
  <2>2. ASSUME NEW v, \A i \in D : v[i] = 0 PROVE SumOf(v, stream, k) = 0
    <3>1. \A i \in D : Share(v, stream, k)[i] = 0
      BY <2>2 DEF Share
    <3> QED BY <1>4, <3>1, SumZero DEF SumOf
  <2>3. \A i \in D : hold[i] = 0 /\ act[i] = 0 /\ exp[i] = 0
    BY <1>5
  <2>4. \A i \in D : /\ f[i] \in Int
                     /\ i \notin Mine(k) => f[i] = 0
                     /\ i \in Mine(k) => f[i] = cost[i]
    BY <1>5 DEF Share
  <2>5. Mine(k) \subseteq D /\ IsFiniteSet(Mine(k))
    BY <1>4, FS_Subset
  <2>6. SumOf(set, stream, k) = SumOver(f, D)
    BY DEF SumOf
  <2> HIDE DEF hold, act, exp, set, cost, f, s, D, Mine
  <2>7. SumOver(f, D) = SumOver(f, Mine(k))
    BY <1>4, <2>4, <2>5, SumDrop
  <2>8. SumOver(f, Mine(k)) = SumOver(cost, Mine(k))
    BY <2>4, <2>5, SumEqual
  <2>9. s.book[k].settled = SumOver(cost, Mine(k))
    BY <2>1, <2>6, <2>7, <2>8
  <2>10. s.book[k].held = 0 /\ s.book[k].active = 0 /\ s.exposed[k] = 0
    BY <2>1, <2>2, <2>3
  <2> QED BY <2>9, <2>10 DEF cost
<1> QED BY <1>2, <1>3, <1>6

\* What the open requests cost is at most what their window settled and holds.
LEMMA CoverHolds == ASSUME CausalInv PROVE CapReservationCoversSpend
<1>1. SUFFICES ASSUME ReservesCap(method, evidence), NEW w \in DOMAIN world, NEW k \in DOMAIN world[w].book
               PROVE  LET Open == {i \in DOMAIN stage : Key(stream[i]) = k
                                     /\ world[w].req[i].state \in {"dispatched", "revealed", "final"}}
                      IN (\A i \in Open :
                            OutcomeInBounds([stream[i] EXCEPT !.fault = "nominal"], usage[w][i]))
                         => \A i \in Open : SumOver([j \in DOMAIN stage |-> ActualCost(usage[w][j])], Open)
                                              <= stream[i].budget
  BY DEF CapReservationCoversSpend, ReservesCap
<1> DEFINE s == world[w]
           D == DOMAIN stream
           O == OpenIn(s, stream, k)
           cost == [j \in D |-> ActualCost(usage[w][j])]
           f == Share([i \in D |-> Settles(s.req[i])], stream, k)
           g == Share([i \in D |-> HeldBy(s.req[i])], stream, k)
           h == [i \in D |-> f[i] + g[i]]
<1>2. /\ w \in Worlds /\ Setting /\ DOMAIN stage = D /\ k \in Keys(stream)
      /\ s.req \in [D -> ReqRecord] /\ Books(s, stream, method) /\ Covered(s, stream, usage[w])
      /\ \A i \in D : Amounts(s.req[i], stream[i], usage[w][i], method, evidence)
  BY <1>1, RunFacts
<1>3. SUFFICES ASSUME \A i \in O : Nominal(stream[i], usage[w][i]), NEW i \in O
               PROVE  SumOver(cost, O) <= stream[i].budget
  BY <1>2 DEF OpenIn, Nominal, Taken
<1>4. IsFiniteSet(D) /\ O \subseteq D /\ IsFiniteSet(O)
  <2>1. IsFiniteSet(D) /\ O \subseteq D
    BY <1>2, StreamFacts DEF OpenIn
  <2> QED BY <2>1, FS_Subset
<1>5. s.book[k].settled = SumOver(f, D) /\ s.book[k].held = SumOver(g, D)
  BY <1>2 DEF Books, SumOf
<1>6. \A j \in D : /\ f[j] \in Int /\ g[j] \in Int /\ h[j] = f[j] + g[j] /\ h[j] \in Int
                   /\ j \notin O => h[j] = 0
                   /\ j \in O => cost[j] \in Int /\ cost[j] <= h[j]
  <2>1. SUFFICES ASSUME NEW j \in D
                 PROVE  /\ f[j] \in Int /\ g[j] \in Int /\ h[j] = f[j] + g[j] /\ h[j] \in Int
                        /\ j \notin O => h[j] = 0
                        /\ j \in O => cost[j] \in Int /\ cost[j] <= h[j]
    OBVIOUS
  <2> DEFINE q == s.req[j]
  <2>2. q \in ReqRecord /\ Amounts(q, stream[j], usage[w][j], method, evidence)
    BY <1>2
  <2>3. HeldBy(q) \in Nat /\ Settles(q) \in Nat
    BY <2>2, AddsInt
  <2>4. /\ Key(stream[j]) = k => f[j] = Settles(q) /\ g[j] = HeldBy(q)
        /\ Key(stream[j]) # k => f[j] = 0 /\ g[j] = 0
        /\ h[j] = f[j] + g[j]
    BY DEF Share
  <2>5. f[j] \in Int /\ g[j] \in Int /\ h[j] \in Int
    BY <2>3, <2>4
  <2>6. j \in O <=> Key(stream[j]) = k /\ q.state \in Taken
    BY DEF OpenIn
  <2>7. cost[j] = ActualCost(usage[w][j])
    OBVIOUS
  <2> HIDE DEF q, f, g, h, cost, O, s
  <2>8. j \notin O => h[j] = 0
    <3>1. q.state \notin Taken => Settles(q) = 0 /\ HeldBy(q) = 0
      BY DEF Settles, HeldBy, Taken
    <3> QED BY <2>4, <2>6, <3>1
  <2>9. ASSUME j \in O PROVE cost[j] \in Int /\ cost[j] <= h[j]
    <3>1. /\ cost[j] \in Nat /\ cost[j] <= expectedReservation(method, evidence, stream[j])
          /\ expectedReservation(method, evidence, stream[j]) \in Nat
      BY <1>1, <1>2, <1>3, <2>7, <2>9, AmountFacts
    <3>2. Key(stream[j]) = k /\ q.state \in Taken
      BY <2>6, <2>9
    <3>3. CASE q.state = "final"
      <4>1. Settles(q) = cost[j]
        BY <2>2, <2>7, <3>3 DEF Settles, Amounts
      <4> QED BY <2>3, <2>4, <3>1, <3>2, <4>1
    <3>4. CASE q.state \in {"dispatched", "revealed"}
      <4>1. HeldBy(q) = expectedReservation(method, evidence, stream[j])
        BY <2>2, <3>4 DEF HeldBy, Amounts, Taken
      <4> QED BY <2>3, <2>4, <3>1, <3>2, <4>1
    <3> QED BY <3>2, <3>3, <3>4 DEF Taken
  <2> QED BY <2>4, <2>5, <2>8, <2>9
<1>7. s.book[k].settled + s.book[k].held <= stream[i].budget
  BY <1>2, <1>3 DEF Covered
<1>8. stream[i].budget \in Nat
  BY <1>2, <1>4, StreamFacts DEF OpportunityV2
<1> HIDE DEF f, g, h, cost, O, s, D
<1>9. SumOver(h, D) = SumOver(f, D) + SumOver(g, D)
  <2>1. D \subseteq D /\ \A x \in D \ D : h[x] = f[x]
    OBVIOUS
  <2> QED BY <1>4, <1>6, <2>1, SumRaise
<1>10. SumOver(h, D) = SumOver(h, O)
  BY <1>4, <1>6, SumDrop
<1>11. \A j \in O : h[j] \in Int /\ cost[j] \in Int /\ cost[j] <= h[j]
  BY <1>4, <1>6
<1>12. SumOver(cost, O) <= SumOver(h, O)
  BY <1>4, <1>11, SumAtMost
<1>13. SumOver(cost, O) \in Int /\ SumOver(h, O) \in Int
  <2>1. SumOver(cost, O) \in Int
    BY <1>4, <1>11, SumInt
  <2>2. SumOver(h, O) \in Int
    BY <1>4, <1>11, SumInt
  <2> QED BY <2>1, <2>2
<1> QED BY <1>5, <1>7, <1>8, <1>9, <1>10, <1>12, <1>13

\* CausalRunIsSound: no decision of the runner foresees a usage, every usage is
\* earned by a delivered dispatch, a completed run leaves nothing open, and a cap
\* reservation suffices for nominal spend, in every run of every stream.
THEOREM CausalRunsAreSound == CausalSpec => []CausalRunIsSound
<1>1. CausalInv => CausalRunIsSound
  BY EarnedHolds, SettledHolds, CoverHolds DEF CausalInv, CausalRunIsSound
<1> QED BY <1>1, CausalInvariant, PTL

=============================================================================
