---------------------------- MODULE Attestation ----------------------------
(***************************************************************************)
(* The life of AttestationEvidence: node agents publish raw reports        *)
(* (cmd/node-attestation-agent), the central verifier checks each report   *)
(* and writes the evidence of its node in two API calls, first the spec    *)
(* and then the status (rawattestationreport_controller.go, maa.go), and   *)
(* AIRevocationPolicy objects are reconciled beside it.  The older         *)
(* evidence reconciler, the only writer of status.revoked, runs when       *)
(* legacy is TRUE (AIOPS_ENABLE_LEGACY_EVIDENCE_RECONCILER).               *)
(*                                                                         *)
(* Reports are never deleted and any of them may be verified again: a      *)
(* restart, a resync or the 60 s requeue of a simulated report replays it. *)
(* A token is abstracted to when it was issued and whether its issuer,     *)
(* signature, nonce and TEE claims hold.                                   *)
(***************************************************************************)
EXTENDS Integers, FiniteSets

CONSTANTS
    Evidences,         \* evidence objects: one per namespace and node
    ExpectedTEE,       \* RawAttestationReportReconciler.ExpectedTEE
    MaxTokenAge,       \* RawAttestationReportReconciler.MaxTokenAge
    RevocationTTL,     \* spec.ttlSeconds of a revocation
    MaxReports,        \* bound: reports
    MaxClock           \* bound: time

ASSUME AttestationAssumption ==
    /\ ExpectedTEE \in {"sevsnpvm", "tdxvm"}
    /\ MaxTokenAge \in Nat /\ RevocationTTL \in Nat \ {0}
    /\ MaxReports \in Nat /\ MaxClock \in Nat

VARIABLES
    clock,
    reports,    \* the RawAttestationReports
    evidence,   \* the AttestationEvidence objects
    verifying,  \* the verifier between its two writes
    revokedUntil, \* status.expiresAt of the AIRevocationPolicy of each
    legacy      \* the older evidence reconciler runs

attVars == <<clock, reports, evidence, verifying, revokedUntil, legacy>>

Never == -1  \* an absent time

-----------------------------------------------------------------------------
(* Objects *)

TEEs == {"SEV-SNP", "TDX"}

Token == [issued : Nat \cup {Never}, authentic : BOOLEAN]

RawAttestationReport == [of : Evidences, simulated : BOOLEAN, token : Token]

EvidenceStatus ==
    [verified : BOOLEAN, revoked : BOOLEAN, lastVerified : Nat \cup {Never},
     mode : {"none", "real", "simulated", "unverified"}]

AttestationEvidence ==
    [tee : TEEs, simulated : BOOLEAN, status : EvidenceStatus]

NoStatus == [verified |-> FALSE, revoked |-> FALSE,
             lastVerified |-> Never, mode |-> "none"]

NoEvidence == [tee |-> "none", simulated |-> FALSE, status |-> NoStatus]

Idle == [outcome |-> "none"]

\* Every object holds what its API type allows (confidential_platform_types.go,
\* rawattestationreport_types.go).
AttestationTypeOK ==
    /\ clock \in 0 .. MaxClock
    /\ reports \subseteq RawAttestationReport
    /\ \A e \in Evidences :
         /\ evidence[e] \in AttestationEvidence \cup {NoEvidence}
         /\ revokedUntil[e] \in Nat \cup {Never}
    /\ \/ verifying = Idle
       \/ /\ verifying.report \in reports
          /\ verifying.outcome \in {"Verified", "Failed"}

AttestationInit ==
    /\ clock = 0
    /\ reports = {}
    /\ evidence = [e \in Evidences |-> NoEvidence]
    /\ verifying = Idle
    /\ legacy \in BOOLEAN
    /\ revokedUntil = [e \in Evidences |-> Never]

-----------------------------------------------------------------------------
(* The node agent *)

\* createReport: the token, when it is real, was issued for this report; a
\* simulated one has no issue time and nobody looks at it.
CreateReport(e, sim, authentic) ==
    LET r == [of |-> e, simulated |-> sim,
              token |-> [issued |-> IF sim THEN Never ELSE clock,
                         authentic |-> authentic]] IN
    /\ Cardinality(reports) < MaxReports
    /\ r \notin reports
    /\ sim => authentic
    /\ reports' = reports \cup {r}
    /\ UNCHANGED <<clock, evidence, verifying, revokedUntil, legacy>>

-----------------------------------------------------------------------------
(* The central verifier *)

\* Mutant: the issue time is not looked at.
NeverStale(t) == TRUE

ValidateFreshness(t) == clock - t.issued <= MaxTokenAge

\* VerifyMAAToken; the issuer's keys may be unreachable, which the evidence
\* records like any other failure.
VerifyMAAToken(t, reachable) ==
    IF reachable /\ t.authentic /\ ValidateFreshness(t)
    THEN "Verified" ELSE "Failed"

\* Mutant: the attestation type is stored as it is.
RawType(type) == type

teeFromAttestationType(type) == IF type = "tdxvm" THEN "TDX" ELSE "SEV-SNP"

\* The first half of Reconcile: the outcome, and the evidence spec by
\* CreateOrUpdate.  Real evidence is always labelled SEV-SNP.
VerifyReport(r, reachable) ==
    LET status == evidence[r.of].status IN
    /\ verifying = Idle /\ r \in reports
    /\ evidence' =
         [evidence EXCEPT ![r.of] =
            [tee |-> IF r.simulated THEN teeFromAttestationType(ExpectedTEE)
                                    ELSE "SEV-SNP",
             simulated |-> r.simulated, status |-> status]]
    /\ verifying' = [report |-> r, status |-> status,
                     outcome |-> IF r.simulated THEN "Verified"
                                 ELSE VerifyMAAToken(r.token, reachable)]
    /\ UNCHANGED <<clock, reports, revokedUntil, legacy>>

\* The status that the verifier writes over the one it read: revoked is not
\* its field.
VerifiedStatus(old, r, outcome) ==
    [old EXCEPT !.verified = (outcome = "Verified"),
                !.lastVerified = IF outcome = "Verified" THEN clock ELSE @,
                !.mode = CASE r.simulated -> "simulated"
                           [] ~r.simulated /\ outcome = "Verified" -> "real"
                           [] OTHER -> "unverified"]

\* The second half: Status().Update, refused when the evidence was written in
\* between (a conflict: the reconcile is retried from the start).
WriteEvidenceStatus ==
    LET r == verifying.report IN
    /\ verifying # Idle
    /\ evidence' =
         IF evidence[r.of].status = verifying.status
         THEN [evidence EXCEPT ![r.of].status =
                 VerifiedStatus(@, r, verifying.outcome)]
         ELSE evidence
    /\ verifying' = Idle
    /\ UNCHANGED <<clock, reports, revokedUntil, legacy>>

\* The verifier stops between the two writes.
VerifierCrash ==
    /\ verifying # Idle
    /\ verifying' = Idle
    /\ UNCHANGED <<clock, reports, evidence, revokedUntil, legacy>>

-----------------------------------------------------------------------------
(* Revocation *)

\* An AIRevocationPolicy is created for an evidence object and reconciled
\* (AIRevocationPolicyReconciler) within a unit of time: status.expiresAt is
\* set; nobody reads status.active.
Revoke(e) ==
    /\ revokedUntil[e] = Never
    /\ revokedUntil' = [revokedUntil EXCEPT ![e] = clock + RevocationTTL]
    /\ UNCHANGED <<clock, reports, evidence, verifying, legacy>>

isEvidenceRevoked(e) == revokedUntil[e] # Never /\ clock <= revokedUntil[e]

\* The status that the older reconciler writes.
ReconciledStatus(old, revoked, verified) ==
    [old EXCEPT !.revoked = revoked, !.verified = verified,
                !.lastVerified = IF verified THEN clock ELSE @]

\* AttestationEvidenceReconciler.Reconcile.  The verifier sets neither digest
\* nor signatures, so that only simulated evidence is verified here.
ReconcileEvidence(e) ==
    LET revoked == isEvidenceRevoked(e)
        verified == ~revoked /\ evidence[e].simulated IN
    /\ legacy
    /\ evidence[e] # NoEvidence
    /\ evidence' = [evidence EXCEPT
         ![e].status = ReconciledStatus(@, revoked, verified)]
    /\ UNCHANGED <<clock, reports, verifying, revokedUntil, legacy>>

\* A unit of time is longer than a reconcile of the verifier.
Tick ==
    /\ clock < MaxClock /\ verifying = Idle
    /\ clock' = clock + 1
    /\ UNCHANGED <<reports, evidence, verifying, revokedUntil, legacy>>

AttestationNext ==
    \/ \E e \in Evidences, sim, authentic \in BOOLEAN :
         CreateReport(e, sim, authentic)
    \/ \E r \in reports, reachable \in BOOLEAN : VerifyReport(r, reachable)
    \/ WriteEvidenceStatus
    \/ VerifierCrash
    \/ \E e \in Evidences :
         Revoke(e) \/ ReconcileEvidence(e)
    \/ Tick

=============================================================================
