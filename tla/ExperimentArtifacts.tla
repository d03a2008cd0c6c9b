------------------------- MODULE ExperimentArtifacts -------------------------
(* How a finished experiment is published: WriteArtifacts (edition 1) and      *)
(* writeArtifactsV2 (edition 2) put a run's files into a directory one after   *)
(* the other, each created exclusively, written and synced.  Edition 1 reads   *)
(* its files back and then publishes the manifest as the last one; edition 2   *)
(* publishes the manifest, reads everything back, publishes COMPLETED.json,    *)
(* one for the whole directory, and reads everything back again.               *)
(*                                                                             *)
(* Several processes may publish into one directory, under the same run or     *)
(* different ones; each may crash and be started again, and the machine may    *)
(* lose power.  A file's bytes survive that once the file was synced and its   *)
(* name once the directory was; otherwise either may be lost.                  *)
EXTENDS Integers, Sequences

CONSTANTS
    Publishers,     \* the processes
    Plans,          \* what each may publish: [edition, run, body]
    MaxRestarts,    \* bound: crashes per process
    MaxPowerLosses  \* bound: power losses

ASSUME PlansAssumption == \A q \in Plans : q.edition \in {1, 2}

VARIABLES
    plan,      \* plan[p]: the edition, the run and the content p publishes
    at,        \* at[p]: the step of p
    disk,      \* disk[name]: [body, synced, named] of each file; an empty body is torn
    restarts,  \* restarts[p]: crashes so far
    losses     \* power losses so far

artifactVars == <<plan, at, disk, restarts, losses>>

\* The files of an edition in the order of their publication: two stand for the
\* inputs and the results, then the manifest, then the completion.
Parts(edition) ==
    IF edition = 2 THEN <<"inputs", "results", "manifest", "COMPLETED">>
    ELSE <<"inputs", "results", "manifest">>

Name(q, part) == IF part = "COMPLETED" THEN <<"any", part>> ELSE <<q.run, part>>

namesForRun(q) == {Name(q, Parts(q.edition)[n]) : n \in DOMAIN Parts(q.edition)}

ArtifactsInit ==
    /\ plan \in [Publishers -> Plans]
    /\ at = [p \in Publishers |-> [step |-> "preflight", part |-> 1]]
    /\ disk = [n \in {} |-> 0]
    /\ restarts = [p \in Publishers |-> 0]
    /\ losses = 0

Go(p, step, part) == at' = [at EXCEPT ![p] = [step |-> step, part |-> part]]

Current(p) == Name(plan[p], Parts(plan[p].edition)[at[p].part])

\* The run's files read back whole and as written (of the first n parts).
Readable(q, n) ==
    \A m \in 1..n : LET name == Name(q, Parts(q.edition)[m])
                    IN name \in DOMAIN disk /\ disk[name].body = <<q>>

\* The step after the part just published: what is read back, and when.
AfterPart(q, part) ==
    IF (q.edition = 1 /\ part = 2) \/ (q.edition = 2 /\ part \in {3, 4}) THEN "verify"
    ELSE IF part = Len(Parts(q.edition)) THEN "done" ELSE "create"

-----------------------------------------------------------------------------
\* A name that exists, whole or not, ends the attempt before anything is read.
Preflight(p) ==
    /\ at[p].step = "preflight"
    /\ IF namesForRun(plan[p]) \cap DOMAIN disk = {} THEN Go(p, "create", 1) ELSE Go(p, "refused", 1)
    /\ UNCHANGED <<plan, disk, restarts, losses>>

\* A mutant: the file is opened without O_EXCL and truncated if it is there.
CreateOrTruncate(p) ==
    /\ at[p].step = "create"
    /\ disk' = [n \in DOMAIN disk \cup {Current(p)} |->
                 IF n = Current(p) THEN [body |-> <<>>, synced |-> FALSE, named |-> FALSE] ELSE disk[n]]
    /\ Go(p, "write", at[p].part)
    /\ UNCHANGED <<plan, restarts, losses>>

\* The exclusive creation; a file made by another process since is an error.
Create(p) ==
    /\ at[p].step = "create"
    /\ IF Current(p) \in DOMAIN disk
       THEN Go(p, "failed", at[p].part) /\ UNCHANGED disk
       ELSE /\ disk' = [n \in DOMAIN disk \cup {Current(p)} |->
                         IF n = Current(p) THEN [body |-> <<>>, synced |-> FALSE, named |-> FALSE]
                         ELSE disk[n]]
            /\ Go(p, "write", at[p].part)
    /\ UNCHANGED <<plan, restarts, losses>>

Write(p) ==
    /\ at[p].step = "write"
    /\ disk' = [disk EXCEPT ![Current(p)].body = <<plan[p]>>]
    /\ Go(p, "sync", at[p].part)
    /\ UNCHANGED <<plan, restarts, losses>>

Advance(p) ==
    LET next == AfterPart(plan[p], at[p].part)
    IN Go(p, next, IF next = "create" THEN at[p].part + 1 ELSE at[p].part)

\* A mutant: the directory is not synced after the last file.
SyncNotTheLastName(p) ==
    /\ at[p].step = "sync"
    /\ disk' = [n \in DOMAIN disk |->
                 [disk[n] EXCEPT !.synced = @ \/ n = Current(p),
                                 !.named = @ \/ (plan[p].edition = 2 /\ at[p].part < 4)]]
    /\ Advance(p)
    /\ UNCHANGED <<plan, restarts, losses>>

\* The file is synced; edition 2 then syncs the directory, with every name in it.
Sync(p) ==
    /\ at[p].step = "sync"
    /\ disk' = [n \in DOMAIN disk |->
                 [disk[n] EXCEPT !.synced = @ \/ n = Current(p), !.named = @ \/ plan[p].edition = 2]]
    /\ Advance(p)
    /\ UNCHANGED <<plan, restarts, losses>>

\* What was published is read back; only then does the attempt go on, or return.
SelfVerify(p) ==
    LET last == at[p].part = Len(Parts(plan[p].edition))
    IN /\ at[p].step = "verify"
       /\ IF ~Readable(plan[p], at[p].part) THEN Go(p, "failed", at[p].part)
          ELSE IF last THEN Go(p, "done", at[p].part) ELSE Go(p, "create", at[p].part + 1)
       /\ UNCHANGED <<plan, disk, restarts, losses>>

Ended == {"done", "refused", "failed", "dead"}

Crash(p) ==
    /\ at[p].step \notin Ended /\ restarts[p] < MaxRestarts
    /\ Go(p, "dead", at[p].part)
    /\ restarts' = [restarts EXCEPT ![p] = @ + 1]
    /\ UNCHANGED <<plan, disk, losses>>

\* The process is started again, with the same inputs.
Restart(p) ==
    /\ at[p].step = "dead"
    /\ Go(p, "preflight", 1)
    /\ UNCHANGED <<plan, disk, restarts, losses>>

PowerLoss ==
    /\ losses < MaxPowerLosses
    /\ losses' = losses + 1
    /\ at' = [p \in Publishers |-> IF at[p].step \in Ended THEN at[p] ELSE [step |-> "dead", part |-> 1]]
    /\ \E gone \in SUBSET {n \in DOMAIN disk : ~disk[n].named}, torn \in SUBSET {n \in DOMAIN disk : ~disk[n].synced} :
        disk' = [n \in DOMAIN disk \ gone |->
                  [body |-> IF n \in torn THEN <<>> ELSE disk[n].body, synced |-> TRUE, named |-> TRUE]]
    /\ UNCHANGED <<plan, restarts>>

ArtifactsNext ==
    \/ \E p \in DOMAIN at : \/ Preflight(p) \/ Create(p) \/ Write(p) \/ Sync(p)
                            \/ SelfVerify(p) \/ Crash(p) \/ Restart(p)
    \/ PowerLoss

ArtifactsSpec == ArtifactsInit /\ [][ArtifactsNext]_artifactVars

-----------------------------------------------------------------------------
\* The terminal file speaks the truth: whoever finds COMPLETED.json whole finds
\* the run it names whole, with one content throughout, after any crash or power
\* loss; of edition 1's manifest that is true as long as power was not lost.
MarkerImpliesWhole ==
    \A n \in DOMAIN disk :
        disk[n].body # <<>> =>
            LET q == disk[n].body[1]
                last == Len(Parts(q.edition))
            IN (n = Name(q, Parts(q.edition)[last]) /\ (q.edition = 2 \/ losses = 0))
               => Readable(q, last)

\* Success is kept: what a process that returned without an error published stays
\* readable, whatever other processes do in the directory and, for edition 2,
\* through a power loss; and only one run completes a directory of edition 2.
SuccessIsKept ==
    /\ \A p \in DOMAIN at :
        (at[p].step = "done" /\ (plan[p].edition = 2 \/ losses = 0))
            => Readable(plan[p], Len(Parts(plan[p].edition)))
    /\ \A p, r \in DOMAIN at :
        (/\ p # r /\ at[p].step = "done" /\ at[r].step = "done")
            => plan[p].edition = 1 \/ plan[r].edition = 1

\* A published result is whole for whoever published it and for whoever finds it.
ResultsAreWhole == MarkerImpliesWhole /\ SuccessIsKept

=============================================================================
