---------------------------- MODULE RouteControl ----------------------------
(***************************************************************************)
(* The controllers that rewrite the rules of Envoy AI Gateway routes:      *)
(* sovereignty enforcement, budget fallback, manual overrides and approved *)
(* reroutes.  All of them go through actuateRouteControlsWithAnnotation,   *)
(* each with an annotation of its own in which the backend a rule had is   *)
(* saved before the rule is rewritten, so that it can be restored.         *)
(*                                                                         *)
(* Every controller has one worker.  An actuation indexes the backends of  *)
(* the models, lists the routes and updates them one by one; a route       *)
(* another controller wrote after the listing refuses the update, which    *)
(* ends the actuation with the remaining routes untouched.                 *)
(***************************************************************************)
EXTENDS Integers, FiniteSets

CONSTANTS
    None,        \* an absent value
    Models,      \* routed models, one rule each
    RouteOf,     \* the route that holds the rule of a model, a number
    Original,    \* the backend each rule starts with; a string
    Block,       \* gatewayreroute.BlockBackendName
    NameOf,      \* the name of a model; a string
    Reroutes,    \* [source, target] pairs that overrides and changes ask for
    Fallback,    \* the budget's fallback model
    Dear,        \* models dearer than the fallback in the budget's scope
    MaxEdits     \* bound on the edits of the controllers' objects

ASSUME RouteAssumption ==
    /\ RouteOf \in [Models -> Nat \ {0}]
    /\ \A m \in Models : Original[m] # None
    /\ Reroutes \subseteq [source : Models, target : Models]
    /\ Fallback \in Models /\ Dear \subseteq Models \ {Fallback}
    /\ MaxEdits \in Nat

VARIABLES
    rule,      \* [backend, body] of each model's rule; body is the bodyMutation
    saved,     \* saved[k][m]: the backend the annotation of k holds for m, or None
    task,      \* the actuation each controller is in
    sov,       \* the sovereignty policy and what its evaluation yields
    budget,    \* the budget policy
    override,  \* the AIRouteOverride objects, by the reroute they ask for
    approved,  \* phase of the approved AIChangeRequests, by the reroute
    edits,     \* edits of these objects so far
    writers    \* history: the controllers that ever wrote a model's rule

routeVars == <<rule, saved, task, sov, budget, override, approved, edits, writers>>

Keys == {"sovereignty", "budget", "override", "change"}
Routes == {RouteOf[m] : m \in Models}
Idle == [stage |-> "idle"]
Absent == [phase |-> "absent", deleting |-> FALSE]

RouteInit ==
    /\ rule = [m \in Models |-> [backend |-> Original[m], body |-> None]]
    /\ saved = [k \in Keys |-> [m \in Models |-> None]]
    /\ task = [k \in Keys |-> Idle]
    /\ sov = [present |-> FALSE, deleting |-> FALSE, enforce |-> FALSE,
              exposed |-> {}, compliant |-> None]
    /\ budget = [present |-> FALSE, deleting |-> FALSE, exceeded |-> FALSE]
    /\ override = [q \in Reroutes |-> Absent]
    /\ approved = [q \in Reroutes |-> "absent"]
    /\ edits = 0
    /\ writers = [m \in Models |-> {}]

-----------------------------------------------------------------------------
(* internal/controller/gatewayactuator.go, internal/gatewayreroute *)

\* Mutant of ModelBackends: the reserved backend is a backend like any other.
ModelBackendsAll == [m \in Models |-> rule[m].backend]

\* modelBackends: the backend that serves each model now, blocked ones left out.
ModelBackends ==
    [m \in Models |-> IF rule[m].backend = Block THEN None ELSE rule[m].backend]

\* The lookup backends[target] of ApplyControls, whose keys are model names.
BackendNamed(mb, target) ==
    IF \E m \in Models : NameOf[m] = target
    THEN mb[CHOOSE m \in Models : NameOf[m] = target] ELSE None

\* Mutant of SavedBefore: what is saved is what the rule has now.
SavedAnew(k, m) == rule[m].backend

\* The saved original once the rule of m is controlled by k: recorded once.
SavedBefore(k, m) == IF saved[k][m] = None THEN rule[m].backend ELSE saved[k][m]

\* ApplyControls on the rule of m: its new rule and saved entry.  want maps a
\* model to the name of its target, or to None.
Applied(k, m, want, block, mb) ==
    IF want[m] # None
    THEN IF BackendNamed(mb, want[m]) = None
         THEN [rule |-> rule[m], saved |-> saved[k][m]]
         ELSE [rule |-> [backend |-> BackendNamed(mb, want[m]), body |-> want[m]],
               saved |-> SavedBefore(k, m)]
    ELSE IF m \in block
    THEN [rule |-> [backend |-> Block, body |-> None], saved |-> SavedBefore(k, m)]
    ELSE IF saved[k][m] # None
    THEN [rule |-> [backend |-> saved[k][m], body |-> None], saved |-> None]
    ELSE [rule |-> rule[m], saved |-> None]

\* The models whose control took effect: keys of res.Rerouted.
Rerouted(m, want, mb) == want[m] # None /\ BackendNamed(mb, want[m]) # None

NoWant == [m \in Models |-> None]

\* A controller enters actuateRouteControlsWithAnnotation and reads the index.
Start(k, want, block, object) ==
    /\ task[k] = Idle
    /\ task' = [task EXCEPT ![k] = [stage |-> "index", want |-> want, block |-> block,
                                    mb |-> ModelBackends, object |-> object]]

\* The second listing, of the routes to be updated.
List(k) ==
    /\ task[k].stage = "index"
    /\ task' = [task EXCEPT ![k] = [stage |-> "update", want |-> @.want, block |-> @.block,
                                    mb |-> @.mb, object |-> @.object,
                                    todo |-> Routes, stale |-> {}]]
    /\ UNCHANGED <<rule, saved, sov, budget, override, approved, edits, writers>>

Next1(t) == CHOOSE r \in t.todo : \A s \in t.todo : r <= s
Stage(k, s) == task[k].stage = s

\* Other controllers that listed route r see a stale copy once it is written.
WithStale(k, r, t) ==
    [j \in Keys |-> IF j # k /\ t[j].stage = "update"
                    THEN [t[j] EXCEPT !.stale = @ \cup {r}] ELSE t[j]]

\* The update of the next route: it is rewritten, left alone, or found stale.
Update(k) ==
    LET t == task[k]
        r == Next1(t)
        here == {m \in Models : RouteOf[m] = r}
        new == [m \in Models |-> IF m \in here THEN Applied(k, m, t.want, t.block, t.mb)
                                 ELSE [rule |-> rule[m], saved |-> saved[k][m]]]
        changed == \E m \in here : Rerouted(m, t.want, t.mb) \/ saved[k][m] # None
                                   \/ (t.want[m] = None /\ m \in t.block)
        differs == {m \in here : new[m].rule # rule[m] \/ new[m].saved # saved[k][m]}
        after == [task EXCEPT ![k].todo = @ \ {r}]
    IN  /\ Stage(k, "update") /\ t.todo # {}
        /\ IF changed /\ r \in t.stale
           THEN /\ task' = [task EXCEPT ![k].stage = "failed"]
                /\ UNCHANGED <<rule, saved, writers>>
           ELSE /\ rule' = [m \in Models |-> new[m].rule]
                /\ saved' = [saved EXCEPT ![k] = [m \in Models |-> new[m].saved]]
                /\ task' = IF differs = {} THEN after ELSE WithStale(k, r, after)
                /\ writers' = [m \in Models |-> IF m \in differs THEN writers[m] \cup {k}
                                                ELSE writers[m]]
        /\ UNCHANGED <<sov, budget, override, approved, edits>>

\* The actuation is over, without and with an error.
Actuated(k) == Stage(k, "update") /\ task[k].todo = {}
Ended(k) == Actuated(k) \/ Stage(k, "failed")
Finish(k) == task' = [task EXCEPT ![k] = Idle]

-----------------------------------------------------------------------------
(* AISovereigntyPolicyReconciler *)

\* DecideSovereignty, as the controller turns it into reroutes and blocks.
SovWant == [m \in Models |->
    IF sov.enforce /\ m \in sov.exposed /\ sov.compliant # None
    THEN NameOf[sov.compliant] ELSE None]

\* Mutant of SovBlock: a model with no compliant target is left alone.
SovBlockNone == {}

\* The exposed models are blocked when there is no compliant model.
SovBlock == IF sov.enforce /\ sov.compliant = None THEN sov.exposed ELSE {}

\* Reconcile up to the actuation; a policy being deleted wants nothing.
SovReconcile ==
    /\ sov.present
    /\ IF sov.deleting THEN Start("sovereignty", NoWant, {}, "delete")
       ELSE Start("sovereignty", SovWant, SovBlock, "keep")
    /\ UNCHANGED <<rule, saved, sov, budget, override, approved, edits, writers>>

\* The rest of Reconcile.  An error is logged: a deleted policy is let go.
SovFinish ==
    /\ Ended("sovereignty")
    /\ Finish("sovereignty")
    /\ sov' = IF task["sovereignty"].object = "delete"
              THEN [sov EXCEPT !.present = FALSE, !.deleting = FALSE, !.enforce = FALSE]
              ELSE sov
    /\ UNCHANGED <<rule, saved, budget, override, approved, edits, writers>>

-----------------------------------------------------------------------------
(* AIBudgetPolicyReconciler and AIRouteOverrideReconciler *)

\* budgetFallbackDesired in enforce mode: the dear models, when the budget is
\* exceeded and no sovereignty policy is enforced.
BudgetWant == [m \in Models |->
    IF budget.exceeded /\ ~(sov.present /\ sov.enforce) /\ m \in Dear
    THEN NameOf[Fallback] ELSE None]

BudgetReconcile ==
    /\ budget.present
    /\ IF budget.deleting THEN Start("budget", NoWant, {}, "delete")
       ELSE Start("budget", BudgetWant, {}, "keep")
    /\ UNCHANGED <<rule, saved, sov, budget, override, approved, edits, writers>>

BudgetFinish ==
    /\ Ended("budget")
    /\ Finish("budget")
    /\ budget' = IF task["budget"].object = "delete"
                 THEN [budget EXCEPT !.present = FALSE, !.deleting = FALSE] ELSE budget
    /\ UNCHANGED <<rule, saved, sov, override, approved, edits, writers>>

\* What overrides and changes pass as the wanted target of their source: the
\* name of the backend that serves their target model.
RerouteWant(q) == [m \in Models |-> IF m = q.source THEN ModelBackends[q.target] ELSE None]

\* AIRouteOverrideReconciler.Reconcile up to the actuation.
OverrideReconcile(q) ==
    /\ override[q].phase # "absent"
    /\ task["override"] = Idle
    /\ IF override[q].deleting
       THEN Start("override", NoWant, {}, q) /\ UNCHANGED override
       ELSE IF ModelBackends[q.target] = None
       THEN override' = [override EXCEPT ![q].phase = "Failed"] /\ UNCHANGED task
       ELSE Start("override", RerouteWant(q), {}, q) /\ UNCHANGED override
    /\ UNCHANGED <<rule, saved, sov, budget, approved, edits, writers>>

\* Its end.  A deleted override is let go whether or not it was reverted; an
\* error leaves the status for the retry.
OverrideFinish ==
    LET t == task["override"]
        q == t.object
        next == IF override[q].deleting /\ t.want = NoWant THEN Absent
                ELSE IF Stage("override", "failed") THEN override[q]
                ELSE [override[q] EXCEPT !.phase =
                        IF Rerouted(q.source, t.want, t.mb) THEN "Actuated" ELSE "Failed"]
    IN  /\ Ended("override")
        /\ override' = [override EXCEPT ![q] = next]
        /\ Finish("override")
        /\ UNCHANGED <<rule, saved, sov, budget, approved, edits, writers>>

-----------------------------------------------------------------------------
(* AIChangeRequestReconciler.actuate, for an approved reroute *)

ChangeReconcile(q) ==
    /\ approved[q] \in {"Approved", "Failed"}
    /\ task["change"] = Idle
    /\ IF ModelBackends[q.target] = None
       THEN approved' = [approved EXCEPT ![q] = "Failed"] /\ UNCHANGED task
       ELSE Start("change", RerouteWant(q), {}, q) /\ UNCHANGED approved
    /\ UNCHANGED <<rule, saved, sov, budget, override, edits, writers>>

ChangeFinish ==
    LET t == task["change"]
        q == t.object
    IN  /\ Ended("change")
        /\ approved' = IF Stage("change", "failed") THEN approved
                       ELSE [approved EXCEPT ![q] =
                               IF Rerouted(q.source, t.want, t.mb) THEN "Actuated" ELSE "Failed"]
        /\ Finish("change")
        /\ UNCHANGED <<rule, saved, sov, budget, override, edits, writers>>

-----------------------------------------------------------------------------
(* Users, telemetry and the catalog *)

Edited == edits < MaxEdits /\ edits' = edits + 1

\* The policy is created or edited, telemetry or the catalog change what it
\* finds, or it is deleted: the finalizer keeps it until it was reconciled.
\* What is exposed does not matter in the other modes.
SovEdit ==
    /\ Edited
    /\ ~sov.deleting
    /\ \/ \E x \in SUBSET Models : \E c \in (Models \ x) \cup {None} :
             sov' = [present |-> TRUE, deleting |-> FALSE, enforce |-> x # {},
                     exposed |-> x, compliant |-> IF x = {} THEN None ELSE c]
       \/ sov.present /\ sov' = [sov EXCEPT !.deleting = TRUE]
    /\ UNCHANGED <<rule, saved, task, budget, override, approved, writers>>

BudgetEdit ==
    /\ Edited
    /\ ~budget.deleting
    /\ \/ budget' = [present |-> TRUE, deleting |-> FALSE, exceeded |-> ~budget.exceeded]
       \/ budget.present /\ budget' = [budget EXCEPT !.deleting = TRUE]
    /\ UNCHANGED <<rule, saved, task, sov, override, approved, writers>>

OverrideEdit(q) ==
    /\ Edited
    /\ \/ override[q] = Absent /\ override' = [override EXCEPT ![q].phase = "Pending"]
       \/ /\ override[q].phase # "absent" /\ ~override[q].deleting
          /\ override' = [override EXCEPT ![q].deleting = TRUE]
    /\ UNCHANGED <<rule, saved, task, sov, budget, approved, writers>>

\* A reviewer approves a reroute; nothing reverts it once it is deleted.
ChangeEdit(q) ==
    /\ Edited
    /\ approved[q] = "absent"
    /\ approved' = [approved EXCEPT ![q] = "Approved"]
    /\ UNCHANGED <<rule, saved, task, sov, budget, override, writers>>

-----------------------------------------------------------------------------
(* The specification *)

Controllers ==
    \/ SovReconcile \/ SovFinish
    \/ BudgetReconcile \/ BudgetFinish
    \/ OverrideFinish \/ ChangeFinish
    \/ \E q \in Reroutes : OverrideReconcile(q) \/ ChangeReconcile(q)
    \/ \E k \in Keys : List(k) \/ Update(k)

RouteNext ==
    \/ Controllers
    \/ SovEdit
    \/ BudgetEdit
    \/ \E q \in Reroutes : OverrideEdit(q) \/ ChangeEdit(q)

RouteSpec == RouteInit /\ [][RouteNext]_routeVars

\* Every controller's worker runs, and reconciles its objects periodically.
RouteFairness ==
    /\ WF_routeVars(SovReconcile) /\ WF_routeVars(SovFinish)
    /\ WF_routeVars(BudgetReconcile) /\ WF_routeVars(BudgetFinish)
    /\ WF_routeVars(OverrideFinish) /\ WF_routeVars(ChangeFinish)
    /\ \A q \in Reroutes : WF_routeVars(OverrideReconcile(q))
    /\ \A q \in Reroutes : WF_routeVars(ChangeReconcile(q))
    /\ \A k \in Keys : WF_routeVars(List(k)) /\ WF_routeVars(Update(k))

RouteLiveSpec == RouteSpec /\ RouteFairness

-----------------------------------------------------------------------------
(* Properties *)

\* A rule only one controller ever wrote is either under its control, with the
\* original backend saved, or exactly as it was: conflicts, half-done
\* actuations, retries and deletions lose no original backend.
SoleWriterRestores ==
    \A m \in Models : \A k \in Keys : writers[m] \subseteq {k} =>
        IF saved[k][m] = None
        THEN rule[m] = [backend |-> Original[m], body |-> None]
        ELSE saved[k][m] = Original[m]

\* Traffic is never rewritten to another model and sent to the reserved
\* backend: the index leaves out models that are themselves blocked.
NeverReroutedToBlock == \A m \in Models : rule[m].body # None => rule[m].backend # Block

\* The sovereignty policy is being enforced.
Enforcing == sov.present /\ ~sov.deleting /\ sov.enforce

\* Every exposed model is kept from its own backend.
Enforced == \A m \in sov.exposed : rule[m].backend # Original[m]

\* When a policy stays in enforce mode its exposed models end up away from
\* their own backends for good, on routes no other controller ever wrote,
\* however often the policy, the telemetry and the compliant target changed.
SovereigntyPrevails ==
    (<>[]Enforcing /\ [](\A m \in Models : writers[m] \subseteq {"sovereignty"}))
        => <>[]Enforced

=============================================================================
