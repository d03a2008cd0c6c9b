--------------------------- MODULE GatewayStream ---------------------------
(***************************************************************************)
(* Governed requests end to end: the ext_proc processor                    *)
(* (internal/govarextproc/server.go) drives each stream through admission, *)
(* claim, provider call, delivery and settlement by HTTP posts to the      *)
(* admission service (cmd/gov-ar-admission/main.go), whose handlers run    *)
(* the ledger transactions of GovarLedger.                                 *)
(*                                                                         *)
(* Several streams may carry the same x-request-id.  A post is executed    *)
(* any time after it was sent, also after its stream has ended: the client *)
(* gives up after ten seconds or with its stream, while the engine's       *)
(* transactions run on a context of their own.  Nothing is ever reposted.  *)
(* An answer that is lost ends the stream, and so does any other error.    *)
(*                                                                         *)
(* Requests and responses are buffered and have a body, as the Envoy       *)
(* configuration in the chart asks for.                                    *)
(***************************************************************************)
EXTENDS GovarLedger

CONSTANTS
    Streams,    \* ext_proc streams
    RequestOf   \* the x-request-id each stream's request carries

ASSUME RequestOfType == RequestOf \in [Streams -> Requests]

VARIABLES
    phase,   \* where Process is in each stream
    post,    \* the last post of each stream and its answer
    inbox,   \* govar_inbox: the events accepted of each request
    called   \* how often Envoy was told to call a provider for each request

gatewayVars == <<now, res, tenant, paid, phase, post, inbox, called>>

ledgerVars == <<now, res, tenant, paid>>

Phases == {"started", "admitting", "claiming", "forwarded", "delivering",
           "responding", "settling", "answered", "ended"}

Answers == {"none", "ok", "duplicate_request", "refused"}

\* Posts that report no usage.
NoUsage == [version |-> 0]

NoPost == [op |-> "none", usage |-> NoUsage, answer |-> "none"]

GatewayInit == /\ Init
               /\ phase = [s \in Streams |-> "started"]
               /\ post = [s \in Streams |-> NoPost]
               /\ inbox = [r \in Requests |-> {}]
               /\ called = [r \in Requests |-> 0]

-----------------------------------------------------------------------------
(* The processor *)

\* The stream posts op with usage u and waits in phase p.
Post(s, p, op, u) ==
    /\ phase' = [phase EXCEPT ![s] = p]
    /\ post' = [post EXCEPT ![s] = [op |-> op, usage |-> u, answer |-> "none"]]
    /\ UNCHANGED <<now, res, tenant, paid, inbox, called>>

RequestBody(s) == phase[s] = "started" /\ Post(s, "admitting", "admit", NoUsage)

\* Mutant of Admitted: a repeated admission is an admission.
AdmittedAgain(answer) == answer \in {"ok", "duplicate_request"}

Admitted(answer) == answer = "ok"

\* admitAndClaim after a positive admission.
ClaimAdmitted(s) ==
    /\ phase[s] = "admitting" /\ Admitted(post[s].answer)
    /\ Post(s, "claiming", "claim", NoUsage)

\* Mutant of Forward: a claim without an answer counts as done.
ForwardUnanswered(s) ==
    /\ phase[s] = "claiming" /\ post[s].answer \in {"none", "ok"}
    /\ phase' = [phase EXCEPT ![s] = "forwarded"]
    /\ called' = [called EXCEPT ![RequestOf[s]] = @ + 1]
    /\ UNCHANGED <<now, res, tenant, paid, post, inbox>>

\* bodyContinue with the route of a claimed attempt: Envoy calls the provider.
Forward(s) ==
    /\ phase[s] = "claiming" /\ post[s].answer = "ok"
    /\ phase' = [phase EXCEPT ![s] = "forwarded"]
    /\ called' = [called EXCEPT ![RequestOf[s]] = @ + 1]
    /\ UNCHANGED <<now, res, tenant, paid, post, inbox>>

ResponseHeaders(s) ==
    phase[s] = "forwarded" /\ Post(s, "delivering", "delivered", NoUsage)

PassHeaders(s) ==
    /\ phase[s] = "delivering" /\ post[s].answer = "ok"
    /\ phase' = [phase EXCEPT ![s] = "responding"]
    /\ UNCHANGED <<now, res, tenant, paid, post, inbox, called>>

\* What a response body may amount to: parseUsage's quantities at the frozen
\* prices.  It is final when no required basis is missing.
Reports(r) ==
    {u \in Settlements :
        u.version = 1 /\ (u.actual > res[r].reserved => u.exceeded)}

ResponseBody(s) ==
    /\ phase[s] = "responding"
    /\ \E u \in Reports(RequestOf[s]) : Post(s, "settling", "settle", u)

\* Mutant of PassBody: an error of the settlement does not stop the response.
PassBodyAnyway(s) ==
    /\ phase[s] = "settling" /\ post[s].answer # "none"
    /\ phase' = [phase EXCEPT ![s] = "answered"]
    /\ UNCHANGED <<now, res, tenant, paid, post, inbox, called>>

\* The buffered response goes to the caller.
PassBody(s) ==
    /\ phase[s] = "settling" /\ post[s].answer = "ok"
    /\ phase' = [phase EXCEPT ![s] = "answered"]
    /\ UNCHANGED <<now, res, tenant, paid, post, inbox, called>>

\* The stream ends early: the request or its route is unacceptable, an answer
\* is an error or does not come in time, a message is too large, the caller or
\* the provider goes away, or the process dies.
End(s) ==
    /\ phase[s] \notin {"answered", "ended"}
    /\ phase' = [phase EXCEPT ![s] = "ended"]
    /\ UNCHANGED <<now, res, tenant, paid, post, inbox, called>>

-----------------------------------------------------------------------------
(* The admission service *)

Waiting(s, op) == post[s].op = op /\ post[s].answer = "none"

Answer(s, a) == /\ post' = [post EXCEPT ![s].answer = a]
                /\ UNCHANGED <<phase, called>>

\* handleAdmit: a new request is admitted or turned down; one whose reservation
\* is still active is answered with that reservation.
ServeAdmit(s) ==
    LET r == RequestOf[s]
    IN  /\ Waiting(s, "admit")
        /\ \/ /\ \E p \in Policies, c \in Costs : Admit(r, p, c)
              /\ Answer(s, "ok")
           \/ (\E p \in Policies : AdmitRefused(r, p)) /\ Answer(s, "refused")
           \/ /\ Active(res[r]) /\ UNCHANGED ledgerVars
              /\ Answer(s, "duplicate_request")
        /\ UNCHANGED inbox

\* handleAdmit, handleDispatch or handleSettle answers with an error, or with a
\* decision that needs no reservation: the principal or its workload is not
\* accepted, an approval is missing, the engine refuses the transition or
\* cannot be reached.
ServeError(s) ==
    /\ post[s].op # "none" /\ post[s].answer = "none"
    /\ Answer(s, "refused")
    /\ UNCHANGED <<now, res, tenant, paid, inbox>>

\* The identity of a post's event: its id is the request and the operation, its
\* payload hash covers the usage.
Event(s) == [op |-> post[s].op, usage |-> post[s].usage]

\* The event is in the inbox, with the same payload.
Seen(s) == Event(s) \in inbox[RequestOf[s]]

\* The event id is not taken.
Fresh(s) == \A e \in inbox[RequestOf[s]] : e.op # post[s].op

\* The transition the event asks for.
Transition(s) ==
    \/ post[s].op = "claim" /\ Dispatch(RequestOf[s], "CLAIMED")
    \/ post[s].op = "delivered" /\ Dispatch(RequestOf[s], "DELIVERED")
    \/ post[s].op = "settle" /\ Settle(RequestOf[s], post[s].usage)

\* handleDispatch and handleSettle: a replay is answered without a change.
ServeEvent(s) ==
    /\ post[s].op \in {"claim", "delivered", "settle"}
    /\ post[s].answer = "none"
    /\ \/ Seen(s) /\ UNCHANGED <<now, res, tenant, paid, inbox>>
       \/ /\ Fresh(s) /\ Transition(s)
          /\ inbox' = [inbox EXCEPT ![RequestOf[s]] = @ \cup {Event(s)}]
    /\ Answer(s, "ok")

\* handleCancel, which ext_proc does not call but another client with the
\* gateway's role may: it refuses to declare a request unbilled.
ServeCancel(r) == Cancel(r, FALSE) /\ UNCHANGED <<phase, post, inbox, called>>

\* Liability queries, budget adjustments, expiry and the passing of windows.
Background ==
    /\ \/ \E o \in Tenants : Liability(o)
       \/ \E o \in Tenants, b \in Adjusted, d \in Payments : AdjustBudget(o, b, d)
       \/ \E S \in SUBSET Requests : ReconcileExpired(S)
       \/ \E w \in Windows : Clock(w)
    /\ UNCHANGED <<phase, post, inbox, called>>

Process(s) ==
    \/ RequestBody(s) \/ ClaimAdmitted(s) \/ Forward(s) \/ ResponseHeaders(s)
    \/ PassHeaders(s) \/ ResponseBody(s) \/ PassBody(s) \/ End(s)

Serve(s) == ServeAdmit(s) \/ ServeEvent(s) \/ ServeError(s)

GatewayNext ==
    \/ \E s \in Streams : Process(s) \/ Serve(s)
    \/ \E r \in Requests : ServeCancel(r)
    \/ Background

GatewaySpec == GatewayInit /\ [][GatewayNext]_gatewayVars

-----------------------------------------------------------------------------
(* Properties *)

\* However many streams carry a request's id, and whatever answers are lost,
\* a provider is called for it at most once (admitAndClaim refuses
\* "duplicate_request").
OneProviderCall == \A r \in Requests : called[r] <= 1

\* Once a provider may have been called for a request, nothing withdraws its
\* attempt or releases it as unbilled: not an expiry, a cancellation or a post
\* executed after its stream has ended.
CalledIsNeverReleased ==
    \A r \in Requests :
        called[r] > 0 => /\ res[r].outbox \in {"CLAIMED", "DELIVERED"}
                         /\ res[r].state \notin {Absent, "RESERVED"}
                         /\ Active(res[r]) \/ res[r].finalized

\* A caller gets a response only after the cost of that response has been
\* recorded, final or not as its usage was complete or not.
AnsweredIsSettled ==
    \A s \in Streams :
        phase[s] = "answered" =>
            LET q == res[RequestOf[s]]
            IN  /\ q.version = 1 /\ q.provisional = post[s].usage.actual
                /\ q.finalized = post[s].usage.final

=============================================================================
