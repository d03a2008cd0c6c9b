--------------------------- MODULE LiabilityBook ---------------------------
(***************************************************************************)
(* What the GOV-AR ledger promises, without its columns and states: a book *)
(* of what each request still weighs on its tenant's budget.               *)
(*                                                                         *)
(* An open request weighs the most of its ceiling, its last reported cost  *)
(* and its debt, in whatever window.  A withdrawn or expired one weighs    *)
(* nothing, and only an expired one may still be billed.  A final one      *)
(* weighs what it was charged in the current window and its debt, and its  *)
(* debt alone from the next window on.  A request is granted only if, with *)
(* it, the tenant's requests weigh no more than the budget and what was    *)
(* paid of the debts; nothing one request does changes the weight of       *)
(* another.                                                                *)
(***************************************************************************)
EXTENDS Sums

CONSTANTS Tenants, Requests, Owner, Windows, Budgets, Costs, Actuals, Payments

VARIABLES
    window,  \* the tenant's budget window, 0 before its first request
    budget,  \* the tenant's budget in that window
    paid,    \* what was paid of the tenant's debts
    stage,   \* where each request is in its life
    ceiling, \* the cost each request was granted
    cost,    \* the cost last reported for it
    debt,    \* what stays owed after its window has closed
    owed     \* what it weighs on the tenant's budget now

bookVars == <<window, budget, paid, stage, ceiling, cost, debt, owed>>

BookInit ==
    /\ window = [o \in Tenants |-> 0] /\ budget = [o \in Tenants |-> 0]
    /\ paid = [o \in Tenants |-> 0]
    /\ stage = [q \in Requests |-> "none"]
    /\ ceiling = [q \in Requests |-> 0] /\ cost = [q \in Requests |-> 0]
    /\ debt = [q \in Requests |-> 0] /\ owed = [q \in Requests |-> 0]

Own(o) == {q \in Requests : Owner[q] = o}

\* The largest of three amounts.
Most(a, b, c) ==
    IF a >= b /\ a >= c THEN a ELSE IF b >= c THEN b ELSE c

\* What every request owes when tenant o is served in window w.
Owed(o, w) ==
    [q \in Requests |-> IF Owner[q] = o /\ window[o] # w /\ stage[q] = "final"
                        THEN debt[q] ELSE owed[q]]

\* Tenant o is served in window w, with budget b.
Serve(o, w, b) ==
    /\ window[o] <= w
    /\ window' = [window EXCEPT ![o] = w]
    /\ budget' = [budget EXCEPT ![o] = b]

\* The budget may change with the window.
Rebudget(o, w, b) == Serve(o, w, b) /\ (b = budget[o] \/ window[o] # w)

Turn(o, w, b) ==
    /\ UNCHANGED <<stage, ceiling, cost, debt, paid>>
    /\ Rebudget(o, w, b)
    /\ owed' = Owed(o, w)

\* An authorised adjustment pays d of the debts and sets the budget.
Adjust(o, w, b, d) ==
    /\ UNCHANGED <<stage, ceiling, cost, debt>>
    /\ paid[o] + d <= SumOver(debt, Own(o))
    /\ paid' = [paid EXCEPT ![o] = @ + d]
    /\ Serve(o, w, b)
    /\ owed' = Owed(o, w)

Grant(r, w, b, c) ==
    /\ stage[r] = "none"
    /\ stage' = [stage EXCEPT ![r] = "open"]
    /\ ceiling' = [ceiling EXCEPT ![r] = c]
    /\ UNCHANGED <<paid, cost, debt>>
    /\ Rebudget(Owner[r], w, b)
    /\ SumOver(Owed(Owner[r], w), Own(Owner[r])) + c <= b + paid[Owner[r]]
    /\ owed' = [Owed(Owner[r], w) EXCEPT ![r] = c]

\* Nothing was billed and nothing will be.
Withdraw(r, w) ==
    /\ stage[r] = "open" /\ cost[r] = 0 /\ debt[r] = 0
    /\ stage' = [stage EXCEPT ![r] = "withdrawn"]
    /\ UNCHANGED <<paid, ceiling, cost, debt>>
    /\ Serve(Owner[r], w, budget[Owner[r]])
    /\ owed' = [Owed(Owner[r], w) EXCEPT ![r] = 0]

\* Nothing was billed, as far as is known.
Lapse(S) ==
    /\ S # {} /\ \A q \in S : stage[q] = "open" /\ cost[q] = 0 /\ debt[q] = 0
    /\ stage' = [q \in Requests |-> IF q \in S THEN "expired" ELSE stage[q]]
    /\ owed' = [q \in Requests |-> IF q \in S THEN 0 ELSE owed[q]]
    /\ UNCHANGED <<window, budget, paid, ceiling, cost, debt>>

\* The cost of r is now a and its debt y, and it owes x; it moves to stage g.
Bill(r, w, g, a, y, x) ==
    /\ stage' = [stage EXCEPT ![r] = g]
    /\ cost' = [cost EXCEPT ![r] = a]
    /\ debt' = [debt EXCEPT ![r] = y]
    /\ UNCHANGED <<paid, ceiling>>
    /\ Serve(Owner[r], w, budget[Owner[r]])
    /\ owed' = [Owed(Owner[r], w) EXCEPT ![r] = x]

\* All of a late cost becomes debt, if it exceeds the debt.
Late(r, a, y) == y = debt[r] \/ (y = a /\ a > debt[r])

Report(r, w, a, y) ==
    /\ stage[r] \in {"open", "expired"}
    /\ Late(r, a, y)
    /\ Bill(r, w, "open", a, y, Most(ceiling[r], a, y))

\* The last report: the request owes its cost in this window, or its debt.
Close(r, w, a, y) ==
    /\ stage[r] \in {"open", "expired"}
    /\ Late(r, a, y)
    /\ Bill(r, w, "final", a, y, a) \/ Bill(r, w, "final", a, y, y)

\* A correction of a final cost changes the request's debt alone.
Correct(r, w, a, y) ==
    /\ stage[r] = "final"
    /\ y = debt[r] \/ (y \in 0 .. a /\ a > cost[r])
    /\ Bill(r, w, "final", a, y, Owed(Owner[r], w)[r] + (y - debt[r]))

BookNext ==
    \/ \E o \in Tenants, w \in Windows : \E b \in {budget[o]} \cup Budgets :
          Turn(o, w, b) \/ \E d \in Payments : Adjust(o, w, b, d)
    \/ \E r \in Requests, w \in Windows :
          \/ \E b \in Budgets, c \in Costs : Grant(r, w, b, c)
          \/ Withdraw(r, w)
          \/ \E a \in Actuals : \E y \in {debt[r]} \cup 0 .. a :
                Report(r, w, a, y) \/ Close(r, w, a, y) \/ Correct(r, w, a, y)
    \/ \E S \in SUBSET Requests : Lapse(S)

BookSpec == BookInit /\ [][BookNext]_bookVars

=============================================================================
