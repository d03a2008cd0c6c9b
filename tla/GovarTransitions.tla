-------------------------- MODULE GovarTransitions --------------------------
(***************************************************************************)
(* The state transitions of one GOV-AR reservation, as pure functions of   *)
(* the reservation record r and its tenant's ledger record t.  They are    *)
(* the code the two engines share (internal/govar/engine.go): both the     *)
(* in-memory Engine and the PostgresEngine call applyDispatch,             *)
(* applySettlement and applyCancel, and differ only in what they read and  *)
(* write around the call.                                                  *)
(*                                                                         *)
(* A transition yields a pair [res |-> r', ten |-> t'].  Where the code    *)
(* returns an error nothing is stored; the condition under which it does   *)
(* not is the operator named ...Accepted.                                  *)
(*                                                                         *)
(* Amounts are integer micro-euros.  A settlement u is the record          *)
(*   version   usage_version                                               *)
(*   actual    the cost SettleComponents derives from the frozen prices    *)
(*   exceeded  some component was used beyond its reserved quantity        *)
(*   final     finality, after an incomplete usage vector has cleared it   *)
(* Every accepted settlement names the reservation's last usage event as   *)
(* its predecessor (none for the first): the code refuses any other, so    *)
(* event identifiers are not part of the model.                            *)
(***************************************************************************)
EXTENDS Integers

OutboxStates == {"PENDING", "CLAIMED", "DELIVERED", "CANCELED"}

ReservationStates ==
    {"RESERVED", "DISPATCH_PENDING", "DISPATCHED", "UNRESOLVED",
     "SETTLED_PROVISIONAL", "LATE_SETTLED_PROVISIONAL",
     "CORRECTED_PROVISIONAL", "FINALIZED", "LATE_FINALIZED",
     "CANCELED_UNBILLED", "FAILED_UNBILLED", "EXPIRED_UNDISPATCHED"}

DispatchStatuses == {"CLAIMED", "DELIVERED", "AMBIGUOUS", "FAILED_UNBILLED"}

\* A request identifier no reservation has been made for: "NONE" is not a
\* state of the code but the absence of the row.
Absent == "NONE"

\* reservationIsActive, false for a request that was never admitted.
Active(r) ==
    r.state \notin {Absent, "CANCELED_UNBILLED", "FAILED_UNBILLED",
                    "EXPIRED_UNDISPATCHED", "FINALIZED", "LATE_FINALIZED"}

\* Mutant of Available: carried debt does not count.
AvailableIgnoringDebt(t) == t.budget - t.settled - t.reserved

\* tenantLedger.available
Available(t) == t.budget - t.settled - t.reserved - t.carried

\* The code's "if x < 0 { x = 0 }".
NonNeg(x) == IF x < 0 THEN 0 ELSE x

\* The reservation Admit creates, in the tenant's current window w, with
\* ceiling c.
NewReservation(c, w) ==
    [state |-> "RESERVED", outbox |-> "PENDING", reserved |-> c,
     residual |-> c, guard |-> 0, provisional |-> 0, base |-> 0,
     settledEffect |-> 0, carryEffect |-> 0, credit |-> 0, version |-> 0,
     carried |-> FALSE, finalized |-> FALSE, origin |-> w, enforcement |-> w]

\* What the table of reservations holds for an identifier it has no row for.
NoReservation == [NewReservation(0, 0) EXCEPT !.state = Absent]

\* What the reservation holds of its tenant's budget.
Hold(r) == r.residual + r.guard

\* What it contributes to the settled spend of window w.
Spend(r, w) == IF ~r.carried /\ r.enforcement = w THEN r.settledEffect ELSE 0

\* Mutant of Release: the tenant gets the whole ceiling back.
ReleaseOfCeiling(r, t) ==
    [res |-> [r EXCEPT !.residual = 0, !.guard = 0],
     ten |-> [t EXCEPT !.reserved = @ - r.reserved]]

\* Give back everything the reservation still holds.
Release(r, t) ==
    [res |-> [r EXCEPT !.residual = 0, !.guard = 0],
     ten |-> [t EXCEPT !.reserved = @ - Hold(r)]]

-----------------------------------------------------------------------------
(* applyDispatch.  FAILED_UNBILLED is always refused: a release has to go  *)
(* through Cancel.                                                         *)

DispatchAccepted(r, status) ==
    \/ /\ status = "CLAIMED"
       /\ r.state = "RESERVED" /\ r.outbox = "PENDING"
    \/ /\ status \in {"DELIVERED", "AMBIGUOUS"}
       /\ r.state = "DISPATCH_PENDING" /\ r.outbox = "CLAIMED"

ApplyDispatch(r, status) ==
    CASE status = "CLAIMED" ->
            [r EXCEPT !.state = "DISPATCH_PENDING", !.outbox = "CLAIMED"]
      [] status = "DELIVERED" ->
            [r EXCEPT !.state = "DISPATCHED", !.outbox = "DELIVERED"]
      [] OTHER ->
            [r EXCEPT !.state = "UNRESOLVED"]

-----------------------------------------------------------------------------
(* applyCancel.  A request whose cancellation is already recorded answers  *)
(* "duplicate" and changes nothing.                                        *)

CancelAccepted(r) ==
    \/ r.state = "RESERVED" /\ r.outbox = "PENDING"
    \/ r.state \in {"DISPATCH_PENDING", "DISPATCHED", "UNRESOLVED"}

\* Mutant of ApplyCancel: the outbox row stays deliverable.
CancelKeepingOutbox(r, t, authoritative) ==
    IF r.state # "RESERVED" /\ ~authoritative
    THEN [res |-> [r EXCEPT !.state = "UNRESOLVED"], ten |-> t]
    ELSE Release([r EXCEPT !.state = IF r.state = "RESERVED"
                                     THEN "CANCELED_UNBILLED"
                                     ELSE "FAILED_UNBILLED"], t)

ApplyCancel(r, t, authoritative) ==
    IF r.state # "RESERVED" /\ ~authoritative
    THEN [res |-> [r EXCEPT !.state = "UNRESOLVED"], ten |-> t]
    ELSE Release([r EXCEPT !.outbox = "CANCELED",
                           !.state = IF r.state = "RESERVED"
                                     THEN "CANCELED_UNBILLED"
                                     ELSE "FAILED_UNBILLED"], t)

-----------------------------------------------------------------------------
(* applySettlement *)

\* A repeat of the current version is effective only if it brings finality;
\* a non-final repeat answers "duplicate" and changes nothing.
SettleAccepted(r, u) ==
    /\ r.state \notin {Absent, "CANCELED_UNBILLED", "FAILED_UNBILLED", "RESERVED"}
    /\ r.outbox # "PENDING"
    /\ \/ u.version = r.version + 1
       \/ /\ ~r.finalized /\ r.version # 0
          /\ u.version = r.version /\ u.actual = r.provisional /\ u.final

\* Mutant of CorrectFinal: the debt already carried is charged again.
CorrectFinalTwice(r, t, u) ==
    LET effect == IF u.actual > r.provisional /\ u.actual > r.base
                  THEN IF r.carried THEN u.actual ELSE u.actual - r.base
                  ELSE r.carryEffect
    IN  [res |-> [r EXCEPT !.version = u.version, !.provisional = u.actual,
                           !.carryEffect = effect],
         ten |-> [t EXCEPT !.carried = @ + effect]]

\* A correction of a finalized request: a rise above the first actual becomes
\* carried debt, anything lower is an audit credit.
CorrectFinal(r, t, u) ==
    LET effect == IF u.actual > r.provisional /\ u.actual > r.base
                  THEN IF r.carried THEN u.actual ELSE u.actual - r.base
                  ELSE r.carryEffect
        credit == NonNeg(r.base - u.actual)
    IN  [res |-> [r EXCEPT !.version = u.version, !.provisional = u.actual,
                           !.carryEffect = effect, !.credit = credit],
         ten |-> [t EXCEPT !.carried = @ + (effect - r.carryEffect),
                           !.credit = @ + (credit - r.credit)]]

\* Mutant of UsageFirstLate: the hold is kept on top of the debt.
FirstLateKeepingHold(r, t, u) ==
    [res |-> [r EXCEPT !.carried = TRUE, !.carryEffect = u.actual,
                       !.enforcement = t.window],
     ten |-> [t EXCEPT !.carried = @ + u.actual]]

\* First usage of a request that is unresolved or from an earlier window: all
\* of it is debt of the current window.
UsageFirstLate(r, t, u) ==
    LET hold == NonNeg(r.reserved - u.actual)
    IN  [res |-> [r EXCEPT !.residual = hold, !.carried = TRUE,
                           !.carryEffect = u.actual, !.enforcement = t.window],
         ten |-> [t EXCEPT !.carried = @ + u.actual,
                           !.reserved = @ + (hold - r.residual)]]

\* Mutant of UsageCarried: a downward correction changes the hold too.
CarriedRehold(r, t, u) ==
    LET hold == NonNeg(r.reserved - u.actual)
        effect == IF u.actual > r.carryEffect THEN u.actual ELSE r.carryEffect
    IN  [res |-> [r EXCEPT !.residual = hold, !.carryEffect = effect],
         ten |-> [t EXCEPT !.reserved = @ + (hold - r.residual),
                           !.carried = @ + (effect - r.carryEffect)]]

\* A later version of carried usage: only a rise above the debt already
\* recorded changes the debt, a fall below it changes the credit alone, and a
\* return to exactly that debt leaves the credit as it was.
UsageCarried(r, t, u) ==
    LET rise == u.actual > r.carryEffect
        hold == IF u.actual < r.carryEffect THEN r.residual
                ELSE NonNeg(r.reserved - u.actual)
        effect == IF rise THEN u.actual ELSE r.carryEffect
        credit == IF u.actual = r.carryEffect THEN r.credit
                  ELSE NonNeg(r.base - u.actual)
    IN  [res |-> [r EXCEPT !.residual = hold, !.carryEffect = effect,
                           !.credit = credit],
         ten |-> [t EXCEPT !.reserved = IF rise THEN @ + (hold - r.residual)
                                                ELSE @,
                           !.carried = @ + (effect - r.carryEffect),
                           !.credit = @ + (credit - r.credit)]]

\* Mutant of UsageRolled: the credit of the earlier version is not taken back.
RolledRecredit(r, t, u) ==
    LET hold == NonNeg(r.reserved - u.actual)
        credit == NonNeg(r.base - u.actual)
        delta == u.actual - r.provisional
    IN  [res |-> [r EXCEPT !.residual = hold, !.guard = @ + delta,
                           !.credit = credit],
         ten |-> [t EXCEPT !.reserved = @ + ((hold - r.residual) + delta),
                           !.credit = @ + credit]]

\* A later version of usage whose window has closed: the guard follows it.
UsageRolled(r, t, u) ==
    LET hold == NonNeg(r.reserved - u.actual)
        credit == NonNeg(r.base - u.actual)
        delta == u.actual - r.provisional
    IN  [res |-> [r EXCEPT !.residual = hold, !.guard = @ + delta,
                           !.credit = credit],
         ten |-> [t EXCEPT !.reserved = @ + ((hold - r.residual) + delta),
                           !.credit = @ + (credit - r.credit)]]

\* Mutant of UsageOnTime: a correction is charged in full.
OnTimeInFull(r, t, u) ==
    LET hold == NonNeg(r.reserved - u.actual)
    IN  [res |-> [r EXCEPT !.residual = hold, !.settledEffect = u.actual],
         ten |-> [t EXCEPT !.settled = @ + u.actual,
                           !.reserved = @ + (hold - r.residual)]]

\* Usage in its own window.
UsageOnTime(r, t, u) ==
    LET hold == NonNeg(r.reserved - u.actual)
    IN  [res |-> [r EXCEPT !.residual = hold, !.settledEffect = u.actual],
         ten |-> [t EXCEPT !.settled = @ + (u.actual - r.provisional),
                           !.reserved = @ + (hold - r.residual)]]

RecordUsage(r, t, u) ==
    LET first == r.version = 0
        late == r.state = "UNRESOLVED" \/ t.window # r.origin
        q == [r EXCEPT !.outbox = "DELIVERED",
                       !.base = IF first THEN u.actual ELSE @]
        s == CASE first /\ late                  -> UsageFirstLate(q, t, u)
               [] ~(first /\ late) /\ q.carried  -> UsageCarried(q, t, u)
               [] ~(first /\ late) /\ ~q.carried
                  /\ q.enforcement # t.window    -> UsageRolled(q, t, u)
               [] OTHER                          -> UsageOnTime(q, t, u)
    IN  [res |-> [s.res EXCEPT !.provisional = u.actual, !.version = u.version],
         ten |-> s.ten]

\* The state a non-final settlement leaves the reservation in.
ProvisionalState(r, t, u) ==
    IF u.actual > r.reserved \/ u.exceeded \/ r.version > 1
    THEN "CORRECTED_PROVISIONAL"
    ELSE IF r.carried \/ r.state = "UNRESOLVED" \/ t.window # r.origin
         THEN "LATE_SETTLED_PROVISIONAL"
         ELSE "SETTLED_PROVISIONAL"

FinishSettlement(r, t, u) ==
    IF u.final
    THEN Release([r EXCEPT !.finalized = TRUE,
                           !.state = IF r.carried THEN "LATE_FINALIZED"
                                                  ELSE "FINALIZED"], t)
    ELSE [res |-> [r EXCEPT !.state = ProvisionalState(r, t, u)], ten |-> t]

ApplySettlement(r, t, u) ==
    IF r.finalized
    THEN CorrectFinal(r, t, u)
    ELSE LET s == IF u.version = r.version THEN [res |-> r, ten |-> t]
                                           ELSE RecordUsage(r, t, u)
         IN  FinishSettlement(s.res, s.ten, u)

-----------------------------------------------------------------------------
(* One reservation of ReconcileExpired: only a still pending outbox is     *)
(* released, everything that may have been billed is kept.                 *)

Expirable(r) ==
    \/ r.state = "RESERVED" /\ r.outbox = "PENDING"
    \/ r.state \in {"DISPATCH_PENDING", "DISPATCHED"}

ApplyExpiry(r) ==
    IF r.state = "RESERVED"
    THEN [r EXCEPT !.state = "EXPIRED_UNDISPATCHED", !.outbox = "CANCELED",
                   !.residual = 0, !.guard = 0]
    ELSE [r EXCEPT !.state = "UNRESOLVED"]
-----------------------------------------------------------------------------
(* What a stored reservation looks like, with w its tenant's window.       *)

\* States of a request no usage has been recorded for.
Unused == {Absent, "RESERVED", "DISPATCH_PENDING", "DISPATCHED", "UNRESOLVED",
           "CANCELED_UNBILLED", "FAILED_UNBILLED", "EXPIRED_UNDISPATCHED"}

\* The outbox states that go with a reservation state.
OutboxFits(r) ==
    CASE r.state \in {Absent, "RESERVED"} -> r.outbox = "PENDING"
      [] r.state = "DISPATCH_PENDING" -> r.outbox = "CLAIMED"
      [] r.state = "UNRESOLVED" -> r.outbox \in {"CLAIMED", "DELIVERED"}
      [] r.state \in {"CANCELED_UNBILLED", "FAILED_UNBILLED",
                      "EXPIRED_UNDISPATCHED"} -> r.outbox = "CANCELED"
      [] OTHER -> r.outbox = "DELIVERED"

UnusedShape(r) ==
    /\ r.provisional = 0 /\ r.settledEffect = 0 /\ r.carryEffect = 0
    /\ r.base = 0 /\ r.credit = 0 /\ r.guard = 0 /\ ~r.carried
    /\ r.enforcement = r.origin
    /\ r.residual = IF Active(r) THEN r.reserved ELSE 0

\* Carried usage keeps the rest of the ceiling over its debt; other usage keeps
\* the rest over its cost, and guards the cost once its window has closed.
UsageShape(r, w) ==
    IF r.carried
    THEN /\ r.guard = 0 /\ r.carryEffect >= r.provisional
         /\ r.residual = NonNeg(r.reserved - r.carryEffect)
    ELSE /\ r.carryEffect = 0
         /\ r.residual = NonNeg(r.reserved - r.provisional)
         /\ r.guard + Spend(r, w) = r.provisional
         /\ r.enforcement = w => r.guard = 0

Shape(r, w) ==
    /\ OutboxFits(r)
    /\ r.enforcement <= w
    /\ r.version = 0 <=> r.state \in Unused
    /\ r.finalized <=> r.state \in {"FINALIZED", "LATE_FINALIZED"}
    /\ r.state = "LATE_SETTLED_PROVISIONAL" => r.carried
    /\ r.version = 0 => UnusedShape(r)
    /\ r.version # 0 /\ ~r.finalized => UsageShape(r, w)
    /\ r.finalized => r.residual = 0 /\ r.guard = 0

=============================================================================
