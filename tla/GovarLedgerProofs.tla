-------------------------- MODULE GovarLedgerProofs --------------------------
(***************************************************************************)
(* The two engines of reservations, for any tenants, requests, policies,   *)
(* costs and bounds.                                                       *)
(*                                                                         *)
(* GovarLedger, the PostgreSQL engine, comes first: the transitions of     *)
(* GovarTransitions, each of which yields a well-formed reservation and    *)
(* moves every column of the tenant by exactly what it moves the           *)
(* reservation's share of it; and the actions of the ledger.               *)
(*                                                                         *)
(* The inductive invariant says of every tenant that each of its columns   *)
(* is a sum over its requests and that each of its reservations has one of *)
(* the shapes of GovarTransitions: without the shapes the columns are not  *)
(* preserved (a rollover guards exactly what was settled in the window it  *)
(* closes), without the sums the reserved column could go negative when an *)
(* expired reservation is released.                                        *)
(*                                                                         *)
(* The same invariant shows that the ledger implements LiabilityBook, and  *)
(* that a tenant's commitments grow only where the book lets a request     *)
(* weigh more: the shapes say what a reservation weighs in each of its     *)
(* states, and the sums turn a tenant's columns, all that admission looks  *)
(* at, into the weight of its requests.  One lemma per action of the       *)
(* ledger names the book's step.                                           *)
(*                                                                         *)
(* GovarMemory, the in-memory engine, may write a reservation it read      *)
(* before a rollover.  Its columns are still moved by exactly what the     *)
(* copy held; a rollover only ever raises a hold, so the copy written over *)
(* it leaves the reserved column too high, never too low.                  *)
(***************************************************************************)
EXTENDS GovarMemory, SumTheorems

-----------------------------------------------------------------------------
(* Transitions *)

\* A tenant record before the CHECK constraints have been applied.
RawTenant ==
    [budget : Nat, settled : Int, reserved : Int, carried : Int,
     credit : Int, active : Int, window : 0 .. MaxWindow,
     identity : Policies]

\* The tenant's columns move with the reservation's amounts.
Balanced(r, t, s) ==
    /\ s.ten.reserved = t.reserved + (Hold(s.res) - Hold(r))
    /\ s.ten.settled = t.settled
                       + (Spend(s.res, t.window) - Spend(r, t.window))
    /\ s.ten.carried = t.carried + (s.res.carryEffect - r.carryEffect)
    /\ s.ten.credit = t.credit + (s.res.credit - r.credit)
    /\ s.ten.active = t.active
    /\ s.ten.window = t.window

Sound(r, t, s) ==
    /\ s.res \in ReservationRecord
    /\ s.ten \in RawTenant
    /\ Shape(s.res, t.window)
    /\ Balanced(r, t, s)

\* A stored tenant record is one before the CHECK constraints too.
LEMMA TenantIsRaw == \A t \in TenantRecord : t \in RawTenant
BY DEF TenantRecord, RawTenant

\* The fields of a settlement are what the code has validated.
LEMMA SettlementFields ==
  ASSUME NEW u \in Settlements
  PROVE  u.actual \in Nat /\ u.version \in 0 .. MaxVersion /\ u.version # 0
<1>1. u.actual \in Actuals /\ u.version \in 1 .. MaxVersion
  BY DEF Settlements
<1>2. u.actual \in Nat
  BY <1>1, AmountsType
<1>3. u.version \in 0 .. MaxVersion /\ u.version # 0
  BY <1>1, BoundsType
<1> QED BY <1>2, <1>3

\* applyDispatch keeps shape and balance: it moves state and outbox only.
LEMMA DispatchSound ==
  ASSUME NEW r \in ReservationRecord, NEW t \in TenantRecord,
         Shape(r, t.window), NEW status \in DispatchStatuses,
         DispatchAccepted(r, status)
  PROVE  Sound(r, t, [res |-> ApplyDispatch(r, status), ten |-> t])
<1> DEFINE x == ApplyDispatch(r, status)
<1>1. x \in ReservationRecord
  BY DEF ApplyDispatch, ReservationRecord, ReservationStates, OutboxStates
<1>2. t \in RawTenant
  BY DEF TenantRecord, RawTenant
<1>3. Shape(x, t.window)
  BY DEF Shape, ApplyDispatch, ReservationRecord, DispatchAccepted, OutboxFits,
         Unused, UnusedShape, Active, Absent
<1>4. Hold(x) = Hold(r) /\ Spend(x, t.window) = Spend(r, t.window)
      /\ x.carryEffect = r.carryEffect /\ x.credit = r.credit
  BY DEF ApplyDispatch, ReservationRecord, Hold, Spend
<1> HIDE DEF x
<1>5. Hold(r) \in Int /\ Spend(r, t.window) \in Int
  BY DEF ReservationRecord, Hold, Spend
<1>6. Balanced(r, t, [res |-> x, ten |-> t])
  BY <1>4, <1>5 DEF Balanced, TenantRecord, ReservationRecord
<1> QED BY <1>1, <1>2, <1>3, <1>6 DEF Sound, x

\* applyCancel keeps shape and balance: what it releases leaves the tenant's
\* reserved column.
LEMMA CancelSound ==
  ASSUME NEW r \in ReservationRecord, NEW t \in TenantRecord,
         Shape(r, t.window), NEW authoritative \in BOOLEAN, CancelAccepted(r)
  PROVE  Sound(r, t, ApplyCancel(r, t, authoritative))
<1> DEFINE s == ApplyCancel(r, t, authoritative)
<1>1. s.res \in ReservationRecord /\ s.ten \in RawTenant
  <2>1. s.res \in ReservationRecord
    BY ZenonT(60) DEF ApplyCancel, Release, ReservationRecord, ReservationStates,
           OutboxStates
  <2>2. Hold(r) \in Int
    BY DEF Hold, ReservationRecord
  <2>3. s.ten \in {t, [t EXCEPT !.reserved = @ - Hold(r)]}
    BY DEF ApplyCancel, Release, ReservationRecord, Hold
  <2>4. t \in RawTenant /\ [t EXCEPT !.reserved = @ - Hold(r)] \in RawTenant
    BY <2>2 DEF TenantRecord, RawTenant
  <2> QED BY <2>1, <2>3, <2>4
<1>2. Shape(s.res, t.window)
  BY DEF Shape, ApplyCancel, Release, ReservationRecord, CancelAccepted,
         OutboxFits, Unused, UnusedShape, Active, Absent
<1>3. Balanced(r, t, s)
  BY DEF Balanced, ApplyCancel, Release, Hold, Spend, ReservationRecord,
         TenantRecord
<1> QED BY <1>1, <1>2, <1>3 DEF Sound

\* A correction after finality moves debt and credit of the reservation and of
\* its tenant by the same amounts.
LEMMA CorrectFinalSound ==
  ASSUME NEW r \in ReservationRecord, NEW t \in TenantRecord,
         Shape(r, t.window), NEW u \in Settlements, SettleAccepted(r, u),
         r.finalized
  PROVE  Sound(r, t, CorrectFinal(r, t, u))
<1> DEFINE effect == IF u.actual > r.provisional /\ u.actual > r.base
                     THEN IF r.carried THEN u.actual ELSE u.actual - r.base
                     ELSE r.carryEffect
           credit == NonNeg(r.base - u.actual)
           x == [r EXCEPT !.version = u.version, !.provisional = u.actual,
                          !.carryEffect = effect, !.credit = credit]
           y == [t EXCEPT !.carried = @ + (effect - r.carryEffect),
                          !.credit = @ + (credit - r.credit)]
<1>1. CorrectFinal(r, t, u) = [res |-> x, ten |-> y]
  BY DEF CorrectFinal
<1>2. u.actual \in Nat /\ u.version \in 0 .. MaxVersion /\ u.version # 0
  BY SettlementFields
<1>3. effect \in Nat /\ credit \in Nat
  BY <1>2 DEF NonNeg, ReservationRecord
<1> HIDE DEF effect, credit
<1>4. x \in ReservationRecord /\ y \in RawTenant
  <2>2. x \in ReservationRecord
    BY <1>2, <1>3, Zenon DEF ReservationRecord
  <2>3. /\ t.carried + (effect - r.carryEffect) \in Int
        /\ t.credit + (credit - r.credit) \in Int
    BY <1>3 DEF ReservationRecord, TenantRecord
  <2>4. y \in RawTenant
    BY <2>3, TenantIsRaw, Zenon DEF RawTenant
  <2> QED BY <2>2, <2>4
<1>5. Shape(x, t.window)
  BY <1>2, <1>3, BoundsType DEF Shape, ReservationRecord, OutboxFits, Unused, Absent
<1>6. Balanced(r, t, [res |-> x, ten |-> y])
  <2>1. /\ Hold(x) = Hold(r) /\ Spend(x, t.window) = Spend(r, t.window)
        /\ x.carryEffect = effect /\ x.credit = credit
    BY DEF Hold, Spend, ReservationRecord
  <2>2. /\ y.reserved = t.reserved /\ y.settled = t.settled
        /\ y.active = t.active /\ y.window = t.window
        /\ y.carried = t.carried + (effect - r.carryEffect)
        /\ y.credit = t.credit + (credit - r.credit)
    BY DEF TenantRecord
  <2>3. Hold(r) \in Int /\ Spend(r, t.window) \in Int
    BY DEF Hold, Spend, ReservationRecord
  <2>4. t.reserved \in Int /\ t.settled \in Int
    BY DEF TenantRecord
  <2> HIDE DEF x, y
  <2> QED BY <2>1, <2>2, <2>3, <2>4 DEF Balanced
<1> QED BY <1>1, <1>4, <1>5, <1>6 DEF Sound

\* The reservation as RecordUsage leaves it, before its state is set.
Recorded(r, t, u, s) ==
    /\ s.res \in ReservationRecord
    /\ s.ten \in RawTenant
    /\ s.res.outbox = "DELIVERED" /\ s.res.version # 0
    /\ ~u.final /\ s.res.version = 1 /\ ~s.res.carried =>
          t.window = s.res.origin /\ s.res.state # "UNRESOLVED"
    /\ s.res.enforcement <= t.window
    /\ ~s.res.finalized
    /\ UsageShape(s.res, t.window)
    /\ Balanced(r, t, s)

\* The reservation as RecordUsage hands it to the branch that applies.
Delivered(r, u) == [r EXCEPT !.outbox = "DELIVERED",
                             !.base = IF r.version = 0 THEN u.actual ELSE @]

\* What RecordUsage makes of the branch's result.
Reported(s, u) ==
    [res |-> [s.res EXCEPT !.provisional = u.actual, !.version = u.version],
     ten |-> s.ten]

\* Marking the attempt delivered changes the outbox and the base cost only.
LEMMA DeliveredFields ==
  ASSUME NEW r \in ReservationRecord, NEW u \in Settlements,
         u.version = r.version + 1
  PROVE  LET q == Delivered(r, u)
         IN  /\ q \in ReservationRecord /\ q.outbox = "DELIVERED"
             /\ Hold(q) = Hold(r) /\ \A w : Spend(q, w) = Spend(r, w)
             /\ q.carryEffect = r.carryEffect /\ q.credit = r.credit
             /\ q.residual = r.residual /\ q.guard = r.guard
             /\ q.carried = r.carried /\ q.enforcement = r.enforcement
             /\ q.origin = r.origin /\ q.finalized = r.finalized
             /\ q.provisional = r.provisional /\ q.reserved = r.reserved
             /\ q.settledEffect = r.settledEffect /\ q.version = r.version
             /\ q.state = r.state
<1>1. u.actual \in Nat
  BY AmountsType DEF Settlements
<1> QED BY <1>1 DEF Delivered, ReservationRecord, OutboxStates, Hold, Spend

\* First usage of an unresolved or late request is recorded as carried debt.
LEMMA FirstLateRecorded ==
  ASSUME NEW r \in ReservationRecord, NEW t \in TenantRecord,
         Shape(r, t.window), NEW u \in Settlements, ~r.finalized,
         u.version = r.version + 1, r.version = 0
  PROVE  Recorded(r, t, u, Reported(UsageFirstLate(Delivered(r, u), t, u), u))
<1> DEFINE q == Delivered(r, u)
           hold == NonNeg(r.reserved - u.actual)
           x == [q EXCEPT !.residual = hold, !.carried = TRUE,
                          !.carryEffect = u.actual, !.enforcement = t.window,
                          !.provisional = u.actual, !.version = u.version]
           y == [t EXCEPT !.carried = @ + u.actual,
                          !.reserved = @ + (hold - r.residual)]
<1>1. /\ q \in ReservationRecord /\ q.outbox = "DELIVERED"
      /\ q.residual = r.residual /\ q.guard = r.guard /\ q.credit = r.credit
      /\ q.reserved = r.reserved /\ q.finalized = r.finalized
  BY DeliveredFields
<1> HIDE DEF q
<1>2. Reported(UsageFirstLate(q, t, u), u) = [res |-> x, ten |-> y]
  BY <1>1 DEF UsageFirstLate, Reported
<1>3. u.actual \in Nat /\ u.version \in 0 .. MaxVersion /\ u.version # 0
  BY SettlementFields
<1>4. hold \in Nat
  BY <1>3 DEF NonNeg, ReservationRecord
<1> HIDE DEF hold
<1>5. x \in ReservationRecord
  BY <1>1, <1>3, <1>4, Zenon DEF ReservationRecord, TenantRecord
<1>6. y \in RawTenant
  <2>1. t.carried + u.actual \in Int /\ t.reserved + (hold - r.residual) \in Int
    BY <1>3, <1>4 DEF ReservationRecord, TenantRecord
  <2> QED BY <2>1, TenantIsRaw, Zenon DEF RawTenant
<1>7. /\ x.outbox = "DELIVERED" /\ x.version = u.version /\ x.carried
      /\ x.enforcement = t.window /\ ~x.finalized /\ x.guard = r.guard
      /\ x.carryEffect = u.actual /\ x.provisional = u.actual
      /\ x.residual = hold /\ x.reserved = r.reserved /\ x.credit = r.credit
  BY <1>1 DEF ReservationRecord
<1>8. /\ y.carried = t.carried + u.actual /\ y.settled = t.settled
      /\ y.reserved = t.reserved + (hold - r.residual)
      /\ y.credit = t.credit /\ y.active = t.active /\ y.window = t.window
  BY DEF TenantRecord
<1> HIDE DEF x, y
<1>9. UsageShape(x, t.window)
  BY <1>3, <1>7 DEF UsageShape, hold, Shape, UnusedShape
<1>10. Balanced(r, t, [res |-> x, ten |-> y])
  BY <1>3, <1>4, <1>7, <1>8 DEF Balanced, Hold, Spend, Shape, UnusedShape,
     ReservationRecord, TenantRecord
<1> QED
  BY <1>2, <1>3, <1>5, <1>6, <1>7, <1>9, <1>10 DEF Recorded, TenantRecord, q

\* Usage in its own window is recorded as settled spend.
LEMMA OnTimeRecorded ==
  ASSUME NEW r \in ReservationRecord, NEW t \in TenantRecord,
         Shape(r, t.window), NEW u \in Settlements, ~r.finalized,
         u.version = r.version + 1, ~r.carried, r.enforcement = t.window,
         r.version = 0 => r.state # "UNRESOLVED"
  PROVE  Recorded(r, t, u, Reported(UsageOnTime(Delivered(r, u), t, u), u))
<1> DEFINE q == Delivered(r, u)
           hold == NonNeg(r.reserved - u.actual)
           x == [q EXCEPT !.residual = hold, !.settledEffect = u.actual,
                          !.provisional = u.actual, !.version = u.version]
           y == [t EXCEPT !.settled = @ + (u.actual - r.provisional),
                          !.reserved = @ + (hold - r.residual)]
<1>1. /\ q \in ReservationRecord /\ q.outbox = "DELIVERED"
      /\ q.residual = r.residual /\ q.guard = r.guard /\ q.credit = r.credit
      /\ q.reserved = r.reserved /\ q.finalized = r.finalized
      /\ q.carried = r.carried /\ q.enforcement = r.enforcement
      /\ q.origin = r.origin /\ q.carryEffect = r.carryEffect
      /\ q.provisional = r.provisional /\ q.settledEffect = r.settledEffect
      /\ q.state = r.state
  BY DeliveredFields
<1> HIDE DEF q
<1>2. Reported(UsageOnTime(q, t, u), u) = [res |-> x, ten |-> y]
  BY <1>1 DEF UsageOnTime, Reported
<1>3. u.actual \in Nat /\ u.version \in 0 .. MaxVersion /\ u.version # 0
  BY SettlementFields
<1>4. hold \in Nat
  BY <1>3 DEF NonNeg, ReservationRecord
<1> HIDE DEF hold
<1>5. x \in ReservationRecord
  BY <1>1, <1>3, <1>4, Zenon DEF ReservationRecord
<1>6. y \in RawTenant
  <2>1. /\ t.settled + (u.actual - r.provisional) \in Int
        /\ t.reserved + (hold - r.residual) \in Int
    BY <1>3, <1>4 DEF ReservationRecord, TenantRecord
  <2> QED BY <2>1, TenantIsRaw, Zenon DEF RawTenant
<1>7. /\ x.outbox = "DELIVERED" /\ x.version = u.version /\ ~x.carried
      /\ x.enforcement = t.window /\ x.origin = r.origin /\ ~x.finalized
      /\ x.guard = r.guard /\ x.carryEffect = r.carryEffect
      /\ x.provisional = u.actual /\ x.settledEffect = u.actual
      /\ x.residual = hold /\ x.reserved = r.reserved /\ x.credit = r.credit
      /\ x.state = r.state
  BY <1>1 DEF ReservationRecord
<1>8. /\ y.carried = t.carried /\ y.credit = t.credit
      /\ y.settled = t.settled + (u.actual - r.provisional)
      /\ y.reserved = t.reserved + (hold - r.residual)
      /\ y.active = t.active /\ y.window = t.window
  BY DEF TenantRecord
<1> HIDE DEF x, y
<1>9. /\ r.guard = 0 /\ r.carryEffect = 0 /\ r.settledEffect = r.provisional
      /\ r.version = 0 => r.origin = t.window
  BY DEF Shape, UnusedShape, UsageShape, Spend, ReservationRecord
<1>10. UsageShape(x, t.window)
  BY <1>3, <1>4, <1>7, <1>9 DEF UsageShape, hold, Spend
<1>11. Balanced(r, t, [res |-> x, ten |-> y])
  BY <1>3, <1>4, <1>7, <1>8, <1>9 DEF Balanced, Hold, Spend,
     ReservationRecord, TenantRecord
<1>12. x.version = 1 => t.window = x.origin /\ x.state # "UNRESOLVED"
  BY <1>3, <1>7, <1>9 DEF ReservationRecord
<1> QED
  BY <1>2, <1>3, <1>5, <1>6, <1>7, <1>10, <1>11, <1>12
     DEF Recorded, TenantRecord, q

\* Usage of a closed window is recorded in hold and guard.
LEMMA RolledRecorded ==
  ASSUME NEW r \in ReservationRecord, NEW t \in TenantRecord,
         Shape(r, t.window), NEW u \in Settlements, ~r.finalized,
         u.version = r.version + 1, r.version # 0, ~r.carried,
         r.enforcement # t.window
  PROVE  Recorded(r, t, u, Reported(UsageRolled(Delivered(r, u), t, u), u))
<1> DEFINE q == Delivered(r, u)
           hold == NonNeg(r.reserved - u.actual)
           credit == NonNeg(q.base - u.actual)
           delta == u.actual - r.provisional
           x == [q EXCEPT !.residual = hold, !.guard = @ + delta,
                          !.credit = credit,
                          !.provisional = u.actual, !.version = u.version]
           y == [t EXCEPT !.reserved = @ + ((hold - r.residual) + delta),
                          !.credit = @ + (credit - r.credit)]
<1>1. /\ q \in ReservationRecord /\ q.outbox = "DELIVERED"
      /\ q.residual = r.residual /\ q.guard = r.guard /\ q.credit = r.credit
      /\ q.reserved = r.reserved /\ q.finalized = r.finalized
      /\ q.carried = r.carried /\ q.enforcement = r.enforcement
      /\ q.origin = r.origin /\ q.carryEffect = r.carryEffect
      /\ q.provisional = r.provisional /\ q.settledEffect = r.settledEffect
      /\ q.state = r.state
  BY DeliveredFields
<1> HIDE DEF q
<1>2. Reported(UsageRolled(q, t, u), u) = [res |-> x, ten |-> y]
  BY <1>1 DEF UsageRolled, Reported
<1>3. u.actual \in Nat /\ u.version \in 0 .. MaxVersion /\ u.version # 0
  BY SettlementFields
<1>4. hold \in Nat /\ credit \in Nat /\ delta \in Int
  BY <1>1, <1>3 DEF NonNeg, ReservationRecord
<1>5. r.guard = r.provisional /\ r.carryEffect = 0
  BY DEF Shape, UsageShape, Spend, ReservationRecord
<1>6. r.guard + delta = u.actual
  BY <1>3, <1>5 DEF ReservationRecord
<1> HIDE DEF hold, credit, delta
<1>7. x \in ReservationRecord
  BY <1>1, <1>3, <1>4, <1>6, Zenon DEF ReservationRecord
<1>8. y \in RawTenant
  <2>1. /\ t.reserved + ((hold - r.residual) + delta) \in Int
        /\ t.credit + (credit - r.credit) \in Int
    BY <1>4 DEF ReservationRecord, TenantRecord
  <2> QED BY <2>1, TenantIsRaw, Zenon DEF RawTenant
<1>9. /\ x.outbox = "DELIVERED" /\ x.version = u.version /\ ~x.carried
      /\ x.enforcement = r.enforcement /\ ~x.finalized
      /\ x.guard = u.actual /\ x.carryEffect = r.carryEffect
      /\ x.provisional = u.actual /\ x.settledEffect = r.settledEffect
      /\ x.residual = hold /\ x.reserved = r.reserved /\ x.credit = credit
  BY <1>1, <1>6 DEF ReservationRecord
<1>10. /\ y.carried = t.carried /\ y.settled = t.settled
       /\ y.credit = t.credit + (credit - r.credit)
       /\ y.reserved = t.reserved + ((hold - r.residual) + delta)
       /\ y.active = t.active /\ y.window = t.window
  BY DEF TenantRecord
<1> HIDE DEF x, y
<1>11. UsageShape(x, t.window)
  BY <1>3, <1>4, <1>5, <1>9 DEF UsageShape, hold, Spend
<1>12. Balanced(r, t, [res |-> x, ten |-> y])
  BY <1>3, <1>4, <1>5, <1>9, <1>10 DEF Balanced, Hold, Spend, delta,
     ReservationRecord, TenantRecord
<1>13. x.version # 1
  BY <1>3, <1>9 DEF ReservationRecord
<1>14. x.enforcement <= t.window
  BY <1>9 DEF Shape
<1> QED
  BY <1>2, <1>3, <1>7, <1>8, <1>9, <1>11, <1>12, <1>13, <1>14
     DEF Recorded, q

\* A later version of carried usage is recorded in debt, hold and credit.
LEMMA CarriedRecorded ==
  ASSUME NEW r \in ReservationRecord, NEW t \in TenantRecord,
         Shape(r, t.window), NEW u \in Settlements, ~r.finalized,
         u.version = r.version + 1, r.version # 0, r.carried
  PROVE  Recorded(r, t, u, Reported(UsageCarried(Delivered(r, u), t, u), u))
<1> DEFINE q == Delivered(r, u)
           hold == NonNeg(r.reserved - u.actual)
           newHold == IF u.actual < r.carryEffect THEN r.residual ELSE hold
           newEffect == IF u.actual > r.carryEffect THEN u.actual
                        ELSE r.carryEffect
           newCredit == IF u.actual = r.carryEffect THEN r.credit
                        ELSE NonNeg(q.base - u.actual)
           x == [q EXCEPT !.residual = newHold, !.carryEffect = newEffect,
                          !.credit = newCredit,
                          !.provisional = u.actual, !.version = u.version]
           newReserved == IF u.actual > r.carryEffect
                          THEN t.reserved + (newHold - r.residual)
                          ELSE t.reserved
           y == [t EXCEPT !.reserved = newReserved,
                          !.carried = @ + (newEffect - r.carryEffect),
                          !.credit = @ + (newCredit - r.credit)]
<1>1. /\ q \in ReservationRecord /\ q.outbox = "DELIVERED"
      /\ q.residual = r.residual /\ q.guard = r.guard /\ q.credit = r.credit
      /\ q.reserved = r.reserved /\ q.finalized = r.finalized
      /\ q.carried = r.carried /\ q.enforcement = r.enforcement
      /\ q.origin = r.origin /\ q.carryEffect = r.carryEffect
      /\ q.provisional = r.provisional /\ q.settledEffect = r.settledEffect
      /\ q.state = r.state
  BY DeliveredFields
<1> HIDE DEF q
<1>2. u.actual \in Nat /\ u.version \in 0 .. MaxVersion /\ u.version # 0
  BY SettlementFields
<1>3. /\ r.guard = 0 /\ r.carryEffect \in Nat /\ r.carryEffect >= r.provisional
      /\ r.residual = NonNeg(r.reserved - r.carryEffect)
  BY DEF Shape, UsageShape, ReservationRecord
<1>4. newHold \in Nat /\ newCredit \in Nat /\ newEffect \in Nat
  BY <1>1, <1>2 DEF NonNeg, ReservationRecord
<1>5. Reported(UsageCarried(q, t, u), u) = [res |-> x, ten |-> y]
  BY <1>1 DEF UsageCarried, Reported
<1>6. /\ y \in RawTenant /\ y.settled = t.settled
      /\ y.active = t.active /\ y.window = t.window
      /\ y.reserved = t.reserved + (newHold - r.residual)
      /\ y.carried = t.carried + (newEffect - r.carryEffect)
      /\ y.credit = t.credit + (newCredit - r.credit)
  <2>1. /\ newReserved = t.reserved + (newHold - r.residual)
        /\ newReserved \in Int
    BY <1>2, <1>3, <1>4 DEF ReservationRecord, TenantRecord
  <2>2. /\ t.carried + (newEffect - r.carryEffect) \in Int
        /\ t.credit + (newCredit - r.credit) \in Int
    BY <1>4 DEF ReservationRecord, TenantRecord
  <2> HIDE DEF newHold, newEffect, newCredit, newReserved
  <2>3. y \in RawTenant
    BY <2>1, <2>2, TenantIsRaw, Zenon DEF RawTenant
  <2> QED BY <2>1, <2>3 DEF TenantRecord
<1>7. newHold = NonNeg(r.reserved - newEffect) /\ newEffect >= u.actual
  BY <1>2, <1>3
<1> HIDE DEF newHold, newCredit, newEffect, y
<1>8. x \in ReservationRecord
  BY <1>1, <1>2, <1>4, Zenon DEF ReservationRecord
<1>9. /\ x.outbox = "DELIVERED" /\ x.version = u.version /\ x.carried
      /\ x.enforcement = r.enforcement /\ ~x.finalized
      /\ x.guard = r.guard /\ x.carryEffect = newEffect
      /\ x.provisional = u.actual /\ x.settledEffect = r.settledEffect
      /\ x.residual = newHold /\ x.reserved = r.reserved
      /\ x.credit = newCredit
  BY <1>1 DEF ReservationRecord
<1> HIDE DEF x
<1>10. UsageShape(x, t.window)
  BY <1>3, <1>7, <1>9 DEF UsageShape
<1>11. Balanced(r, t, [res |-> x, ten |-> y])
  BY <1>3, <1>4, <1>6, <1>9 DEF Balanced, Hold, Spend,
     ReservationRecord, TenantRecord
<1>12. x.version # 1
  BY <1>2, <1>9 DEF ReservationRecord
<1>13. x.enforcement <= t.window
  BY <1>9 DEF Shape
<1> QED
  BY <1>2, <1>5, <1>6, <1>8, <1>9, <1>10, <1>11, <1>12, <1>13
     DEF Recorded, q

\* Whichever branch of applySettlement records usage, the record is balanced.
LEMMA RecordUsageSound ==
  ASSUME NEW r \in ReservationRecord, NEW t \in TenantRecord,
         Shape(r, t.window), NEW u \in Settlements, ~r.finalized,
         u.version = r.version + 1
  PROVE  Recorded(r, t, u, RecordUsage(r, t, u))
<1> DEFINE q == Delivered(r, u)
           late == r.state = "UNRESOLVED" \/ t.window # r.origin
<1>1. q.carried = r.carried /\ q.enforcement = r.enforcement
  BY DeliveredFields
<1>2. r.version = 0 => ~r.carried /\ r.enforcement = r.origin
  BY DEF Shape, UnusedShape
<1>3. CASE r.version = 0 /\ late
  <2>1. RecordUsage(r, t, u) = Reported(UsageFirstLate(q, t, u), u)
    BY <1>3 DEF RecordUsage, Reported, Delivered
  <2> QED BY <1>3, <2>1, FirstLateRecorded
<1>4. CASE ~(r.version = 0 /\ late) /\ r.carried
  <2>1. RecordUsage(r, t, u) = Reported(UsageCarried(q, t, u), u)
    BY <1>1, <1>4 DEF RecordUsage, Reported, Delivered
  <2> QED BY <1>2, <1>4, <2>1, CarriedRecorded
<1>5. CASE ~(r.version = 0 /\ late) /\ ~r.carried /\ r.enforcement # t.window
  <2>1. RecordUsage(r, t, u) = Reported(UsageRolled(q, t, u), u)
    BY <1>1, <1>5 DEF RecordUsage, Reported, Delivered
  <2> QED BY <1>2, <1>5, <2>1, RolledRecorded
<1>6. CASE ~(r.version = 0 /\ late) /\ ~r.carried /\ r.enforcement = t.window
  <2>1. RecordUsage(r, t, u) = Reported(UsageOnTime(q, t, u), u)
    BY <1>1, <1>6 DEF RecordUsage, Reported, Delivered
  <2> QED BY <1>6, <2>1, OnTimeRecorded
<1> QED BY <1>3, <1>4, <1>5, <1>6

\* Finality, or the choice of a provisional state, completes a recorded usage.
LEMMA FinishSound ==
  ASSUME NEW r \in ReservationRecord, NEW t \in TenantRecord,
         NEW u \in Settlements, NEW s, Recorded(r, t, u, s)
  PROVE  Sound(r, t, FinishSettlement(s.res, s.ten, u))
<1> DEFINE x == s.res
           y == s.ten
           z == FinishSettlement(x, y, u)
<1>1. /\ x \in ReservationRecord /\ y \in RawTenant
      /\ x.outbox = "DELIVERED" /\ x.version # 0 /\ ~x.finalized
      /\ x.enforcement <= t.window /\ UsageShape(x, t.window)
      /\ (~u.final /\ x.version = 1 /\ ~x.carried =>
            t.window = x.origin /\ x.state # "UNRESOLVED")
  BY DEF Recorded
<1>2. /\ y.reserved = t.reserved + (Hold(x) - Hold(r))
      /\ y.settled = t.settled + (Spend(x, t.window) - Spend(r, t.window))
      /\ y.carried = t.carried + (x.carryEffect - r.carryEffect)
      /\ y.credit = t.credit + (x.credit - r.credit)
      /\ y.active = t.active /\ y.window = t.window
  BY DEF Recorded, Balanced
<1> HIDE DEF x, y
<1>3. CASE u.final
  <2> DEFINE st == IF x.carried THEN "LATE_FINALIZED" ELSE "FINALIZED"
             p == [x EXCEPT !.finalized = TRUE, !.state = st,
                            !.residual = 0, !.guard = 0]
             v == [y EXCEPT !.reserved = @ - Hold(x)]
  <2>1. z = [res |-> p, ten |-> v]
    BY <1>1, <1>3 DEF FinishSettlement, Release, Hold, ReservationRecord
  <2>2. st \in ReservationStates \cup {Absent}
    BY DEF ReservationStates
  <2>3. p \in ReservationRecord
    BY <1>1, <2>2, Zenon DEF ReservationRecord
  <2>4. v \in RawTenant
    <3>1. y.reserved - Hold(x) \in Int
      BY <1>1 DEF RawTenant, Hold, ReservationRecord
    <3> QED BY <1>1, <3>1, Zenon DEF RawTenant
  <2>5. /\ p.state = st /\ p.finalized /\ p.residual = 0 /\ p.guard = 0
        /\ p.outbox = "DELIVERED" /\ p.version # 0 /\ p.credit = x.credit
        /\ p.enforcement = x.enforcement /\ p.carryEffect = x.carryEffect
        /\ p.carried = x.carried /\ p.settledEffect = x.settledEffect
    BY <1>1 DEF ReservationRecord
  <2>6. /\ v.reserved = y.reserved - Hold(x) /\ v.settled = y.settled
        /\ v.carried = y.carried /\ v.credit = y.credit
        /\ v.active = y.active /\ v.window = y.window
    BY <1>1 DEF RawTenant
  <2> HIDE DEF p, v
  <2>7. Shape(p, t.window)
    BY <1>1, <2>5 DEF Shape, OutboxFits, Unused, Absent
  <2>8. Hold(x) \in Int /\ Hold(r) \in Int
    BY <1>1 DEF Hold, ReservationRecord
  <2>9. Hold(p) = 0 /\ Spend(p, t.window) = Spend(x, t.window)
    BY <2>5 DEF Hold, Spend
  <2>10. Balanced(r, t, [res |-> p, ten |-> v])
    BY <1>2, <2>5, <2>6, <2>8, <2>9 DEF Balanced, TenantRecord
  <2> QED BY <2>1, <2>3, <2>4, <2>7, <2>10 DEF Sound, x, y
<1>4. CASE ~u.final
  <2> DEFINE st == ProvisionalState(x, y, u)
             p == [x EXCEPT !.state = st]
  <2>1. z = [res |-> p, ten |-> y]
    BY <1>4 DEF FinishSettlement
  <2>2. /\ st \in ReservationStates \cup {Absent}
        /\ st \in {"SETTLED_PROVISIONAL", "CORRECTED_PROVISIONAL",
                   "LATE_SETTLED_PROVISIONAL"}
    BY DEF ProvisionalState, ReservationStates
  <2>3. st = "LATE_SETTLED_PROVISIONAL" => x.carried
    <3>1. x.version > 1 \/ x.version = 1
      BY <1>1 DEF ReservationRecord
    <3> QED BY <1>1, <1>2, <1>4, <3>1 DEF ProvisionalState
  <2> HIDE DEF st
  <2>4. p \in ReservationRecord
    BY <1>1, <2>2, Zenon DEF ReservationRecord
  <2>5. /\ p.state = st /\ ~p.finalized /\ p.residual = x.residual
        /\ p.guard = x.guard /\ p.outbox = "DELIVERED" /\ p.version # 0
        /\ p.credit = x.credit /\ p.enforcement = x.enforcement
        /\ p.carryEffect = x.carryEffect /\ p.carried = x.carried
        /\ p.settledEffect = x.settledEffect /\ p.reserved = x.reserved
        /\ p.provisional = x.provisional
    BY <1>1 DEF ReservationRecord
  <2> HIDE DEF p
  <2>6. Hold(p) = Hold(x) /\ Spend(p, t.window) = Spend(x, t.window)
    BY <2>5 DEF Hold, Spend
  <2>7. UsageShape(p, t.window)
    BY <1>1, <2>5, <2>6 DEF UsageShape
  <2>8. Shape(p, t.window)
    BY <1>1, <2>2, <2>3, <2>5, <2>7 DEF Shape, OutboxFits, Unused, Absent
  <2>9. Balanced(r, t, [res |-> p, ten |-> y])
    BY <1>2, <2>5, <2>6 DEF Balanced
  <2> QED BY <1>1, <2>1, <2>4, <2>8, <2>9 DEF Sound, x, y
<1> QED BY <1>3, <1>4

\* applySettlement keeps shape and balance in all of its branches.
LEMMA SettlementSound ==
  ASSUME NEW r \in ReservationRecord, NEW t \in TenantRecord,
         Shape(r, t.window), NEW u \in Settlements, SettleAccepted(r, u)
  PROVE  Sound(r, t, ApplySettlement(r, t, u))
<1>1. CASE r.finalized
  BY <1>1, CorrectFinalSound DEF ApplySettlement
<1>2. CASE ~r.finalized /\ u.version = r.version + 1
  <2>1. u.version # r.version
    BY <1>2 DEF ReservationRecord
  <2>2. ApplySettlement(r, t, u) =
          FinishSettlement(RecordUsage(r, t, u).res, RecordUsage(r, t, u).ten, u)
    BY <1>2, <2>1 DEF ApplySettlement
  <2> QED BY <1>2, <2>2, RecordUsageSound, FinishSound
<1>3. CASE ~r.finalized /\ u.version # r.version + 1
  <2>1. r.version # 0 /\ u.version = r.version /\ u.final
    BY <1>3 DEF SettleAccepted
  <2> DEFINE s == [res |-> r, ten |-> t]
  <2>2. ApplySettlement(r, t, u) = FinishSettlement(s.res, s.ten, u)
    BY <1>3, <2>1 DEF ApplySettlement
  <2>3. Recorded(r, t, u, s)
    <3>1. /\ ~(r.state \in Unused) /\ UsageShape(r, t.window)
          /\ r.enforcement <= t.window /\ r.outbox = "DELIVERED"
      BY <1>3, <2>1 DEF Shape, OutboxFits, Unused
    <3>2. t \in RawTenant
      BY TenantIsRaw
    <3>3. Balanced(r, t, s)
      BY DEF Balanced, Hold, Spend, ReservationRecord, TenantRecord
    <3> QED BY <1>3, <2>1, <3>1, <3>2, <3>3 DEF Recorded
  <2> QED BY <2>2, <2>3, FinishSound
<1> QED BY <1>1, <1>2, <1>3

-----------------------------------------------------------------------------
(* The ledger *)

\* The five columns the ledger keeps for a tenant, as functions of a
\* reservation, so that each column is a sum over the tenant's requests.
Holds(R) == [q \in Requests |-> Hold(R[q])]
Spends(R, w) == [q \in Requests |-> Spend(R[q], w)]
Debts(R) == [q \in Requests |-> R[q].carryEffect]
Credits(R) == [q \in Requests |-> R[q].credit]
Actives(R) == [q \in Requests |-> IF Active(R[q]) THEN 1 ELSE 0]

\* The books of tenant o, with d the debt paid so far.
Books(R, t, d, o) ==
    /\ t.reserved = SumOver(Holds(R), RequestsOf(o))
    /\ t.settled = SumOver(Spends(R, t.window), RequestsOf(o))
    /\ t.carried = SumOver(Debts(R), RequestsOf(o)) - d
    /\ t.credit = SumOver(Credits(R), RequestsOf(o))
    /\ t.active = SumOver(Actives(R), RequestsOf(o))

\* Everything the ledger keeps about tenant o.
Account(R, t, d, o) ==
    /\ \A q \in RequestsOf(o) :
          Shape(R[q], t.window) /\ (R[q].state # Absent => t.window # 0)
    /\ Books(R, t, d, o)

Good(N, R, T, P) ==
    /\ N \in Windows
    /\ R \in [Requests -> ReservationRecord]
    /\ T \in [Tenants -> TenantRecord]
    /\ P \in [Tenants -> Nat]
    /\ \A o \in Tenants : Account(R, T[o], P[o], o)

\* The inductive invariant.
IInv == Good(now, res, tenant, paid)

-----------------------------------------------------------------------------
\* The amounts a reservation contributes to its tenant are naturals.
LEMMA ReservationAmounts ==
  ASSUME NEW r \in ReservationRecord
  PROVE  /\ Hold(r) \in Nat /\ r.carryEffect \in Nat /\ r.credit \in Nat
         /\ \A w : Spend(r, w) \in Nat
         /\ (IF Active(r) THEN 1 ELSE 0) \in Nat
BY DEF ReservationRecord, Hold, Spend

\* A tenant has finitely many requests.
LEMMA RequestsOfFinite ==
  \A o : IsFiniteSet(RequestsOf(o))
BY RequestsFinite, FS_Subset DEF RequestsOf

\* A tenant's account depends on that tenant's reservations only.
LEMMA AccountLocal ==
  ASSUME NEW R \in [Requests -> ReservationRecord],
         NEW R2 \in [Requests -> ReservationRecord],
         NEW o, \A q \in RequestsOf(o) : R2[q] = R[q],
         NEW t, NEW d, Account(R, t, d, o)
  PROVE  Account(R2, t, d, o)
<1>1. IsFiniteSet(RequestsOf(o)) /\ RequestsOf(o) \subseteq Requests
  BY RequestsOfFinite DEF RequestsOf
<1>2. SumOver(Holds(R2), RequestsOf(o)) = SumOver(Holds(R), RequestsOf(o))
  <2>1. \A q \in RequestsOf(o) : Holds(R2)[q] = Holds(R)[q]
    BY <1>1 DEF Holds
  <2> QED BY <1>1, <2>1, SumEqual
<1>3. SumOver(Spends(R2, t.window), RequestsOf(o))
      = SumOver(Spends(R, t.window), RequestsOf(o))
  <2>1. \A q \in RequestsOf(o) : Spends(R2, t.window)[q] = Spends(R, t.window)[q]
    BY <1>1 DEF Spends
  <2> QED BY <1>1, <2>1, SumEqual
<1>4. SumOver(Debts(R2), RequestsOf(o)) = SumOver(Debts(R), RequestsOf(o))
  <2>1. \A q \in RequestsOf(o) : Debts(R2)[q] = Debts(R)[q]
    BY <1>1 DEF Debts
  <2> QED BY <1>1, <2>1, SumEqual
<1>5. SumOver(Credits(R2), RequestsOf(o)) = SumOver(Credits(R), RequestsOf(o))
  <2>1. \A q \in RequestsOf(o) : Credits(R2)[q] = Credits(R)[q]
    BY <1>1 DEF Credits
  <2> QED BY <1>1, <2>1, SumEqual
<1>6. SumOver(Actives(R2), RequestsOf(o)) = SumOver(Actives(R), RequestsOf(o))
  <2>1. \A q \in RequestsOf(o) : Actives(R2)[q] = Actives(R)[q]
    BY <1>1 DEF Actives
  <2> QED BY <1>1, <2>1, SumEqual
<1> QED BY <1>2, <1>3, <1>4, <1>5, <1>6 DEF Account, Books

\* A step that changes one tenant and its reservations keeps the ledger good if
\* it keeps that tenant's account.
LEMMA TenantStep ==
  ASSUME NEW N, NEW R, NEW T, NEW P, Good(N, R, T, P),
         NEW o \in Tenants,
         NEW N2 \in Windows, NEW R2 \in [Requests -> ReservationRecord],
         NEW t2 \in TenantRecord, NEW d2 \in Nat,
         \A q \in Requests \ RequestsOf(o) : R2[q] = R[q],
         Account(R2, t2, d2, o)
  PROVE  Good(N2, R2, [T EXCEPT ![o] = t2], [P EXCEPT ![o] = d2])
<1> DEFINE T2 == [T EXCEPT ![o] = t2]
           P2 == [P EXCEPT ![o] = d2]
<1>1. /\ R \in [Requests -> ReservationRecord] /\ T \in [Tenants -> TenantRecord]
      /\ P \in [Tenants -> Nat] /\ \A p \in Tenants : Account(R, T[p], P[p], p)
  BY DEF Good
<1>2. T2 \in [Tenants -> TenantRecord] /\ P2 \in [Tenants -> Nat]
  BY <1>1
<1>3. ASSUME NEW p \in Tenants PROVE Account(R2, T2[p], P2[p], p)
  <2>1. CASE p = o
    BY <1>1, <2>1
  <2>2. CASE p # o
    <3>1. T2[p] = T[p] /\ P2[p] = P[p]
      BY <1>1, <2>2
    <3>2. \A q \in RequestsOf(p) : R2[q] = R[q]
      BY <2>2 DEF RequestsOf
    <3>3. Account(R, T[p], P[p], p)
      BY <1>1
    <3> QED BY <1>1, <3>1, <3>2, <3>3, AccountLocal
  <2> QED BY <2>1, <2>2
<1> HIDE DEF T2, P2
<1>4. Good(N2, R2, T2, P2)
  BY <1>2, <1>3 DEF Good
<1> QED BY <1>4 DEF T2, P2

\* One reservation of tenant o changes as a sound transition says.
LEMMA PointStep ==
  ASSUME NEW R \in [Requests -> ReservationRecord], NEW o \in Tenants,
         NEW r \in RequestsOf(o), NEW t \in TenantRecord, NEW d \in Nat,
         Account(R, t, d, o), NEW s, Sound(R[r], t, s), t.window # 0,
         NEW n, n = s.ten.active + ((IF Active(s.res) THEN 1 ELSE 0)
                                    - (IF Active(R[r]) THEN 1 ELSE 0))
  PROVE  Account([R EXCEPT ![r] = s.res], [s.ten EXCEPT !.active = n], d, o)
<1> DEFINE x == s.res
           y == [s.ten EXCEPT !.active = n]
           R2 == [R EXCEPT ![r] = x]
           S == RequestsOf(o)
<1>1. IsFiniteSet(S) /\ S \subseteq Requests /\ r \in Requests /\ r \in S
  BY RequestsOfFinite DEF RequestsOf
<1>2. /\ x \in ReservationRecord /\ s.ten \in RawTenant /\ Shape(x, t.window)
      /\ s.ten.reserved = t.reserved + (Hold(x) - Hold(R[r]))
      /\ s.ten.settled = t.settled
                         + (Spend(x, t.window) - Spend(R[r], t.window))
      /\ s.ten.carried = t.carried + (x.carryEffect - R[r].carryEffect)
      /\ s.ten.credit = t.credit + (x.credit - R[r].credit)
      /\ s.ten.active = t.active /\ s.ten.window = t.window
  BY DEF Sound, Balanced
<1>3. /\ y.reserved = s.ten.reserved /\ y.settled = s.ten.settled
      /\ y.carried = s.ten.carried /\ y.credit = s.ten.credit
      /\ y.active = n /\ y.window = t.window
  BY <1>2 DEF RawTenant
<1>4. R2 \in [Requests -> ReservationRecord]
  BY <1>1, <1>2
<1>5. R2[r] = x /\ \A q \in S \ {r} : R2[q] = R[q]
  BY <1>1
<1> HIDE DEF x, y, R2, S
<1>6. \A q \in S : /\ R[q] \in ReservationRecord /\ R2[q] \in ReservationRecord
                   /\ Shape(R[q], t.window)
  BY <1>1, <1>4 DEF Account, S
<1>7. y.reserved = SumOver(Holds(R2), S)
  <2> DEFINE f == Holds(R)
             g == Holds(R2)
  <2>1. \A q \in S : f[q] \in Int
    BY <1>1, <1>6, ReservationAmounts DEF Holds
  <2>2. /\ g[r] = Hold(x)
        /\ f[r] = Hold(R[r])
    BY <1>1, <1>5 DEF Holds
  <2>3. g[r] \in Int
    BY <1>2, <2>2, ReservationAmounts
  <2>4. \A q \in S \ {r} : g[q] = f[q]
    BY <1>1, <1>5 DEF Holds
  <2>5. t.reserved = SumOver(f, S)
    BY DEF Account, Books, S
  <2> HIDE DEF f, g
  <2>6. SumOver(g, S) = SumOver(f, S) + (g[r] - f[r])
    BY <1>1, <2>1, <2>3, <2>4, SumPoint
  <2>7. SumOver(f, S) \in Int /\ f[r] \in Int
    BY <1>1, <2>1, SumInt
  <2>8. y.reserved = SumOver(g, S)
    BY <1>2, <1>3, <2>2, <2>3, <2>5, <2>6, <2>7
  <2> QED BY <1>3, <2>8 DEF g
<1>8. y.settled = SumOver(Spends(R2, y.window), S)
  <2> DEFINE f == Spends(R, t.window)
             g == Spends(R2, t.window)
  <2>1. \A q \in S : f[q] \in Int
    BY <1>1, <1>6, ReservationAmounts DEF Spends
  <2>2. /\ g[r] = Spend(x, t.window)
        /\ f[r] = Spend(R[r], t.window)
    BY <1>1, <1>5 DEF Spends
  <2>3. g[r] \in Int
    BY <1>2, <2>2, ReservationAmounts
  <2>4. \A q \in S \ {r} : g[q] = f[q]
    BY <1>1, <1>5 DEF Spends
  <2>5. t.settled = SumOver(f, S)
    BY DEF Account, Books, S
  <2> HIDE DEF f, g
  <2>6. SumOver(g, S) = SumOver(f, S) + (g[r] - f[r])
    BY <1>1, <2>1, <2>3, <2>4, SumPoint
  <2>7. SumOver(f, S) \in Int /\ f[r] \in Int
    BY <1>1, <2>1, SumInt
  <2>8. y.settled = SumOver(g, S)
    BY <1>2, <1>3, <2>2, <2>3, <2>5, <2>6, <2>7
  <2> QED BY <1>3, <2>8 DEF g
<1>9. y.carried = SumOver(Debts(R2), S) - d
  <2> DEFINE f == Debts(R)
             g == Debts(R2)
  <2>1. \A q \in S : f[q] \in Int
    BY <1>1, <1>6, ReservationAmounts DEF Debts
  <2>2. /\ g[r] = x.carryEffect
        /\ f[r] = R[r].carryEffect
    BY <1>1, <1>5 DEF Debts
  <2>3. g[r] \in Int
    BY <1>2, <2>2, ReservationAmounts
  <2>4. \A q \in S \ {r} : g[q] = f[q]
    BY <1>1, <1>5 DEF Debts
  <2>5. t.carried = SumOver(f, S) - d
    BY DEF Account, Books, S
  <2> HIDE DEF f, g
  <2>6. SumOver(g, S) = SumOver(f, S) + (g[r] - f[r])
    BY <1>1, <2>1, <2>3, <2>4, SumPoint
  <2>7. SumOver(f, S) \in Int /\ f[r] \in Int
    BY <1>1, <2>1, SumInt
  <2>8. y.carried = SumOver(g, S) - d
    BY <1>2, <1>3, <2>2, <2>3, <2>5, <2>6, <2>7
  <2> QED BY <1>3, <2>8 DEF g
<1>10. y.credit = SumOver(Credits(R2), S)
  <2> DEFINE f == Credits(R)
             g == Credits(R2)
  <2>1. \A q \in S : f[q] \in Int
    BY <1>1, <1>6, ReservationAmounts DEF Credits
  <2>2. /\ g[r] = x.credit
        /\ f[r] = R[r].credit
    BY <1>1, <1>5 DEF Credits
  <2>3. g[r] \in Int
    BY <1>2, <2>2, ReservationAmounts
  <2>4. \A q \in S \ {r} : g[q] = f[q]
    BY <1>1, <1>5 DEF Credits
  <2>5. t.credit = SumOver(f, S)
    BY DEF Account, Books, S
  <2> HIDE DEF f, g
  <2>6. SumOver(g, S) = SumOver(f, S) + (g[r] - f[r])
    BY <1>1, <2>1, <2>3, <2>4, SumPoint
  <2>7. SumOver(f, S) \in Int /\ f[r] \in Int
    BY <1>1, <2>1, SumInt
  <2>8. y.credit = SumOver(g, S)
    BY <1>2, <1>3, <2>2, <2>3, <2>5, <2>6, <2>7
  <2> QED BY <1>3, <2>8 DEF g
<1>11. y.active = SumOver(Actives(R2), S)
  <2> DEFINE f == Actives(R)
             g == Actives(R2)
  <2>1. \A q \in S : f[q] \in Int
    BY <1>1, <1>6, ReservationAmounts DEF Actives
  <2>2. /\ g[r] = (IF Active(x) THEN 1 ELSE 0)
        /\ f[r] = (IF Active(R[r]) THEN 1 ELSE 0)
    BY <1>1, <1>5 DEF Actives
  <2>3. g[r] \in Int
    BY <1>2, <2>2, ReservationAmounts
  <2>4. \A q \in S \ {r} : g[q] = f[q]
    BY <1>1, <1>5 DEF Actives
  <2>5. t.active = SumOver(f, S)
    BY DEF Account, Books, S
  <2> HIDE DEF f, g
  <2>6. SumOver(g, S) = SumOver(f, S) + (g[r] - f[r])
    BY <1>1, <2>1, <2>3, <2>4, SumPoint
  <2>7. SumOver(f, S) \in Int /\ f[r] \in Int
    BY <1>1, <2>1, SumInt
  <2>8. y.active = SumOver(g, S)
    BY <1>2, <1>3, <2>2, <2>3, <2>5, <2>6, <2>7 DEF x
  <2> QED BY <1>3, <2>8 DEF g
<1>12. \A q \in S : Shape(R2[q], y.window) /\ (R2[q].state # Absent => y.window # 0)
  BY <1>2, <1>3, <1>5, <1>6
<1> QED BY <1>7, <1>8, <1>9, <1>10, <1>11, <1>12 DEF Account, Books, S, x, y, R2
-----------------------------------------------------------------------------
\* rolloverTenantTx keeps the shape of a reservation when its tenant's window
\* moves from v to w, and raises its hold by the guard.
LEMMA RolledShape ==
  ASSUME NEW r \in ReservationRecord, NEW v \in Nat, NEW w \in Nat, v < w,
         Shape(r, v)
  PROVE  LET g == /\ r.state \in {"SETTLED_PROVISIONAL", "CORRECTED_PROVISIONAL"}
                  /\ ~r.carried /\ r.enforcement = v
             x == IF g THEN [r EXCEPT !.guard = @ + r.provisional] ELSE r
         IN  /\ x \in ReservationRecord /\ Shape(x, w) /\ Spend(x, w) = 0
             /\ Hold(x) = Hold(r) + (IF g THEN r.provisional ELSE 0)
             /\ x.carryEffect = r.carryEffect /\ x.credit = r.credit
             /\ x.state = r.state
<1> DEFINE g == /\ r.state \in {"SETTLED_PROVISIONAL", "CORRECTED_PROVISIONAL"}
                /\ ~r.carried /\ r.enforcement = v
<1>1. r.enforcement \in Nat /\ r.enforcement <= v /\ r.enforcement # w
  BY BoundsType DEF Shape, ReservationRecord
<1>2. CASE g
  <2> DEFINE x == [r EXCEPT !.guard = @ + r.provisional]
  <2>1. r.guard + r.provisional \in Nat
    BY DEF ReservationRecord
  <2>2. x \in ReservationRecord
    BY <2>1, Zenon DEF ReservationRecord
  <2>3. /\ x.guard = r.guard + r.provisional /\ x.residual = r.residual
        /\ x.state = r.state /\ x.outbox = r.outbox /\ x.carried = r.carried
        /\ x.enforcement = r.enforcement /\ x.version = r.version
        /\ x.finalized = r.finalized /\ x.settledEffect = r.settledEffect
        /\ x.provisional = r.provisional /\ x.reserved = r.reserved
        /\ x.carryEffect = r.carryEffect /\ x.credit = r.credit
    BY DEF ReservationRecord
  <2> HIDE DEF x
  <2>4. r.version # 0 /\ ~r.finalized /\ r.guard = 0
    BY <1>2 DEF Shape, Unused, Absent, UsageShape
  <2>5. Spend(x, w) = 0
    BY <1>1, <2>3 DEF Spend
  <2>6. UsageShape(x, w)
    BY <1>1, <1>2, <2>3, <2>4, <2>5 DEF Shape, UsageShape, ReservationRecord
  <2>7. OutboxFits(x)
    BY <1>2, <2>3 DEF Shape, OutboxFits, Absent
  <2>8. Shape(x, w)
    BY <1>1, <1>2, <2>3, <2>4, <2>6, <2>7 DEF Shape
  <2>9. Hold(x) = Hold(r) + r.provisional
    BY <2>3 DEF Hold, ReservationRecord
  <2> QED BY <1>2, <2>2, <2>3, <2>5, <2>8, <2>9 DEF x
<1>3. CASE ~g
  <2>1. Spend(r, w) = 0
    BY <1>1 DEF Spend
  <2>2. r.version # 0 /\ ~r.finalized => UsageShape(r, w)
    <3> SUFFICES ASSUME r.version # 0, ~r.finalized PROVE UsageShape(r, w)
      OBVIOUS
    <3>1. CASE r.carried
      BY <3>1 DEF Shape, UsageShape
    <3>2. CASE ~r.carried
      <4>1. r.state \in {"SETTLED_PROVISIONAL", "CORRECTED_PROVISIONAL"}
        BY <3>2 DEF Shape, Unused, ReservationRecord, ReservationStates
      <4>2. r.enforcement # v
        BY <1>3, <3>2, <4>1
      <4>3. r.guard = r.provisional
        BY <3>2, <4>2 DEF Shape, UsageShape, Spend, ReservationRecord
      <4> QED BY <1>1, <2>1, <3>2, <4>3 DEF Shape, UsageShape, ReservationRecord
    <3> QED BY <3>1, <3>2
  <2>3. Shape(r, w)
    BY <1>1, <2>2 DEF Shape
  <2>4. Hold(r) = Hold(r) + 0
    BY DEF Hold, ReservationRecord
  <2> QED BY <1>3, <2>1, <2>3, <2>4
<1> QED BY <1>2, <1>3

\* advanceTenantWindowTx keeps the account of the tenant whose window it moves.
LEMMA AdvanceAccount ==
  ASSUME IInv, NEW o \in Tenants, tenant[o].window <= now
  PROVE  /\ AdvancedRes(o) \in [Requests -> ReservationRecord]
         /\ \A q \in Requests \ RequestsOf(o) : AdvancedRes(o)[q] = res[q]
         /\ \A q \in Requests : AdvancedRes(o)[q].state = res[q].state
         /\ AdvancedTenant(o) \in TenantRecord
         /\ AdvancedTenant(o).window = IF tenant[o].window = 0 THEN 0 ELSE now
         /\ Account(AdvancedRes(o), AdvancedTenant(o), paid[o], o)
<1> DEFINE S == RequestsOf(o)
           t == tenant[o]
<1>1. /\ now \in Windows /\ res \in [Requests -> ReservationRecord]
      /\ tenant \in [Tenants -> TenantRecord] /\ t \in TenantRecord
      /\ Account(res, t, paid[o], o)
  BY DEF IInv, Good
<1>2. CASE t.window \in {0, now}
  <2>1. AdvancedRes(o) = res /\ AdvancedTenant(o) = t
    BY <1>2 DEF AdvancedRes, AdvancedTenant
  <2> QED BY <1>1, <1>2, <2>1
<1>3. CASE t.window \notin {0, now}
  <2> DEFINE R == RolledRes(o)
             y == RolledTenant(o)
             G == Guarded(o)
             g == [q \in Requests |-> res[q].provisional]
  <2>1. AdvancedRes(o) = R /\ AdvancedTenant(o) = y
    BY <1>3 DEF AdvancedRes, AdvancedTenant
  <2>2. t.window \in Nat /\ now \in Nat /\ t.window < now /\ t.window # 0
    BY <1>1, <1>3, BoundsType DEF Windows, TenantRecord
  <2>3. IsFiniteSet(S) /\ S \subseteq Requests /\ G \subseteq S
    BY RequestsOfFinite DEF RequestsOf, Guarded
  <2>4. IsFiniteSet(G)
    BY <2>3, FS_Subset
  <2>5. ASSUME NEW q \in S
        PROVE  /\ R[q] \in ReservationRecord /\ Shape(R[q], now)
               /\ Spend(R[q], now) = 0
               /\ Hold(R[q]) = Hold(res[q]) + (IF q \in G THEN res[q].provisional ELSE 0)
               /\ R[q].carryEffect = res[q].carryEffect
               /\ R[q].credit = res[q].credit /\ R[q].state = res[q].state
    <3>1. res[q] \in ReservationRecord /\ Shape(res[q], t.window) /\ q \in Requests
      BY <1>1, <2>3 DEF Account
    <3>2. q \in G <=>
            /\ res[q].state \in {"SETTLED_PROVISIONAL", "CORRECTED_PROVISIONAL"}
            /\ ~res[q].carried /\ res[q].enforcement = t.window
      BY <3>1 DEF Guarded, RequestsOf
    <3>3. R[q] = IF q \in G THEN [res[q] EXCEPT !.guard = @ + res[q].provisional]
                 ELSE res[q]
      BY <3>1 DEF RolledRes
    <3> HIDE DEF G, R, t
    <3> QED BY <2>2, <3>1, <3>2, <3>3, RolledShape
  <2>6. \A q \in Requests \ S : R[q] = res[q]
    BY <2>3 DEF RolledRes
  <2>7. \A q \in Requests : R[q] \in ReservationRecord /\ R[q].state = res[q].state
    BY <1>1, <2>5, <2>6
  <2>8. R \in [Requests -> ReservationRecord]
    <3>1. R = [q \in Requests |-> R[q]]
      BY DEF RolledRes
    <3> HIDE DEF R
    <3> QED BY <2>7, <3>1
  <2>9. SumOver(g, G) \in Nat
    <3>1. \A q \in G : g[q] \in Nat
      BY <1>1, <2>3 DEF ReservationRecord
    <3> QED BY <2>4, <3>1, SumNat
  <2>10. /\ y \in TenantRecord
         /\ y.reserved = t.reserved + SumOver(g, G) /\ y.settled = 0
         /\ y.carried = t.carried /\ y.credit = t.credit
         /\ y.active = t.active /\ y.window = now
    <3> DEFINE n == t.reserved + SumOver(g, G)
    <3>1. n \in Nat
      BY <1>1, <2>9 DEF TenantRecord
    <3>2. y = [t EXCEPT !.reserved = n, !.settled = 0, !.window = now]
      BY DEF RolledTenant
    <3>3. now \in 0 .. MaxWindow
      BY <1>1, BoundsType DEF Windows
    <3>4. y \in TenantRecord
      <4> HIDE DEF n, t, y
      <4> QED BY <1>1, <3>1, <3>2, <3>3, Zenon DEF TenantRecord
    <3> HIDE DEF y, t
    <3> QED BY <1>1, <3>2, <3>4 DEF TenantRecord
  <2> HIDE DEF R, y, G, t, S, g
  <2>11. y.reserved = SumOver(Holds(R), S)
    <3>1. \A q \in S : Holds(res)[q] \in Int
      BY <1>1, <2>3, ReservationAmounts DEF Holds
    <3>2. \A q \in G : g[q] \in Int
      BY <1>1, <2>3 DEF g, ReservationRecord
    <3>3. \A q \in G : Holds(R)[q] = Holds(res)[q] + g[q]
      BY <2>3, <2>5 DEF Holds, g
    <3>4. \A q \in S \ G : Holds(R)[q] = Holds(res)[q]
      BY <1>1, <2>3, <2>5, ReservationAmounts DEF Holds
    <3>5. SumOver(Holds(R), S) = SumOver(Holds(res), S) + SumOver(g, G)
      BY <2>3, <3>1, <3>2, <3>3, <3>4, SumRaise
    <3> QED BY <1>1, <2>10, <3>5 DEF Account, Books, S
  <2>12. y.settled = SumOver(Spends(R, y.window), S)
    <3>1. \A q \in S : Spends(R, now)[q] = 0
      BY <2>3, <2>5 DEF Spends
    <3>2. SumOver(Spends(R, now), S) = 0
      BY <2>3, <3>1, SumZero
    <3> QED BY <2>10, <3>2
  <2>13. /\ SumOver(Debts(R), S) = SumOver(Debts(res), S)
         /\ SumOver(Credits(R), S) = SumOver(Credits(res), S)
         /\ SumOver(Actives(R), S) = SumOver(Actives(res), S)
    <3>1. \A q \in S : Debts(R)[q] = Debts(res)[q]
      BY <2>3, <2>5 DEF Debts
    <3>2. \A q \in S : Credits(R)[q] = Credits(res)[q]
      BY <2>3, <2>5 DEF Credits
    <3>3. \A q \in S : Actives(R)[q] = Actives(res)[q]
      BY <2>3, <2>5 DEF Actives, Active
    <3> QED BY <2>3, <3>1, <3>2, <3>3, SumEqual
  <2>14. Books(R, y, paid[o], o)
    BY <1>1, <2>10, <2>11, <2>12, <2>13 DEF Account, Books, S
  <2>15. Account(R, y, paid[o], o)
    BY <2>2, <2>5, <2>10, <2>14 DEF Account, S
  <2> QED BY <2>1, <2>2, <2>6, <2>7, <2>8, <2>10, <2>15 DEF S, t
<1> QED BY <1>2, <1>3

\* A tenant record that passes the CHECK constraints is one the table stores.
LEMMA StoredTenant ==
  ASSUME NEW y \in RawTenant, y.settled >= 0, y.reserved >= 0, y.carried >= 0,
         y.credit >= 0, y.active >= 0
  PROVE  y \in TenantRecord
<1>1. /\ y.settled \in Nat /\ y.reserved \in Nat /\ y.carried \in Nat
      /\ y.credit \in Nat /\ y.active \in Nat
  BY DEF RawTenant
<1> QED BY <1>1, Zenon DEF RawTenant, TenantRecord

\* mutateEventOnce keeps the ledger good when its transition is sound.
LEMMA MutateStep ==
  ASSUME IInv, NEW r \in Requests, tenant[Owner[r]].window <= now,
         res[r].state # Absent, NEW s,
         Sound(AdvancedRes(Owner[r])[r], AdvancedTenant(Owner[r]), s),
         Mutate(r, s)
  PROVE  IInv'
<1> DEFINE o == Owner[r]
           R == AdvancedRes(o)
           t == AdvancedTenant(o)
           n == s.ten.active + ActiveDelta(R[r], s.res)
           y == [s.ten EXCEPT !.active = n]
           R2 == [R EXCEPT ![r] = s.res]
<1>1. o \in Tenants /\ r \in RequestsOf(o)
  BY OwnerType DEF RequestsOf
<1>2. /\ R \in [Requests -> ReservationRecord]
      /\ \A q \in Requests \ RequestsOf(o) : R[q] = res[q]
      /\ R[r].state = res[r].state
      /\ t \in TenantRecord /\ Account(R, t, paid[o], o)
  BY <1>1, AdvanceAccount
<1>3. now \in Windows /\ paid[o] \in Nat /\ paid \in [Tenants -> Nat]
  BY <1>1 DEF IInv, Good
<1>4. /\ Storable([res |-> s.res, ten |-> y])
      /\ res' = R2 /\ tenant' = [tenant EXCEPT ![o] = y]
      /\ now' = now /\ paid' = paid
  BY DEF Mutate
<1> HIDE DEF R, t, o
<1>5. t.window # 0
  BY <1>1, <1>2 DEF Account
<1>6. n = s.ten.active + ((IF Active(s.res) THEN 1 ELSE 0)
                          - (IF Active(R[r]) THEN 1 ELSE 0))
  BY DEF ActiveDelta
<1>7. Sound(R[r], t, s)
  BY DEF R, t, o
<1>8. s.res \in ReservationRecord /\ s.ten \in RawTenant
  BY <1>7 DEF Sound
<1>9. n \in Int
  BY <1>6, <1>8 DEF RawTenant
<1>10. y \in RawTenant
  <2> HIDE DEF n
  <2> QED BY <1>8, <1>9, Zenon DEF RawTenant
<1> HIDE DEF n
<1>11. Account(R2, y, paid[o], o)
  BY <1>1, <1>2, <1>3, <1>5, <1>6, <1>7, PointStep
<1> HIDE DEF y
<1>12. y \in TenantRecord
  BY <1>4, <1>10, StoredTenant DEF Storable
<1>13. R2 \in [Requests -> ReservationRecord]
       /\ \A q \in Requests \ RequestsOf(o) : R2[q] = res[q]
  BY <1>1, <1>2, <1>8
<1> HIDE DEF R2
<1>14. Good(now, R2, [tenant EXCEPT ![o] = y], [paid EXCEPT ![o] = paid[o]])
  BY <1>1, <1>3, <1>11, <1>12, <1>13, TenantStep DEF IInv
<1>15. [paid EXCEPT ![o] = paid[o]] = paid
  BY <1>1, <1>3
<1> QED BY <1>4, <1>14, <1>15 DEF IInv

\* What AdvanceAccount says of the reservation an event is about.
LEMMA AdvancedReservation ==
  ASSUME IInv, NEW r \in Requests, tenant[Owner[r]].window <= now
  PROVE  /\ AdvancedRes(Owner[r])[r] \in ReservationRecord
         /\ AdvancedTenant(Owner[r]) \in TenantRecord
         /\ Shape(AdvancedRes(Owner[r])[r], AdvancedTenant(Owner[r]).window)
         /\ AdvancedRes(Owner[r])[r].state = res[r].state
<1>1. Owner[r] \in Tenants /\ r \in RequestsOf(Owner[r])
  BY OwnerType DEF RequestsOf
<1> QED BY <1>1, AdvanceAccount DEF Account

\* Dispatch keeps the ledger good.
LEMMA DispatchStep ==
  ASSUME IInv, NEW r \in Requests, NEW status \in DispatchStatuses,
         Dispatch(r, status)
  PROVE  IInv'
<1> DEFINE q == AdvancedRes(Owner[r])[r]
           t == AdvancedTenant(Owner[r])
<1>1. /\ tenant[Owner[r]].window <= now /\ DispatchAccepted(q, status)
      /\ Mutate(r, [res |-> ApplyDispatch(q, status), ten |-> t])
  BY DEF Dispatch, ClockServes
<1>2. /\ q \in ReservationRecord /\ t \in TenantRecord /\ Shape(q, t.window)
      /\ q.state = res[r].state
  BY <1>1, AdvancedReservation
<1> HIDE DEF q, t
<1>3. Sound(q, t, [res |-> ApplyDispatch(q, status), ten |-> t])
  BY <1>1, <1>2, DispatchSound
<1>4. res[r].state # Absent
  BY <1>1, <1>2 DEF DispatchAccepted, Absent
<1> QED BY <1>1, <1>3, <1>4, MutateStep DEF q, t

\* Settle keeps the ledger good.
LEMMA SettleStep ==
  ASSUME IInv, NEW r \in Requests, NEW u \in Settlements, Settle(r, u)
  PROVE  IInv'
<1> DEFINE q == AdvancedRes(Owner[r])[r]
           t == AdvancedTenant(Owner[r])
<1>1. /\ tenant[Owner[r]].window <= now /\ SettleAccepted(q, u)
      /\ Mutate(r, ApplySettlement(q, t, u))
  BY DEF Settle, ClockServes
<1>2. /\ q \in ReservationRecord /\ t \in TenantRecord /\ Shape(q, t.window)
      /\ q.state = res[r].state
  BY <1>1, AdvancedReservation
<1> HIDE DEF q, t
<1>3. Sound(q, t, ApplySettlement(q, t, u))
  BY <1>1, <1>2, SettlementSound
<1>4. res[r].state # Absent
  BY <1>1, <1>2 DEF SettleAccepted
<1> QED BY <1>1, <1>3, <1>4, MutateStep DEF q, t

\* Cancel keeps the ledger good.
LEMMA CancelStep ==
  ASSUME IInv, NEW r \in Requests, NEW authoritative \in BOOLEAN,
         Cancel(r, authoritative)
  PROVE  IInv'
<1> DEFINE q == AdvancedRes(Owner[r])[r]
           t == AdvancedTenant(Owner[r])
<1>1. /\ tenant[Owner[r]].window <= now /\ CancelAccepted(q)
      /\ Mutate(r, ApplyCancel(q, t, authoritative))
  BY DEF Cancel, ClockServes
<1>2. /\ q \in ReservationRecord /\ t \in TenantRecord /\ Shape(q, t.window)
      /\ q.state = res[r].state
  BY <1>1, AdvancedReservation
<1> HIDE DEF q, t
<1>3. Sound(q, t, ApplyCancel(q, t, authoritative))
  BY <1>1, <1>2, CancelSound
<1>4. res[r].state # Absent
  BY <1>1, <1>2 DEF CancelAccepted, Absent
<1> QED BY <1>1, <1>3, <1>4, MutateStep DEF q, t

\* A step that only advances the window of tenant o, sets its budget to b and
\* pays d of its debt.
LEMMA AdvanceStep ==
  ASSUME IInv, NEW o \in Tenants, tenant[o].window <= now,
         NEW b \in Nat, NEW d \in Nat, d <= AdvancedTenant(o).carried,
         NEW y, y = [AdvancedTenant(o) EXCEPT !.budget = b, !.carried = @ - d],
         res' = AdvancedRes(o), tenant' = [tenant EXCEPT ![o] = y],
         paid' = [paid EXCEPT ![o] = @ + d], now' = now
  PROVE  IInv'
<1> DEFINE R == AdvancedRes(o)
           t == AdvancedTenant(o)
<1>1. /\ R \in [Requests -> ReservationRecord]
      /\ \A q \in Requests \ RequestsOf(o) : R[q] = res[q]
      /\ t \in TenantRecord /\ Account(R, t, paid[o], o)
  BY AdvanceAccount
<1>2. now \in Windows /\ paid[o] \in Nat /\ paid \in [Tenants -> Nat]
  BY DEF IInv, Good
<1> HIDE DEF R, t
<1>3. t.carried - d \in Nat
  BY <1>1 DEF TenantRecord, t
<1>4. y = [t EXCEPT !.budget = b, !.carried = t.carried - d]
  BY DEF t
<1>5. y \in TenantRecord
  BY <1>1, <1>3, <1>4, Zenon DEF TenantRecord
<1>6. /\ y.reserved = t.reserved /\ y.settled = t.settled
      /\ y.credit = t.credit /\ y.active = t.active /\ y.window = t.window
      /\ y.carried = t.carried - d
  BY <1>1, <1>4 DEF TenantRecord
<1>7. Books(R, y, paid[o] + d, o)
  <2>1. SumOver(Debts(R), RequestsOf(o)) \in Int
    <3>1. \A q \in RequestsOf(o) : Debts(R)[q] \in Int
      BY <1>1, ReservationAmounts DEF Debts, RequestsOf
    <3> QED BY <3>1, RequestsOfFinite, SumInt
  <2>2. Books(R, t, paid[o], o)
    BY <1>1 DEF Account
  <2> QED BY <1>2, <1>6, <2>1, <2>2 DEF Books
<1>8. Account(R, y, paid[o] + d, o)
  BY <1>1, <1>6, <1>7 DEF Account
<1>9. paid[o] + d \in Nat
  BY <1>2
<1>10. Good(now, R, [tenant EXCEPT ![o] = y], [paid EXCEPT ![o] = paid[o] + d])
  BY <1>1, <1>2, <1>5, <1>8, <1>9, TenantStep DEF IInv
<1> QED BY <1>10 DEF IInv, R

\* AdjustBudget keeps the ledger good.
LEMMA AdjustStep ==
  ASSUME IInv, NEW o \in Tenants, NEW b \in Adjusted, NEW d \in Payments,
         AdjustBudget(o, b, d)
  PROVE  IInv'
<1>1. b \in Nat /\ d \in Nat
  BY AmountsType
<1>2. tenant[o].window <= now /\ d <= AdvancedTenant(o).carried
  BY DEF AdjustBudget, ClockServes
<1>3. /\ res' = AdvancedRes(o)
      /\ tenant' = [tenant EXCEPT ![o] = [AdvancedTenant(o) EXCEPT
                                            !.budget = b, !.carried = @ - d]]
      /\ paid' = [paid EXCEPT ![o] = @ + d] /\ now' = now
  BY DEF AdjustBudget
<1> QED BY <1>1, <1>2, <1>3, AdvanceStep

\* Reading the liability keeps the ledger good.
LEMMA LiabilityStep ==
  ASSUME IInv, NEW o \in Tenants, Liability(o)
  PROVE  IInv'
<1> DEFINE t == AdvancedTenant(o)
<1>1. tenant[o].window <= now
  BY DEF Liability, ClockServes
<1>2. /\ res' = AdvancedRes(o) /\ tenant' = [tenant EXCEPT ![o] = t]
      /\ paid' = paid /\ now' = now
  BY DEF Liability
<1>3. t \in TenantRecord
  BY <1>1, AdvanceAccount
<1>4. paid \in [Tenants -> Nat]
  BY DEF IInv, Good
<1> HIDE DEF t
<1>5. t.budget \in Nat /\ t.carried \in Nat /\ t.carried - 0 = t.carried
  BY <1>3 DEF TenantRecord
<1>6. t = [t EXCEPT !.budget = t.budget, !.carried = @ - 0]
  BY <1>3, <1>5 DEF TenantRecord
<1>7. paid' = [paid EXCEPT ![o] = @ + 0]
  BY <1>2, <1>4
<1>8. 0 <= t.carried /\ 0 \in Nat
  BY <1>5
<1> QED BY <1>1, <1>2, <1>5, <1>6, <1>7, <1>8, AdvanceStep DEF t

\* Binding a policy to a window keeps the tenant's account, also for a tenant
\* seen for the first time.
LEMMA BindAccount ==
  ASSUME IInv, NEW o \in Tenants, NEW p \in Policies, BindAccepted(o, p)
  PROVE  /\ AdvancedRes(o) \in [Requests -> ReservationRecord]
         /\ \A q \in Requests \ RequestsOf(o) : AdvancedRes(o)[q] = res[q]
         /\ \A q \in Requests : AdvancedRes(o)[q].state = res[q].state
         /\ BoundTenant(o, p) \in TenantRecord
         /\ BoundTenant(o, p).window = now /\ now \in Windows /\ now # 0
         /\ Account(AdvancedRes(o), BoundTenant(o, p), paid[o], o)
<1> DEFINE R == AdvancedRes(o)
           t == AdvancedTenant(o)
           y == BoundTenant(o, p)
           S == RequestsOf(o)
<1>1. /\ now \in Windows /\ now \in Nat /\ now # 0 /\ now \in 0 .. MaxWindow
  BY BoundsType DEF IInv, Good, Windows
<1>2. tenant[o].window <= now
  <2>1. tenant[o].window \in Nat
    BY BoundsType DEF IInv, Good, TenantRecord
  <2> QED BY <1>1, <2>1 DEF BindAccepted
<1>3. /\ R \in [Requests -> ReservationRecord]
      /\ \A q \in Requests \ S : R[q] = res[q]
      /\ \A q \in Requests : R[q].state = res[q].state
      /\ t \in TenantRecord /\ t.window \in {0, now}
      /\ Account(R, t, paid[o], o)
  BY <1>2, AdvanceAccount
<1>4. y = [t EXCEPT !.window = now, !.identity = p, !.budget = PolicyBudget[p]]
  BY DEF BoundTenant
<1> HIDE DEF R, t, y
<1>5. PolicyBudget[p] \in Nat
  BY PolicyType
<1>6. y \in TenantRecord
  BY <1>1, <1>3, <1>4, <1>5, Zenon DEF TenantRecord
<1>7. /\ y.window = now /\ y.reserved = t.reserved /\ y.settled = t.settled
      /\ y.carried = t.carried /\ y.credit = t.credit /\ y.active = t.active
  BY <1>3, <1>4 DEF TenantRecord
<1>8. IsFiniteSet(S) /\ S \subseteq Requests
  BY RequestsOfFinite DEF RequestsOf
<1>9. ASSUME NEW q \in S
      PROVE  Shape(R[q], now) /\ Spend(R[q], now) = Spend(R[q], t.window)
  <2>1. R[q] \in ReservationRecord /\ Shape(R[q], t.window)
    BY <1>3, <1>8 DEF Account
  <2>2. CASE t.window = now
    BY <2>1, <2>2
  <2>3. CASE t.window # now
    <3>1. t.window = 0 /\ R[q].state = Absent
      BY <1>3, <2>3 DEF Account
    <3>2. /\ R[q].version = 0 /\ ~R[q].finalized /\ UnusedShape(R[q])
      BY <2>1, <3>1 DEF Shape, Unused, Absent
    <3>3. R[q].enforcement <= now
      BY <1>1, <2>1, <3>1, BoundsType DEF Shape, ReservationRecord
    <3>4. Shape(R[q], now)
      BY <2>1, <3>2, <3>3 DEF Shape
    <3>5. R[q].settledEffect = 0
      BY <3>2 DEF UnusedShape
    <3> QED BY <3>4, <3>5 DEF Spend
  <2> QED BY <2>2, <2>3
<1>10. SumOver(Spends(R, now), S) = SumOver(Spends(R, t.window), S)
  <2>1. \A q \in S : Spends(R, now)[q] = Spends(R, t.window)[q]
    BY <1>8, <1>9 DEF Spends
  <2> QED BY <1>8, <2>1, SumEqual
<1>11. Books(R, y, paid[o], o)
  BY <1>3, <1>7, <1>10 DEF Account, Books
<1>12. Account(R, y, paid[o], o)
  BY <1>1, <1>7, <1>9, <1>11 DEF Account
<1> QED BY <1>1, <1>3, <1>6, <1>7, <1>12 DEF R, y

\* A refused admission keeps the ledger good.
LEMMA AdmitRefusedStep ==
  ASSUME IInv, NEW r \in Requests, NEW p \in Policies, AdmitRefused(r, p)
  PROVE  IInv'
<1> DEFINE o == Owner[r]
           R == AdvancedRes(o)
           y == BoundTenant(o, p)
<1>1. o \in Tenants
  BY OwnerType
<1>2. /\ BindAccepted(o, p) /\ res' = R /\ tenant' = [tenant EXCEPT ![o] = y]
      /\ now' = now /\ paid' = paid
  BY DEF AdmitRefused
<1>3. /\ R \in [Requests -> ReservationRecord] /\ y \in TenantRecord
      /\ \A q \in Requests \ RequestsOf(o) : R[q] = res[q]
      /\ Account(R, y, paid[o], o) /\ now \in Windows
  BY <1>1, <1>2, BindAccount
<1>4. paid[o] \in Nat /\ [paid EXCEPT ![o] = paid[o]] = paid
  BY <1>1 DEF IInv, Good
<1> HIDE DEF o, R, y
<1>5. Good(now, R, [tenant EXCEPT ![o] = y], [paid EXCEPT ![o] = paid[o]])
  BY <1>1, <1>3, <1>4, TenantStep DEF IInv
<1> QED BY <1>2, <1>4, <1>5 DEF IInv

\* The reservation Admit creates weighs on its tenant with its ceiling.
LEMMA AdmitSound ==
  ASSUME NEW r \in ReservationRecord, NEW t \in TenantRecord,
         Shape(r, t.window), r.state = Absent, NEW c \in Nat
  PROVE  Sound(r, t, [res |-> NewReservation(c, t.window),
                      ten |-> [t EXCEPT !.reserved = @ + c]])
<1> DEFINE x == NewReservation(c, t.window)
           y == [t EXCEPT !.reserved = @ + c]
<1>1. t.window \in 0 .. MaxWindow /\ t.window \in Nat
  BY BoundsType DEF TenantRecord
<1>2. x \in ReservationRecord
  <2>1. /\ "RESERVED" \in ReservationStates \cup {Absent}
        /\ "PENDING" \in OutboxStates /\ 0 \in 0 .. MaxVersion
    BY BoundsType DEF ReservationStates, OutboxStates
  <2> QED BY <1>1, <2>1 DEF ReservationRecord, NewReservation
<1>3. y \in RawTenant
  <2>1. t.reserved + c \in Int
    BY DEF TenantRecord
  <2> QED BY <2>1, TenantIsRaw, Zenon DEF RawTenant
<1>4. Shape(x, t.window)
  BY <1>1 DEF Shape, NewReservation, OutboxFits, Unused, UnusedShape, Active,
     Absent
<1>5. /\ Hold(r) = 0 /\ Spend(r, t.window) = 0
      /\ r.carryEffect = 0 /\ r.credit = 0
  BY DEF Shape, Unused, UnusedShape, Active, Absent, Hold, Spend
<1>6. /\ Hold(x) = c /\ Spend(x, t.window) = 0
      /\ x.carryEffect = 0 /\ x.credit = 0
  BY DEF Hold, Spend, NewReservation
<1>7. /\ y.reserved = t.reserved + c /\ y.settled = t.settled
      /\ y.carried = t.carried /\ y.credit = t.credit
      /\ y.active = t.active /\ y.window = t.window
  BY DEF TenantRecord
<1> HIDE DEF x, y
<1>8. Balanced(r, t, [res |-> x, ten |-> y])
  BY <1>5, <1>6, <1>7 DEF Balanced, TenantRecord
<1> QED BY <1>2, <1>3, <1>4, <1>8 DEF Sound, x, y

\* A successful admission keeps the ledger good.
LEMMA AdmitStep ==
  ASSUME IInv, NEW r \in Requests, NEW p \in Policies, NEW c \in Costs,
         Admit(r, p, c)
  PROVE  IInv'
<1> DEFINE o == Owner[r]
           R == AdvancedRes(o)
           t == BoundTenant(o, p)
           s == [res |-> NewReservation(c, t.window),
                 ten |-> [t EXCEPT !.reserved = @ + c]]
           y == [t EXCEPT !.reserved = @ + c, !.active = @ + 1]
           R2 == [R EXCEPT ![r] = NewReservation(c, now)]
<1>1. o \in Tenants /\ r \in RequestsOf(o) /\ c \in Nat
  BY OwnerType, AmountsType DEF RequestsOf
<1>2. /\ res[r].state = Absent /\ BindAccepted(o, p) /\ res' = R2
      /\ tenant' = [tenant EXCEPT ![o] = y] /\ now' = now /\ paid' = paid
  BY DEF Admit
<1>3. /\ R \in [Requests -> ReservationRecord] /\ t \in TenantRecord
      /\ \A q \in Requests \ RequestsOf(o) : R[q] = res[q]
      /\ R[r].state = res[r].state /\ t.window = now /\ now # 0
      /\ Account(R, t, paid[o], o) /\ now \in Windows
  BY <1>1, <1>2, BindAccount
<1>4. paid[o] \in Nat /\ [paid EXCEPT ![o] = paid[o]] = paid
  BY <1>1 DEF IInv, Good
<1> HIDE DEF o, R, t
<1>5. R[r] \in ReservationRecord /\ Shape(R[r], t.window)
  BY <1>1, <1>3 DEF Account
<1>6. Sound(R[r], t, s)
  BY <1>1, <1>2, <1>3, <1>5, AdmitSound
<1>7. t.active + 1 = s.ten.active + ((IF Active(s.res) THEN 1 ELSE 0)
                                     - (IF Active(R[r]) THEN 1 ELSE 0))
  <2>1. Active(s.res) /\ ~Active(R[r])
    BY <1>2, <1>3 DEF Active, NewReservation, Absent
  <2>2. s.ten.active = t.active /\ t.active \in Nat
    BY <1>3 DEF TenantRecord
  <2> HIDE DEF s
  <2> QED BY <2>1, <2>2
<1>8. Account([R EXCEPT ![r] = s.res], [s.ten EXCEPT !.active = t.active + 1],
              paid[o], o)
  <2> HIDE DEF s
  <2> QED BY <1>1, <1>3, <1>4, <1>6, <1>7, PointStep
<1>9. [R EXCEPT ![r] = s.res] = R2 /\ [s.ten EXCEPT !.active = t.active + 1] = y
  <2>1. s.res = NewReservation(c, now) /\ s.ten = [t EXCEPT !.reserved = @ + c]
    BY <1>3
  <2>2. [s.ten EXCEPT !.active = t.active + 1] = y
    BY <1>3, <2>1 DEF TenantRecord
  <2> QED BY <2>1, <2>2
<1>10. y \in TenantRecord
  <2>1. t.reserved + c \in Nat /\ t.active + 1 \in Nat
    BY <1>1, <1>3 DEF TenantRecord
  <2> QED BY <1>3, <2>1, Zenon DEF TenantRecord
<1>11. /\ R2 \in [Requests -> ReservationRecord]
       /\ \A q \in Requests \ RequestsOf(o) : R2[q] = res[q]
  <2>1. NewReservation(c, now) \in ReservationRecord
    BY <1>3, <1>6 DEF Sound
  <2> QED BY <1>1, <1>3, <2>1
<1>12. Account(R2, y, paid[o], o)
  <2> HIDE DEF y, R2, s
  <2> QED BY <1>8, <1>9, Zenon
<1> HIDE DEF y, R2, s
<1>13. Good(now, R2, [tenant EXCEPT ![o] = y], [paid EXCEPT ![o] = paid[o]])
  BY <1>1, <1>3, <1>4, <1>10, <1>11, <1>12, TenantStep DEF IInv
<1> QED BY <1>2, <1>4, <1>13 DEF IInv

\* Expiry releases an undispatched reservation and keeps every other hold.
LEMMA ExpirySound ==
  ASSUME NEW r \in ReservationRecord, NEW w, Shape(r, w), Expirable(r)
  PROVE  LET x == ApplyExpiry(r)
             released == r.state = "RESERVED"
         IN  /\ x \in ReservationRecord /\ Shape(x, w)
             /\ x.state # Absent /\ r.state # Absent
             /\ Hold(r) = Hold(x) + (IF released THEN Hold(r) ELSE 0)
             /\ Spend(x, w) = Spend(r, w)
             /\ x.carryEffect = r.carryEffect /\ x.credit = r.credit
             /\ Active(r) /\ (Active(x) <=> ~released)
<1>1. ApplyExpiry(r) \in ReservationRecord
  BY DEF ApplyExpiry, ReservationRecord, ReservationStates, OutboxStates
<1>2. Shape(ApplyExpiry(r), w)
  BY DEF Shape, ApplyExpiry, ReservationRecord, Expirable, OutboxFits, Unused,
     UnusedShape, Active, Absent
<1>3. /\ Hold(r) = Hold(ApplyExpiry(r))
                   + (IF r.state = "RESERVED" THEN Hold(r) ELSE 0)
      /\ Spend(ApplyExpiry(r), w) = Spend(r, w)
  BY DEF ApplyExpiry, ReservationRecord, Hold, Spend
<1>4. /\ ApplyExpiry(r).state # Absent /\ r.state # Absent
      /\ Active(r) /\ (Active(ApplyExpiry(r)) <=> ~(r.state = "RESERVED"))
  BY DEF ApplyExpiry, ReservationRecord, Expirable, Active, Absent
<1>5. /\ ApplyExpiry(r).carryEffect = r.carryEffect
      /\ ApplyExpiry(r).credit = r.credit
  BY DEF ApplyExpiry, ReservationRecord
<1> QED BY <1>1, <1>2, <1>3, <1>4, <1>5

\* Reconciling any set of expired reservations keeps the ledger good.
LEMMA ReconcileStep ==
  ASSUME IInv, NEW E \in SUBSET Requests, ReconcileExpired(E)
  PROVE  IInv'
<1> DEFINE hold == [q \in Requests |-> Hold(res[q])]
           G(o) == {q \in E : Owner[q] = o /\ res[q].state = "RESERVED"}
           R == [q \in Requests |->
                   IF q \in E THEN ApplyExpiry(res[q]) ELSE res[q]]
           y(o) == [tenant[o] EXCEPT !.reserved = @ - SumOver(hold, G(o)),
                                     !.active = @ - Cardinality(G(o))]
           T == [o \in Tenants |-> y(o)]
<1>1. /\ now \in Windows /\ res \in [Requests -> ReservationRecord]
      /\ tenant \in [Tenants -> TenantRecord] /\ paid \in [Tenants -> Nat]
      /\ \A o \in Tenants : Account(res, tenant[o], paid[o], o)
  BY DEF IInv, Good
<1>2. /\ \A q \in E : Expirable(res[q])
      /\ res' = R /\ tenant' = T /\ now' = now /\ paid' = paid
  BY DEF ReconcileExpired
<1>3. ASSUME NEW o \in Tenants, NEW q \in RequestsOf(o)
      PROVE  /\ R[q] \in ReservationRecord /\ Shape(R[q], tenant[o].window)
             /\ R[q].state # Absent => tenant[o].window # 0
             /\ Hold(res[q]) = Hold(R[q]) + (IF q \in G(o) THEN Hold(res[q]) ELSE 0)
             /\ Spend(R[q], tenant[o].window) = Spend(res[q], tenant[o].window)
             /\ R[q].carryEffect = res[q].carryEffect
             /\ R[q].credit = res[q].credit
             /\ q \in G(o) => Active(res[q]) /\ ~Active(R[q])
             /\ q \notin G(o) => (Active(R[q]) <=> Active(res[q]))
  <2>1. /\ q \in Requests /\ Owner[q] = o /\ res[q] \in ReservationRecord
        /\ Shape(res[q], tenant[o].window)
        /\ res[q].state # Absent => tenant[o].window # 0
    BY <1>1 DEF RequestsOf, Account
  <2>2. CASE q \in E
    <3>1. R[q] = ApplyExpiry(res[q])
      BY <2>1, <2>2
    <3>2. q \in G(o) <=> res[q].state = "RESERVED"
      BY <2>1, <2>2
    <3>3. Expirable(res[q])
      BY <1>2, <2>2
    <3> HIDE DEF R, G
    <3> QED BY <2>1, <3>1, <3>2, <3>3, ExpirySound
  <2>3. CASE q \notin E
    <3>1. R[q] = res[q] /\ q \notin G(o)
      BY <2>1, <2>3
    <3>2. Hold(res[q]) \in Nat
      BY <2>1, ReservationAmounts
    <3> HIDE DEF R, G
    <3> QED BY <2>1, <3>1, <3>2
  <2> QED BY <2>2, <2>3
<1>4. R \in [Requests -> ReservationRecord]
  <2>1. \A q \in Requests : R[q] \in ReservationRecord
    BY <1>3, OwnerType DEF RequestsOf
  <2> QED BY <2>1
<1>5. ASSUME NEW o \in Tenants
      PROVE  y(o) \in TenantRecord /\ Account(R, y(o), paid[o], o)
  <2> DEFINE S == RequestsOf(o)
             t == tenant[o]
             ones == [q \in Requests |-> 1]
  <2>1. /\ IsFiniteSet(S) /\ S \subseteq Requests /\ G(o) \subseteq S
        /\ t \in TenantRecord /\ Account(res, t, paid[o], o)
    BY <1>1, RequestsOfFinite DEF RequestsOf
  <2>2. IsFiniteSet(G(o))
    BY <2>1, FS_Subset
  <2>3. \A q \in S : res[q] \in ReservationRecord /\ R[q] \in ReservationRecord
    BY <1>1, <1>4, <2>1
  <2>4. y(o) = [t EXCEPT !.reserved = @ - SumOver(hold, G(o)),
                         !.active = @ - Cardinality(G(o))]
    OBVIOUS
  <2>5. \A q \in G(o) : hold[q] \in Int /\ hold[q] = Hold(res[q])
    <3> HIDE DEF R, G, y, T, S, t
    <3> QED BY <2>1, <2>3, ReservationAmounts
  <2> HIDE DEF R, hold, G, y, T, S, t
  <2>6. SumOver(Holds(res), S) = SumOver(Holds(R), S) + SumOver(hold, G(o))
    <3>1. \A q \in S : Holds(R)[q] \in Int
      BY <2>1, <2>3, ReservationAmounts DEF Holds
    <3>2. \A q \in G(o) : Holds(res)[q] = Holds(R)[q] + hold[q]
      BY <1>3, <2>1, <2>5 DEF Holds, S
    <3>3. \A q \in S \ G(o) : Holds(res)[q] = Holds(R)[q]
      <4> SUFFICES ASSUME NEW q \in S \ G(o) PROVE Hold(res[q]) = Hold(R[q])
        BY <2>1 DEF Holds
      <4>1. Hold(R[q]) \in Nat
        BY <2>3, ReservationAmounts
      <4>2. Hold(res[q]) = Hold(R[q]) + 0
        BY <1>3 DEF S
      <4> QED BY <4>1, <4>2
    <3> QED BY <2>1, <2>5, <3>1, <3>2, <3>3, SumRaise
  <2>7. SumOver(Actives(res), S) = SumOver(Actives(R), S) + Cardinality(G(o))
    <3>1. \A q \in S : Actives(R)[q] \in Int
      BY <2>1, <2>3, ReservationAmounts DEF Actives
    <3>2. \A q \in G(o) : ones[q] = 1 /\ ones[q] \in Int
      BY <2>1
    <3>3. \A q \in G(o) : Actives(res)[q] = Actives(R)[q] + ones[q]
      BY <1>3, <2>1, <3>2 DEF Actives, S
    <3>4. \A q \in S \ G(o) : Actives(res)[q] = Actives(R)[q]
      BY <1>3, <2>1 DEF Actives, S
    <3> HIDE DEF ones
    <3>5. SumOver(Actives(res), S) = SumOver(Actives(R), S) + SumOver(ones, G(o))
      BY <2>1, <3>1, <3>2, <3>3, <3>4, SumRaise
    <3>6. SumOver(ones, G(o)) = Cardinality(G(o))
      BY <2>2, <3>2, SumOnes
    <3> QED BY <3>5, <3>6
  <2>8. /\ SumOver(Holds(R), S) \in Nat /\ SumOver(Actives(R), S) \in Nat
        /\ SumOver(hold, G(o)) \in Int /\ Cardinality(G(o)) \in Nat
    <3>1. \A q \in S : Holds(R)[q] \in Nat /\ Actives(R)[q] \in Nat
      BY <2>1, <2>3, ReservationAmounts DEF Holds, Actives
    <3> QED BY <2>1, <2>2, <2>5, <3>1, SumNat, SumInt, FS_CardinalityType
  <2>9. /\ t.reserved - SumOver(hold, G(o)) = SumOver(Holds(R), S)
        /\ t.active - Cardinality(G(o)) = SumOver(Actives(R), S)
    <3>1. t.reserved = SumOver(Holds(res), S) /\ t.active = SumOver(Actives(res), S)
      BY <2>1 DEF Account, Books, S
    <3> QED BY <2>6, <2>7, <2>8, <3>1
  <2>10. y(o) \in TenantRecord
    BY <2>1, <2>4, <2>8, <2>9, Zenon DEF TenantRecord
  <2>11. /\ y(o).reserved = SumOver(Holds(R), S)
         /\ y(o).active = SumOver(Actives(R), S)
         /\ y(o).settled = t.settled /\ y(o).carried = t.carried
         /\ y(o).credit = t.credit /\ y(o).window = t.window
    BY <2>1, <2>4, <2>9 DEF TenantRecord
  <2>12. /\ SumOver(Debts(R), S) = SumOver(Debts(res), S)
         /\ SumOver(Credits(R), S) = SumOver(Credits(res), S)
         /\ SumOver(Spends(R, t.window), S) = SumOver(Spends(res, t.window), S)
    <3>1. \A q \in S : Debts(R)[q] = Debts(res)[q]
      BY <1>3, <2>1 DEF Debts, S
    <3>2. \A q \in S : Credits(R)[q] = Credits(res)[q]
      BY <1>3, <2>1 DEF Credits, S
    <3>3. \A q \in S : Spends(R, t.window)[q] = Spends(res, t.window)[q]
      BY <1>3, <2>1 DEF Spends, S, t
    <3> QED BY <2>1, <3>1, <3>2, <3>3, SumEqual
  <2>13. Books(R, y(o), paid[o], o)
    BY <2>1, <2>11, <2>12 DEF Account, Books, S
  <2>14. Account(R, y(o), paid[o], o)
    BY <1>3, <2>11, <2>13 DEF Account, t
  <2> QED BY <2>10, <2>14
<1>6. T \in [Tenants -> TenantRecord] /\ \A o \in Tenants : T[o] = y(o)
  BY <1>5
<1> HIDE DEF T, R, y, G
<1>7. Good(now, R, T, paid)
  BY <1>1, <1>4, <1>5, <1>6 DEF Good
<1> QED BY <1>2, <1>7 DEF IInv

\* An empty ledger is good.
LEMMA InitIInv ==
  ASSUME Init
  PROVE  IInv
<1>1. NoReservation \in ReservationRecord
  <2>1. 0 \in 0 .. MaxVersion /\ 0 \in 0 .. MaxWindow
    BY BoundsType
  <2> QED BY <2>1 DEF NoReservation, NewReservation, ReservationRecord,
                      OutboxStates, ReservationStates, Absent
<1>2. NewTenant \in TenantRecord
  <2>1. 0 \in 0 .. MaxWindow /\ (CHOOSE p \in Policies : TRUE) \in Policies
    BY BoundsType, PolicyType
  <2> QED BY <2>1 DEF NewTenant, TenantRecord
<1>3. /\ Hold(NoReservation) = 0 /\ Spend(NoReservation, 0) = 0
      /\ NoReservation.carryEffect = 0 /\ NoReservation.credit = 0
      /\ ~Active(NoReservation) /\ NoReservation.state = Absent
      /\ Shape(NoReservation, 0)
  BY DEF NoReservation, NewReservation, Hold, Spend, Active, Absent, Shape,
         OutboxFits, Unused, UnusedShape
<1>4. /\ NewTenant.window = 0 /\ NewTenant.reserved = 0
      /\ NewTenant.settled = 0 /\ NewTenant.carried = 0
      /\ NewTenant.credit = 0 /\ NewTenant.active = 0
  BY DEF NewTenant
<1>5. /\ now \in Windows /\ res \in [Requests -> ReservationRecord]
      /\ tenant \in [Tenants -> TenantRecord] /\ paid \in [Tenants -> Nat]
  BY <1>1, <1>2, BoundsType DEF Init, Windows
<1>6. ASSUME NEW o \in Tenants PROVE Account(res, tenant[o], paid[o], o)
  <2> DEFINE S == RequestsOf(o)
  <2>1. /\ IsFiniteSet(S) /\ S \subseteq Requests
        /\ \A q \in S : res[q] = NoReservation
    BY RequestsOfFinite DEF RequestsOf, Init
  <2>2. tenant[o] = NewTenant /\ paid[o] = 0
    BY DEF Init
  <2> HIDE DEF S
  <2>3. /\ SumOver(Holds(res), S) = 0 /\ SumOver(Spends(res, 0), S) = 0
        /\ SumOver(Debts(res), S) = 0 /\ SumOver(Credits(res), S) = 0
        /\ SumOver(Actives(res), S) = 0
    <3>1. \A q \in S : Holds(res)[q] = 0 /\ Spends(res, 0)[q] = 0
      BY <1>3, <2>1 DEF Holds, Spends
    <3>2. \A q \in S : Debts(res)[q] = 0 /\ Credits(res)[q] = 0
      BY <1>3, <2>1 DEF Debts, Credits
    <3>3. \A q \in S : Actives(res)[q] = 0
      BY <1>3, <2>1 DEF Actives
    <3> QED BY <2>1, <3>1, <3>2, <3>3, SumZero
  <2>4. Books(res, tenant[o], paid[o], o)
    BY <1>4, <2>2, <2>3 DEF Books, S
  <2> QED BY <1>3, <1>4, <2>1, <2>2, <2>4 DEF Account, S
<1> QED BY <1>5, <1>6 DEF IInv, Good

\* Every step keeps the ledger good.
LEMMA NextIInv ==
  ASSUME IInv, [Next]_vars
  PROVE  IInv'
<1>1. CASE UNCHANGED vars
  BY <1>1 DEF vars, IInv
<1>2. ASSUME NEW w \in Windows, Clock(w) PROVE IInv'
  BY <1>2 DEF Clock, IInv, Good
<1>3. CASE Next
  BY <1>2, <1>3, AdmitStep, AdmitRefusedStep, DispatchStep, SettleStep,
     CancelStep, ReconcileStep, AdjustStep, LiabilityStep DEF Next
<1> QED BY <1>1, <1>3

\* The ledger is always good: the inductive invariant behind the theorems below.
THEOREM LedgerInvariant == Spec => []IInv
<1>1. Init => IInv
  BY InitIInv
<1>2. IInv /\ [Next]_vars => IInv'
  BY NextIInv
<1> QED BY <1>1, <1>2, PTL DEF Spec

\* No column of the ledger ever leaves its type; in particular no reconciliation
\* or rollover can drive an amount below zero.
THEOREM TypeCorrect == Spec => []TypeOK
<1>1. IInv => TypeOK
  BY DEF IInv, Good, TypeOK
<1> QED BY <1>1, LedgerInvariant, PTL

\* A reservation that is not active holds nothing.
LEMMA InactiveShape ==
  ASSUME NEW r \in ReservationRecord, NEW w, Shape(r, w), ~Active(r)
  PROVE  r.residual = 0 /\ r.guard = 0
<1>1. CASE r.version = 0
  BY <1>1 DEF Shape, UnusedShape
<1>2. CASE r.version # 0
  BY <1>2 DEF Shape, Active, Unused, Absent
<1> QED BY <1>1, <1>2

\* An active reservation weighs at least its ceiling and its last cost.
LEMMA ActiveShape ==
  ASSUME NEW r \in ReservationRecord, NEW w, Shape(r, w), Active(r)
  PROVE  LET exposure == Hold(r) + r.carryEffect + Spend(r, w)
         IN  exposure >= r.reserved /\ exposure >= r.provisional
<1>1. CASE r.version = 0
  BY <1>1 DEF Shape, UnusedShape, Hold, Spend, ReservationRecord
<1>2. CASE r.version # 0
  <2>1. UsageShape(r, w)
    BY <1>2 DEF Shape, Active
  <2> QED BY <2>1 DEF UsageShape, Hold, Spend, NonNeg, ReservationRecord
<1> QED BY <1>1, <1>2

\* A good ledger's columns are what the startup check recomputes.
LEMMA BooksInvariants ==
  ASSUME IInv
  PROVE  /\ ReservedIsSumOfHolds /\ ActiveIsCount /\ SettledIsWindowSpend
         /\ CarriedIsDebtLessPayments /\ CreditIsSumOfCredits
<1> SUFFICES ASSUME NEW o \in Tenants
    PROVE  LET t == tenant[o] IN
           /\ t.reserved = SumOver([q \in Requests |-> Hold(res[q])], ActiveOf(o))
           /\ t.active = Cardinality(ActiveOf(o))
           /\ t.settled = SumOver([q \in Requests |-> res[q].settledEffect],
                            {q \in RequestsOf(o) :
                               ~res[q].carried /\ res[q].enforcement = t.window})
           /\ t.carried = SumOver([q \in Requests |-> res[q].carryEffect],
                                  RequestsOf(o)) - paid[o]
           /\ t.credit = SumOver([q \in Requests |-> res[q].credit], RequestsOf(o))
  BY DEF ReservedIsSumOfHolds, ActiveIsCount, SettledIsWindowSpend,
         CarriedIsDebtLessPayments, CreditIsSumOfCredits
<1> DEFINE S == RequestsOf(o)
           A == ActiveOf(o)
           t == tenant[o]
           C == {q \in S : ~res[q].carried /\ res[q].enforcement = t.window}
           effects == [q \in Requests |-> res[q].settledEffect]
<1>1. /\ IsFiniteSet(S) /\ S \subseteq Requests /\ A \subseteq S /\ C \subseteq S
      /\ \A q \in S : res[q] \in ReservationRecord /\ Shape(res[q], t.window)
      /\ Books(res, t, paid[o], o)
  BY RequestsOfFinite DEF RequestsOf, ActiveOf, IInv, Good, Account
<1>2. IsFiniteSet(A) /\ IsFiniteSet(C)
  BY <1>1, FS_Subset
<1>3. \A q \in S : (q \in A <=> Active(res[q]))
  BY DEF ActiveOf
<1>4. \A q \in S : q \in C <=> ~res[q].carried /\ res[q].enforcement = t.window
  OBVIOUS
<1> HIDE DEF S, A, C, t
<1>5. SumOver(Holds(res), S) = SumOver(Holds(res), A)
  <2>1. \A q \in S : Holds(res)[q] \in Int
    BY <1>1, ReservationAmounts DEF Holds
  <2>2. \A q \in S \ A : Holds(res)[q] = 0
    <3> SUFFICES ASSUME NEW q \in S, ~Active(res[q]) PROVE Hold(res[q]) = 0
      BY <1>1, <1>3 DEF Holds
    <3> QED BY <1>1, InactiveShape DEF Hold
  <2> QED BY <1>1, <2>1, <2>2, SumDrop
<1>6. SumOver(Actives(res), S) = Cardinality(A)
  <2>1. \A q \in S : Actives(res)[q] \in Int
    BY <1>1, ReservationAmounts DEF Actives
  <2>2. \A q \in S \ A : Actives(res)[q] = 0
    BY <1>1, <1>3 DEF Actives
  <2>3. \A q \in A : Actives(res)[q] = 1
    BY <1>1, <1>3 DEF Actives
  <2>4. SumOver(Actives(res), S) = SumOver(Actives(res), A)
    BY <1>1, <2>1, <2>2, SumDrop
  <2>5. SumOver(Actives(res), A) = Cardinality(A)
    BY <1>2, <2>3, SumOnes
  <2> QED BY <2>4, <2>5
<1>7. SumOver(Spends(res, t.window), S) = SumOver(effects, C)
  <2>1. \A q \in S : Spends(res, t.window)[q] \in Int
    BY <1>1, ReservationAmounts DEF Spends
  <2>2. \A q \in S \ C : Spends(res, t.window)[q] = 0
    BY <1>1, <1>4 DEF Spends, Spend
  <2>3. \A q \in C : Spends(res, t.window)[q] = effects[q]
    BY <1>1, <1>4 DEF Spends, Spend
  <2>4. SumOver(Spends(res, t.window), S) = SumOver(Spends(res, t.window), C)
    BY <1>1, <2>1, <2>2, SumDrop
  <2> HIDE DEF effects
  <2>5. SumOver(Spends(res, t.window), C) = SumOver(effects, C)
    BY <1>2, <2>3, SumEqual
  <2> QED BY <2>4, <2>5
<1> QED BY <1>1, <1>5, <1>6, <1>7
        DEF Books, Holds, Debts, Credits, S, A, C, t

\* A good ledger's reservations are well formed and cover their exposure.
LEMMA ReservationInvariants ==
  ASSUME IInv
  PROVE  WellFormed /\ OutboxAgrees /\ ExposureCoversCeiling
<1>1. ASSUME NEW q \in Requests
      PROVE  /\ res[q] \in ReservationRecord
             /\ Shape(res[q], tenant[Owner[q]].window)
  BY OwnerType DEF IInv, Good, Account, RequestsOf
<1>2. WellFormed
  BY <1>1 DEF WellFormed
<1>3. OutboxAgrees
  BY <1>1 DEF OutboxAgrees, Shape
<1>4. ExposureCoversCeiling
  BY <1>1, ActiveShape DEF ExposureCoversCeiling, Exposure
<1> QED BY <1>2, <1>3, <1>4

\* However usage, corrections, cancellations, expiry and rollovers interleave,
\* the deltas of mutateEventOnce, advanceWindow and reconcileExpiredOnce keep the
\* tenant's columns at what its reservations add up to: no hold, activation,
\* spend, debt or credit is lost or counted twice.
THEOREM BooksAlwaysBalance == Spec => []BooksBalance
<1>1. IInv => BooksBalance
  BY BooksInvariants DEF BooksBalance
<1> QED BY <1>1, LedgerInvariant, PTL

\* An unreleased request always weighs at least its ceiling and its last reported
\* cost on its tenant.
THEOREM ExposureCovered == Spec => []ExposureCoversCeiling
<1>1. IInv => ExposureCoversCeiling
  BY ReservationInvariants
<1> QED BY <1>1, LedgerInvariant, PTL

\* Every reservation has one of the shapes that applySettlement's arithmetic
\* relies on, and its outbox state fits.
THEOREM ShapesKept == Spec => [](WellFormed /\ OutboxAgrees)
<1>1. IInv => WellFormed /\ OutboxAgrees
  BY ReservationInvariants
<1> QED BY <1>1, LedgerInvariant, PTL

-----------------------------------------------------------------------------
(* LiabilityBook: what a reservation weighs *)


\* What reservation r weighs on its tenant in window w, and its stage.
Weight(r, w) == Hold(r) + r.carryEffect + Spend(r, w)

StageOf(r) ==
    CASE r.state = Absent -> "none"
      [] r.state \in {"CANCELED_UNBILLED", "FAILED_UNBILLED"} -> "withdrawn"
      [] r.state = "EXPIRED_UNDISPATCHED" -> "expired"
      [] r.state \in {"FINALIZED", "LATE_FINALIZED"} -> "final"
      [] OTHER -> "open"

\* What every request weighs once tenant o is served in the current window.
OwedNow(o) ==
    [q \in Requests |->
        IF Owner[q] = o /\ tenant[o].window # now /\ StageOf(res[q]) = "final"
        THEN res[q].carryEffect
        ELSE Weight(res[q], tenant[Owner[q]].window)]

\* The variables of the book, of this state and of the next.
LEMMA BookState ==
  /\ \A q : Stage(q) = StageOf(res[q]) /\ Stage(q)' = StageOf(res'[q])
  /\ \A q : /\ Exposure(q) = Weight(res[q], tenant[Owner[q]].window)
            /\ Exposure(q)' = Weight(res'[q], tenant'[Owner[q]].window)
BY DEF Stage, StageOf, Exposure, Weight

\* What the book says is owed when o is served now.
LEMMA BookOwed ==
  ASSUME NEW o \in Tenants
  PROVE  /\ Book!Owed(o, now) = OwedNow(o)
         /\ Book!Own(o) = RequestsOf(o)
BY BookState DEF Book!Owed, Book!Own, OwedNow, RequestsOf

\* The book adds up as the ledger does.
LEMMA BookSum ==
  ASSUME NEW f, NEW S
  PROVE  Book!SumOver(f, S) = SumOver(f, S)
<1>1. Book!SumOver(f, S) = (CHOOSE g : IsSum(g, f, S))[S]
  BY DEF Book!SumOver, Book!MapThenSumSet, Book!MapThenFoldSet, IsSum, Pick
<1> QED BY <1>1, SumOverIsChoice

\* A rollover takes the closed window's spend off a final request, and leaves
\* what every other request weighs.
LEMMA RolledWeight ==
  ASSUME NEW r \in ReservationRecord, NEW v \in Nat, NEW w \in Nat, v < w,
         Shape(r, v)
  PROVE  LET g == /\ r.state \in {"SETTLED_PROVISIONAL", "CORRECTED_PROVISIONAL"}
                  /\ ~r.carried /\ r.enforcement = v
             x == IF g THEN [r EXCEPT !.guard = @ + r.provisional] ELSE r
         IN  /\ Weight(x, w) = IF StageOf(r) = "final" THEN r.carryEffect
                               ELSE Weight(r, v)
             /\ x.reserved = r.reserved /\ x.provisional = r.provisional
             /\ x.carryEffect = r.carryEffect /\ x.state = r.state
             /\ x.finalized = r.finalized /\ x.version = r.version
<1> DEFINE g == /\ r.state \in {"SETTLED_PROVISIONAL", "CORRECTED_PROVISIONAL"}
                /\ ~r.carried /\ r.enforcement = v
           x == IF g THEN [r EXCEPT !.guard = @ + r.provisional] ELSE r
<1>1. /\ Spend(x, w) = 0 /\ x.carryEffect = r.carryEffect /\ x.state = r.state
      /\ Hold(x) = Hold(r) + (IF g THEN r.provisional ELSE 0)
  BY RolledShape
<1>2. /\ x.reserved = r.reserved /\ x.provisional = r.provisional
      /\ x.finalized = r.finalized /\ x.version = r.version
  BY DEF ReservationRecord
<1>3. StageOf(r) = "final" <=> r.finalized
  BY DEF StageOf, Shape, Absent
<1> HIDE DEF x
<1>4. Weight(x, w) = Hold(x) + r.carryEffect
  BY <1>1 DEF Weight, Hold, ReservationRecord
<1>5. Weight(x, w) = IF StageOf(r) = "final" THEN r.carryEffect ELSE Weight(r, v)
  <2>1. CASE r.finalized
    BY <1>1, <1>3, <1>4, <2>1 DEF Shape, Hold, ReservationRecord
  <2>2. CASE ~r.finalized
    <3>1. Spend(r, v) = IF g THEN r.provisional ELSE 0
      BY <2>2 DEF Shape, UnusedShape, UsageShape, Spend, ReservationRecord,
         ReservationStates, Unused, Absent
    <3> HIDE DEF g
    <3>2. Hold(r) \in Nat /\ r.carryEffect \in Nat /\ r.provisional \in Nat
      BY DEF ReservationRecord, Hold
    <3> QED BY <1>1, <1>3, <1>4, <2>2, <3>1, <3>2 DEF Weight
  <2> QED BY <2>1, <2>2
<1> QED BY <1>1, <1>2, <1>5 DEF x

\* What a request the tenant was never bound for weighs: nothing.
LEMMA AbsentWeight ==
  ASSUME NEW r \in ReservationRecord, NEW v, Shape(r, v), r.state = Absent
  PROVE  /\ \A w : Weight(r, w) = 0
         /\ r.provisional = 0 /\ r.carryEffect = 0 /\ StageOf(r) = "none"
<1>1. UnusedShape(r) /\ ~Active(r)
  BY DEF Shape, Unused, Active
<1> QED BY <1>1 DEF UnusedShape, Weight, Hold, Spend, StageOf, Absent

\* What advanceTenantWindowTx reads: every request as it was, weighing what it
\* owes in the current window, and the tenant's budget.
LEMMA AdvanceWeight ==
  ASSUME IInv, NEW o \in Tenants, tenant[o].window <= now, NEW q \in Requests
  PROVE  LET x == AdvancedRes(o)[q]
         IN  /\ x.state = res[q].state /\ x.reserved = res[q].reserved
             /\ x.provisional = res[q].provisional
             /\ x.carryEffect = res[q].carryEffect
             /\ x.finalized = res[q].finalized /\ x.version = res[q].version
             /\ Weight(x, IF Owner[q] = o THEN now ELSE tenant[Owner[q]].window)
                = OwedNow(o)[q]
             /\ AdvancedTenant(o).budget = tenant[o].budget
<1> DEFINE t == tenant[o]
<1>1. /\ now \in Nat /\ res[q] \in ReservationRecord
      /\ t \in TenantRecord /\ t.window \in Nat
      /\ Owner[q] = o =>
            Shape(res[q], t.window) /\ (res[q].state # Absent => t.window # 0)
  BY BoundsType DEF IInv, Good, Account, RequestsOf, TenantRecord, Windows
<1>2. CASE Owner[q] # o \/ t.window = now
  <2>1. AdvancedRes(o)[q] = res[q]
    BY <1>2 DEF AdvancedRes, RolledRes, Guarded
  <2>2. AdvancedTenant(o).budget = t.budget
    BY <1>1 DEF AdvancedTenant, RolledTenant, TenantRecord
  <2> QED BY <1>2, <2>1, <2>2 DEF OwedNow
<1>3. CASE Owner[q] = o /\ t.window = 0
  <2>1. AdvancedRes(o)[q] = res[q] /\ AdvancedTenant(o) = t
    BY <1>3 DEF AdvancedRes, AdvancedTenant
  <2>2. res[q].state = Absent
    BY <1>1, <1>3
  <2> QED BY <1>1, <1>3, <2>1, <2>2, AbsentWeight DEF OwedNow
<1>4. CASE Owner[q] = o /\ t.window # 0 /\ t.window # now
  <2> DEFINE g == /\ res[q].state \in {"SETTLED_PROVISIONAL", "CORRECTED_PROVISIONAL"}
                  /\ ~res[q].carried /\ res[q].enforcement = t.window
             x == IF g THEN [res[q] EXCEPT !.guard = @ + res[q].provisional]
                  ELSE res[q]
  <2>1. AdvancedRes(o)[q] = x
    BY <1>4 DEF AdvancedRes, RolledRes, Guarded
  <2>2. AdvancedTenant(o).budget = t.budget
    BY <1>1, <1>4 DEF AdvancedTenant, RolledTenant, TenantRecord
  <2>3. t.window < now
    BY <1>1, <1>4
  <2>4. /\ Weight(x, now) = IF StageOf(res[q]) = "final" THEN res[q].carryEffect
                            ELSE Weight(res[q], t.window)
        /\ x.reserved = res[q].reserved /\ x.provisional = res[q].provisional
        /\ x.carryEffect = res[q].carryEffect /\ x.state = res[q].state
        /\ x.finalized = res[q].finalized /\ x.version = res[q].version
    BY <1>1, <1>4, <2>3, RolledWeight
  <2>5. OwedNow(o)[q] = Weight(x, now)
    BY <1>4, <2>4 DEF OwedNow
  <2> HIDE DEF x, g
  <2> QED BY <1>4, <2>1, <2>2, <2>4, <2>5
<1> QED BY <1>1, <1>2, <1>3, <1>4

\* The book's view of a step that serves tenant o in the current window and
\* leaves it with record y: the tenant's window and budget, and every request
\* the step leaves as advanceTenantWindowTx read it.
LEMMA ServedBook ==
  ASSUME IInv, NEW o \in Tenants, tenant[o].window <= now,
         NEW y, tenant' = [tenant EXCEPT ![o] = y], y.window = now
  PROVE  /\ [p \in Tenants |-> tenant[p].window]'
            = [[p \in Tenants |-> tenant[p].window] EXCEPT ![o] = now]
         /\ [p \in Tenants |-> tenant[p].budget]'
            = [[p \in Tenants |-> tenant[p].budget] EXCEPT ![o] = y.budget]
         /\ \A q \in Requests :
               res'[q] = AdvancedRes(o)[q] =>
                  /\ Stage(q)' = Stage(q) /\ res'[q].reserved = res[q].reserved
                  /\ res'[q].provisional = res[q].provisional
                  /\ res'[q].carryEffect = res[q].carryEffect
                  /\ Exposure(q)' = OwedNow(o)[q]
<1>1. tenant \in [Tenants -> TenantRecord]
  BY DEF IInv, Good
<1>2. ASSUME NEW q \in Requests
      PROVE  tenant'[Owner[q]].window
             = IF Owner[q] = o THEN now ELSE tenant[Owner[q]].window
  BY <1>1, OwnerType
<1>3. ASSUME NEW q \in Requests, res'[q] = AdvancedRes(o)[q]
      PROVE  /\ Stage(q)' = Stage(q) /\ res'[q].reserved = res[q].reserved
             /\ res'[q].provisional = res[q].provisional
             /\ res'[q].carryEffect = res[q].carryEffect
             /\ Exposure(q)' = OwedNow(o)[q]
  <2>1. /\ res'[q].state = res[q].state /\ res'[q].reserved = res[q].reserved
        /\ res'[q].provisional = res[q].provisional
        /\ res'[q].carryEffect = res[q].carryEffect
        /\ Weight(res'[q], tenant'[Owner[q]].window) = OwedNow(o)[q]
    BY <1>2, <1>3, AdvanceWeight
  <2>2. StageOf(res'[q]) = StageOf(res[q])
    BY <2>1 DEF StageOf
  <2> QED BY <2>1, <2>2, BookState
<1>4. /\ [p \in Tenants |-> tenant[p].window]'
            = [[p \in Tenants |-> tenant[p].window] EXCEPT ![o] = now]
      /\ [p \in Tenants |-> tenant[p].budget]'
            = [[p \in Tenants |-> tenant[p].budget] EXCEPT ![o] = y.budget]
  BY <1>1
<1> QED BY <1>3, <1>4

\* A step that only serves the tenant is a turn of the book.
LEMMA TurnStep ==
  ASSUME IInv, NEW o \in Tenants, tenant[o].window <= now,
         NEW y, tenant' = [tenant EXCEPT ![o] = y], y.window = now,
         paid' = paid,
         \A q \in Requests : /\ Stage(q)' = Stage(q)
                             /\ res'[q].reserved = res[q].reserved
                             /\ res'[q].provisional = res[q].provisional
                             /\ res'[q].carryEffect = res[q].carryEffect
                             /\ Exposure(q)' = OwedNow(o)[q],
         y.budget \in {tenant[o].budget} \cup Adjusted
                      \cup {PolicyBudget[p] : p \in Policies},
         y.budget = tenant[o].budget \/ tenant[o].window # now
  PROVE  Book!BookNext
<1> DEFINE b == y.budget
<1>1. now \in Windows
  BY DEF IInv, Good
<1>2. [q \in Requests |-> Exposure(q)]' = Book!Owed(o, now)
  <2>1. [q \in Requests |-> Exposure(q)]' = [q \in Requests |-> OwedNow(o)[q]]
    OBVIOUS
  <2> QED BY <2>1, BookOwed DEF OwedNow
<1>3. Book!Turn(o, now, b)
  BY <1>2, ServedBook, ZenonT(60) DEF Book!Turn, Book!Rebudget, Book!Serve
<1> QED BY <1>1, <1>3 DEF Book!BookNext

-----------------------------------------------------------------------------
(* What the transitions make of a request's ceiling, cost, debt and weight *)

\* All of a late cost becomes debt, if it exceeds the debt.
LateDebt(r, a, y) == y = r.carryEffect \/ (y = a /\ a > r.carryEffect)

\* What recording a usage of cost u.actual leaves of the reservation.
UsageCounted(r, t, u, s) ==
    /\ s.res.reserved = r.reserved /\ s.res.provisional = u.actual
    /\ s.res.version = u.version /\ s.ten.budget = t.budget
    /\ LateDebt(r, u.actual, s.res.carryEffect)

\* Usage keeps the ceiling, and debt is left alone or raised to the cost.
LEMMA UsageKeeps ==
  ASSUME NEW r \in ReservationRecord, NEW t \in TenantRecord,
         Shape(r, t.window), NEW u \in Settlements, u.version = r.version + 1
  PROVE  UsageCounted(r, t, u, RecordUsage(r, t, u))
<1> DEFINE q == Delivered(r, u)
           late == r.state = "UNRESOLVED" \/ t.window # r.origin
<1>1. /\ q.carried = r.carried /\ q.enforcement = r.enforcement
      /\ q.reserved = r.reserved /\ q.carryEffect = r.carryEffect
      /\ q \in ReservationRecord
  BY DeliveredFields
<1>2. u.actual \in Nat
  BY SettlementFields
<1>3. r.version = 0 => r.carryEffect = 0
  BY DEF Shape, UnusedShape
<1>4. CASE r.version = 0 /\ late
  <2>1. RecordUsage(r, t, u) = Reported(UsageFirstLate(q, t, u), u)
    BY <1>4 DEF RecordUsage, Reported, Delivered
  <2> HIDE DEF q
  <2>2. LateDebt(r, u.actual, u.actual)
    BY <1>2, <1>3, <1>4 DEF LateDebt
  <2>3. LET s == Reported(UsageFirstLate(q, t, u), u)
        IN  /\ s.res.reserved = r.reserved /\ s.res.provisional = u.actual
            /\ s.res.version = u.version /\ s.ten.budget = t.budget
            /\ s.res.carryEffect = u.actual
    BY <1>1 DEF Reported, UsageFirstLate, ReservationRecord, TenantRecord
  <2>4. UsageCounted(r, t, u, Reported(UsageFirstLate(q, t, u), u))
    BY <2>2, <2>3 DEF UsageCounted
  <2> QED BY <2>1, <2>4
<1>5. CASE ~(r.version = 0 /\ late) /\ r.carried
  <2>1. RecordUsage(r, t, u) = Reported(UsageCarried(q, t, u), u)
    BY <1>1, <1>5 DEF RecordUsage, Reported, Delivered
  <2> HIDE DEF q
  <2>2. UsageCounted(r, t, u, Reported(UsageCarried(q, t, u), u))
    BY <1>1, <1>2 DEF UsageCounted, Reported, UsageCarried, LateDebt,
       ReservationRecord, TenantRecord
  <2> QED BY <2>1, <2>2
<1>6. CASE ~(r.version = 0 /\ late) /\ ~r.carried /\ r.enforcement # t.window
  <2>1. RecordUsage(r, t, u) = Reported(UsageRolled(q, t, u), u)
    BY <1>1, <1>6 DEF RecordUsage, Reported, Delivered
  <2> HIDE DEF q
  <2>2. UsageCounted(r, t, u, Reported(UsageRolled(q, t, u), u))
    BY <1>1, <1>2 DEF UsageCounted, Reported, UsageRolled, LateDebt,
       ReservationRecord, TenantRecord
  <2> QED BY <2>1, <2>2
<1>7. CASE ~(r.version = 0 /\ late) /\ ~r.carried /\ r.enforcement = t.window
  <2>1. RecordUsage(r, t, u) = Reported(UsageOnTime(q, t, u), u)
    BY <1>1, <1>7 DEF RecordUsage, Reported, Delivered
  <2> HIDE DEF q
  <2>2. UsageCounted(r, t, u, Reported(UsageOnTime(q, t, u), u))
    BY <1>1, <1>2 DEF UsageCounted, Reported, UsageOnTime, LateDebt,
       ReservationRecord, TenantRecord
  <2> QED BY <2>1, <2>2
<1> QED BY <1>4, <1>5, <1>6, <1>7

\* What a settlement of a request that is not final makes of it.
Settled(r, t, u, s) ==
    /\ UsageCounted(r, t, u, s)
    /\ StageOf(s.res) = IF u.final THEN "final" ELSE "open"
    /\ IF u.final
       THEN Weight(s.res, t.window) \in {u.actual, s.res.carryEffect}
       ELSE Weight(s.res, t.window)
            = Book!Most(r.reserved, u.actual, s.res.carryEffect)

\* A recorded usage weighs the most of ceiling, cost and debt until it is final,
\* and its cost or its debt then.
LEMMA FinishWeight ==
  ASSUME NEW r \in ReservationRecord, NEW t \in TenantRecord,
         NEW u \in Settlements, NEW s, Recorded(r, t, u, s),
         UsageCounted(r, t, u, s)
  PROVE  Settled(r, t, u, FinishSettlement(s.res, s.ten, u))
<1> DEFINE x == s.res
           y == s.ten
           z == FinishSettlement(x, y, u)
           w == t.window
<1>1. /\ x \in ReservationRecord /\ y \in RawTenant /\ UsageShape(x, w)
      /\ x.reserved = r.reserved /\ x.provisional = u.actual
      /\ x.version = u.version /\ y.budget = t.budget
      /\ LateDebt(r, u.actual, x.carryEffect)
  BY DEF Recorded, UsageCounted
<1> HIDE DEF x, y, w
<1>2. CASE u.final
  <2> DEFINE st == IF x.carried THEN "LATE_FINALIZED" ELSE "FINALIZED"
             p == [x EXCEPT !.finalized = TRUE, !.state = st,
                            !.residual = 0, !.guard = 0]
             v == [y EXCEPT !.reserved = @ - Hold(x)]
  <2>1. z = [res |-> p, ten |-> v]
    BY <1>1, <1>2 DEF FinishSettlement, Release, Hold, ReservationRecord
  <2>2. /\ p.state = st /\ p.residual = 0 /\ p.guard = 0
        /\ p.enforcement = x.enforcement /\ p.carryEffect = x.carryEffect
        /\ p.carried = x.carried /\ p.settledEffect = x.settledEffect
        /\ p.reserved = x.reserved /\ p.provisional = x.provisional
        /\ p.version = x.version /\ v.budget = y.budget
    BY <1>1 DEF ReservationRecord, RawTenant
  <2> HIDE DEF p, v
  <2>3. StageOf(p) = "final"
    BY <2>2 DEF StageOf, Absent
  <2>4. Weight(p, w) \in {u.actual, x.carryEffect}
    BY <1>1, <2>2 DEF Weight, Hold, Spend, UsageShape, ReservationRecord
  <2>5. Settled(r, t, u, [res |-> p, ten |-> v])
    BY <1>1, <1>2, <2>2, <2>3, <2>4 DEF Settled, UsageCounted, w
  <2> QED BY <2>1, <2>5 DEF x, y
<1>3. CASE ~u.final
  <2> DEFINE st == ProvisionalState(x, y, u)
             p == [x EXCEPT !.state = st]
  <2>1. z = [res |-> p, ten |-> y]
    BY <1>3 DEF FinishSettlement
  <2>2. st \in {"SETTLED_PROVISIONAL", "CORRECTED_PROVISIONAL",
                "LATE_SETTLED_PROVISIONAL"}
    BY DEF ProvisionalState
  <2> HIDE DEF st
  <2>3. /\ p.state = st /\ p.residual = x.residual /\ p.guard = x.guard
        /\ p.enforcement = x.enforcement /\ p.carryEffect = x.carryEffect
        /\ p.carried = x.carried /\ p.settledEffect = x.settledEffect
        /\ p.reserved = x.reserved /\ p.provisional = x.provisional
        /\ p.version = x.version
    BY <1>1 DEF ReservationRecord
  <2> HIDE DEF p
  <2>4. StageOf(p) = "open"
    BY <2>2, <2>3 DEF StageOf, Absent
  <2>5. Weight(p, w) = Book!Most(r.reserved, u.actual, x.carryEffect)
    <3>1. /\ x.reserved \in Nat /\ x.provisional \in Nat /\ x.carryEffect \in Nat
          /\ x.residual \in Nat /\ x.guard \in Nat /\ Spend(x, w) \in Nat
      BY <1>1 DEF ReservationRecord, Spend
    <3>2. Weight(p, w) = x.residual + x.guard + x.carryEffect + Spend(x, w)
      BY <2>3 DEF Weight, Hold, Spend
    <3>3. CASE x.carried
      <4>1. Spend(x, w) = 0
        BY <3>3 DEF Spend
      <4> QED BY <1>1, <3>1, <3>2, <3>3, <4>1 DEF UsageShape, NonNeg, Book!Most
    <3>4. CASE ~x.carried
      BY <1>1, <3>1, <3>2, <3>4 DEF UsageShape, NonNeg, Book!Most
    <3> QED BY <3>3, <3>4
  <2>6. Settled(r, t, u, [res |-> p, ten |-> y])
    BY <1>1, <1>3, <2>3, <2>4, <2>5 DEF Settled, UsageCounted, w
  <2> QED BY <2>1, <2>6 DEF x, y
<1> QED BY <1>2, <1>3

\* applySettlement on a request that is not final.
LEMMA SettlementWeight ==
  ASSUME NEW r \in ReservationRecord, NEW t \in TenantRecord,
         Shape(r, t.window), NEW u \in Settlements, SettleAccepted(r, u),
         ~r.finalized
  PROVE  /\ Settled(r, t, u, ApplySettlement(r, t, u))
         /\ StageOf(r) \in {"open", "expired"}
         /\ StageOf(r) = "open" => Active(r)
         /\ StageOf(r) = "expired" => u.version = 1
<1>1. /\ StageOf(r) \in {"open", "expired"}
      /\ StageOf(r) = "open" => Active(r)
      /\ StageOf(r) = "expired" => r.version = 0
  BY DEF StageOf, SettleAccepted, Active, Shape, Unused, Absent,
     ReservationRecord, ReservationStates
<1>2. CASE u.version = r.version + 1
  <2>1. u.version # r.version
    BY <1>2 DEF ReservationRecord
  <2>2. ApplySettlement(r, t, u) =
          FinishSettlement(RecordUsage(r, t, u).res, RecordUsage(r, t, u).ten, u)
    BY <2>1 DEF ApplySettlement
  <2>3. UsageCounted(r, t, u, RecordUsage(r, t, u))
    BY <1>2, UsageKeeps
  <2>4. Recorded(r, t, u, RecordUsage(r, t, u))
    BY <1>2, RecordUsageSound
  <2> QED BY <1>1, <1>2, <2>2, <2>3, <2>4, FinishWeight
<1>3. CASE u.version # r.version + 1
  <2>1. /\ r.version # 0 /\ u.version = r.version /\ u.final
        /\ u.actual = r.provisional
    BY <1>3 DEF SettleAccepted
  <2> DEFINE s == [res |-> r, ten |-> t]
  <2>2. ApplySettlement(r, t, u) = FinishSettlement(s.res, s.ten, u)
    BY <2>1 DEF ApplySettlement
  <2>3. Recorded(r, t, u, s)
    <3>1. /\ ~(r.state \in Unused) /\ UsageShape(r, t.window)
          /\ r.enforcement <= t.window /\ r.outbox = "DELIVERED"
      BY <2>1 DEF Shape, OutboxFits, Unused
    <3>2. t \in RawTenant
      BY TenantIsRaw
    <3>3. Balanced(r, t, s)
      BY DEF Balanced, Hold, Spend, ReservationRecord, TenantRecord
    <3> QED BY <2>1, <3>1, <3>2, <3>3 DEF Recorded
  <2>4. UsageCounted(r, t, u, s)
    BY <2>1 DEF UsageCounted, LateDebt
  <2>5. Settled(r, t, u, FinishSettlement(s.res, s.ten, u))
    <3> HIDE DEF s
    <3> QED BY <2>3, <2>4, FinishWeight
  <2> QED BY <1>1, <2>1, <2>2, <2>5
<1> QED BY <1>2, <1>3

\* applySettlement on a final request: the correction moves its debt alone.
LEMMA CorrectionWeight ==
  ASSUME NEW r \in ReservationRecord, NEW t \in TenantRecord,
         Shape(r, t.window), NEW u \in Settlements, r.finalized
  PROVE  LET s == ApplySettlement(r, t, u)
             y == s.res.carryEffect
         IN  /\ StageOf(r) = "final" /\ StageOf(s.res) = "final"
             /\ s.res.reserved = r.reserved /\ s.res.provisional = u.actual
             /\ s.ten.budget = t.budget
             /\ y = r.carryEffect \/ (y \in 0 .. u.actual /\ u.actual > r.provisional)
             /\ Weight(s.res, t.window)
                = Weight(r, t.window) + (y - r.carryEffect)
<1> DEFINE effect == IF u.actual > r.provisional /\ u.actual > r.base
                     THEN IF r.carried THEN u.actual ELSE u.actual - r.base
                     ELSE r.carryEffect
           credit == NonNeg(r.base - u.actual)
           x == [r EXCEPT !.version = u.version, !.provisional = u.actual,
                          !.carryEffect = effect, !.credit = credit]
           y == [t EXCEPT !.carried = @ + (effect - r.carryEffect),
                          !.credit = @ + (credit - r.credit)]
<1>1. ApplySettlement(r, t, u) = [res |-> x, ten |-> y]
  BY DEF ApplySettlement, CorrectFinal
<1>2. u.actual \in Nat
  BY SettlementFields
<1>3. effect = r.carryEffect
      \/ (effect \in 0 .. u.actual /\ u.actual > r.provisional)
  BY <1>2 DEF ReservationRecord
<1>4. effect \in Nat
  BY <1>2 DEF ReservationRecord
<1> HIDE DEF effect, credit
<1>5. /\ x.reserved = r.reserved /\ x.provisional = u.actual
      /\ x.carryEffect = effect /\ x.state = r.state
      /\ x.residual = r.residual /\ x.guard = r.guard
      /\ x.carried = r.carried /\ x.enforcement = r.enforcement
      /\ x.settledEffect = r.settledEffect /\ y.budget = t.budget
  BY DEF ReservationRecord, TenantRecord
<1> HIDE DEF x, y
<1>6. StageOf(r) = "final" /\ StageOf(x) = "final"
  BY <1>5 DEF StageOf, Shape, Absent
<1>7. Weight(x, t.window) = Weight(r, t.window) + (effect - r.carryEffect)
  <2>1. Hold(x) = Hold(r) /\ Spend(x, t.window) = Spend(r, t.window)
    BY <1>5 DEF Hold, Spend
  <2>2. Hold(r) \in Nat /\ Spend(r, t.window) \in Nat /\ r.carryEffect \in Nat
    BY ReservationAmounts
  <2> QED BY <1>4, <1>5, <2>1, <2>2 DEF Weight
<1> QED BY <1>1, <1>3, <1>5, <1>6, <1>7

\* applyCancel: an attempt that may have been billed keeps its weight, any other
\* is withdrawn.
LEMMA CancelWeight ==
  ASSUME NEW r \in ReservationRecord, NEW t \in TenantRecord,
         Shape(r, t.window), NEW authoritative \in BOOLEAN, CancelAccepted(r)
  PROVE  LET s == ApplyCancel(r, t, authoritative)
         IN  /\ StageOf(r) = "open" /\ r.provisional = 0 /\ r.carryEffect = 0
             /\ s.res.reserved = r.reserved /\ s.res.provisional = 0
             /\ s.res.carryEffect = 0 /\ s.ten.budget = t.budget
             /\ \/ /\ StageOf(s.res) = "open"
                   /\ Weight(s.res, t.window) = Weight(r, t.window)
                \/ /\ StageOf(s.res) = "withdrawn"
                   /\ Weight(s.res, t.window) = 0
<1> DEFINE s == ApplyCancel(r, t, authoritative)
<1>1. StageOf(r) = "open"
  BY DEF StageOf, CancelAccepted, Absent
<1>2. r.version = 0 /\ UnusedShape(r)
  BY DEF CancelAccepted, Shape, Unused
<1>3. r.provisional = 0 /\ r.carryEffect = 0 /\ r.settledEffect = 0
  BY <1>2 DEF UnusedShape
<1>4. /\ s.res.reserved = r.reserved /\ s.res.provisional = r.provisional
      /\ s.res.carryEffect = r.carryEffect /\ s.ten.budget = t.budget
      /\ s.res.settledEffect = r.settledEffect
  BY DEF ApplyCancel, Release, ReservationRecord, TenantRecord
<1>5. \/ /\ s.res.state = "UNRESOLVED"
         /\ s.res.residual = r.residual /\ s.res.guard = r.guard
      \/ /\ s.res.state \in {"CANCELED_UNBILLED", "FAILED_UNBILLED"}
         /\ s.res.residual = 0 /\ s.res.guard = 0
  BY DEF ApplyCancel, Release, ReservationRecord
<1> HIDE DEF s
<1>6. Spend(s.res, t.window) = 0 /\ Spend(r, t.window) = 0
  BY <1>3, <1>4 DEF Spend
<1> QED BY <1>1, <1>3, <1>4, <1>5, <1>6 DEF Weight, Hold, StageOf, Absent, s

-----------------------------------------------------------------------------
(* The actions *)

\* What may make request q weigh more on its tenant.
Rises(q) ==
    \/ res[q].state = Absent /\ res'[q].state = "RESERVED"
    \/ /\ res'[q].provisional > res[q].reserved
       /\ res'[q].provisional > res[q].provisional
    \/ res[q].finalized /\ res'[q].provisional > res[q].provisional
    \/ res[q].state = "EXPIRED_UNDISPATCHED" /\ res'[q].version = 1

\* No request weighs more after the step for any other reason.
Lawful == \A q \in Requests : Exposure(q)' > Exposure(q) => Rises(q)

\* Serving a tenant makes none of its requests weigh more.
LEMMA OwedNowAtMost ==
  ASSUME IInv, NEW o \in Tenants, NEW q \in Requests
  PROVE  OwedNow(o)[q] \in Nat /\ Exposure(q) \in Nat /\ OwedNow(o)[q] <= Exposure(q)
<1>1. res[q] \in ReservationRecord
  BY DEF IInv, Good
<1>2. \A w : Weight(res[q], w) \in Nat /\ res[q].carryEffect <= Weight(res[q], w)
  BY <1>1, ReservationAmounts DEF Weight
<1>3. res[q].carryEffect \in Nat
  BY <1>1, ReservationAmounts
<1> QED BY <1>2, <1>3, BookState DEF OwedNow

\* A step of tenant o that changes no reservation but r, and gives that no
\* unlawful weight, is lawful.
LEMMA ServedLawful ==
  ASSUME IInv, NEW o \in Tenants, tenant[o].window <= now,
         NEW y, tenant' = [tenant EXCEPT ![o] = y], y.window = now,
         NEW r, \A q \in Requests \ {r} : res'[q] = AdvancedRes(o)[q],
         r \in Requests => (Exposure(r)' > Exposure(r) => Rises(r))
  PROVE  Lawful
<1> SUFFICES ASSUME NEW q \in Requests, Exposure(q)' > Exposure(q) PROVE Rises(q)
  BY DEF Lawful
<1>1. CASE q = r
  BY <1>1
<1>2. CASE q # r
  <2>1. Exposure(q)' = OwedNow(o)[q]
    BY <1>2, ServedBook
  <2>2. OwedNow(o)[q] <= Exposure(q) /\ OwedNow(o)[q] \in Nat /\ Exposure(q) \in Nat
    BY OwedNowAtMost
  <2> HIDE DEF Rises
  <2> QED BY <2>1, <2>2
<1> QED BY <1>1, <1>2

\* mutateEventOnce, in the terms of the book.
LEMMA MutateBook ==
  ASSUME IInv, NEW r \in Requests, tenant[Owner[r]].window <= now,
         NEW s, Mutate(r, s), s.ten \in RawTenant,
         s.ten.window = now, s.ten.budget = tenant[Owner[r]].budget,
         s.res.reserved = res[r].reserved
  PROVE  /\ Book!Bill(r, now, StageOf(s.res), s.res.provisional,
                      s.res.carryEffect, Weight(s.res, now))
         /\ Exposure(r)' = Weight(s.res, now) /\ res'[r] = s.res
         /\ paid' = paid /\ now \in Windows /\ Owner[r] \in Tenants
         /\ (Weight(s.res, now) > Exposure(r) => Rises(r)) => Lawful
         /\ /\ StageOf(s.res) = Stage(r)
            /\ s.res.provisional = res[r].provisional
            /\ s.res.carryEffect = res[r].carryEffect
            /\ Weight(s.res, now) = OwedNow(Owner[r])[r]
            => Book!BookNext
<1> DEFINE o == Owner[r]
           y == [s.ten EXCEPT !.active = @ + ActiveDelta(AdvancedRes(o)[r], s.res)]
<1>1. o \in Tenants /\ now \in Windows
  BY OwnerType DEF IInv, Good
<1>2. /\ res' = [AdvancedRes(o) EXCEPT ![r] = s.res]
      /\ tenant' = [tenant EXCEPT ![o] = y] /\ paid' = paid
  BY DEF Mutate
<1>3. y.window = now /\ y.budget = tenant[o].budget
  BY DEF RawTenant
<1>4. AdvancedRes(o) \in [Requests -> ReservationRecord]
      /\ tenant \in [Tenants -> TenantRecord]
  BY <1>1, AdvanceAccount DEF IInv, Good
<1>5. /\ res'[r] = s.res /\ \A q \in Requests \ {r} : res'[q] = AdvancedRes(o)[q]
      /\ tenant'[o].window = now
  BY <1>1, <1>2, <1>3, <1>4
<1>6. Exposure(r)' = Weight(s.res, now) /\ Stage(r)' = StageOf(s.res)
  BY <1>5, BookState
<1> HIDE DEF y
<1>7. \A q \in Requests \ {r} :
         /\ Stage(q)' = Stage(q) /\ res'[q].reserved = res[q].reserved
         /\ res'[q].provisional = res[q].provisional
         /\ res'[q].carryEffect = res[q].carryEffect
         /\ Exposure(q)' = OwedNow(o)[q]
  BY <1>1, <1>2, <1>3, <1>5, ServedBook, ZenonT(60)
<1>8. [q \in Requests |-> Exposure(q)]'
      = [Book!Owed(o, now) EXCEPT ![r] = Weight(s.res, now)]
  <2>1. [q \in Requests |-> Exposure(q)]'
        = [OwedNow(o) EXCEPT ![r] = Weight(s.res, now)]
    BY <1>6, <1>7 DEF OwedNow
  <2> QED BY <1>1, <2>1, BookOwed
<1>9. /\ [q \in Requests |-> Stage(q)]'
         = [[q \in Requests |-> Stage(q)] EXCEPT ![r] = StageOf(s.res)]
      /\ [q \in Requests |-> res[q].provisional]'
         = [[q \in Requests |-> res[q].provisional] EXCEPT ![r] = s.res.provisional]
      /\ [q \in Requests |-> res[q].carryEffect]'
         = [[q \in Requests |-> res[q].carryEffect] EXCEPT ![r] = s.res.carryEffect]
      /\ [q \in Requests |-> res[q].reserved]' = [q \in Requests |-> res[q].reserved]
  BY <1>5, <1>6, <1>7
<1>10. /\ [p \in Tenants |-> tenant[p].window]'
          = [[p \in Tenants |-> tenant[p].window] EXCEPT ![o] = now]
       /\ [p \in Tenants |-> tenant[p].budget]'
          = [[p \in Tenants |-> tenant[p].budget] EXCEPT ![o] = y.budget]
  BY <1>1, <1>2, <1>3, ServedBook
<1>11. Book!Bill(r, now, StageOf(s.res), s.res.provisional, s.res.carryEffect,
                 Weight(s.res, now))
  <2>1. Book!Serve(o, now, [p \in Tenants |-> tenant[p].budget][o])
    BY <1>1, <1>3, <1>10 DEF Book!Serve
  <2>2. paid' = paid
    BY <1>2
  <2>3. UNCHANGED <<paid, [q \in Requests |-> res[q].reserved]>>
    BY <1>9, <2>2
  <2> QED BY <1>8, <1>9, <2>1, <2>3 DEF Book!Bill, Book!Serve
<1>12. ASSUME Weight(s.res, now) > Exposure(r) => Rises(r) PROVE Lawful
  <2> HIDE DEF Rises
  <2> QED BY <1>1, <1>2, <1>3, <1>5, <1>6, <1>12, ServedLawful
<1>13. ASSUME StageOf(s.res) = Stage(r), s.res.provisional = res[r].provisional,
              s.res.carryEffect = res[r].carryEffect,
              Weight(s.res, now) = OwedNow(o)[r]
       PROVE  Book!BookNext
  <2>1. \A q \in Requests : /\ Stage(q)' = Stage(q)
                            /\ res'[q].reserved = res[q].reserved
                            /\ res'[q].provisional = res[q].provisional
                            /\ res'[q].carryEffect = res[q].carryEffect
                            /\ Exposure(q)' = OwedNow(o)[q]
    BY <1>5, <1>6, <1>7, <1>13
  <2>2. /\ tenant' = [tenant EXCEPT ![o] = y] /\ paid' = paid
        /\ y.budget \in {tenant[o].budget} \cup Adjusted
                        \cup {PolicyBudget[p] : p \in Policies}
    BY <1>2, <1>3
  <2> QED BY <1>1, <1>3, <2>1, <2>2, TurnStep
<1> QED BY <1>1, <1>2, <1>5, <1>6, <1>11, <1>12, <1>13

\* What the ledger reads about the reservation an event is about.
LEMMA EventWeight ==
  ASSUME IInv, NEW r \in Requests, tenant[Owner[r]].window <= now,
         res[r].state # Absent
  PROVE  LET q == AdvancedRes(Owner[r])[r]
             t == AdvancedTenant(Owner[r])
         IN  /\ q \in ReservationRecord /\ t \in TenantRecord /\ Shape(q, now)
             /\ t.window = now /\ t.budget = tenant[Owner[r]].budget
             /\ q.state = res[r].state /\ q.reserved = res[r].reserved
             /\ q.provisional = res[r].provisional
             /\ q.carryEffect = res[r].carryEffect
             /\ q.finalized = res[r].finalized /\ q.version = res[r].version
             /\ Weight(q, now) = OwedNow(Owner[r])[r]
             /\ StageOf(q) = Stage(r)
<1> DEFINE o == Owner[r]
<1>1. o \in Tenants /\ r \in RequestsOf(o)
  BY OwnerType DEF RequestsOf
<1>2. tenant[o].window # 0
  BY <1>1 DEF IInv, Good, Account
<1>3. AdvancedTenant(o).window = now
  BY <1>1, <1>2, AdvanceAccount
<1>4. StageOf(AdvancedRes(o)[r]) = Stage(r)
  <2>1. AdvancedRes(o)[r].state = res[r].state
    BY <1>1, AdvanceWeight
  <2> QED BY <2>1 DEF StageOf, Stage
<1> QED BY <1>1, <1>3, <1>4, AdvancedReservation, AdvanceWeight

\* Dispatch is a turn: the claim or the outcome of the call moves no amount.
LEMMA DispatchBook ==
  ASSUME IInv, NEW r \in Requests, NEW status \in DispatchStatuses,
         Dispatch(r, status)
  PROVE  Book!BookNext /\ Lawful
<1> DEFINE o == Owner[r]
           q == AdvancedRes(o)[r]
           t == AdvancedTenant(o)
           s == [res |-> ApplyDispatch(q, status), ten |-> t]
<1>1. /\ tenant[o].window <= now /\ DispatchAccepted(q, status) /\ Mutate(r, s)
  BY DEF Dispatch, ClockServes
<1>2. res[r].state # Absent
  <2>1. q.state = res[r].state
    BY <1>1, AdvancedReservation
  <2> QED BY <1>1, <2>1 DEF DispatchAccepted, Absent
<1>3. /\ q \in ReservationRecord /\ t \in TenantRecord /\ t.window = now
      /\ t.budget = tenant[o].budget /\ q.state = res[r].state
      /\ q.reserved = res[r].reserved /\ q.provisional = res[r].provisional
      /\ q.carryEffect = res[r].carryEffect /\ Weight(q, now) = OwedNow(o)[r]
      /\ StageOf(q) = Stage(r)
  BY <1>1, <1>2, EventWeight
<1> HIDE DEF q, t
<1>4. /\ s.res.reserved = q.reserved /\ s.res.provisional = q.provisional
      /\ s.res.carryEffect = q.carryEffect /\ StageOf(s.res) = "open"
      /\ StageOf(q) = "open" /\ Weight(s.res, now) = Weight(q, now)
  BY <1>1, <1>3 DEF ApplyDispatch, DispatchAccepted, ReservationRecord, Weight,
     Hold, Spend, StageOf, Absent
<1>5. s.ten = t /\ s.ten \in RawTenant
  BY <1>3, TenantIsRaw
<1> HIDE DEF s
<1>6. /\ (Weight(s.res, now) > Exposure(r) => Rises(r)) => Lawful
      /\ Book!BookNext /\ o \in Tenants
  BY <1>1, <1>3, <1>4, <1>5, MutateBook
<1>7. OwedNow(o)[r] \in Nat /\ Exposure(r) \in Nat /\ OwedNow(o)[r] <= Exposure(r)
  BY <1>6, OwedNowAtMost
<1> HIDE DEF Rises, Lawful
<1> QED BY <1>3, <1>4, <1>6, <1>7

\* Cancel withdraws the request, or is a turn when it may have been billed.
LEMMA CancelBook ==
  ASSUME IInv, NEW r \in Requests, NEW authoritative \in BOOLEAN,
         Cancel(r, authoritative)
  PROVE  Book!BookNext /\ Lawful
<1> DEFINE o == Owner[r]
           q == AdvancedRes(o)[r]
           t == AdvancedTenant(o)
           s == ApplyCancel(q, t, authoritative)
<1>1. tenant[o].window <= now /\ CancelAccepted(q) /\ Mutate(r, s)
  BY DEF Cancel, ClockServes
<1>2. res[r].state # Absent
  <2>1. q.state = res[r].state
    BY <1>1, AdvancedReservation
  <2> QED BY <1>1, <2>1 DEF CancelAccepted, Absent
<1>3. /\ q \in ReservationRecord /\ t \in TenantRecord /\ t.window = now
      /\ Shape(q, now) /\ t.budget = tenant[o].budget
      /\ q.reserved = res[r].reserved /\ q.provisional = res[r].provisional
      /\ q.carryEffect = res[r].carryEffect /\ Weight(q, now) = OwedNow(o)[r]
      /\ StageOf(q) = Stage(r)
  BY <1>1, <1>2, EventWeight
<1> HIDE DEF q, t, s
<1>4. Sound(q, t, s)
  BY <1>1, <1>3, CancelSound DEF s
<1>5. s.ten \in RawTenant /\ s.ten.window = now
  BY <1>3, <1>4 DEF Sound, Balanced
<1>6. /\ StageOf(q) = "open" /\ q.provisional = 0 /\ q.carryEffect = 0
      /\ s.res.reserved = q.reserved /\ s.res.provisional = 0
      /\ s.res.carryEffect = 0 /\ s.ten.budget = t.budget
      /\ \/ StageOf(s.res) = "open" /\ Weight(s.res, now) = Weight(q, now)
         \/ StageOf(s.res) = "withdrawn" /\ Weight(s.res, now) = 0
  BY <1>1, <1>3, CancelWeight DEF s
<1>7. o \in Tenants /\ now \in Windows
  BY OwnerType DEF IInv, Good
<1>8. OwedNow(o)[r] \in Nat /\ Exposure(r) \in Nat /\ OwedNow(o)[r] <= Exposure(r)
  BY <1>7, OwedNowAtMost
<1>9. Lawful
  <2>1. ~(Weight(s.res, now) > Exposure(r))
    BY <1>3, <1>6, <1>8
  <2> HIDE DEF Rises, Lawful
  <2> QED BY <1>1, <1>3, <1>5, <1>6, <2>1, MutateBook
<1>10. CASE StageOf(s.res) = "open" /\ Weight(s.res, now) = Weight(q, now)
  <2>1. Book!BookNext
    BY <1>1, <1>3, <1>5, <1>6, <1>10, MutateBook
  <2> QED BY <1>9, <2>1
<1>11. CASE StageOf(s.res) = "withdrawn" /\ Weight(s.res, now) = 0
  <2>1. Book!Bill(r, now, StageOf(s.res), s.res.provisional,
                  s.res.carryEffect, Weight(s.res, now))
    BY <1>1, <1>3, <1>5, <1>6, MutateBook
  <2>2. Stage(r) = "open" /\ res[r].provisional = 0 /\ res[r].carryEffect = 0
    BY <1>3, <1>6
  <2>3. /\ [p \in Requests |-> res[p].provisional]' = [p \in Requests |-> res[p].provisional]
        /\ [p \in Requests |-> res[p].carryEffect]' = [p \in Requests |-> res[p].carryEffect]
    <3>1. /\ [p \in Requests |-> res[p].provisional]'
             = [[p \in Requests |-> res[p].provisional] EXCEPT ![r] = 0]
          /\ [p \in Requests |-> res[p].carryEffect]'
             = [[p \in Requests |-> res[p].carryEffect] EXCEPT ![r] = 0]
      BY <1>6, <2>1 DEF Book!Bill
    <3> QED BY <2>2, <3>1
  <2>4. Book!Withdraw(r, now)
    BY <1>11, <2>1, <2>2, <2>3 DEF Book!Bill, Book!Withdraw, Book!Serve
  <2>5. Book!BookNext
    BY <1>7, <2>4 DEF Book!BookNext
  <2> QED BY <1>9, <2>5
<1> QED BY <1>6, <1>10, <1>11

\* A settlement reports the cost of an open request, closes it, or corrects a
\* final one.
LEMMA SettleBook ==
  ASSUME IInv, NEW r \in Requests, NEW u \in Settlements, Settle(r, u)
  PROVE  Book!BookNext /\ Lawful
<1> DEFINE o == Owner[r]
           q == AdvancedRes(o)[r]
           t == AdvancedTenant(o)
           s == ApplySettlement(q, t, u)
           a == u.actual
           y == s.res.carryEffect
           x == Weight(s.res, now)
<1>1. tenant[o].window <= now /\ SettleAccepted(q, u) /\ Mutate(r, s)
  BY DEF Settle, ClockServes
<1>2. res[r].state # Absent
  <2>1. q.state = res[r].state
    BY <1>1, AdvancedReservation
  <2> QED BY <1>1, <2>1 DEF SettleAccepted, Absent
<1>3. /\ q \in ReservationRecord /\ t \in TenantRecord /\ t.window = now
      /\ Shape(q, now) /\ t.budget = tenant[o].budget
      /\ q.reserved = res[r].reserved /\ q.provisional = res[r].provisional
      /\ q.carryEffect = res[r].carryEffect /\ Weight(q, now) = OwedNow(o)[r]
      /\ StageOf(q) = Stage(r) /\ q.finalized = res[r].finalized
      /\ q.state = res[r].state
  BY <1>1, <1>2, EventWeight
<1>4. a \in Nat /\ a \in Actuals
  BY SettlementFields DEF Settlements
<1> HIDE DEF q, t, s, a
<1>5. Sound(q, t, s)
  BY <1>1, <1>3, SettlementSound DEF s
<1>6. /\ s.ten \in RawTenant /\ s.ten.window = now /\ s.res \in ReservationRecord
      /\ y \in Nat
  BY <1>3, <1>5 DEF Sound, Balanced, ReservationRecord
<1>7. /\ s.res.reserved = q.reserved /\ s.res.provisional = a
      /\ s.ten.budget = t.budget
  <2>1. CASE q.finalized
    BY <1>3, <2>1, CorrectionWeight DEF s, a
  <2>2. CASE ~q.finalized
    BY <1>1, <1>3, <2>2, SettlementWeight DEF s, a, Settled, UsageCounted
  <2> QED BY <2>1, <2>2
<1>8. /\ Book!Bill(r, now, StageOf(s.res), s.res.provisional, y, x)
      /\ res'[r] = s.res /\ now \in Windows /\ o \in Tenants
  BY <1>1, <1>3, <1>6, <1>7, MutateBook
<1>9. (x > Exposure(r) => Rises(r)) => Lawful
  <2> HIDE DEF Rises, Lawful
  <2> QED BY <1>1, <1>3, <1>6, <1>7, MutateBook
<1>10. /\ OwedNow(o)[r] \in Nat /\ Exposure(r) \in Nat
       /\ OwedNow(o)[r] <= Exposure(r)
  BY <1>8, OwedNowAtMost
<1>11. /\ q.reserved \in Nat /\ q.provisional \in Nat /\ q.carryEffect \in Nat
       /\ Weight(q, now) \in Nat /\ x \in Nat
       /\ q.carryEffect <= Weight(q, now)
  BY <1>3, <1>6, ReservationAmounts DEF Weight, ReservationRecord
<1>12. CASE q.finalized
  <2>1. /\ StageOf(q) = "final" /\ StageOf(s.res) = "final"
        /\ y = q.carryEffect \/ (y \in 0 .. a /\ a > q.provisional)
        /\ x = Weight(q, now) + (y - q.carryEffect)
    BY <1>3, <1>12, CorrectionWeight DEF s, a
  <2>2. Book!Owed(o, now)[r] = Weight(q, now)
    BY <1>3, <1>8, BookOwed
  <2> PICK d : d = y
    OBVIOUS
  <2>3. Book!Correct(r, now, a, d)
    BY <1>3, <1>7, <1>8, <2>1, <2>2, ZenonT(60) DEF Book!Correct, Book!Bill, Book!Serve
  <2>4. Book!BookNext
    <3>1. d \in {[p \in Requests |-> res[p].carryEffect][r]} \cup 0 .. a
      BY <1>3, <2>1
    <3> QED BY <1>4, <1>8, <2>3, <3>1 DEF Book!BookNext
  <2>5. x > Exposure(r) => Rises(r)
    BY <1>3, <1>4, <1>6, <1>7, <1>8, <1>10, <1>11, <1>12, <2>1 DEF Rises
  <2> HIDE DEF Rises, Lawful
  <2> QED BY <1>9, <2>4, <2>5
<1>13. CASE ~q.finalized
  <2>1. /\ Settled(q, t, u, s) /\ StageOf(q) \in {"open", "expired"}
        /\ StageOf(q) = "open" => Active(q)
        /\ StageOf(q) = "expired" => u.version = 1
    BY <1>1, <1>3, <1>13, SettlementWeight DEF s
  <2>2. /\ s.res.version = u.version
        /\ y = q.carryEffect \/ (y = a /\ a > q.carryEffect)
        /\ StageOf(s.res) = IF u.final THEN "final" ELSE "open"
        /\ IF u.final THEN x \in {a, y} ELSE x = Book!Most(q.reserved, a, y)
    BY <1>3, <2>1 DEF Settled, UsageCounted, LateDebt, a
  <2>3. Book!Late(r, a, y)
    BY <1>3, <2>2 DEF Book!Late
  <2> PICK d : d = y
    OBVIOUS
  <2>4. Book!Report(r, now, a, d) \/ Book!Close(r, now, a, d)
    <3>1. CASE u.final
      BY <1>3, <1>7, <1>8, <2>1, <2>2, <2>3, <3>1
         DEF Book!Close, Book!Bill, Book!Serve
    <3>2. CASE ~u.final
      BY <1>3, <1>7, <1>8, <2>1, <2>2, <2>3, <3>2
         DEF Book!Report, Book!Bill, Book!Serve
    <3> QED BY <3>1, <3>2
  <2>5. Book!BookNext
    <3>1. d \in {[p \in Requests |-> res[p].carryEffect][r]} \cup 0 .. a
      BY <1>3, <1>4, <2>2
    <3> QED BY <1>4, <1>8, <2>4, <3>1 DEF Book!BookNext
  <2>6. x > Exposure(r) => Rises(r)
    <3>1. CASE StageOf(q) = "open"
      <4>1. Weight(q, now) >= q.reserved /\ Weight(q, now) >= q.provisional
        BY <1>3, <2>1, <3>1, ActiveShape DEF Weight
      <4>2. x > Weight(q, now) => a > q.reserved /\ a > q.provisional
        BY <1>4, <1>6, <1>11, <2>2, <4>1 DEF Book!Most
      <4> QED BY <1>3, <1>7, <1>8, <1>10, <1>11, <4>2 DEF Rises
    <3>2. CASE StageOf(q) = "expired"
      <4>1. q.state = "EXPIRED_UNDISPATCHED"
        BY <3>2 DEF StageOf
      <4> QED BY <1>3, <1>8, <2>1, <2>2, <3>2, <4>1 DEF Rises
    <3> QED BY <2>1, <3>1, <3>2
  <2> HIDE DEF Rises, Lawful
  <2> QED BY <1>9, <2>5, <2>6
<1> QED BY <1>12, <1>13

\* What a tenant's requests weigh together is what its columns commit, and what
\* was paid of its debt.
LEMMA WeightSum ==
  ASSUME NEW R \in [Requests -> ReservationRecord], NEW t, NEW o, NEW d \in Nat,
         Account(R, t, d, o),
         NEW W, \A q \in RequestsOf(o) : W[q] = Weight(R[q], t.window)
  PROVE  /\ SumOver(W, RequestsOf(o)) = t.settled + t.reserved + t.carried + d
         /\ t.settled \in Int /\ t.reserved \in Int /\ t.carried \in Int
<1> DEFINE S == RequestsOf(o)
           f == Holds(R)
           g == Debts(R)
           h == Spends(R, t.window)
           fg == [q \in Requests |-> f[q] + g[q]]
<1>1. IsFiniteSet(S) /\ S \subseteq Requests
  BY RequestsOfFinite DEF RequestsOf
<1>2. \A q \in S : f[q] \in Int /\ g[q] \in Int /\ h[q] \in Int
  BY <1>1, ReservationAmounts DEF Holds, Debts, Spends
<1>3. \A q \in S : fg[q] = f[q] + g[q] /\ W[q] = fg[q] + h[q]
  BY <1>1 DEF Holds, Debts, Spends, Weight
<1>4. t.reserved = SumOver(f, S) /\ t.settled = SumOver(h, S)
      /\ t.carried = SumOver(g, S) - d
  BY DEF Account, Books
<1> HIDE DEF S, f, g, h, fg
<1>5. \A q \in S : fg[q] \in Int
  BY <1>2, <1>3
<1>6. SumOver(fg, S) = SumOver(f, S) + SumOver(g, S)
  BY <1>1, <1>2, <1>3, SumRaise
<1>7. SumOver(W, S) = SumOver(fg, S) + SumOver(h, S)
  BY <1>1, <1>2, <1>3, <1>5, SumRaise
<1>8. SumOver(f, S) \in Int /\ SumOver(g, S) \in Int /\ SumOver(h, S) \in Int
  BY <1>1, <1>2, SumInt
<1> QED BY <1>4, <1>6, <1>7, <1>8 DEF S

\* An admission grants a ceiling the tenant's requests leave room for.
LEMMA AdmitBook ==
  ASSUME IInv, NEW r \in Requests, NEW p \in Policies, NEW c \in Costs,
         Admit(r, p, c)
  PROVE  Book!BookNext /\ Lawful
<1> DEFINE o == Owner[r]
           R == AdvancedRes(o)
           t == BoundTenant(o, p)
           y == [t EXCEPT !.reserved = @ + c, !.active = @ + 1]
           b == PolicyBudget[p]
           x == NewReservation(c, now)
<1>1. o \in Tenants /\ c \in Nat /\ b \in Nat /\ paid[o] \in Nat
  BY OwnerType, AmountsType, PolicyType DEF IInv, Good
<1>2. /\ res[r].state = Absent /\ BindAccepted(o, p) /\ c <= Available(t)
      /\ res' = [R EXCEPT ![r] = x]
      /\ tenant' = [tenant EXCEPT ![o] = y] /\ paid' = paid
  BY DEF Admit
<1>3. /\ R \in [Requests -> ReservationRecord] /\ t \in TenantRecord
      /\ t.window = now /\ now \in Windows /\ now # 0
      /\ Account(R, t, paid[o], o)
  BY <1>1, <1>2, BindAccount
<1>4. /\ tenant[o] \in TenantRecord /\ tenant[o].window \in Nat /\ now \in Nat
      /\ res[r] \in ReservationRecord /\ Shape(res[r], tenant[o].window)
  <2>1. /\ tenant[o] \in TenantRecord /\ res[r] \in ReservationRecord
        /\ Account(res, tenant[o], paid[o], o) /\ r \in RequestsOf(o)
    BY <1>1 DEF IInv, Good, RequestsOf
  <2>2. Shape(res[r], tenant[o].window)
    BY <2>1 DEF Account
  <2> QED BY <1>3, <2>1, <2>2, BoundsType DEF TenantRecord, Windows
<1>5. /\ tenant[o].window <= now
      /\ b = tenant[o].budget \/ tenant[o].window # now
  BY <1>2, <1>3, <1>4 DEF BindAccepted
<1>6. t.budget = b
  <2>1. AdvancedTenant(o) \in TenantRecord
    BY <1>1, <1>5, AdvanceAccount
  <2> QED BY <2>1 DEF BoundTenant, TenantRecord
<1> HIDE DEF R, t
<1>7. y.window = now /\ y.budget = b
  BY <1>3, <1>6 DEF TenantRecord
<1>8. /\ res'[r] = x /\ \A q \in Requests \ {r} : res'[q] = R[q]
  BY <1>2, <1>3
<1>9. tenant'[o].window = now
  <2>1. tenant \in [Tenants -> TenantRecord]
    BY DEF IInv, Good
  <2> QED BY <1>1, <1>2, <1>7, <2>1
<1> HIDE DEF y
<1>10. \A q \in Requests \ {r} :
          /\ Stage(q)' = Stage(q) /\ res'[q].reserved = res[q].reserved
          /\ res'[q].provisional = res[q].provisional
          /\ res'[q].carryEffect = res[q].carryEffect
          /\ Exposure(q)' = OwedNow(o)[q]
  BY <1>1, <1>2, <1>5, <1>7, <1>8, ServedBook DEF R
<1>11. /\ Stage(r) = "none" /\ res[r].provisional = 0 /\ res[r].carryEffect = 0
  BY <1>2, <1>4, AbsentWeight, BookState
<1>12. /\ x.state = "RESERVED" /\ x.reserved = c /\ x.provisional = 0
       /\ x.carryEffect = 0 /\ StageOf(x) = "open" /\ Weight(x, now) = c
  BY <1>1 DEF NewReservation, StageOf, Weight, Hold, Spend, Absent
<1> HIDE DEF x
<1>13. Stage(r)' = "open" /\ Exposure(r)' = c
  BY <1>8, <1>9, <1>12, BookState
<1>14. [q \in Requests |-> Exposure(q)]' = [Book!Owed(o, now) EXCEPT ![r] = c]
  <2>1. [q \in Requests |-> Exposure(q)]' = [OwedNow(o) EXCEPT ![r] = c]
    BY <1>10, <1>13 DEF OwedNow
  <2> QED BY <1>1, <2>1, BookOwed
<1>15. Book!SumOver(Book!Owed(o, now), Book!Own(o)) + c <= b + paid[o]
  <2>1. \A q \in RequestsOf(o) : OwedNow(o)[q] = Weight(R[q], t.window)
    BY <1>1, <1>3, <1>5, AdvanceWeight DEF RequestsOf, R
  <2>2. /\ SumOver(OwedNow(o), RequestsOf(o))
           = t.settled + t.reserved + t.carried + paid[o]
        /\ t.settled \in Int /\ t.reserved \in Int /\ t.carried \in Int
    BY <1>1, <1>3, <2>1, WeightSum
  <2>3. c <= b - t.settled - t.reserved - t.carried
    BY <1>2, <1>6 DEF Available
  <2>4. SumOver(OwedNow(o), RequestsOf(o)) + c <= b + paid[o]
    BY <1>1, <2>2, <2>3
  <2> QED BY <1>1, <2>4, BookOwed, BookSum
<1>16. /\ [q \in Requests |-> Stage(q)]'
          = [[q \in Requests |-> Stage(q)] EXCEPT ![r] = "open"]
       /\ [q \in Requests |-> res[q].reserved]'
          = [[q \in Requests |-> res[q].reserved] EXCEPT ![r] = c]
       /\ [q \in Requests |-> res[q].provisional]'
          = [q \in Requests |-> res[q].provisional]
       /\ [q \in Requests |-> res[q].carryEffect]'
          = [q \in Requests |-> res[q].carryEffect]
  BY <1>8, <1>10, <1>11, <1>12, <1>13
<1>17. /\ [z \in Tenants |-> tenant[z].window]'
          = [[z \in Tenants |-> tenant[z].window] EXCEPT ![o] = now]
       /\ [z \in Tenants |-> tenant[z].budget]'
          = [[z \in Tenants |-> tenant[z].budget] EXCEPT ![o] = y.budget]
  BY <1>1, <1>2, <1>5, <1>7, ServedBook
<1>18. Book!Grant(r, now, b, c)
  <2>1. paid' = paid
    BY <1>2
  <2>2. /\ [z \in Tenants |-> tenant[z].window][o] <= now
        /\ \/ b = [z \in Tenants |-> tenant[z].budget][o]
           \/ [z \in Tenants |-> tenant[z].window][o] # now
        /\ [q \in Requests |-> Stage(q)][r] = "none"
    BY <1>1, <1>5, <1>11
  <2>3. UNCHANGED <<paid, [q \in Requests |-> res[q].provisional],
                    [q \in Requests |-> res[q].carryEffect]>>
    BY <1>16, <2>1
  <2>4. [z \in Tenants |-> tenant[z].budget]'
        = [[z \in Tenants |-> tenant[z].budget] EXCEPT ![o] = b]
    BY <1>7, <1>17
  <2> HIDE DEF b
  <2> QED BY <1>14, <1>15, <1>16, <1>17, <2>2, <2>3, <2>4
          DEF Book!Grant, Book!Rebudget, Book!Serve
<1>19. Lawful
  <2>1. Rises(r)
    BY <1>2, <1>8, <1>12 DEF Rises
  <2> HIDE DEF Rises
  <2> QED BY <1>1, <1>2, <1>5, <1>7, <1>8, <2>1, ServedLawful DEF R
<1> QED BY <1>3, <1>18, <1>19 DEF Book!BookNext

\* A step that only advances the window of tenant o leaves every request the
\* weight it owes there.
LEMMA AdvanceBook ==
  ASSUME IInv, NEW o \in Tenants, tenant[o].window <= now,
         NEW y, tenant' = [tenant EXCEPT ![o] = y], y.window = now,
         res' = AdvancedRes(o)
  PROVE  /\ \A q \in Requests : /\ Stage(q)' = Stage(q)
                                /\ res'[q].reserved = res[q].reserved
                                /\ res'[q].provisional = res[q].provisional
                                /\ res'[q].carryEffect = res[q].carryEffect
                                /\ Exposure(q)' = OwedNow(o)[q]
         /\ Lawful
<1>1. PICK r : r \notin Requests
  <2>1. \E r : r \notin Requests
    BY NoSetContainsEverything
  <2> QED BY <2>1
<1>2. Lawful
  <2> HIDE DEF Rises, Lawful
  <2> QED BY <1>1, ServedLawful
<1> QED BY <1>2, ServedBook

\* A refused admission is a turn, with the budget the policy fixes.
LEMMA AdmitRefusedBook ==
  ASSUME IInv, NEW r \in Requests, NEW p \in Policies, AdmitRefused(r, p)
  PROVE  Book!BookNext /\ Lawful
<1> DEFINE o == Owner[r]
           y == BoundTenant(o, p)
<1>1. o \in Tenants
  BY OwnerType
<1>2. /\ BindAccepted(o, p) /\ res' = AdvancedRes(o) /\ paid' = paid
      /\ tenant' = [tenant EXCEPT ![o] = y]
  BY DEF AdmitRefused
<1>3. y \in TenantRecord /\ y.window = now /\ now \in Windows /\ now # 0
  BY <1>1, <1>2, BindAccount
<1>4. tenant[o].window \in Nat /\ now \in Nat
  BY <1>1, <1>3, BoundsType DEF IInv, Good, TenantRecord, Windows
<1>5. /\ tenant[o].window <= now
      /\ PolicyBudget[p] = tenant[o].budget \/ tenant[o].window # now
  BY <1>2, <1>3, <1>4 DEF BindAccepted
<1>6. y.budget = PolicyBudget[p]
  <2>1. AdvancedTenant(o) \in TenantRecord
    BY <1>1, <1>5, AdvanceAccount
  <2> QED BY <2>1 DEF BoundTenant, TenantRecord
<1> HIDE DEF y
<1>7. /\ \A q \in Requests : /\ Stage(q)' = Stage(q)
                             /\ res'[q].reserved = res[q].reserved
                             /\ res'[q].provisional = res[q].provisional
                             /\ res'[q].carryEffect = res[q].carryEffect
                             /\ Exposure(q)' = OwedNow(o)[q]
      /\ Lawful
  BY <1>1, <1>2, <1>3, <1>5, AdvanceBook
<1>8. y.budget \in {tenant[o].budget} \cup Adjusted
                   \cup {PolicyBudget[z] : z \in Policies}
  BY <1>6
<1>9. Book!BookNext
  BY <1>1, <1>2, <1>3, <1>5, <1>6, <1>7, <1>8, TurnStep
<1> QED BY <1>7, <1>9

\* Reading the liability is a turn, or nothing for a tenant never seen.
LEMMA LiabilityTurn ==
  ASSUME IInv, NEW o \in Tenants, Liability(o)
  PROVE  (Book!BookNext \/ UNCHANGED vars) /\ Lawful
<1> DEFINE y == AdvancedTenant(o)
<1>1. /\ tenant[o].window <= now /\ res' = AdvancedRes(o) /\ paid' = paid
      /\ tenant' = [tenant EXCEPT ![o] = y] /\ now' = now
  BY DEF Liability, ClockServes
<1>2. tenant \in [Tenants -> TenantRecord]
  BY DEF IInv, Good
<1>3. CASE tenant[o].window = 0
  <2>1. UNCHANGED vars
    BY <1>1, <1>2, <1>3 DEF AdvancedRes, AdvancedTenant, vars
  <2>2. Lawful
    <3>1. ASSUME NEW q \in Requests PROVE ~(Exposure(q)' > Exposure(q))
      <4>1. Exposure(q)' = Exposure(q)
        BY <2>1 DEF Exposure, vars
      <4>2. Exposure(q) \in Nat
        BY OwedNowAtMost
      <4> QED BY <4>1, <4>2
    <3> QED BY <3>1 DEF Lawful
  <2> QED BY <2>1, <2>2
<1>4. CASE tenant[o].window # 0
  <2>1. y.window = now
    BY <1>1, <1>4, AdvanceAccount
  <2>2. y.budget = tenant[o].budget
    BY <1>1, <1>2 DEF AdvancedTenant, RolledTenant, TenantRecord
  <2> HIDE DEF y
  <2>3. /\ \A q \in Requests : /\ Stage(q)' = Stage(q)
                               /\ res'[q].reserved = res[q].reserved
                               /\ res'[q].provisional = res[q].provisional
                               /\ res'[q].carryEffect = res[q].carryEffect
                               /\ Exposure(q)' = OwedNow(o)[q]
        /\ Lawful
    BY <1>1, <2>1, AdvanceBook
  <2>4. y.budget \in {tenant[o].budget} \cup Adjusted
                     \cup {PolicyBudget[z] : z \in Policies}
    BY <2>2
  <2>5. Book!BookNext
    BY <1>1, <2>1, <2>2, <2>3, <2>4, TurnStep
  <2> QED BY <2>3, <2>5
<1> QED BY <1>3, <1>4

\* An adjustment pays debt the tenant's requests have caused.
LEMMA AdjustBook ==
  ASSUME IInv, NEW o \in Tenants, NEW b \in Adjusted, NEW d \in Payments,
         AdjustBudget(o, b, d)
  PROVE  Book!BookNext /\ Lawful
<1> DEFINE R == AdvancedRes(o)
           t == AdvancedTenant(o)
           y == [t EXCEPT !.budget = b, !.carried = @ - d]
           debts == [q \in Requests |-> res[q].carryEffect]
<1>1. /\ tenant[o].window # 0 /\ tenant[o].window <= now /\ d <= t.carried
      /\ res' = R /\ tenant' = [tenant EXCEPT ![o] = y]
      /\ paid' = [paid EXCEPT ![o] = @ + d]
  BY DEF AdjustBudget, ClockServes
<1>2. /\ R \in [Requests -> ReservationRecord] /\ t \in TenantRecord
      /\ t.window = now /\ Account(R, t, paid[o], o)
  BY <1>1, AdvanceAccount
<1>3. now \in Windows /\ b \in Nat /\ d \in Nat /\ paid[o] \in Nat
  BY AmountsType DEF IInv, Good
<1>4. paid[o] + d <= Book!SumOver(debts, Book!Own(o))
  <2>1. IsFiniteSet(RequestsOf(o)) /\ RequestsOf(o) \subseteq Requests
    BY RequestsOfFinite DEF RequestsOf
  <2>2. \A q \in RequestsOf(o) : Debts(R)[q] = debts[q] /\ Debts(R)[q] \in Int
    BY <1>1, <1>2, <2>1, AdvanceWeight, ReservationAmounts DEF Debts
  <2> HIDE DEF debts, R, t
  <2>3. SumOver(Debts(R), RequestsOf(o)) = SumOver(debts, RequestsOf(o))
    BY <2>1, <2>2, SumEqual
  <2>4. SumOver(Debts(R), RequestsOf(o)) \in Int
    BY <2>1, <2>2, SumInt
  <2>5. t.carried = SumOver(Debts(R), RequestsOf(o)) - paid[o]
    BY <1>2 DEF Account, Books
  <2>6. paid[o] + d <= SumOver(debts, RequestsOf(o))
    BY <1>1, <1>3, <2>3, <2>4, <2>5
  <2> QED BY <2>6, BookSum, BookOwed
<1>5. y.window = now /\ y.budget = b
  BY <1>2 DEF TenantRecord
<1> HIDE DEF R, t, y
<1>6. /\ \A q \in Requests : /\ Stage(q)' = Stage(q)
                             /\ res'[q].reserved = res[q].reserved
                             /\ res'[q].provisional = res[q].provisional
                             /\ res'[q].carryEffect = res[q].carryEffect
                             /\ Exposure(q)' = OwedNow(o)[q]
      /\ Lawful
  BY <1>1, <1>5, AdvanceBook DEF R
<1>7. [q \in Requests |-> Exposure(q)]' = Book!Owed(o, now)
  <2>1. [q \in Requests |-> Exposure(q)]' = [q \in Requests |-> OwedNow(o)[q]]
    BY <1>6
  <2> QED BY <2>1, BookOwed DEF OwedNow
<1>8. /\ [z \in Tenants |-> tenant[z].window]'
         = [[z \in Tenants |-> tenant[z].window] EXCEPT ![o] = now]
      /\ [z \in Tenants |-> tenant[z].budget]'
         = [[z \in Tenants |-> tenant[z].budget] EXCEPT ![o] = y.budget]
  BY <1>1, <1>5, ServedBook
<1>9. Book!Adjust(o, now, b, d)
  <2>1. [z \in Tenants |-> tenant[z].window][o] <= now
    BY <1>1
  <2>2. UNCHANGED <<[q \in Requests |-> Stage(q)],
                    [q \in Requests |-> res[q].reserved],
                    [q \in Requests |-> res[q].provisional],
                    [q \in Requests |-> res[q].carryEffect]>>
    BY <1>6
  <2>3. paid' = [paid EXCEPT ![o] = @ + d]
    BY <1>1
  <2> QED BY <1>4, <1>5, <1>7, <1>8, <2>1, <2>2, <2>3 DEF Book!Adjust, Book!Serve
<1> QED BY <1>3, <1>6, <1>9 DEF Book!BookNext

\* Reconciliation lapses the reservations still waiting for dispatch and leaves
\* every other request its weight.
LEMMA ReconcileBook ==
  ASSUME IInv, NEW E \in SUBSET Requests, ReconcileExpired(E)
  PROVE  (Book!BookNext \/ UNCHANGED Book!bookVars) /\ Lawful
<1> DEFINE L == {q \in E : res[q].state = "RESERVED"}
<1>1. /\ \A q \in E : Expirable(res[q]) /\ q \in Requests
      /\ res' = [q \in Requests |-> IF q \in E THEN ApplyExpiry(res[q]) ELSE res[q]]
      /\ paid' = paid
  BY DEF ReconcileExpired
<1>2. \A o \in Tenants : tenant'[o].window = tenant[o].window
                        /\ tenant'[o].budget = tenant[o].budget
  <2>1. \A o \in Tenants : tenant[o] \in TenantRecord
    BY DEF IInv, Good
  <2> QED BY <2>1 DEF ReconcileExpired, TenantRecord
<1>3. ASSUME NEW q \in Requests
      PROVE  /\ res[q] \in ReservationRecord /\ Owner[q] \in Tenants
             /\ Shape(res[q], tenant[Owner[q]].window)
  BY OwnerType DEF IInv, Good, Account, RequestsOf
<1>4. ASSUME NEW q \in Requests
      PROVE  /\ res'[q].reserved = res[q].reserved
             /\ res'[q].provisional = res[q].provisional
             /\ res'[q].carryEffect = res[q].carryEffect
             /\ Stage(q)' = IF q \in L THEN "expired" ELSE Stage(q)
             /\ Exposure(q)' = IF q \in L THEN 0 ELSE Exposure(q)
             /\ q \in L => /\ Stage(q) = "open" /\ res[q].provisional = 0
                           /\ res[q].carryEffect = 0
  <2> DEFINE r == res[q]
             w == tenant[Owner[q]].window
  <2>1. r \in ReservationRecord /\ Shape(r, w) /\ tenant'[Owner[q]].window = w
    BY <1>2, <1>3
  <2>2. CASE q \notin E
    <3>1. res'[q] = r
      BY <1>1, <2>2
    <3> QED BY <2>1, <2>2, <3>1, BookState
  <2>3. CASE q \in E
    <3> DEFINE x == ApplyExpiry(r)
    <3>1. res'[q] = x /\ Expirable(r)
      BY <1>1, <2>3
    <3>2. /\ x.reserved = r.reserved /\ x.provisional = r.provisional
          /\ x.carryEffect = r.carryEffect /\ x.settledEffect = r.settledEffect
          /\ x.carried = r.carried /\ x.enforcement = r.enforcement
          /\ IF q \in L
             THEN x.state = "EXPIRED_UNDISPATCHED" /\ x.residual = 0 /\ x.guard = 0
             ELSE x.state = "UNRESOLVED" /\ x.residual = r.residual
                  /\ x.guard = r.guard
      BY <2>1, <2>3 DEF ApplyExpiry, ReservationRecord
    <3>3. StageOf(r) = "open"
      BY <3>1 DEF Expirable, StageOf, Absent
    <3>4. r.provisional = 0 /\ r.carryEffect = 0 /\ r.settledEffect = 0
      BY <2>1, <3>1 DEF Expirable, Shape, Unused, UnusedShape
    <3> HIDE DEF x, L
    <3>5. StageOf(x) = IF q \in L THEN "expired" ELSE "open"
      BY <3>2 DEF StageOf, Absent
    <3>6. Weight(x, w) = IF q \in L THEN 0 ELSE Weight(r, w)
      BY <3>2, <3>4 DEF Weight, Hold, Spend
    <3> QED BY <2>1, <3>1, <3>2, <3>3, <3>4, <3>5, <3>6, BookState
  <2> QED BY <2>2, <2>3
<1>5. Lawful
  <2>1. ASSUME NEW q \in Requests PROVE ~(Exposure(q)' > Exposure(q))
    <3>1. Exposure(q) \in Nat
      BY <1>3, OwedNowAtMost
    <3> QED BY <1>4, <3>1
  <2> QED BY <2>1 DEF Lawful
<1>6. UNCHANGED <<[z \in Tenants |-> tenant[z].window],
                  [z \in Tenants |-> tenant[z].budget], paid,
                  [q \in Requests |-> res[q].reserved],
                  [q \in Requests |-> res[q].provisional],
                  [q \in Requests |-> res[q].carryEffect]>>
  BY <1>1, <1>2, <1>4
<1>7. L \in SUBSET Requests
  OBVIOUS
<1> HIDE DEF L
<1>8. CASE L = {}
  <2>1. UNCHANGED <<[q \in Requests |-> Stage(q)], [q \in Requests |-> Exposure(q)]>>
    BY <1>4, <1>8
  <2> QED BY <1>5, <1>6, <2>1 DEF Book!bookVars
<1>9. CASE L # {}
  <2>1. /\ [q \in Requests |-> Stage(q)]' =
             [q \in Requests |-> IF q \in L THEN "expired"
                                 ELSE [p \in Requests |-> Stage(p)][q]]
        /\ [q \in Requests |-> Exposure(q)]' =
             [q \in Requests |-> IF q \in L THEN 0
                                 ELSE [p \in Requests |-> Exposure(p)][q]]
    BY <1>4
  <2>2. \A q \in L : /\ [p \in Requests |-> Stage(p)][q] = "open"
                     /\ [p \in Requests |-> res[p].provisional][q] = 0
                     /\ [p \in Requests |-> res[p].carryEffect][q] = 0
    BY <1>4, <1>7
  <2> PICK M : M = L
    OBVIOUS
  <2>3. Book!Lapse(M)
    BY <1>6, <1>9, <2>1, <2>2 DEF Book!Lapse
  <2>4. Book!BookNext
    BY <1>7, <2>3 DEF Book!BookNext
  <2> QED BY <1>5, <2>4
<1> QED BY <1>8, <1>9

\* A step that changes none of the ledger's rows changes nothing in the book.
LEMMA RowsKept ==
  ASSUME IInv, res' = res, tenant' = tenant, paid' = paid
  PROVE  UNCHANGED Book!bookVars /\ Lawful
<1>1. \A q \in Requests : Stage(q)' = Stage(q) /\ Exposure(q)' = Exposure(q)
  BY DEF Stage, Exposure
<1>2. Lawful
  <2>1. ASSUME NEW q \in Requests PROVE ~(Exposure(q)' > Exposure(q))
    <3>1. Exposure(q) \in Nat
      BY OwnerType, OwedNowAtMost
    <3> QED BY <1>1, <3>1
  <2> QED BY <2>1 DEF Lawful
<1>3. UNCHANGED Book!bookVars
  BY <1>1 DEF Book!bookVars
<1> QED BY <1>2, <1>3

\* Every step of the ledger is a step of the book or changes nothing in it, and
\* is lawful.
LEMMA NextBook ==
  ASSUME IInv, [Next]_vars
  PROVE  [Book!BookNext]_(Book!bookVars) /\ Lawful
<1> HIDE DEF Lawful
<1>1. CASE UNCHANGED vars
  BY <1>1, RowsKept DEF vars
<1>2. ASSUME NEW w \in Windows, Clock(w) PROVE UNCHANGED Book!bookVars /\ Lawful
  BY <1>2, RowsKept DEF Clock
<1>3. ASSUME NEW o \in Tenants, Liability(o)
      PROVE  [Book!BookNext]_(Book!bookVars) /\ Lawful
  <2>1. CASE UNCHANGED vars
    BY <2>1, RowsKept DEF vars
  <2>2. CASE Book!BookNext
    BY <1>3, <2>2, LiabilityTurn
  <2> QED BY <1>3, <2>1, <2>2, LiabilityTurn
<1>4. CASE Next
  BY <1>2, <1>3, <1>4, AdmitBook, AdmitRefusedBook, DispatchBook, SettleBook,
     CancelBook, ReconcileBook, AdjustBook DEF Next
<1> QED BY <1>1, <1>4

\* The ledger starts with an empty book.
LEMMA InitBook == Init => Book!BookInit
<1> SUFFICES ASSUME Init PROVE Book!BookInit
  OBVIOUS
<1>1. \A q \in Requests : res[q] = NoReservation
  BY DEF Init
<1>2. \A o \in Tenants : tenant[o].window = 0 /\ tenant[o].budget = 0
  BY DEF Init, NewTenant
<1>3. \A q \in Requests : /\ Stage(q) = "none" /\ Exposure(q) = 0
                          /\ res[q].reserved = 0 /\ res[q].provisional = 0
                          /\ res[q].carryEffect = 0
  BY <1>1 DEF Stage, Exposure, NoReservation, NewReservation, Hold, Spend, Absent
<1>4. paid = [o \in Tenants |-> 0]
  BY DEF Init
<1> QED BY <1>2, <1>3, <1>4 DEF Book!BookInit

\* The ledger implements the book: its columns, holds, guards and effects amount
\* to each request weighing on its tenant what it may still cost, and admitOnce,
\* which looks at the columns alone, never grants a ceiling beyond what the
\* tenant's requests leave of the budget.
THEOREM LedgerImplementsBook == Spec => ImplementsBook
<1>1. Init => Book!BookInit
  BY InitBook
<1>2. IInv /\ [Next]_vars => [Book!BookNext]_(Book!bookVars)
  BY NextBook
<1> QED BY <1>1, <1>2, LedgerInvariant, PTL DEF Spec, ImplementsBook, Book!BookSpec

-----------------------------------------------------------------------------
\* What was paid of a tenant's debt never falls.
LEMMA PaidGrows ==
  ASSUME IInv, [Next]_vars, NEW o \in Tenants
  PROVE  paid'[o] >= paid[o]
<1>1. paid \in [Tenants -> Nat]
  BY DEF IInv, Good
<1>2. ASSUME NEW p \in Tenants, NEW b \in Adjusted, NEW d \in Payments,
             AdjustBudget(p, b, d)
      PROVE  paid'[o] >= paid[o]
  <2>1. paid' = [paid EXCEPT ![p] = @ + d] /\ d \in Nat
    BY <1>2, AmountsType DEF AdjustBudget
  <2> QED BY <1>1, <2>1
<1>3. CASE paid' = paid
  BY <1>1, <1>3
<1> QED BY <1>2, <1>3 DEF Next, vars, Clock, AdmitRefused, Admit, Dispatch,
        Settle, Cancel, Mutate, ReconcileExpired, Liability

\* What a tenant's columns commit is what its requests weigh, less what was paid.
WeighedCommitments ==
    /\ \A q \in Requests : Exposure(q) \in Int
    /\ \A o \in Tenants :
          /\ SumOver([q \in Requests |-> Exposure(q)], RequestsOf(o))
             = Committed(tenant[o]) + paid[o]
          /\ Committed(tenant[o]) \in Int /\ paid[o] \in Nat

LEMMA CommittedIsWeight == IInv => WeighedCommitments
<1> SUFFICES ASSUME IInv PROVE WeighedCommitments
  OBVIOUS
<1>1. ASSUME NEW q \in Requests PROVE Exposure(q) \in Int
  <2>1. Owner[q] \in Tenants
    BY OwnerType
  <2> QED BY <2>1, OwedNowAtMost
<1>2. ASSUME NEW o \in Tenants
      PROVE  /\ SumOver([q \in Requests |-> Exposure(q)], RequestsOf(o))
                = Committed(tenant[o]) + paid[o]
             /\ Committed(tenant[o]) \in Int /\ paid[o] \in Nat
  <2> DEFINE W == [q \in Requests |-> Exposure(q)]
             t == tenant[o]
  <2>1. /\ res \in [Requests -> ReservationRecord] /\ paid[o] \in Nat
        /\ Account(res, t, paid[o], o)
    BY DEF IInv, Good
  <2>2. \A q \in RequestsOf(o) : W[q] = Weight(res[q], t.window)
    BY BookState DEF RequestsOf
  <2> HIDE DEF W, t
  <2>3. /\ SumOver(W, RequestsOf(o)) = t.settled + t.reserved + t.carried + paid[o]
        /\ t.settled \in Int /\ t.reserved \in Int /\ t.carried \in Int
    BY <2>1, <2>2, WeightSum
  <2> QED BY <2>1, <2>3 DEF Committed, W, t
<1> QED BY <1>1, <1>2 DEF WeighedCommitments

\* A tenant's commitments grow only by an admission, by cost beyond the ceiling,
\* by a rise after finality or by usage of an expired reservation: no rollover,
\* refused admission, cancellation, expiry, payment or settlement within the
\* ceiling takes availability away from the tenant's other requests.
THEOREM CommitmentsGrowLawfully == Spec => CommitmentGrowth
<1> DEFINE A == \A o \in Tenants :
        Committed(tenant'[o]) > Committed(tenant[o]) =>
          \E q \in RequestsOf(o) : Rises(q)
<1>1. ASSUME IInv, WeighedCommitments', [Next]_vars PROVE A
  <2> SUFFICES ASSUME NEW o \in Tenants,
                      \A q \in RequestsOf(o) : ~Rises(q)
               PROVE  ~(Committed(tenant'[o]) > Committed(tenant[o]))
    OBVIOUS
  <2> DEFINE S == RequestsOf(o)
             f == [q \in Requests |-> Exposure(q)]
             g == [q \in Requests |-> Exposure(q)']
  <2>1. IsFiniteSet(S) /\ S \subseteq Requests
    BY RequestsOfFinite DEF RequestsOf
  <2>2. \A q \in S : ~(Exposure(q)' > Exposure(q))
    <3>1. Lawful
      BY <1>1, NextBook
    <3> HIDE DEF Rises
    <3> QED BY <2>1, <3>1 DEF Lawful
  <2>3. \A q \in S : Exposure(q) \in Int /\ Exposure(q)' \in Int
    BY <1>1, <2>1, CommittedIsWeight DEF WeighedCommitments
  <2>4. \A q \in S : f[q] \in Int /\ g[q] \in Int /\ g[q] <= f[q]
    BY <2>1, <2>2, <2>3
  <2>5. /\ SumOver(f, S) = Committed(tenant[o]) + paid[o]
        /\ Committed(tenant[o]) \in Int /\ paid[o] \in Nat
    BY <1>1, CommittedIsWeight DEF WeighedCommitments
  <2>6. /\ SumOver(g, S) = Committed(tenant'[o]) + paid'[o]
        /\ Committed(tenant'[o]) \in Int /\ paid'[o] \in Nat
    BY <1>1 DEF WeighedCommitments, Exposure
  <2> HIDE DEF f, g, S
  <2>7. SumOver(g, S) <= SumOver(f, S)
    BY <2>1, <2>4, SumAtMost
  <2>8. paid'[o] >= paid[o]
    BY <1>1, PaidGrows
  <2> QED BY <2>5, <2>6, <2>7, <2>8
<1>2. A => [\A o \in Tenants :
             Committed(tenant'[o]) > Committed(tenant[o]) =>
               \E q \in RequestsOf(o) :
                 \/ res[q].state = Absent
                    /\ res'[q].state = "RESERVED"
                 \/ /\ res'[q].provisional > res[q].reserved
                    /\ res'[q].provisional > res[q].provisional
                 \/ res[q].finalized /\ res'[q].provisional > res[q].provisional
                 \/ res[q].state = "EXPIRED_UNDISPATCHED"
                    /\ res'[q].version = 1]_vars
  BY DEF Rises
<1>3. IInv => WeighedCommitments
  BY CommittedIsWeight
<1> QED BY <1>1, <1>2, <1>3, LedgerInvariant, PTL DEF Spec, CommitmentGrowth

-----------------------------------------------------------------------------
(* The in-memory engine: transitions of a copy that may be stale *)

\* A stored reservation.  A copy written over a rollover loses its guard, and a
\* later correction lowers what is left of it: the guard may be negative.
StaleRecord ==
    [state : ReservationStates \cup {Absent}, outbox : OutboxStates,
     reserved : Nat, residual : Nat, guard : Int, provisional : Nat,
     base : Nat, settledEffect : Nat, carryEffect : Nat, credit : Nat,
     version : 0 .. MaxVersion, carried : BOOLEAN, finalized : BOOLEAN,
     origin : 0 .. MaxWindow, enforcement : 0 .. MaxWindow]

\* What of Shape survives a stale write: nothing is said of the guard, and of
\* the hold only where a transition relies on it.
StaleShape(r, w) ==
    /\ r.enforcement <= w
    /\ r.state = Absent => Hold(r) = 0
    /\ r.state \in Unused => r.version = 0
    /\ r.version = 0 =>
          /\ r.provisional = 0 /\ r.settledEffect = 0 /\ r.carryEffect = 0
          /\ ~r.carried /\ ~r.finalized /\ r.enforcement = r.origin
    /\ r.version # 0 /\ ~r.finalized =>
          IF r.carried
          THEN r.residual = NonNeg(r.reserved - r.carryEffect)
          ELSE r.enforcement = w => r.settledEffect = r.provisional

\* The transition s moves the tenant's columns with the amounts of the copy r.
MovesWith(r, t, s) ==
    /\ s.ten.reserved = t.reserved + (Hold(s.res) - Hold(r))
    /\ s.ten.settled = t.settled
                       + (Spend(s.res, t.window) - Spend(r, t.window))
    /\ s.ten.carried = t.carried + (s.res.carryEffect - r.carryEffect)
    /\ s.ten.window = t.window

StaleSound(r, t, s) ==
    /\ s.res \in StaleRecord
    /\ s.ten \in RawTenant
    /\ StaleShape(s.res, t.window)
    /\ MovesWith(r, t, s)

\* The amounts a stored reservation contributes to its tenant are integers.
LEMMA StaleAmounts ==
  ASSUME NEW r \in StaleRecord
  PROVE  /\ Hold(r) \in Int /\ r.carryEffect \in Int
         /\ \A w : Spend(r, w) \in Int
BY DEF StaleRecord, Hold, Spend

\* applyDispatch of a copy keeps its shape and moves no amount.
LEMMA StaleDispatch ==
  ASSUME NEW r \in StaleRecord, NEW t \in RawTenant,
         StaleShape(r, t.window), NEW status \in DispatchStatuses,
         DispatchAccepted(r, status)
  PROVE  StaleSound(r, t, [res |-> ApplyDispatch(r, status), ten |-> t])
<1> DEFINE x == ApplyDispatch(r, status)
<1>1. x \in StaleRecord /\ x.state # Absent /\ r.version = 0
  BY DEF ApplyDispatch, StaleRecord, ReservationStates, OutboxStates, Absent,
         DispatchAccepted, Unused, StaleShape
<1>2. /\ x.residual = r.residual /\ x.guard = r.guard /\ x.carried = r.carried
      /\ x.enforcement = r.enforcement /\ x.settledEffect = r.settledEffect
      /\ x.carryEffect = r.carryEffect /\ x.version = r.version
      /\ x.finalized = r.finalized /\ x.provisional = r.provisional
      /\ x.reserved = r.reserved /\ x.origin = r.origin
  BY DEF ApplyDispatch, StaleRecord
<1> HIDE DEF x
<1>3. StaleShape(x, t.window)
  BY <1>1, <1>2 DEF StaleShape
<1>4. Hold(x) = Hold(r) /\ Spend(x, t.window) = Spend(r, t.window)
  BY <1>2 DEF Hold, Spend
<1>5. MovesWith(r, t, [res |-> x, ten |-> t])
  BY <1>2, <1>4, StaleAmounts DEF MovesWith, RawTenant
<1> QED BY <1>1, <1>3, <1>5 DEF StaleSound, x

\* applyCancel of a copy gives the tenant back what the copy holds.
LEMMA StaleCancel ==
  ASSUME NEW r \in StaleRecord, NEW t \in RawTenant,
         StaleShape(r, t.window), NEW authoritative \in BOOLEAN,
         CancelAccepted(r)
  PROVE  StaleSound(r, t, ApplyCancel(r, t, authoritative))
<1> DEFINE s == ApplyCancel(r, t, authoritative)
<1>1. r.version = 0
  BY DEF CancelAccepted, StaleShape, Unused
<1>2. CASE r.state # "RESERVED" /\ ~authoritative
  <2> DEFINE x == [r EXCEPT !.state = "UNRESOLVED"]
  <2>1. s = [res |-> x, ten |-> t]
    BY <1>2 DEF ApplyCancel
  <2>2. x \in StaleRecord
    BY DEF StaleRecord, ReservationStates
  <2>3. /\ x.residual = r.residual /\ x.guard = r.guard /\ x.carried = r.carried
        /\ x.enforcement = r.enforcement /\ x.settledEffect = r.settledEffect
        /\ x.carryEffect = r.carryEffect /\ x.version = r.version
        /\ x.finalized = r.finalized /\ x.provisional = r.provisional
        /\ x.reserved = r.reserved /\ x.origin = r.origin /\ x.state # Absent
    BY DEF StaleRecord, Absent
  <2> HIDE DEF x
  <2>4. StaleShape(x, t.window)
    BY <1>1, <2>3 DEF StaleShape
  <2>5. Hold(x) = Hold(r) /\ Spend(x, t.window) = Spend(r, t.window)
    BY <2>3 DEF Hold, Spend
  <2>6. MovesWith(r, t, [res |-> x, ten |-> t])
    BY <2>3, <2>5, StaleAmounts DEF MovesWith, RawTenant
  <2> QED BY <2>1, <2>2, <2>4, <2>6 DEF StaleSound
<1>3. CASE ~(r.state # "RESERVED" /\ ~authoritative)
  <2> DEFINE st == IF r.state = "RESERVED" THEN "CANCELED_UNBILLED"
                   ELSE "FAILED_UNBILLED"
             x == [r EXCEPT !.outbox = "CANCELED", !.state = st,
                            !.residual = 0, !.guard = 0]
             y == [t EXCEPT !.reserved = @ - Hold(r)]
  <2>1. s = [res |-> x, ten |-> y]
    BY <1>3 DEF ApplyCancel, Release, Hold, StaleRecord
  <2>2. st \in ReservationStates \cup {Absent} /\ st # Absent
    BY DEF ReservationStates, Absent
  <2> HIDE DEF st
  <2>3. x \in StaleRecord
    <3>1. "CANCELED" \in OutboxStates /\ 0 \in Nat /\ 0 \in Int
      BY DEF OutboxStates
    <3> QED BY <2>2, <3>1, Zenon DEF StaleRecord
  <2>4. y \in RawTenant
    <3>1. t.reserved - Hold(r) \in Int
      BY StaleAmounts DEF RawTenant
    <3> QED BY <3>1, Zenon DEF RawTenant
  <2>5. /\ x.residual = 0 /\ x.guard = 0 /\ x.carried = r.carried
        /\ x.enforcement = r.enforcement /\ x.settledEffect = r.settledEffect
        /\ x.carryEffect = r.carryEffect /\ x.version = r.version
        /\ x.finalized = r.finalized /\ x.provisional = r.provisional
        /\ x.reserved = r.reserved /\ x.origin = r.origin /\ x.state # Absent
    BY <2>2 DEF StaleRecord
  <2>6. /\ y.reserved = t.reserved - Hold(r) /\ y.settled = t.settled
        /\ y.carried = t.carried /\ y.window = t.window
    BY DEF RawTenant
  <2> HIDE DEF x, y
  <2>7. Hold(x) = 0 /\ Spend(x, t.window) = Spend(r, t.window)
    BY <2>5 DEF Hold, Spend
  <2>8. MovesWith(r, t, [res |-> x, ten |-> y])
    BY <2>5, <2>6, <2>7, StaleAmounts DEF MovesWith, RawTenant
  <2>9. StaleShape(x, t.window)
    BY <2>5, <1>1 DEF StaleShape
  <2> QED BY <2>1, <2>3, <2>4, <2>8, <2>9 DEF StaleSound
<1> QED BY <1>2, <1>3

\* A correction after finality of a copy moves debt and credit alone.
LEMMA StaleCorrectFinal ==
  ASSUME NEW r \in StaleRecord, NEW t \in RawTenant,
         StaleShape(r, t.window), NEW u \in Settlements, r.finalized
  PROVE  StaleSound(r, t, CorrectFinal(r, t, u))
<1> DEFINE effect == IF u.actual > r.provisional /\ u.actual > r.base
                     THEN IF r.carried THEN u.actual ELSE u.actual - r.base
                     ELSE r.carryEffect
           credit == NonNeg(r.base - u.actual)
           x == [r EXCEPT !.version = u.version, !.provisional = u.actual,
                          !.carryEffect = effect, !.credit = credit]
           y == [t EXCEPT !.carried = @ + (effect - r.carryEffect),
                          !.credit = @ + (credit - r.credit)]
<1>1. CorrectFinal(r, t, u) = [res |-> x, ten |-> y]
  BY DEF CorrectFinal
<1>2. u.actual \in Nat /\ u.version \in 0 .. MaxVersion /\ u.version # 0
  BY SettlementFields
<1>3. effect \in Nat /\ credit \in Nat
  BY <1>2 DEF NonNeg, StaleRecord
<1> HIDE DEF effect, credit
<1>4. x \in StaleRecord
  BY <1>2, <1>3, Zenon DEF StaleRecord
<1>5. y \in RawTenant
  <2>1. /\ t.carried + (effect - r.carryEffect) \in Int
        /\ t.credit + (credit - r.credit) \in Int
    BY <1>3 DEF StaleRecord, RawTenant
  <2> QED BY <2>1, Zenon DEF RawTenant
<1>6. /\ x.residual = r.residual /\ x.guard = r.guard /\ x.carried = r.carried
      /\ x.enforcement = r.enforcement /\ x.settledEffect = r.settledEffect
      /\ x.carryEffect = effect /\ x.version # 0 /\ x.finalized
      /\ x.state = r.state
  BY <1>2 DEF StaleRecord
<1>7. /\ y.reserved = t.reserved /\ y.settled = t.settled
      /\ y.carried = t.carried + (effect - r.carryEffect)
      /\ y.window = t.window
  BY DEF RawTenant
<1> HIDE DEF x, y
<1>8. r.state \notin Unused
  BY DEF StaleShape
<1>9. StaleShape(x, t.window)
  BY <1>6, <1>8 DEF StaleShape, Unused
<1>10. Hold(x) = Hold(r) /\ Spend(x, t.window) = Spend(r, t.window)
  BY <1>6 DEF Hold, Spend
<1>11. MovesWith(r, t, [res |-> x, ten |-> y])
  BY <1>6, <1>7, <1>10, StaleAmounts DEF MovesWith, RawTenant
<1> QED BY <1>1, <1>4, <1>5, <1>9, <1>11 DEF StaleSound

\* Usage recorded on a copy, before its state is set.
StaleRecorded(r, t, s) ==
    /\ s.res \in StaleRecord
    /\ s.ten \in RawTenant
    /\ s.res.version # 0 /\ ~s.res.finalized
    /\ s.res.enforcement <= t.window
    /\ IF s.res.carried
       THEN s.res.residual = NonNeg(s.res.reserved - s.res.carryEffect)
       ELSE s.res.enforcement = t.window =>
               s.res.settledEffect = s.res.provisional
    /\ MovesWith(r, t, s)

\* Marking the attempt of a copy delivered moves no amount.
LEMMA StaleDelivered ==
  ASSUME NEW r \in StaleRecord, NEW u \in Settlements
  PROVE  LET q == Delivered(r, u)
         IN  /\ q \in StaleRecord
             /\ q.residual = r.residual /\ q.guard = r.guard
             /\ q.carryEffect = r.carryEffect /\ q.credit = r.credit
             /\ q.carried = r.carried /\ q.enforcement = r.enforcement
             /\ q.finalized = r.finalized /\ q.provisional = r.provisional
             /\ q.reserved = r.reserved /\ q.settledEffect = r.settledEffect
<1>1. u.actual \in Nat
  BY SettlementFields
<1> DEFINE b == IF r.version = 0 THEN u.actual ELSE r.base
<1>2. b \in Nat
  BY <1>1 DEF StaleRecord
<1>3. Delivered(r, u) = [r EXCEPT !.outbox = "DELIVERED", !.base = b]
  BY DEF Delivered, StaleRecord
<1> HIDE DEF b
<1> QED BY <1>2, <1>3, ZenonT(60) DEF StaleRecord, OutboxStates

\* First usage of an unresolved or late copy is carried debt.
LEMMA StaleFirstLate ==
  ASSUME NEW r \in StaleRecord, NEW t \in RawTenant,
         StaleShape(r, t.window), NEW u \in Settlements, ~r.finalized,
         r.version = 0
  PROVE  StaleRecorded(r, t, Reported(UsageFirstLate(Delivered(r, u), t, u), u))
<1> DEFINE q == Delivered(r, u)
           hold == NonNeg(r.reserved - u.actual)
           x == [q EXCEPT !.residual = hold, !.carried = TRUE,
                          !.carryEffect = u.actual, !.enforcement = t.window,
                          !.provisional = u.actual, !.version = u.version]
           y == [t EXCEPT !.carried = @ + u.actual,
                          !.reserved = @ + (hold - r.residual)]
<1>1. /\ q \in StaleRecord /\ q.residual = r.residual /\ q.guard = r.guard
      /\ q.reserved = r.reserved /\ q.finalized = r.finalized
  BY StaleDelivered
<1> HIDE DEF q
<1>2. Reported(UsageFirstLate(q, t, u), u) = [res |-> x, ten |-> y]
  BY <1>1 DEF UsageFirstLate, Reported
<1>3. u.actual \in Nat /\ u.version \in 0 .. MaxVersion /\ u.version # 0
  BY SettlementFields
<1>4. hold \in Nat
  BY <1>3 DEF NonNeg, StaleRecord
<1> HIDE DEF hold
<1>5. x \in StaleRecord
  BY <1>1, <1>3, <1>4, Zenon DEF StaleRecord, RawTenant
<1>6. y \in RawTenant
  <2>1. t.carried + u.actual \in Int /\ t.reserved + (hold - r.residual) \in Int
    BY <1>3, <1>4 DEF StaleRecord, RawTenant
  <2> QED BY <2>1, Zenon DEF RawTenant
<1>7. /\ x.version = u.version /\ x.carried /\ x.enforcement = t.window
      /\ ~x.finalized /\ x.guard = r.guard /\ x.carryEffect = u.actual
      /\ x.residual = hold /\ x.reserved = r.reserved
  BY <1>1 DEF StaleRecord
<1>8. /\ y.carried = t.carried + u.actual /\ y.settled = t.settled
      /\ y.reserved = t.reserved + (hold - r.residual) /\ y.window = t.window
  BY DEF RawTenant
<1> HIDE DEF x, y
<1>9. r.carryEffect = 0 /\ r.settledEffect = 0
  BY DEF StaleShape
<1>10. MovesWith(r, t, [res |-> x, ten |-> y])
  BY <1>3, <1>4, <1>7, <1>8, <1>9 DEF MovesWith, Hold, Spend, StaleRecord,
     RawTenant
<1>11. t.window <= t.window
  BY DEF RawTenant
<1> QED BY <1>2, <1>3, <1>5, <1>6, <1>7, <1>10, <1>11 DEF StaleRecorded, q, hold

\* Usage of a copy in its own window is settled spend.
LEMMA StaleOnTime ==
  ASSUME NEW r \in StaleRecord, NEW t \in RawTenant,
         StaleShape(r, t.window), NEW u \in Settlements, ~r.finalized,
         ~r.carried, r.enforcement = t.window
  PROVE  StaleRecorded(r, t, Reported(UsageOnTime(Delivered(r, u), t, u), u))
<1> DEFINE q == Delivered(r, u)
           hold == NonNeg(r.reserved - u.actual)
           x == [q EXCEPT !.residual = hold, !.settledEffect = u.actual,
                          !.provisional = u.actual, !.version = u.version]
           y == [t EXCEPT !.settled = @ + (u.actual - r.provisional),
                          !.reserved = @ + (hold - r.residual)]
<1>1. /\ q \in StaleRecord /\ q.residual = r.residual /\ q.guard = r.guard
      /\ q.reserved = r.reserved /\ q.finalized = r.finalized
      /\ q.carried = r.carried /\ q.enforcement = r.enforcement
      /\ q.carryEffect = r.carryEffect /\ q.provisional = r.provisional
  BY StaleDelivered
<1> HIDE DEF q
<1>2. Reported(UsageOnTime(q, t, u), u) = [res |-> x, ten |-> y]
  BY <1>1 DEF UsageOnTime, Reported
<1>3. u.actual \in Nat /\ u.version \in 0 .. MaxVersion /\ u.version # 0
  BY SettlementFields
<1>4. hold \in Nat
  BY <1>3 DEF NonNeg, StaleRecord
<1> HIDE DEF hold
<1>5. x \in StaleRecord
  BY <1>1, <1>3, <1>4, Zenon DEF StaleRecord
<1>6. y \in RawTenant
  <2>1. /\ t.settled + (u.actual - r.provisional) \in Int
        /\ t.reserved + (hold - r.residual) \in Int
    BY <1>3, <1>4 DEF StaleRecord, RawTenant
  <2> QED BY <2>1, Zenon DEF RawTenant
<1>7. /\ x.version = u.version /\ ~x.carried /\ x.enforcement = t.window
      /\ ~x.finalized /\ x.guard = r.guard /\ x.carryEffect = r.carryEffect
      /\ x.provisional = u.actual /\ x.settledEffect = u.actual
      /\ x.residual = hold
  BY <1>1 DEF StaleRecord
<1>8. /\ y.carried = t.carried /\ y.window = t.window
      /\ y.settled = t.settled + (u.actual - r.provisional)
      /\ y.reserved = t.reserved + (hold - r.residual)
  BY DEF RawTenant
<1> HIDE DEF x, y
<1>9. r.settledEffect = r.provisional
  BY DEF StaleShape
<1>10. MovesWith(r, t, [res |-> x, ten |-> y])
  BY <1>3, <1>4, <1>7, <1>8, <1>9 DEF MovesWith, Hold, Spend, StaleRecord,
     RawTenant
<1>11. t.window <= t.window
  BY DEF RawTenant
<1> QED BY <1>2, <1>3, <1>5, <1>6, <1>7, <1>10, <1>11 DEF StaleRecorded, q

\* Usage of a copy whose window has closed moves hold and guard together.
LEMMA StaleRolled ==
  ASSUME NEW r \in StaleRecord, NEW t \in RawTenant,
         StaleShape(r, t.window), NEW u \in Settlements, ~r.finalized,
         ~r.carried, r.enforcement # t.window
  PROVE  StaleRecorded(r, t, Reported(UsageRolled(Delivered(r, u), t, u), u))
<1> DEFINE q == Delivered(r, u)
           hold == NonNeg(r.reserved - u.actual)
           credit == NonNeg(q.base - u.actual)
           delta == u.actual - r.provisional
           x == [q EXCEPT !.residual = hold, !.guard = @ + delta,
                          !.credit = credit,
                          !.provisional = u.actual, !.version = u.version]
           y == [t EXCEPT !.reserved = @ + ((hold - r.residual) + delta),
                          !.credit = @ + (credit - r.credit)]
<1>1. /\ q \in StaleRecord /\ q.residual = r.residual /\ q.guard = r.guard
      /\ q.reserved = r.reserved /\ q.finalized = r.finalized
      /\ q.carried = r.carried /\ q.enforcement = r.enforcement
      /\ q.carryEffect = r.carryEffect /\ q.provisional = r.provisional
      /\ q.settledEffect = r.settledEffect /\ q.credit = r.credit
  BY StaleDelivered
<1> HIDE DEF q
<1>2. Reported(UsageRolled(q, t, u), u) = [res |-> x, ten |-> y]
  BY <1>1 DEF UsageRolled, Reported
<1>3. u.actual \in Nat /\ u.version \in 0 .. MaxVersion /\ u.version # 0
  BY SettlementFields
<1>4. /\ hold \in Nat /\ credit \in Nat /\ delta \in Int
      /\ q.guard + delta \in Int
  BY <1>1, <1>3 DEF NonNeg, StaleRecord
<1> HIDE DEF hold, credit, delta
<1>5. x \in StaleRecord
  BY <1>1, <1>3, <1>4, Zenon DEF StaleRecord
<1>6. y \in RawTenant
  <2>1. /\ t.reserved + ((hold - r.residual) + delta) \in Int
        /\ t.credit + (credit - r.credit) \in Int
    BY <1>4 DEF StaleRecord, RawTenant
  <2> QED BY <2>1, Zenon DEF RawTenant
<1>7. /\ x.version = u.version /\ ~x.carried
      /\ x.enforcement = r.enforcement /\ ~x.finalized
      /\ x.guard = r.guard + delta /\ x.carryEffect = r.carryEffect
      /\ x.settledEffect = r.settledEffect /\ x.residual = hold
  BY <1>1 DEF StaleRecord
<1>8. /\ y.carried = t.carried /\ y.settled = t.settled
      /\ y.reserved = t.reserved + ((hold - r.residual) + delta)
      /\ y.window = t.window
  BY DEF RawTenant
<1> HIDE DEF x, y
<1>9. MovesWith(r, t, [res |-> x, ten |-> y])
  BY <1>3, <1>4, <1>7, <1>8 DEF MovesWith, Hold, Spend, StaleRecord, RawTenant
<1>10. r.enforcement <= t.window
  BY DEF StaleShape
<1> QED BY <1>2, <1>3, <1>5, <1>6, <1>7, <1>9, <1>10 DEF StaleRecorded, q

\* A later version of carried usage of a copy moves debt and hold.
LEMMA StaleCarried ==
  ASSUME NEW r \in StaleRecord, NEW t \in RawTenant,
         StaleShape(r, t.window), NEW u \in Settlements, ~r.finalized,
         r.carried
  PROVE  StaleRecorded(r, t, Reported(UsageCarried(Delivered(r, u), t, u), u))
<1> DEFINE q == Delivered(r, u)
           hold == NonNeg(r.reserved - u.actual)
           newHold == IF u.actual < r.carryEffect THEN r.residual ELSE hold
           newEffect == IF u.actual > r.carryEffect THEN u.actual
                        ELSE r.carryEffect
           newCredit == IF u.actual = r.carryEffect THEN r.credit
                        ELSE NonNeg(q.base - u.actual)
           x == [q EXCEPT !.residual = newHold, !.carryEffect = newEffect,
                          !.credit = newCredit,
                          !.provisional = u.actual, !.version = u.version]
           newReserved == IF u.actual > r.carryEffect
                          THEN t.reserved + (newHold - r.residual)
                          ELSE t.reserved
           y == [t EXCEPT !.reserved = newReserved,
                          !.carried = @ + (newEffect - r.carryEffect),
                          !.credit = @ + (newCredit - r.credit)]
<1>1. /\ q \in StaleRecord /\ q.residual = r.residual /\ q.guard = r.guard
      /\ q.reserved = r.reserved /\ q.finalized = r.finalized
      /\ q.carried = r.carried /\ q.enforcement = r.enforcement
      /\ q.carryEffect = r.carryEffect /\ q.credit = r.credit
      /\ q.settledEffect = r.settledEffect
  BY StaleDelivered
<1> HIDE DEF q
<1>2. u.actual \in Nat /\ u.version \in 0 .. MaxVersion /\ u.version # 0
  BY SettlementFields
<1>3. r.residual = NonNeg(r.reserved - r.carryEffect)
  BY DEF StaleShape
<1>4. newHold \in Nat /\ newCredit \in Nat /\ newEffect \in Nat
  BY <1>1, <1>2 DEF NonNeg, StaleRecord
<1>5. Reported(UsageCarried(q, t, u), u) = [res |-> x, ten |-> y]
  BY <1>1 DEF UsageCarried, Reported
<1>6. /\ y \in RawTenant /\ y.settled = t.settled /\ y.window = t.window
      /\ y.reserved = t.reserved + (newHold - r.residual)
      /\ y.carried = t.carried + (newEffect - r.carryEffect)
  <2>1. /\ newReserved = t.reserved + (newHold - r.residual)
        /\ newReserved \in Int
    BY <1>2, <1>3, <1>4 DEF StaleRecord, RawTenant
  <2>2. /\ t.carried + (newEffect - r.carryEffect) \in Int
        /\ t.credit + (newCredit - r.credit) \in Int
    BY <1>4 DEF StaleRecord, RawTenant
  <2> HIDE DEF newHold, newEffect, newCredit, newReserved
  <2>3. y \in RawTenant
    BY <2>1, <2>2, Zenon DEF RawTenant
  <2> QED BY <2>1, <2>3 DEF RawTenant
<1>7. newHold = NonNeg(r.reserved - newEffect)
  BY <1>2, <1>3 DEF StaleRecord
<1> HIDE DEF newHold, newCredit, newEffect, y
<1>8. x \in StaleRecord
  BY <1>1, <1>2, <1>4, Zenon DEF StaleRecord
<1>9. /\ x.version = u.version /\ x.carried /\ x.enforcement = r.enforcement
      /\ ~x.finalized /\ x.guard = r.guard /\ x.carryEffect = newEffect
      /\ x.settledEffect = r.settledEffect /\ x.residual = newHold
      /\ x.reserved = r.reserved
  BY <1>1 DEF StaleRecord
<1> HIDE DEF x
<1>10. MovesWith(r, t, [res |-> x, ten |-> y])
  BY <1>4, <1>6, <1>9 DEF MovesWith, Hold, Spend, StaleRecord, RawTenant
<1>11. r.enforcement <= t.window
  BY DEF StaleShape
<1> QED BY <1>2, <1>5, <1>6, <1>7, <1>8, <1>9, <1>10, <1>11
        DEF StaleRecorded, q

\* Whichever branch of applySettlement records usage on a copy, the tenant's
\* columns move with it.
LEMMA StaleRecordUsage ==
  ASSUME NEW r \in StaleRecord, NEW t \in RawTenant,
         StaleShape(r, t.window), NEW u \in Settlements, ~r.finalized
  PROVE  StaleRecorded(r, t, RecordUsage(r, t, u))
<1> DEFINE q == Delivered(r, u)
           late == r.state = "UNRESOLVED" \/ t.window # r.origin
<1>1. q.carried = r.carried /\ q.enforcement = r.enforcement
  BY StaleDelivered
<1>2. CASE r.version = 0 /\ late
  <2>1. RecordUsage(r, t, u) = Reported(UsageFirstLate(q, t, u), u)
    BY <1>2 DEF RecordUsage, Reported, Delivered
  <2> QED BY <1>2, <2>1, StaleFirstLate
<1>3. CASE ~(r.version = 0 /\ late) /\ r.carried
  <2>1. RecordUsage(r, t, u) = Reported(UsageCarried(q, t, u), u)
    BY <1>1, <1>3 DEF RecordUsage, Reported, Delivered
  <2>2. r.version # 0
    BY <1>3 DEF StaleShape
  <2> QED BY <1>3, <2>1, <2>2, StaleCarried
<1>4. CASE ~(r.version = 0 /\ late) /\ ~r.carried /\ r.enforcement # t.window
  <2>1. RecordUsage(r, t, u) = Reported(UsageRolled(q, t, u), u)
    BY <1>1, <1>4 DEF RecordUsage, Reported, Delivered
  <2> QED BY <1>4, <2>1, StaleRolled
<1>5. CASE ~(r.version = 0 /\ late) /\ ~r.carried /\ r.enforcement = t.window
  <2>1. RecordUsage(r, t, u) = Reported(UsageOnTime(q, t, u), u)
    BY <1>1, <1>5 DEF RecordUsage, Reported, Delivered
  <2> QED BY <1>5, <2>1, StaleOnTime
<1> QED BY <1>2, <1>3, <1>4, <1>5

\* Finality, or a provisional state, completes usage recorded on a copy.
LEMMA StaleFinish ==
  ASSUME NEW r \in StaleRecord, NEW t \in RawTenant,
         NEW u \in Settlements, NEW s, StaleRecorded(r, t, s)
  PROVE  StaleSound(r, t, FinishSettlement(s.res, s.ten, u))
<1> DEFINE x == s.res
           y == s.ten
           z == FinishSettlement(x, y, u)
<1>1. /\ x \in StaleRecord /\ y \in RawTenant
      /\ x.version # 0 /\ ~x.finalized /\ x.enforcement <= t.window
      /\ IF x.carried THEN x.residual = NonNeg(x.reserved - x.carryEffect)
         ELSE x.enforcement = t.window => x.settledEffect = x.provisional
  BY DEF StaleRecorded
<1>2. /\ y.reserved = t.reserved + (Hold(x) - Hold(r))
      /\ y.settled = t.settled + (Spend(x, t.window) - Spend(r, t.window))
      /\ y.carried = t.carried + (x.carryEffect - r.carryEffect)
      /\ y.window = t.window
  BY DEF StaleRecorded, MovesWith
<1> HIDE DEF x, y
<1>3. CASE u.final
  <2> DEFINE st == IF x.carried THEN "LATE_FINALIZED" ELSE "FINALIZED"
             p == [x EXCEPT !.finalized = TRUE, !.state = st,
                            !.residual = 0, !.guard = 0]
             v == [y EXCEPT !.reserved = @ - Hold(x)]
  <2>1. z = [res |-> p, ten |-> v]
    BY <1>1, <1>3 DEF FinishSettlement, Release, Hold, StaleRecord
  <2>2. st \in ReservationStates \cup {Absent} /\ st \notin Unused /\ st # Absent
    BY DEF ReservationStates, Unused, Absent
  <2> HIDE DEF st
  <2>3. p \in StaleRecord
    <3>1. 0 \in Nat /\ 0 \in Int
      OBVIOUS
    <3> QED BY <1>1, <2>2, <3>1, Zenon DEF StaleRecord
  <2>4. v \in RawTenant
    <3>1. y.reserved - Hold(x) \in Int
      BY <1>1 DEF RawTenant, Hold, StaleRecord
    <3> QED BY <1>1, <3>1, Zenon DEF RawTenant
  <2>5. /\ p.state = st /\ p.finalized /\ p.residual = 0 /\ p.guard = 0
        /\ p.version # 0 /\ p.enforcement = x.enforcement
        /\ p.carryEffect = x.carryEffect /\ p.carried = x.carried
        /\ p.settledEffect = x.settledEffect
    BY <1>1 DEF StaleRecord
  <2>6. /\ v.reserved = y.reserved - Hold(x) /\ v.settled = y.settled
        /\ v.carried = y.carried /\ v.window = y.window
    BY <1>1 DEF RawTenant
  <2> HIDE DEF p, v
  <2>7. StaleShape(p, t.window)
    BY <1>1, <2>2, <2>5 DEF StaleShape
  <2>8. Hold(x) \in Int /\ Hold(r) \in Int
    BY <1>1, StaleAmounts
  <2>9. Hold(p) = 0 /\ Spend(p, t.window) = Spend(x, t.window)
    BY <2>5 DEF Hold, Spend
  <2>10. MovesWith(r, t, [res |-> p, ten |-> v])
    BY <1>2, <2>5, <2>6, <2>8, <2>9 DEF MovesWith, RawTenant
  <2> QED BY <2>1, <2>3, <2>4, <2>7, <2>10 DEF StaleSound, x, y
<1>4. CASE ~u.final
  <2> DEFINE st == ProvisionalState(x, y, u)
             p == [x EXCEPT !.state = st]
  <2>1. z = [res |-> p, ten |-> y]
    BY <1>4 DEF FinishSettlement
  <2>2. st \in ReservationStates \cup {Absent} /\ st \notin Unused /\ st # Absent
    BY DEF ProvisionalState, ReservationStates, Unused, Absent
  <2> HIDE DEF st
  <2>3. p \in StaleRecord
    BY <1>1, <2>2, Zenon DEF StaleRecord
  <2>4. /\ p.state = st /\ ~p.finalized /\ p.residual = x.residual
        /\ p.guard = x.guard /\ p.version # 0
        /\ p.enforcement = x.enforcement /\ p.carryEffect = x.carryEffect
        /\ p.carried = x.carried /\ p.settledEffect = x.settledEffect
        /\ p.reserved = x.reserved /\ p.provisional = x.provisional
    BY <1>1 DEF StaleRecord
  <2> HIDE DEF p
  <2>5. Hold(p) = Hold(x) /\ Spend(p, t.window) = Spend(x, t.window)
    BY <2>4 DEF Hold, Spend
  <2>6. StaleShape(p, t.window)
    BY <1>1, <2>2, <2>4 DEF StaleShape
  <2>7. MovesWith(r, t, [res |-> p, ten |-> y])
    BY <1>2, <2>4, <2>5 DEF MovesWith
  <2> QED BY <1>1, <2>1, <2>3, <2>6, <2>7 DEF StaleSound, x, y
<1> QED BY <1>3, <1>4

\* applySettlement of a copy, in all of its branches.
LEMMA StaleSettlement ==
  ASSUME NEW r \in StaleRecord, NEW t \in RawTenant,
         StaleShape(r, t.window), NEW u \in Settlements, SettleAccepted(r, u)
  PROVE  StaleSound(r, t, ApplySettlement(r, t, u))
<1>1. CASE r.finalized
  BY <1>1, StaleCorrectFinal DEF ApplySettlement
<1>2. CASE ~r.finalized /\ u.version # r.version
  <2>1. ApplySettlement(r, t, u) =
          FinishSettlement(RecordUsage(r, t, u).res, RecordUsage(r, t, u).ten, u)
    BY <1>2 DEF ApplySettlement
  <2> QED BY <1>2, <2>1, StaleRecordUsage, StaleFinish
<1>3. CASE ~r.finalized /\ u.version = r.version
  <2> DEFINE s == [res |-> r, ten |-> t]
  <2>1. ApplySettlement(r, t, u) = FinishSettlement(s.res, s.ten, u)
    BY <1>3 DEF ApplySettlement
  <2>2. StaleRecorded(r, t, s)
    <3>1. u.version # 0
      BY SettlementFields
    <3>2. MovesWith(r, t, s)
      BY StaleAmounts DEF MovesWith, RawTenant
    <3> QED BY <1>3, <3>1, <3>2 DEF StaleRecorded, StaleShape
  <2> QED BY <2>1, <2>2, StaleFinish
<1> QED BY <1>1, <1>2, <1>3

-----------------------------------------------------------------------------
(* The in-memory engine: its books *)

\* The tenant's columns: reserved may exceed the holds, the others are exact.
MemoryColumns(R, t, d, o) ==
    /\ t.reserved >= SumOver(Holds(R), RequestsOf(o))
    /\ t.settled = SumOver(Spends(R, t.window), RequestsOf(o))
    /\ t.carried = SumOver(Debts(R), RequestsOf(o)) - d

MemoryAccount(R, t, d, o) ==
    /\ \A q \in RequestsOf(o) :
          StaleShape(R[q], t.window) /\ (R[q].state # Absent => t.window # 0)
    /\ MemoryColumns(R, t, d, o)

MemoryGood(N, R, T, P) ==
    /\ N \in Windows
    /\ R \in [Requests -> StaleRecord]
    /\ T \in [Tenants -> RawTenant]
    /\ P \in [Tenants -> Nat]
    /\ \A o \in Tenants : MemoryAccount(R, T[o], P[o], o)

\* The inductive invariant of the in-memory engine.
MemoryInv == /\ MemoryGood(now, res, tenant, paid)
             /\ requests \in [Tenants -> SUBSET Requests]

\* A tenant's columns depend on that tenant's reservations only.
LEMMA MemoryLocal ==
  ASSUME NEW R, NEW R2, NEW o, \A q \in RequestsOf(o) : R2[q] = R[q],
         NEW t, NEW d, MemoryAccount(R, t, d, o)
  PROVE  MemoryAccount(R2, t, d, o)
<1>1. IsFiniteSet(RequestsOf(o)) /\ RequestsOf(o) \subseteq Requests
  BY RequestsOfFinite DEF RequestsOf
<1>2. SumOver(Holds(R2), RequestsOf(o)) = SumOver(Holds(R), RequestsOf(o))
  <2>1. \A q \in RequestsOf(o) : Holds(R2)[q] = Holds(R)[q]
    BY <1>1 DEF Holds
  <2> QED BY <1>1, <2>1, SumEqual
<1>3. SumOver(Spends(R2, t.window), RequestsOf(o))
      = SumOver(Spends(R, t.window), RequestsOf(o))
  <2>1. \A q \in RequestsOf(o) : Spends(R2, t.window)[q] = Spends(R, t.window)[q]
    BY <1>1 DEF Spends
  <2> QED BY <1>1, <2>1, SumEqual
<1>4. SumOver(Debts(R2), RequestsOf(o)) = SumOver(Debts(R), RequestsOf(o))
  <2>1. \A q \in RequestsOf(o) : Debts(R2)[q] = Debts(R)[q]
    BY <1>1 DEF Debts
  <2> QED BY <1>1, <2>1, SumEqual
<1> QED BY <1>2, <1>3, <1>4 DEF MemoryAccount, MemoryColumns

\* A step of one tenant keeps the engine good if it keeps that tenant's columns.
LEMMA MemoryTenantStep ==
  ASSUME NEW N, NEW R, NEW T, NEW P, MemoryGood(N, R, T, P),
         NEW o \in Tenants, NEW R2 \in [Requests -> StaleRecord],
         NEW t2 \in RawTenant, NEW d2 \in Nat,
         \A q \in Requests \ RequestsOf(o) : R2[q] = R[q],
         MemoryAccount(R2, t2, d2, o)
  PROVE  MemoryGood(N, R2, [T EXCEPT ![o] = t2], [P EXCEPT ![o] = d2])
<1> DEFINE T2 == [T EXCEPT ![o] = t2]
           P2 == [P EXCEPT ![o] = d2]
<1>1. /\ N \in Windows /\ T \in [Tenants -> RawTenant] /\ P \in [Tenants -> Nat]
      /\ \A p \in Tenants : MemoryAccount(R, T[p], P[p], p)
  BY DEF MemoryGood
<1>2. T2 \in [Tenants -> RawTenant] /\ P2 \in [Tenants -> Nat]
  BY <1>1
<1>3. ASSUME NEW p \in Tenants PROVE MemoryAccount(R2, T2[p], P2[p], p)
  <2>1. CASE p = o
    BY <1>1, <2>1
  <2>2. CASE p # o
    <3>1. T2[p] = T[p] /\ P2[p] = P[p]
      BY <1>1, <2>2
    <3>2. \A q \in RequestsOf(p) : R2[q] = R[q]
      BY <2>2 DEF RequestsOf
    <3>3. MemoryAccount(R, T[p], P[p], p)
      BY <1>1
    <3>4. MemoryAccount(R2, T[p], P[p], p)
      BY <3>2, <3>3, MemoryLocal
    <3> QED BY <3>1, <3>4
  <2> QED BY <2>1, <2>2
<1> HIDE DEF T2, P2
<1>4. MemoryGood(N, R2, T2, P2)
  BY <1>1, <1>2, <1>3 DEF MemoryGood
<1> QED BY <1>4 DEF T2, P2

\* Reservation r of tenant o is overwritten by a sound transition of a copy c
\* that may hold less than what is stored: only the reserved column can then
\* exceed what it should be.
LEMMA OverwriteStep ==
  ASSUME NEW R \in [Requests -> StaleRecord], NEW o \in Tenants,
         NEW r \in RequestsOf(o), NEW t \in RawTenant, NEW d \in Nat,
         MemoryAccount(R, t, d, o), t.window # 0,
         NEW c \in StaleRecord, Hold(c) <= Hold(R[r]),
         Spend(c, t.window) = Spend(R[r], t.window),
         c.carryEffect = R[r].carryEffect,
         NEW s, StaleSound(c, t, s), NEW n
  PROVE  MemoryAccount([R EXCEPT ![r] = s.res], [s.ten EXCEPT !.active = n], d, o)
<1> DEFINE x == s.res
           y == [s.ten EXCEPT !.active = n]
           R2 == [R EXCEPT ![r] = x]
           S == RequestsOf(o)
<1>1. IsFiniteSet(S) /\ S \subseteq Requests /\ r \in Requests /\ r \in S
  BY RequestsOfFinite DEF RequestsOf
<1>2. /\ x \in StaleRecord /\ s.ten \in RawTenant /\ StaleShape(x, t.window)
      /\ s.ten.reserved = t.reserved + (Hold(x) - Hold(c))
      /\ s.ten.settled = t.settled + (Spend(x, t.window) - Spend(c, t.window))
      /\ s.ten.carried = t.carried + (x.carryEffect - c.carryEffect)
      /\ s.ten.window = t.window
  BY DEF StaleSound, MovesWith
<1>3. /\ y.reserved = s.ten.reserved /\ y.settled = s.ten.settled
      /\ y.carried = s.ten.carried /\ y.window = t.window
  BY <1>2 DEF RawTenant
<1>4. R2 \in [Requests -> StaleRecord]
  BY <1>1, <1>2
<1>5. R2[r] = x /\ \A q \in S \ {r} : R2[q] = R[q]
  BY <1>1
<1>6. /\ t.reserved >= SumOver(Holds(R), S)
      /\ t.settled = SumOver(Spends(R, t.window), S)
      /\ t.carried = SumOver(Debts(R), S) - d
      /\ \A q \in S : StaleShape(R[q], t.window)
  BY DEF MemoryAccount, MemoryColumns
<1>7. t.reserved \in Int /\ t.settled \in Int /\ t.carried \in Int
  BY DEF RawTenant
<1> HIDE DEF x, y, R2, S
<1>8. \A q \in S : R[q] \in StaleRecord /\ R2[q] \in StaleRecord
  BY <1>1, <1>4
<1>9. y.reserved >= SumOver(Holds(R2), S)
  <2> DEFINE f == Holds(R)
             g == Holds(R2)
  <2>1. \A q \in S : f[q] \in Int
    BY <1>1, <1>8, StaleAmounts DEF Holds
  <2>2. g[r] = Hold(x) /\ f[r] = Hold(R[r])
    BY <1>1, <1>5 DEF Holds
  <2>3. g[r] \in Int /\ f[r] \in Int /\ Hold(c) \in Int
    BY <1>1, <1>2, <1>8, <2>2, StaleAmounts
  <2>4. \A q \in S \ {r} : g[q] = f[q]
    BY <1>1, <1>5 DEF Holds
  <2> HIDE DEF f, g
  <2>5. SumOver(g, S) = SumOver(f, S) + (g[r] - f[r])
    <3>1. g[r] \in Int
      BY <2>3
    <3> QED BY <1>1, <2>1, <2>4, <3>1, SumPoint
  <2>6. SumOver(f, S) \in Int
    BY <1>1, <2>1, SumInt
  <2>7. t.reserved >= SumOver(f, S)
    BY <1>6 DEF f
  <2>8. y.reserved >= SumOver(g, S)
    BY <1>2, <1>3, <1>7, <2>2, <2>3, <2>5, <2>6, <2>7
  <2> QED BY <2>8 DEF g
<1>10. y.settled = SumOver(Spends(R2, y.window), S)
  <2> DEFINE f == Spends(R, t.window)
             g == Spends(R2, t.window)
  <2>1. \A q \in S : f[q] \in Int
    BY <1>1, <1>8, StaleAmounts DEF Spends
  <2>2. g[r] = Spend(x, t.window) /\ f[r] = Spend(c, t.window)
    BY <1>1, <1>5 DEF Spends
  <2>3. g[r] \in Int /\ f[r] \in Int
    BY <1>1, <1>2, <2>1, <2>2, StaleAmounts
  <2>4. \A q \in S \ {r} : g[q] = f[q]
    BY <1>1, <1>5 DEF Spends
  <2>5. t.settled = SumOver(f, S)
    BY <1>6
  <2> HIDE DEF f, g
  <2>6. SumOver(g, S) = SumOver(f, S) + (g[r] - f[r])
    <3>1. g[r] \in Int
      BY <2>3
    <3> QED BY <1>1, <2>1, <2>4, <3>1, SumPoint
  <2>7. y.settled = SumOver(g, S)
    BY <1>2, <1>3, <1>7, <2>2, <2>3, <2>5, <2>6
  <2> QED BY <1>3, <2>7 DEF g
<1>11. y.carried = SumOver(Debts(R2), S) - d
  <2> DEFINE f == Debts(R)
             g == Debts(R2)
  <2>1. \A q \in S : f[q] \in Int
    BY <1>1, <1>8, StaleAmounts DEF Debts
  <2>2. g[r] = x.carryEffect /\ f[r] = c.carryEffect
    BY <1>1, <1>5 DEF Debts
  <2>3. g[r] \in Int /\ f[r] \in Int
    BY <1>1, <1>2, <2>1, <2>2, StaleAmounts
  <2>4. \A q \in S \ {r} : g[q] = f[q]
    BY <1>1, <1>5 DEF Debts
  <2>5. t.carried = SumOver(f, S) - d
    BY <1>6
  <2> HIDE DEF f, g
  <2>6. SumOver(g, S) = SumOver(f, S) + (g[r] - f[r])
    <3>1. g[r] \in Int
      BY <2>3
    <3> QED BY <1>1, <2>1, <2>4, <3>1, SumPoint
  <2>7. SumOver(f, S) \in Int
    BY <1>1, <2>1, SumInt
  <2>8. y.carried = SumOver(g, S) - d
    BY <1>2, <1>3, <1>7, <2>2, <2>3, <2>5, <2>6, <2>7
  <2> QED BY <2>8 DEF g
<1>12. \A q \in S : StaleShape(R2[q], y.window)
                    /\ (R2[q].state # Absent => y.window # 0)
  BY <1>2, <1>3, <1>5, <1>6
<1> QED BY <1>9, <1>10, <1>11, <1>12
        DEF MemoryAccount, MemoryColumns, S, x, y, R2

\* A rollover from window v to w of one stored reservation.
LEMMA StaleRollover ==
  ASSUME NEW r \in StaleRecord, NEW v \in Nat, NEW w \in Nat, v < w,
         StaleShape(r, v)
  PROVE  LET x == [r EXCEPT !.guard = @ + r.provisional]
         IN  /\ StaleShape(r, w) /\ Spend(r, w) = 0
             /\ r.state # Absent =>
                  /\ x \in StaleRecord /\ StaleShape(x, w) /\ Spend(x, w) = 0
                  /\ Hold(x) = Hold(r) + r.provisional
                  /\ x.carryEffect = r.carryEffect /\ x.state = r.state
<1> DEFINE x == [r EXCEPT !.guard = @ + r.provisional]
<1>1. r.enforcement \in Nat /\ r.enforcement <= v /\ r.enforcement # w
      /\ r.enforcement <= w
  BY BoundsType DEF StaleShape, StaleRecord
<1>2. StaleShape(r, w) /\ Spend(r, w) = 0
  BY <1>1 DEF StaleShape, Spend
<1>3. r.guard + r.provisional \in Int
  BY DEF StaleRecord
<1>4. x \in StaleRecord
  BY <1>3, Zenon DEF StaleRecord
<1>5. /\ x.residual = r.residual /\ x.guard = r.guard + r.provisional
      /\ x.carried = r.carried /\ x.enforcement = r.enforcement
      /\ x.settledEffect = r.settledEffect /\ x.carryEffect = r.carryEffect
      /\ x.version = r.version /\ x.finalized = r.finalized
      /\ x.provisional = r.provisional /\ x.reserved = r.reserved
      /\ x.origin = r.origin /\ x.state = r.state
  BY DEF StaleRecord
<1> HIDE DEF x
<1>6. Hold(x) = Hold(r) + r.provisional /\ Spend(x, w) = 0
  BY <1>1, <1>5 DEF Hold, Spend, StaleRecord
<1>7. r.state # Absent => StaleShape(x, w)
  BY <1>2, <1>5 DEF StaleShape
<1> QED BY <1>2, <1>4, <1>5, <1>6, <1>7 DEF x

\* advanceTenantWindow keeps the tenant's columns, and the copy of a reservation
\* read before it differs from what it stores in the guard alone.
LEMMA MemoryAdvance ==
  ASSUME MemoryInv, NEW o \in Tenants, tenant[o].window <= now
  PROVE  /\ AdvancedRes(o) \in [Requests -> StaleRecord]
         /\ \A q \in Requests \ RequestsOf(o) : AdvancedRes(o)[q] = res[q]
         /\ AdvancedTenant(o) \in RawTenant
         /\ AdvancedTenant(o).window = IF tenant[o].window = 0 THEN 0 ELSE now
         /\ MemoryAccount(AdvancedRes(o), AdvancedTenant(o), paid[o], o)
         /\ \A q \in RequestsOf(o) :
               /\ StaleShape(res[q], AdvancedTenant(o).window)
               /\ Hold(res[q]) <= Hold(AdvancedRes(o)[q])
               /\ Spend(res[q], AdvancedTenant(o).window)
                    = Spend(AdvancedRes(o)[q], AdvancedTenant(o).window)
               /\ res[q].carryEffect = AdvancedRes(o)[q].carryEffect
               /\ AdvancedRes(o)[q].state = res[q].state
<1> DEFINE S == RequestsOf(o)
           t == tenant[o]
<1>1. /\ now \in Windows /\ res \in [Requests -> StaleRecord]
      /\ tenant \in [Tenants -> RawTenant] /\ t \in RawTenant
      /\ MemoryAccount(res, t, paid[o], o)
  BY DEF MemoryInv, MemoryGood
<1>2. S \subseteq Requests /\ \A q \in S : res[q] \in StaleRecord
  BY <1>1 DEF RequestsOf
<1>3. CASE t.window \in {0, now}
  <2>1. AdvancedRes(o) = res /\ AdvancedTenant(o) = t
    BY <1>3 DEF AdvancedRes, AdvancedTenant
  <2>2. \A q \in S : StaleShape(res[q], t.window) /\ Hold(res[q]) <= Hold(res[q])
    <3> SUFFICES ASSUME NEW q \in S
                 PROVE  StaleShape(res[q], t.window) /\ Hold(res[q]) <= Hold(res[q])
      OBVIOUS
    <3>1. Hold(res[q]) \in Int
      BY <1>2, StaleAmounts
    <3> QED BY <1>1, <3>1 DEF MemoryAccount
  <2> QED BY <1>1, <1>3, <2>1, <2>2
<1>4. CASE t.window \notin {0, now}
  <2> DEFINE R == RolledRes(o)
             y == RolledTenant(o)
             G == Guarded(o)
             g == [q \in Requests |-> res[q].provisional]
  <2>1. AdvancedRes(o) = R /\ AdvancedTenant(o) = y
    BY <1>4 DEF AdvancedRes, AdvancedTenant
  <2>2. t.window \in Nat /\ now \in Nat /\ t.window < now /\ t.window # 0
    BY <1>1, <1>4, BoundsType DEF Windows, RawTenant
  <2>3. IsFiniteSet(S) /\ S \subseteq Requests /\ G \subseteq S
    BY RequestsOfFinite DEF RequestsOf, Guarded
  <2>4. IsFiniteSet(G)
    BY <2>3, FS_Subset
  <2>5. \A q \in G : g[q] \in Nat
    BY <1>2, <2>3 DEF StaleRecord
  <2>6. ASSUME NEW q \in S
        PROVE  /\ R[q] \in StaleRecord /\ StaleShape(R[q], now)
               /\ StaleShape(res[q], now) /\ Spend(res[q], now) = 0
               /\ Spend(R[q], now) = 0
               /\ Hold(R[q]) = Hold(res[q]) + (IF q \in G THEN g[q] ELSE 0)
               /\ R[q].carryEffect = res[q].carryEffect
               /\ R[q].state = res[q].state
    <3>1. res[q] \in StaleRecord /\ StaleShape(res[q], t.window) /\ q \in Requests
      BY <1>1, <1>2 DEF MemoryAccount
    <3>2. q \in G => res[q].state # Absent
      BY DEF Guarded, Absent
    <3>3. R[q] = IF q \in G THEN [res[q] EXCEPT !.guard = @ + res[q].provisional]
                 ELSE res[q]
      BY <3>1 DEF RolledRes
    <3>4. g[q] = res[q].provisional /\ Hold(res[q]) \in Int
      BY <3>1, StaleAmounts
    <3> HIDE DEF G, R, t, g
    <3>5. /\ StaleShape(res[q], now) /\ Spend(res[q], now) = 0
          /\ q \in G => /\ R[q] \in StaleRecord /\ StaleShape(R[q], now)
                        /\ Spend(R[q], now) = 0
                        /\ Hold(R[q]) = Hold(res[q]) + res[q].provisional
                        /\ R[q].carryEffect = res[q].carryEffect
                        /\ R[q].state = res[q].state
      BY <2>2, <3>1, <3>2, <3>3, StaleRollover
    <3> QED BY <3>1, <3>3, <3>4, <3>5
  <2>7. \A q \in Requests \ S : R[q] = res[q]
    BY <2>3 DEF RolledRes
  <2>8. R \in [Requests -> StaleRecord]
    <3>1. \A q \in Requests : R[q] \in StaleRecord
      BY <1>1, <2>6, <2>7
    <3>2. R = [q \in Requests |-> R[q]]
      BY DEF RolledRes
    <3> HIDE DEF R
    <3> QED BY <3>1, <3>2
  <2>9. SumOver(g, G) \in Nat
    BY <2>4, <2>5, SumNat
  <2>10. /\ y \in RawTenant
         /\ y.reserved = t.reserved + SumOver(g, G) /\ y.settled = 0
         /\ y.carried = t.carried /\ y.window = now
    <3> DEFINE n == t.reserved + SumOver(g, G)
    <3>1. n \in Int /\ 0 \in Int
      BY <1>1, <2>9 DEF RawTenant
    <3>2. y = [t EXCEPT !.reserved = n, !.settled = 0, !.window = now]
      BY DEF RolledTenant
    <3>3. now \in 0 .. MaxWindow
      BY <1>1, BoundsType DEF Windows
    <3>4. y \in RawTenant
      <4> HIDE DEF n, t, y
      <4> QED BY <1>1, <3>1, <3>2, <3>3, Zenon DEF RawTenant
    <3> HIDE DEF y, t
    <3> QED BY <1>1, <3>2, <3>4 DEF RawTenant
  <2> HIDE DEF R, y, G, t, S, g
  <2>11. y.reserved >= SumOver(Holds(R), S)
    <3>1. \A q \in S : Holds(res)[q] \in Int
      BY <1>2, StaleAmounts DEF Holds
    <3>2. \A q \in G : g[q] \in Int
      BY <2>5
    <3>3. \A q \in G : Holds(R)[q] = Holds(res)[q] + g[q]
      BY <2>3, <2>6 DEF Holds
    <3>4. \A q \in S \ G : Holds(R)[q] = Holds(res)[q]
      <4> SUFFICES ASSUME NEW q \in S \ G PROVE Hold(R[q]) = Hold(res[q])
        BY <1>2 DEF Holds
      <4>1. Hold(res[q]) \in Int
        BY <1>2, StaleAmounts
      <4> QED BY <2>6, <4>1
    <3>5. SumOver(Holds(R), S) = SumOver(Holds(res), S) + SumOver(g, G)
      BY <2>3, <3>1, <3>2, <3>3, <3>4, SumRaise
    <3>6. SumOver(Holds(res), S) \in Int
      BY <2>3, <3>1, SumInt
    <3>7. t.reserved >= SumOver(Holds(res), S) /\ t.reserved \in Int
      BY <1>1 DEF MemoryAccount, MemoryColumns, S, RawTenant
    <3> QED BY <2>9, <2>10, <3>5, <3>6, <3>7
  <2>12. y.settled = SumOver(Spends(R, y.window), S)
    <3>1. \A q \in S : Spends(R, now)[q] = 0
      BY <2>3, <2>6 DEF Spends
    <3>2. SumOver(Spends(R, now), S) = 0
      BY <2>3, <3>1, SumZero
    <3> QED BY <2>10, <3>2
  <2>13. SumOver(Debts(R), S) = SumOver(Debts(res), S)
    <3>1. \A q \in S : Debts(R)[q] = Debts(res)[q]
      BY <2>3, <2>6 DEF Debts
    <3> QED BY <2>3, <3>1, SumEqual
  <2>14. MemoryColumns(R, y, paid[o], o)
    BY <1>1, <2>10, <2>11, <2>12, <2>13 DEF MemoryAccount, MemoryColumns, S
  <2>15. MemoryAccount(R, y, paid[o], o)
    BY <2>2, <2>6, <2>10, <2>14 DEF MemoryAccount, S
  <2>16. ASSUME NEW q \in S
         PROVE  /\ StaleShape(res[q], y.window) /\ Hold(res[q]) <= Hold(R[q])
                /\ Spend(res[q], y.window) = Spend(R[q], y.window)
                /\ res[q].carryEffect = R[q].carryEffect
                /\ R[q].state = res[q].state
    <3>1. Hold(res[q]) \in Int
      BY <1>2, StaleAmounts
    <3>2. Hold(res[q]) <= Hold(R[q])
      BY <2>5, <2>6, <3>1
    <3> QED BY <2>6, <2>10, <3>2
  <2> QED BY <2>1, <2>2, <2>7, <2>8, <2>10, <2>15, <2>16 DEF S, t
<1> QED BY <1>3, <1>4

\* Store keeps the engine good when it writes a sound transition of the copy
\* read before the rollover.
LEMMA StoreStep ==
  ASSUME MemoryInv, NEW r \in Requests, tenant[Owner[r]].window <= now,
         res[r].state # Absent, NEW s, NEW closed \in BOOLEAN,
         StaleSound(res[r], AdvancedTenant(Owner[r]), s), Store(r, s, closed)
  PROVE  MemoryInv'
<1> DEFINE o == Owner[r]
           R == AdvancedRes(o)
           t == AdvancedTenant(o)
           Q == IF closed THEN requests[o] \ {r} ELSE requests[o]
           y == [s.ten EXCEPT !.active = Cardinality(Q)]
           R2 == [R EXCEPT ![r] = s.res]
<1>1. o \in Tenants /\ r \in RequestsOf(o)
  BY OwnerType DEF RequestsOf
<1>2. /\ R \in [Requests -> StaleRecord]
      /\ \A q \in Requests \ RequestsOf(o) : R[q] = res[q]
      /\ t \in RawTenant /\ MemoryAccount(R, t, paid[o], o)
      /\ Hold(res[r]) <= Hold(R[r])
      /\ Spend(res[r], t.window) = Spend(R[r], t.window)
      /\ res[r].carryEffect = R[r].carryEffect /\ R[r].state = res[r].state
  BY <1>1, MemoryAdvance
<1>3. /\ paid[o] \in Nat /\ paid \in [Tenants -> Nat]
      /\ res[r] \in StaleRecord /\ requests \in [Tenants -> SUBSET Requests]
      /\ MemoryGood(now, res, tenant, paid)
  BY <1>1 DEF MemoryInv, MemoryGood
<1>4. /\ res' = R2 /\ tenant' = [tenant EXCEPT ![o] = y]
      /\ requests' = [requests EXCEPT ![o] = Q]
      /\ now' = now /\ paid' = paid
  BY DEF Store, Listed
<1>5. Q \subseteq Requests
  BY <1>1, <1>3
<1> HIDE DEF R, t, o, Q
<1>6. Cardinality(Q) \in Nat
  BY <1>5, RequestsFinite, FS_Subset, FS_CardinalityType
<1>7. t.window # 0
  BY <1>1, <1>2 DEF MemoryAccount
<1>8. StaleSound(res[r], t, s)
  BY DEF t, o
<1>9. s.res \in StaleRecord /\ s.ten \in RawTenant
  BY <1>8 DEF StaleSound
<1>10. y \in RawTenant
  <2>1. Cardinality(Q) \in Int
    BY <1>6
  <2> QED BY <1>9, <2>1, Zenon DEF RawTenant
<1>11. MemoryAccount(R2, y, paid[o], o)
  BY <1>1, <1>2, <1>3, <1>7, <1>8, OverwriteStep
<1> HIDE DEF y
<1>12. R2 \in [Requests -> StaleRecord]
       /\ \A q \in Requests \ RequestsOf(o) : R2[q] = res[q]
  BY <1>1, <1>2, <1>9
<1> HIDE DEF R2
<1>13. MemoryGood(now, R2, [tenant EXCEPT ![o] = y], [paid EXCEPT ![o] = paid[o]])
  BY <1>1, <1>3, <1>10, <1>11, <1>12, MemoryTenantStep
<1>14. [paid EXCEPT ![o] = paid[o]] = paid
  BY <1>1, <1>3
<1>15. requests' \in [Tenants -> SUBSET Requests]
  BY <1>1, <1>3, <1>4, <1>5
<1> QED BY <1>4, <1>13, <1>14, <1>15 DEF MemoryInv

\* Dispatch, Settle and Cancel keep the engine good.
LEMMA MemoryEvents ==
  ASSUME MemoryInv, NEW r \in Requests,
         \/ \E status \in DispatchStatuses : MemoryDispatch(r, status)
         \/ \E u \in Settlements : MemorySettle(r, u)
         \/ \E authoritative \in BOOLEAN : MemoryCancel(r, authoritative)
  PROVE  MemoryInv'
<1> DEFINE t == AdvancedTenant(Owner[r])
<1>1. Owner[r] \in Tenants /\ r \in RequestsOf(Owner[r]) /\ res[r] \in StaleRecord
  BY OwnerType DEF RequestsOf, MemoryInv, MemoryGood
<1>2. tenant[Owner[r]].window <= now
  BY DEF MemoryDispatch, MemorySettle, MemoryCancel, ClockServes
<1>3. t \in RawTenant /\ StaleShape(res[r], t.window)
  BY <1>1, <1>2, MemoryAdvance
<1> HIDE DEF t
<1>4. ASSUME NEW status \in DispatchStatuses, MemoryDispatch(r, status)
      PROVE  MemoryInv'
  <2> DEFINE s == [res |-> ApplyDispatch(res[r], status), ten |-> t]
  <2>1. DispatchAccepted(res[r], status) /\ Store(r, s, FALSE)
    BY <1>4 DEF MemoryDispatch, t
  <2>2. StaleSound(res[r], t, s)
    BY <1>1, <1>3, <2>1, StaleDispatch
  <2>3. res[r].state # Absent
    BY <2>1 DEF DispatchAccepted, Absent
  <2> HIDE DEF s
  <2> QED BY <1>2, <2>1, <2>2, <2>3, StoreStep DEF t
<1>5. ASSUME NEW u \in Settlements, MemorySettle(r, u) PROVE MemoryInv'
  <2> DEFINE s == ApplySettlement(res[r], t, u)
  <2>1. SettleAccepted(res[r], u) /\ Store(r, s, ~Active(s.res))
    BY <1>5 DEF MemorySettle, t
  <2>2. StaleSound(res[r], t, s)
    BY <1>1, <1>3, <2>1, StaleSettlement
  <2>3. res[r].state # Absent
    BY <2>1 DEF SettleAccepted
  <2>4. (~Active(s.res)) \in BOOLEAN
    BY DEF Active
  <2> HIDE DEF s
  <2> QED BY <1>2, <2>1, <2>2, <2>3, <2>4, StoreStep DEF t
<1>6. ASSUME NEW authoritative \in BOOLEAN, MemoryCancel(r, authoritative)
      PROVE  MemoryInv'
  <2> DEFINE s == ApplyCancel(res[r], t, authoritative)
             closed == s.res.state \in {"CANCELED_UNBILLED", "FAILED_UNBILLED"}
  <2>1. CancelAccepted(res[r]) /\ Store(r, s, closed)
    BY <1>6 DEF MemoryCancel, t
  <2>2. StaleSound(res[r], t, s)
    BY <1>1, <1>3, <2>1, StaleCancel
  <2>3. res[r].state # Absent
    BY <2>1 DEF CancelAccepted, Absent
  <2>4. closed \in BOOLEAN
    OBVIOUS
  <2> HIDE DEF s, closed
  <2> QED BY <1>2, <2>1, <2>2, <2>3, <2>4, StoreStep DEF t
<1> QED BY <1>4, <1>5, <1>6

\* A step that advances the window of tenant o, sets its budget to b and pays d
\* of its debt: AdjustBudget, and Liability with nothing to pay.
LEMMA MemoryAdvanceStep ==
  ASSUME MemoryInv, NEW o \in Tenants, tenant[o].window <= now,
         NEW b \in Nat, NEW d \in Nat,
         NEW y, y = [AdvancedTenant(o) EXCEPT !.budget = b, !.carried = @ - d],
         res' = AdvancedRes(o), tenant' = [tenant EXCEPT ![o] = y],
         paid' = [paid EXCEPT ![o] = @ + d], now' = now, requests' = requests
  PROVE  MemoryInv'
<1> DEFINE R == AdvancedRes(o)
           t == AdvancedTenant(o)
<1>1. /\ R \in [Requests -> StaleRecord]
      /\ \A q \in Requests \ RequestsOf(o) : R[q] = res[q]
      /\ t \in RawTenant /\ MemoryAccount(R, t, paid[o], o)
  BY MemoryAdvance
<1>2. paid[o] \in Nat /\ paid \in [Tenants -> Nat]
      /\ MemoryGood(now, res, tenant, paid)
  BY DEF MemoryInv, MemoryGood
<1> HIDE DEF R, t
<1>3. t.carried - d \in Int
  BY <1>1 DEF RawTenant
<1>4. y = [t EXCEPT !.budget = b, !.carried = t.carried - d]
  BY DEF t
<1>5. y \in RawTenant
  BY <1>1, <1>3, <1>4, Zenon DEF RawTenant
<1>6. /\ y.reserved = t.reserved /\ y.settled = t.settled
      /\ y.window = t.window /\ y.carried = t.carried - d
  BY <1>1, <1>4 DEF RawTenant
<1>7. MemoryColumns(R, y, paid[o] + d, o)
  <2>1. SumOver(Debts(R), RequestsOf(o)) \in Int
    <3>1. \A q \in RequestsOf(o) : Debts(R)[q] \in Int
      BY <1>1, StaleAmounts DEF Debts, RequestsOf
    <3> QED BY <3>1, RequestsOfFinite, SumInt
  <2>2. MemoryColumns(R, t, paid[o], o)
    BY <1>1 DEF MemoryAccount
  <2> QED BY <1>2, <1>6, <2>1, <2>2 DEF MemoryColumns
<1>8. MemoryAccount(R, y, paid[o] + d, o)
  BY <1>1, <1>6, <1>7 DEF MemoryAccount
<1>9. paid[o] + d \in Nat
  BY <1>2
<1>10. MemoryGood(now, R, [tenant EXCEPT ![o] = y], [paid EXCEPT ![o] = paid[o] + d])
  BY <1>1, <1>2, <1>5, <1>8, <1>9, MemoryTenantStep
<1> QED BY <1>10 DEF MemoryInv, R

\* An adjustment and a reading of the liability keep the engine good.
LEMMA MemoryAuthority ==
  ASSUME MemoryInv, NEW o \in Tenants, UNCHANGED requests,
         \/ Liability(o)
         \/ \E b \in Adjusted, d \in Payments : AdjustBudget(o, b, d)
  PROVE  MemoryInv'
<1>1. ASSUME NEW b \in Adjusted, NEW d \in Payments, AdjustBudget(o, b, d)
      PROVE  MemoryInv'
  <2>1. b \in Nat /\ d \in Nat
    BY AmountsType
  <2>2. tenant[o].window <= now
    BY <1>1 DEF AdjustBudget, ClockServes
  <2>3. /\ res' = AdvancedRes(o)
        /\ tenant' = [tenant EXCEPT ![o] = [AdvancedTenant(o) EXCEPT
                                              !.budget = b, !.carried = @ - d]]
        /\ paid' = [paid EXCEPT ![o] = @ + d] /\ now' = now
    BY <1>1 DEF AdjustBudget
  <2> QED BY <2>1, <2>2, <2>3, MemoryAdvanceStep
<1>2. CASE Liability(o)
  <2> DEFINE t == AdvancedTenant(o)
  <2>1. tenant[o].window <= now
    BY <1>2 DEF Liability, ClockServes
  <2>2. /\ res' = AdvancedRes(o) /\ tenant' = [tenant EXCEPT ![o] = t]
        /\ paid' = paid /\ now' = now
    BY <1>2 DEF Liability
  <2>3. t \in RawTenant
    BY <2>1, MemoryAdvance
  <2>4. paid \in [Tenants -> Nat]
    BY DEF MemoryInv, MemoryGood
  <2> HIDE DEF t
  <2>5. t.budget \in Nat /\ t.carried \in Int /\ t.carried - 0 = t.carried
    BY <2>3 DEF RawTenant
  <2>6. t = [t EXCEPT !.budget = t.budget, !.carried = @ - 0]
    BY <2>3, <2>5 DEF RawTenant
  <2>7. paid' = [paid EXCEPT ![o] = @ + 0]
    BY <2>2, <2>4
  <2>8. 0 \in Nat
    OBVIOUS
  <2> QED BY <2>1, <2>2, <2>5, <2>6, <2>7, <2>8, MemoryAdvanceStep DEF t
<1> QED BY <1>1, <1>2

\* Binding a policy to a window keeps the tenant's columns.
LEMMA MemoryBind ==
  ASSUME MemoryInv, NEW o \in Tenants, NEW p \in Policies, BindAccepted(o, p)
  PROVE  /\ AdvancedRes(o) \in [Requests -> StaleRecord]
         /\ \A q \in Requests \ RequestsOf(o) : AdvancedRes(o)[q] = res[q]
         /\ \A q \in RequestsOf(o) : AdvancedRes(o)[q].state = res[q].state
         /\ BoundTenant(o, p) \in RawTenant
         /\ BoundTenant(o, p).window = now /\ now # 0
         /\ MemoryAccount(AdvancedRes(o), BoundTenant(o, p), paid[o], o)
<1> DEFINE R == AdvancedRes(o)
           t == AdvancedTenant(o)
           y == BoundTenant(o, p)
           S == RequestsOf(o)
<1>1. now \in Nat /\ now # 0 /\ now \in 0 .. MaxWindow
  BY BoundsType DEF MemoryInv, MemoryGood, Windows
<1>2. tenant[o].window <= now
  <2>1. tenant[o].window \in Nat
    BY BoundsType DEF MemoryInv, MemoryGood, RawTenant
  <2> QED BY <1>1, <2>1 DEF BindAccepted
<1>3. /\ R \in [Requests -> StaleRecord]
      /\ \A q \in Requests \ S : R[q] = res[q]
      /\ \A q \in S : R[q].state = res[q].state
      /\ t \in RawTenant /\ t.window \in {0, now}
      /\ MemoryAccount(R, t, paid[o], o)
  BY <1>2, MemoryAdvance
<1>4. y = [t EXCEPT !.window = now, !.identity = p, !.budget = PolicyBudget[p]]
  BY DEF BoundTenant
<1> HIDE DEF R, t, y
<1>5. PolicyBudget[p] \in Nat
  BY PolicyType
<1>6. y \in RawTenant
  BY <1>1, <1>3, <1>4, <1>5, Zenon DEF RawTenant
<1>7. /\ y.window = now /\ y.reserved = t.reserved /\ y.settled = t.settled
      /\ y.carried = t.carried
  BY <1>3, <1>4 DEF RawTenant
<1>8. IsFiniteSet(S) /\ S \subseteq Requests
  BY RequestsOfFinite DEF RequestsOf
<1>9. ASSUME NEW q \in S
      PROVE  StaleShape(R[q], now) /\ Spend(R[q], now) = Spend(R[q], t.window)
  <2>1. R[q] \in StaleRecord /\ StaleShape(R[q], t.window)
    BY <1>3, <1>8 DEF MemoryAccount
  <2>2. CASE t.window = now
    BY <2>1, <2>2
  <2>3. CASE t.window # now
    <3>1. t.window = 0 /\ R[q].state = Absent
      BY <1>3, <2>3 DEF MemoryAccount
    <3>2. R[q].version = 0
      BY <2>1, <3>1 DEF StaleShape, Unused
    <3>3. R[q].enforcement <= now
      BY <1>1, <2>1, <3>1, BoundsType DEF StaleShape, StaleRecord
    <3>4. StaleShape(R[q], now)
      BY <2>1, <3>2, <3>3 DEF StaleShape
    <3>5. R[q].settledEffect = 0
      BY <2>1, <3>2 DEF StaleShape
    <3> QED BY <3>4, <3>5 DEF Spend
  <2> QED BY <2>2, <2>3
<1>10. SumOver(Spends(R, now), S) = SumOver(Spends(R, t.window), S)
  <2>1. \A q \in S : Spends(R, now)[q] = Spends(R, t.window)[q]
    BY <1>8, <1>9 DEF Spends
  <2> QED BY <1>8, <2>1, SumEqual
<1>11. MemoryColumns(R, y, paid[o], o)
  BY <1>3, <1>7, <1>10 DEF MemoryAccount, MemoryColumns
<1>12. MemoryAccount(R, y, paid[o], o)
  BY <1>1, <1>7, <1>9, <1>11 DEF MemoryAccount
<1> QED BY <1>1, <1>3, <1>6, <1>7, <1>12 DEF R, y

\* A refused admission keeps the engine good.
LEMMA MemoryRefused ==
  ASSUME MemoryInv, NEW r \in Requests, NEW p \in Policies,
         AdmitRefused(r, p), UNCHANGED requests
  PROVE  MemoryInv'
<1> DEFINE o == Owner[r]
           R == AdvancedRes(o)
           y == BoundTenant(o, p)
<1>1. o \in Tenants
  BY OwnerType
<1>2. /\ BindAccepted(o, p) /\ res' = R /\ tenant' = [tenant EXCEPT ![o] = y]
      /\ now' = now /\ paid' = paid
  BY DEF AdmitRefused
<1>3. /\ R \in [Requests -> StaleRecord] /\ y \in RawTenant
      /\ \A q \in Requests \ RequestsOf(o) : R[q] = res[q]
      /\ MemoryAccount(R, y, paid[o], o)
  BY <1>1, <1>2, MemoryBind
<1>4. /\ paid[o] \in Nat /\ [paid EXCEPT ![o] = paid[o]] = paid
      /\ MemoryGood(now, res, tenant, paid)
  BY <1>1 DEF MemoryInv, MemoryGood
<1> HIDE DEF o, R, y
<1>5. MemoryGood(now, R, [tenant EXCEPT ![o] = y], [paid EXCEPT ![o] = paid[o]])
  BY <1>1, <1>3, <1>4, MemoryTenantStep
<1> QED BY <1>2, <1>4, <1>5 DEF MemoryInv

\* A successful admission keeps the engine good.
LEMMA MemoryAdmitStep ==
  ASSUME MemoryInv, NEW r \in Requests, NEW p \in Policies, NEW c \in Costs,
         MemoryAdmit(r, p, c)
  PROVE  MemoryInv'
<1> DEFINE o == Owner[r]
           R == AdvancedRes(o)
           t == BoundTenant(o, p)
           x == NewReservation(c, now)
           v == [t EXCEPT !.reserved = @ + c]
           s == [res |-> x, ten |-> v]
           Q == requests[o] \cup {r}
           y == [v EXCEPT !.active = Cardinality(Q)]
           R2 == [R EXCEPT ![r] = x]
<1>1. o \in Tenants /\ r \in RequestsOf(o) /\ c \in Nat
  BY OwnerType, AmountsType DEF RequestsOf
<1>2. /\ res[r].state = Absent /\ BindAccepted(o, p) /\ res' = R2
      /\ tenant' = [tenant EXCEPT ![o] = y] /\ now' = now /\ paid' = paid
      /\ requests' = [requests EXCEPT ![o] = Q]
  BY DEF MemoryAdmit, Listed
<1>3. /\ R \in [Requests -> StaleRecord] /\ t \in RawTenant
      /\ \A q \in Requests \ RequestsOf(o) : R[q] = res[q]
      /\ R[r].state = res[r].state /\ t.window = now /\ now # 0
      /\ MemoryAccount(R, t, paid[o], o)
  BY <1>1, <1>2, MemoryBind
<1>4. /\ paid[o] \in Nat /\ [paid EXCEPT ![o] = paid[o]] = paid
      /\ requests \in [Tenants -> SUBSET Requests]
      /\ MemoryGood(now, res, tenant, paid)
      /\ now \in 0 .. MaxWindow /\ now \in Nat
  BY <1>1, BoundsType DEF MemoryInv, MemoryGood, Windows
<1>5. Q \subseteq Requests
  BY <1>1, <1>4
<1> HIDE DEF o, R, t, Q
<1>6. Cardinality(Q) \in Int
  BY <1>5, RequestsFinite, FS_Subset, FS_CardinalityType
<1>7. R[r] \in StaleRecord /\ StaleShape(R[r], t.window)
  BY <1>1, <1>3 DEF MemoryAccount
<1>8. x \in StaleRecord
  <2>1. /\ "RESERVED" \in ReservationStates \cup {Absent}
        /\ "PENDING" \in OutboxStates /\ 0 \in 0 .. MaxVersion
    BY BoundsType DEF ReservationStates, OutboxStates
  <2> QED BY <1>1, <1>4, <2>1 DEF StaleRecord, NewReservation
<1>9. /\ v \in RawTenant /\ v.reserved = t.reserved + c
      /\ v.settled = t.settled /\ v.carried = t.carried /\ v.window = t.window
  <2>1. t.reserved + c \in Int
    BY <1>1, <1>3 DEF RawTenant
  <2>2. v \in RawTenant
    BY <1>3, <2>1, Zenon DEF RawTenant
  <2> QED BY <1>3, <2>2 DEF RawTenant
<1>10. StaleShape(x, t.window)
  BY <1>3, <1>4 DEF StaleShape, NewReservation, Unused, Absent
<1>11. R[r].version = 0 /\ Hold(R[r]) = 0
  BY <1>2, <1>3, <1>7 DEF StaleShape, Unused
<1>12. Spend(R[r], t.window) = 0 /\ R[r].carryEffect = 0
  BY <1>7, <1>11 DEF StaleShape, Spend
<1>13. Hold(x) = c /\ Spend(x, t.window) = 0 /\ x.carryEffect = 0
  BY <1>1 DEF Hold, Spend, NewReservation
<1> HIDE DEF x, v
<1>14. MovesWith(R[r], t, s)
  BY <1>1, <1>3, <1>9, <1>11, <1>12, <1>13 DEF MovesWith, RawTenant
<1>15. StaleSound(R[r], t, s) /\ s.res = x /\ s.ten = v
  BY <1>8, <1>9, <1>10, <1>14 DEF StaleSound
<1>16. Hold(R[r]) <= Hold(R[r]) /\ t.window # 0
  BY <1>3, <1>11
<1> HIDE DEF s
<1>17. MemoryAccount(R2, y, paid[o], o)
  <2>1. MemoryAccount([R EXCEPT ![r] = s.res],
                      [s.ten EXCEPT !.active = Cardinality(Q)], paid[o], o)
    BY <1>1, <1>3, <1>4, <1>7, <1>15, <1>16, OverwriteStep
  <2> QED BY <1>15, <2>1
<1>18. y \in RawTenant
  BY <1>6, <1>9, Zenon DEF RawTenant
<1>19. R2 \in [Requests -> StaleRecord]
       /\ \A q \in Requests \ RequestsOf(o) : R2[q] = res[q]
  BY <1>1, <1>3, <1>8
<1> HIDE DEF y, R2
<1>20. MemoryGood(now, R2, [tenant EXCEPT ![o] = y], [paid EXCEPT ![o] = paid[o]])
  BY <1>1, <1>4, <1>17, <1>18, <1>19, MemoryTenantStep
<1>21. requests' \in [Tenants -> SUBSET Requests]
  BY <1>1, <1>2, <1>4, <1>5
<1> QED BY <1>2, <1>4, <1>20, <1>21 DEF MemoryInv

\* Expiry of one stored reservation: only what it releases leaves its hold.
LEMMA StaleExpiry ==
  ASSUME NEW r \in StaleRecord, NEW w, StaleShape(r, w), Expirable(r)
  PROVE  LET x == ApplyExpiry(r)
         IN  /\ x \in StaleRecord /\ StaleShape(x, w) /\ r.state # Absent
             /\ Hold(r) = Hold(x) + (IF r.state = "RESERVED" THEN Hold(r) ELSE 0)
             /\ Spend(x, w) = Spend(r, w) /\ x.carryEffect = r.carryEffect
<1> DEFINE x == ApplyExpiry(r)
<1>1. x \in StaleRecord
  <2>1. /\ {"EXPIRED_UNDISPATCHED", "UNRESOLVED"} \subseteq ReservationStates
        /\ "CANCELED" \in OutboxStates /\ 0 \in Nat /\ 0 \in Int
    BY DEF ReservationStates, OutboxStates
  <2> QED BY <2>1, Zenon DEF ApplyExpiry, StaleRecord
<1>2. /\ x.carried = r.carried /\ x.enforcement = r.enforcement
      /\ x.settledEffect = r.settledEffect /\ x.carryEffect = r.carryEffect
      /\ x.version = r.version /\ x.finalized = r.finalized
      /\ x.provisional = r.provisional /\ x.origin = r.origin
      /\ x.state # Absent /\ r.state # Absent
  BY DEF ApplyExpiry, StaleRecord, Absent, Expirable
<1>3. Hold(r) = Hold(x) + (IF r.state = "RESERVED" THEN Hold(r) ELSE 0)
  BY DEF ApplyExpiry, StaleRecord, Hold
<1>4. r.version = 0
  BY DEF Expirable, StaleShape, Unused
<1> HIDE DEF x
<1>5. StaleShape(x, w) /\ Spend(x, w) = Spend(r, w)
  BY <1>2, <1>4 DEF StaleShape, Spend
<1> QED BY <1>1, <1>2, <1>3, <1>5 DEF x

\* Reconciling any set of expired reservations keeps the engine good.
LEMMA MemoryReconcileStep ==
  ASSUME MemoryInv, NEW E \in SUBSET Requests, MemoryReconcileExpired(E)
  PROVE  MemoryInv'
<1> DEFINE hold == [q \in Requests |-> Hold(res[q])]
           G(o) == {q \in E : Owner[q] = o /\ res[q].state = "RESERVED"}
           Q(o) == requests[o] \ G(o)
           R == [q \in Requests |->
                   IF q \in E THEN ApplyExpiry(res[q]) ELSE res[q]]
           y(o) == [tenant[o] EXCEPT !.reserved = @ - SumOver(hold, G(o)),
                                     !.active = Cardinality(requests'[o])]
           T == [o \in Tenants |-> y(o)]
<1>1. /\ now \in Windows /\ res \in [Requests -> StaleRecord]
      /\ tenant \in [Tenants -> RawTenant] /\ paid \in [Tenants -> Nat]
      /\ \A o \in Tenants : MemoryAccount(res, tenant[o], paid[o], o)
      /\ requests \in [Tenants -> SUBSET Requests]
  BY DEF MemoryInv, MemoryGood
<1>2. /\ \A q \in E : Expirable(res[q])
      /\ res' = R /\ tenant' = T /\ now' = now /\ paid' = paid
      /\ requests' = [o \in Tenants |-> Q(o)]
  BY DEF MemoryReconcileExpired
<1>3. requests' \in [Tenants -> SUBSET Requests]
  <2>1. \A o \in Tenants : Q(o) \in SUBSET Requests
    BY <1>1
  <2> HIDE DEF Q
  <2> QED BY <1>2, <2>1
<1>4. ASSUME NEW o \in Tenants, NEW q \in RequestsOf(o)
      PROVE  /\ R[q] \in StaleRecord /\ StaleShape(R[q], tenant[o].window)
             /\ R[q].state # Absent => tenant[o].window # 0
             /\ Hold(res[q]) = Hold(R[q]) + (IF q \in G(o) THEN Hold(res[q]) ELSE 0)
             /\ Spend(R[q], tenant[o].window) = Spend(res[q], tenant[o].window)
             /\ R[q].carryEffect = res[q].carryEffect
  <2>1. /\ q \in Requests /\ Owner[q] = o /\ res[q] \in StaleRecord
        /\ StaleShape(res[q], tenant[o].window)
        /\ res[q].state # Absent => tenant[o].window # 0
    BY <1>1 DEF RequestsOf, MemoryAccount
  <2>2. CASE q \in E
    <3>1. R[q] = ApplyExpiry(res[q])
      BY <2>1, <2>2
    <3>2. q \in G(o) <=> res[q].state = "RESERVED"
      BY <2>1, <2>2
    <3>3. Expirable(res[q])
      BY <1>2, <2>2
    <3> HIDE DEF R, G
    <3> QED BY <2>1, <3>1, <3>2, <3>3, StaleExpiry
  <2>3. CASE q \notin E
    <3>1. R[q] = res[q] /\ q \notin G(o)
      BY <2>1, <2>3
    <3>2. Hold(res[q]) \in Int
      BY <2>1, StaleAmounts
    <3> HIDE DEF R, G
    <3> QED BY <2>1, <3>1, <3>2
  <2> QED BY <2>2, <2>3
<1>5. R \in [Requests -> StaleRecord]
  <2>1. \A q \in Requests : R[q] \in StaleRecord
    BY <1>4, OwnerType DEF RequestsOf
  <2> QED BY <2>1
<1>6. ASSUME NEW o \in Tenants
      PROVE  y(o) \in RawTenant /\ MemoryAccount(R, y(o), paid[o], o)
  <2> DEFINE S == RequestsOf(o)
             t == tenant[o]
             n == Cardinality(requests'[o])
  <2>1. /\ IsFiniteSet(S) /\ S \subseteq Requests /\ G(o) \subseteq S
        /\ t \in RawTenant /\ MemoryAccount(res, t, paid[o], o)
    BY <1>1, RequestsOfFinite DEF RequestsOf
  <2>2. IsFiniteSet(G(o))
    BY <2>1, FS_Subset
  <2>3. \A q \in S : res[q] \in StaleRecord /\ R[q] \in StaleRecord
    BY <1>1, <1>5, <2>1
  <2>4. y(o) = [t EXCEPT !.reserved = @ - SumOver(hold, G(o)), !.active = n]
    OBVIOUS
  <2>5. n \in Int
    <3>1. requests'[o] \subseteq Requests
      BY <1>3
    <3> QED BY <3>1, RequestsFinite, FS_Subset, FS_CardinalityType
  <2>6. \A q \in G(o) : hold[q] \in Int /\ hold[q] = Hold(res[q])
    <3> HIDE DEF R, G, y, T, S, t
    <3> QED BY <2>1, <2>3, StaleAmounts
  <2> HIDE DEF R, hold, G, Q, y, T, S, t, n
  <2>7. SumOver(Holds(res), S) = SumOver(Holds(R), S) + SumOver(hold, G(o))
    <3>1. \A q \in S : Holds(R)[q] \in Int
      BY <2>1, <2>3, StaleAmounts DEF Holds
    <3>2. \A q \in G(o) : Holds(res)[q] = Holds(R)[q] + hold[q]
      BY <1>4, <2>1, <2>6 DEF Holds, S
    <3>3. \A q \in S \ G(o) : Holds(res)[q] = Holds(R)[q]
      <4> SUFFICES ASSUME NEW q \in S \ G(o) PROVE Hold(res[q]) = Hold(R[q])
        BY <2>1 DEF Holds
      <4>1. Hold(R[q]) \in Int
        BY <2>3, StaleAmounts
      <4>2. Hold(res[q]) = Hold(R[q]) + 0
        BY <1>4 DEF S
      <4> QED BY <4>1, <4>2
    <3> QED BY <2>1, <2>6, <3>1, <3>2, <3>3, SumRaise
  <2>8. SumOver(Holds(R), S) \in Int /\ SumOver(hold, G(o)) \in Int
    <3>1. \A q \in S : Holds(R)[q] \in Int
      BY <2>1, <2>3, StaleAmounts DEF Holds
    <3> QED BY <2>1, <2>2, <2>6, <3>1, SumInt
  <2>9. t.reserved >= SumOver(Holds(res), S) /\ t.reserved \in Int
    BY <2>1 DEF MemoryAccount, MemoryColumns, S, RawTenant
  <2>10. /\ t.reserved - SumOver(hold, G(o)) >= SumOver(Holds(R), S)
         /\ t.reserved - SumOver(hold, G(o)) \in Int
    BY <2>7, <2>8, <2>9
  <2>11. y(o) \in RawTenant
    BY <2>1, <2>4, <2>5, <2>10, Zenon DEF RawTenant
  <2>12. /\ y(o).reserved >= SumOver(Holds(R), S)
         /\ y(o).settled = t.settled /\ y(o).carried = t.carried
         /\ y(o).window = t.window
    BY <2>1, <2>4, <2>10 DEF RawTenant
  <2>13. /\ SumOver(Debts(R), S) = SumOver(Debts(res), S)
         /\ SumOver(Spends(R, t.window), S) = SumOver(Spends(res, t.window), S)
    <3>1. \A q \in S : Debts(R)[q] = Debts(res)[q]
      BY <1>4, <2>1 DEF Debts, S
    <3>2. \A q \in S : Spends(R, t.window)[q] = Spends(res, t.window)[q]
      BY <1>4, <2>1 DEF Spends, S, t
    <3> QED BY <2>1, <3>1, <3>2, SumEqual
  <2>14. MemoryColumns(R, y(o), paid[o], o)
    BY <2>1, <2>12, <2>13 DEF MemoryAccount, MemoryColumns, S
  <2>15. MemoryAccount(R, y(o), paid[o], o)
    BY <1>4, <2>12, <2>14 DEF MemoryAccount, t
  <2> QED BY <2>11, <2>15
<1>7. T \in [Tenants -> RawTenant] /\ \A o \in Tenants : T[o] = y(o)
  BY <1>6
<1> HIDE DEF T, R, y, G, Q
<1>8. MemoryGood(now, R, T, paid)
  BY <1>1, <1>5, <1>6, <1>7 DEF MemoryGood
<1> QED BY <1>2, <1>3, <1>8 DEF MemoryInv

\* An empty engine is good.
LEMMA MemoryInitHolds ==
  ASSUME MemoryInit
  PROVE  MemoryInv
<1>1. Init /\ requests \in [Tenants -> SUBSET Requests]
  BY DEF MemoryInit
<1>2. NoReservation \in StaleRecord
  <2>1. 0 \in 0 .. MaxVersion /\ 0 \in 0 .. MaxWindow
    BY BoundsType
  <2>2. /\ "PENDING" \in OutboxStates /\ 0 \in Nat /\ 0 \in Int
        /\ Absent \in ReservationStates \cup {Absent} /\ FALSE \in BOOLEAN
    BY DEF OutboxStates
  <2>3. NewReservation(0, 0) \in StaleRecord
    BY <2>1, <2>2 DEF NewReservation, StaleRecord, ReservationStates
  <2> QED BY <2>2, <2>3, Zenon DEF NoReservation, StaleRecord
<1>3. NewTenant \in RawTenant
  <2>1. 0 \in 0 .. MaxWindow /\ (CHOOSE p \in Policies : TRUE) \in Policies
    BY BoundsType, PolicyType
  <2> QED BY <2>1 DEF NewTenant, RawTenant
<1>4. /\ Hold(NoReservation) = 0 /\ Spend(NoReservation, 0) = 0
      /\ NoReservation.carryEffect = 0 /\ NoReservation.state = Absent
      /\ StaleShape(NoReservation, 0)
  BY DEF NoReservation, NewReservation, Hold, Spend, Absent, StaleShape, Unused
<1>5. /\ NewTenant.window = 0 /\ NewTenant.reserved = 0
      /\ NewTenant.settled = 0 /\ NewTenant.carried = 0
  BY DEF NewTenant
<1>6. /\ now \in Windows /\ res \in [Requests -> StaleRecord]
      /\ tenant \in [Tenants -> RawTenant] /\ paid \in [Tenants -> Nat]
  BY <1>1, <1>2, <1>3, BoundsType DEF Init, Windows
<1>7. ASSUME NEW o \in Tenants PROVE MemoryAccount(res, tenant[o], paid[o], o)
  <2> DEFINE S == RequestsOf(o)
  <2>1. /\ IsFiniteSet(S) /\ S \subseteq Requests
        /\ \A q \in S : res[q] = NoReservation
    BY <1>1, RequestsOfFinite DEF RequestsOf, Init
  <2>2. tenant[o] = NewTenant /\ paid[o] = 0
    BY <1>1 DEF Init
  <2> HIDE DEF S
  <2>3. /\ SumOver(Holds(res), S) = 0 /\ SumOver(Spends(res, 0), S) = 0
        /\ SumOver(Debts(res), S) = 0
    <3>1. \A q \in S : Holds(res)[q] = 0 /\ Spends(res, 0)[q] = 0
      BY <1>4, <2>1 DEF Holds, Spends
    <3>2. \A q \in S : Debts(res)[q] = 0
      BY <1>4, <2>1 DEF Debts
    <3> QED BY <2>1, <3>1, <3>2, SumZero
  <2>4. MemoryColumns(res, tenant[o], paid[o], o)
    BY <1>5, <2>2, <2>3 DEF MemoryColumns, S
  <2> QED BY <1>4, <1>5, <2>1, <2>2, <2>4 DEF MemoryAccount, S
<1> QED BY <1>1, <1>6, <1>7 DEF MemoryInv, MemoryGood

\* Every step keeps the engine good.
LEMMA MemoryNextHolds ==
  ASSUME MemoryInv, [MemoryNext]_memoryVars
  PROVE  MemoryInv'
<1>1. CASE UNCHANGED memoryVars
  BY <1>1 DEF memoryVars, MemoryInv
<1>2. ASSUME NEW w \in Windows, Clock(w), UNCHANGED requests PROVE MemoryInv'
  BY <1>2 DEF Clock, MemoryInv, MemoryGood
<1>3. CASE MemoryNext
  BY <1>2, <1>3, MemoryAdmitStep, MemoryRefused, MemoryEvents,
     MemoryReconcileStep, MemoryAuthority DEF MemoryNext
<1> QED BY <1>1, <1>3

\* The in-memory engine keeps its inductive invariant.
THEOREM MemoryInvariant == MemorySpec => []MemoryInv
<1>1. MemoryInit => MemoryInv
  BY MemoryInitHolds
<1>2. MemoryInv /\ [MemoryNext]_memoryVars => MemoryInv'
  BY MemoryNextHolds
<1> QED BY <1>1, <1>2, PTL DEF MemorySpec

\* Spend and carried debt of the in-memory ledger are exact, and its reserved
\* amount never falls below what its reservations hold, although Dispatch,
\* Settle and Cancel write back copies they read before a rollover.
THEOREM MemoryBooksHold == MemorySpec => []MemoryBooks
<1>1. ASSUME MemoryInv PROVE MemoryBooks
  <2> SUFFICES ASSUME NEW o \in Tenants
      PROVE  LET t == tenant[o] IN
             /\ t.reserved >= SumOver([q \in Requests |-> Hold(res[q])],
                                      RequestsOf(o))
             /\ t.settled = SumOver([q \in Requests |-> res[q].settledEffect],
                              {q \in RequestsOf(o) :
                                 ~res[q].carried /\ res[q].enforcement = t.window})
             /\ t.carried = SumOver([q \in Requests |-> res[q].carryEffect],
                                    RequestsOf(o)) - paid[o]
    BY DEF MemoryBooks, ReservedCoversHolds, SettledIsWindowSpend,
           CarriedIsDebtLessPayments
  <2> DEFINE S == RequestsOf(o)
             t == tenant[o]
             C == {q \in S : ~res[q].carried /\ res[q].enforcement = t.window}
             effects == [q \in Requests |-> res[q].settledEffect]
  <2>1. /\ IsFiniteSet(S) /\ S \subseteq Requests /\ C \subseteq S
        /\ \A q \in S : res[q] \in StaleRecord
        /\ MemoryColumns(res, t, paid[o], o)
    BY <1>1, RequestsOfFinite DEF RequestsOf, MemoryInv, MemoryGood, MemoryAccount
  <2>2. IsFiniteSet(C)
    BY <2>1, FS_Subset
  <2>3. \A q \in S : q \in C <=> ~res[q].carried /\ res[q].enforcement = t.window
    OBVIOUS
  <2> HIDE DEF S, C, t
  <2>4. SumOver(Spends(res, t.window), S) = SumOver(effects, C)
    <3>1. \A q \in S : Spends(res, t.window)[q] \in Int
      BY <2>1, StaleAmounts DEF Spends
    <3>2. \A q \in S \ C : Spends(res, t.window)[q] = 0
      BY <2>1, <2>3 DEF Spends, Spend
    <3>3. \A q \in C : Spends(res, t.window)[q] = effects[q]
      BY <2>1, <2>3 DEF Spends, Spend
    <3>4. SumOver(Spends(res, t.window), S) = SumOver(Spends(res, t.window), C)
      BY <2>1, <3>1, <3>2, SumDrop
    <3> HIDE DEF effects
    <3>5. SumOver(Spends(res, t.window), C) = SumOver(effects, C)
      BY <2>2, <3>3, SumEqual
    <3> QED BY <3>4, <3>5
  <2>5. /\ t.reserved >= SumOver(Holds(res), S)
        /\ t.settled = SumOver(Spends(res, t.window), S)
        /\ t.carried = SumOver(Debts(res), S) - paid[o]
    BY <2>1 DEF MemoryColumns, S
  <2> HIDE DEF effects
  <2>6. t.settled = SumOver(effects, C)
    BY <2>4, <2>5
  <2> QED BY <2>5, <2>6, Zenon DEF Holds, Debts, S, t, C, effects
<1>2. MemoryInv => MemoryBooks
  BY <1>1
<1> QED BY <1>2, MemoryInvariant, PTL

=============================================================================
