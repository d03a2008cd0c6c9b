------------------------------ MODULE Pricing ------------------------------
(***************************************************************************)
(* GOV-AR pricing (govarpricing/pricing.go, govar/money.go): a provider's  *)
(* price list is normalized into a snapshot that partitions all billable   *)
(* bases, a request is reserved at its bounds, and provider usage is priced *)
(* against the same frozen rows.                                           *)
(*                                                                         *)
(* A row is [basis, applicability, price, unit, included, maximum, bound,  *)
(* disjoint]; price is in micros per unit, Absent is a nil pointer, bound  *)
(* says whether the request bound field is the one of the basis ("own"),   *)
(* another ("other") or not set (Empty).  Usage and declared bounds are       *)
(* functions on the bases they mention.  The digest is injective: it is    *)
(* the tuple of what it covers.                                            *)
(***************************************************************************)
EXTENDS Sums, FiniteSets

CONSTANTS
    MaxInt64,   \* the largest amount
    Precision   \* parts of a micro that a decimal price can express

ASSUME PricingAssumption == MaxInt64 \in Nat /\ Precision \in Nat \ {0}

Absent == -1

\* The empty string.
Empty == "empty"

AllBases == {"input_tokens", "cached_input_tokens", "output_tokens",
             "reasoning_tokens", "request", "tool_call", "media_unit",
             "billable_second", "cancellation", "retry_attempt"}

Fails == [ok |-> FALSE]

-----------------------------------------------------------------------------
(* Money *)

ceilingProduct(price, quantity, denominator) ==
    LET n == price * quantity
    IN  n \div denominator + (IF n % denominator = 0 THEN 0 ELSE 1)

exactMicros(price) ==
    IF price < 0 \/ price % Precision # 0 \/ price \div Precision > MaxInt64
    THEN Absent ELSE price \div Precision

\* The budget is rounded down, prices are exact, costs are rounded up.
quantityToMicros(quantity) ==
    IF quantity < 0 \/ quantity \div Precision > MaxInt64 THEN Absent
    ELSE quantity \div Precision

-----------------------------------------------------------------------------
(* Snapshots *)

Bases(rows) == {r.basis : r \in rows}
RowOf(rows, b) == CHOOSE r \in rows : r.basis = b
NoDuplicates(rows) == \A r, s \in rows : r.basis = s.basis => r = s
Charged(rows) == {r \in rows : r.included = Empty}

validRequestBound(r) == r.bound = "own" /\ r.basis # "request"

\* Detail bases that a price may be included in.
legalIncludedPair(detail, root) ==
    <<detail, root>> \in {<<"cached_input_tokens", "input_tokens">>,
                          <<"reasoning_tokens", "output_tokens">>}

\* Where the chain of included-in references of basis b ends; on a cycle it
\* ends inside the cycle.
IncludedRoot(rows, b) ==
    LET next == [c \in Bases(rows) \cup AllBases |->
                   IF c \in Bases(rows) /\ RowOf(rows, c).included # Empty
                   THEN RowOf(rows, c).included ELSE c]
        up[k \in Nat] == IF k = 0 THEN b ELSE next[up[k - 1]]
    IN  up[Cardinality(rows)]

validateIncludedChargeGraph(rows, inapplicable) ==
    /\ Bases(rows) \cap inapplicable = {}
    /\ \A r \in rows \ Charged(rows) :
         LET root == IncludedRoot(rows, r.basis) IN
         root \in Bases(Charged(rows)) /\ legalIncludedPair(r.basis, root)

Partition(rows, inapplicable) ==
    /\ NoDuplicates(rows) /\ Bases(rows) \cap inapplicable = {}
    /\ Bases(rows) \cup inapplicable = AllBases

IncludedRowOK(r) == r.included \in AllBases \ {r.basis} /\ r.price = 0

DetailBases == {"cached_input_tokens", "reasoning_tokens"}

\* What Normalize requires of a charge of the price list.
ChargeOK(r) ==
    /\ r.basis \in AllBases \ {"input_tokens", "output_tokens"}
    /\ r.unit > 0 /\ r.price # Absent
    /\ IF r.included # Empty THEN IncludedRowOK(r) ELSE r.maximum # Absent \/ r.bound # Empty
    /\ r.applicability = "response" => r.maximum # Absent
    /\ (r.basis \in DetailBases /\ r.included = Empty) => r.disjoint
    /\ (r.applicability = "request" /\ r.included = Empty) => r.bound # Empty

TokenRow(basis, price) ==
    [basis |-> basis, applicability |-> "request", price |-> price,
     unit |-> 1000000, included |-> Empty, maximum |-> Absent, bound |-> "own",
     disjoint |-> FALSE]

SnapshotDigest(s) == <<s.generation, s.observedAt, s.validUntil, s.charges, s.inapplicable>>

Minute == 1
Day == 24 * 60

\* provider.declared: version, completeness, currency and evidence fields are
\* as required; provider.closed: the provider type has an adapter.
Normalize(provider, now) ==
    LET rows == {TokenRow("input_tokens", exactMicros(provider.input)),
                 TokenRow("output_tokens", exactMicros(provider.output))}
                \cup provider.charges
        snapshot == [generation |-> provider.generation,
                     observedAt |-> provider.observedAt,
                     validUntil |-> provider.validUntil,
                     charges |-> rows, inapplicable |-> provider.inapplicable]
    IN  IF /\ provider.closed /\ provider.declared /\ provider.generation > 0
           /\ provider.validUntil > now
           /\ provider.observedAt <= now + Minute /\ now - provider.observedAt <= Day
           /\ exactMicros(provider.input) # Absent
           /\ exactMicros(provider.output) # Absent
           /\ \A r \in provider.charges : ChargeOK(r)
           /\ Partition(rows, provider.inapplicable)
           /\ validateIncludedChargeGraph(rows, provider.inapplicable)
           /\ \A r \in rows : r.bound # Empty => validRequestBound(r)
        THEN [ok |-> TRUE, snapshot |-> snapshot, digest |-> SnapshotDigest(snapshot)]
        ELSE Fails

\* A row as reservation and settlement accept it.
NormalizedRowOK(r) ==
    /\ r.basis \in AllBases /\ r.price >= 0 /\ r.unit > 0
    /\ IF r.included # Empty THEN IncludedRowOK(r)
       ELSE /\ r.basis \in DetailBases => r.disjoint
            /\ IF r.applicability = "request" THEN validRequestBound(r)
               ELSE r.maximum # Absent

\* The validity period is not tested: settlement uses the frozen snapshot.
ValidateSnapshotIntegrity(s, digest) ==
    /\ s.generation > 0 /\ s.validUntil > s.observedAt
    /\ digest = SnapshotDigest(s)
    /\ \A r \in s.charges : NormalizedRowOK(r)
    /\ Partition(s.charges, s.inapplicable)
    /\ validateIncludedChargeGraph(s.charges, s.inapplicable)

ValidateSnapshot(s, digest, generation, at) ==
    /\ ValidateSnapshotIntegrity(s, digest)
    /\ s.generation = generation /\ s.validUntil > at /\ s.observedAt <= at + Minute

-----------------------------------------------------------------------------
(* Reservation and settlement *)

canonicalUsage(usage) ==
    \A b \in DOMAIN usage : b \in AllBases /\ usage[b] >= 0

\* The bound of a row before dispatch; Absent is an error.
requestQuantity(r, ctx) ==
    CASE r.applicability # "request" -> r.maximum
      [] r.basis = "input_tokens" /\ r.applicability = "request" -> ctx.input
      [] r.basis = "output_tokens" /\ r.applicability = "request" -> ctx.output
      [] OTHER -> IF r.basis \in DOMAIN ctx.declared THEN ctx.declared[r.basis] ELSE Absent

\* A maximum replaces the bound that the request declares.
ReservedQuantity(r, ctx) ==
    IF r.maximum # Absent THEN r.maximum ELSE requestQuantity(r, ctx)

Component(r, quantity) ==
    [basis |-> r.basis, quantity |-> quantity, price |-> r.price, unit |-> r.unit,
     micros |-> ceilingProduct(r.price, quantity, r.unit)]

Quantified(components) ==
    \A c \in components : c.quantity >= 0 /\ c.micros <= MaxInt64

ReserveComponents(s, digest, ctx, at) ==
    LET components == {Component(r, ReservedQuantity(r, ctx)) : r \in Charged(s.charges)}
    IN  IF /\ ValidateSnapshot(s, digest, s.generation, at)
           /\ canonicalUsage(ctx.declared)
           /\ \A r \in Charged(s.charges) :
                requestQuantity(r, ctx) # Absent /\ ReservedQuantity(r, ctx) >= 0
           /\ Quantified(components)
        THEN [ok |-> TRUE, components |-> components]
        ELSE Fails

Matches(r, reserved) ==
    \E c \in reserved : c.basis = r.basis /\ c.price = r.price /\ c.unit = r.unit

ReservedOf(reserved, b) == RowOf(reserved, b).quantity

\* Mutant: usage has to name every charged basis.
SettleComplete(s, digest, reserved, usage) ==
    LET actual == {Component(r, usage[r.basis]) : r \in Charged(s.charges)}
    IN  IF /\ ValidateSnapshotIntegrity(s, digest) /\ canonicalUsage(usage)
           /\ DOMAIN usage = Bases(Charged(s.charges))
        THEN [ok |-> TRUE, components |-> actual, missing |-> {},
              exceeded |-> \E c \in actual : c.quantity > ReservedOf(reserved, c.basis)]
        ELSE Fails

SettleComponents(s, digest, reserved, usage) ==
    LET priced == {r \in Charged(s.charges) : r.basis \in DOMAIN usage}
        actual == {Component(r, usage[r.basis]) : r \in priced}
    IN  IF /\ ValidateSnapshotIntegrity(s, digest) /\ canonicalUsage(usage)
           /\ NoDuplicates(reserved)
           /\ \A r \in Charged(s.charges) : Matches(r, reserved)
           /\ Quantified(actual)
           /\ DOMAIN usage \subseteq Bases(Charged(s.charges))
        THEN [ok |-> TRUE, components |-> actual,
              missing |-> Bases(Charged(s.charges)) \ DOMAIN usage,
              exceeded |-> \E c \in actual : c.quantity > ReservedOf(reserved, c.basis)]
        ELSE Fails

SumComponents(components) == SumOver([c \in components |-> c.micros], components)
=============================================================================
