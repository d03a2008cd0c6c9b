--------------------------- MODULE AdmissionProofs ---------------------------
(***************************************************************************)
(* Theorems of Admission.  What a strict reservation covers is an argument *)
(* in two halves.  Pricing: reservation and settlement apply the same rows *)
(* of the frozen snapshot, each once, so that usage within the reserved    *)
(* quantities costs no more than was reserved.  Admission: the quantities  *)
(* a strict method reserves bound what the provider bills, because the cap *)
(* it relies on was verified for a deployment that passes it on, whichever *)
(* edits and reconciliations came between the two listings.                *)
(***************************************************************************)
EXTENDS Admission, SumTheorems, NaturalsInduction

-----------------------------------------------------------------------------
(* The inductive invariant *)

\* The rows Normalize makes of a price list.
ListRows(list) ==
    {TokenRow("input_tokens", exactMicros(list.input)),
     TokenRow("output_tokens", exactMicros(list.output))} \cup list.charges

\* A snapshot that was normalized from a price list.
FromList(s) ==
    \E list \in PriceLists :
        /\ s.charges = ListRows(list)
        /\ exactMicros(list.input) # Absent /\ exactMicros(list.output) # Absent
        /\ \A r \in list.charges : r.basis \notin {"input_tokens", "output_tokens"}

\* A provider object; what it publishes came from a list.
ProviderOK(p) ==
    /\ p = [spec |-> p.spec, status |-> p.status]
    /\ p.spec.list \in PriceLists /\ p.spec.deployment \in Deployments
    /\ p.status.priced \in BOOLEAN /\ (p.status.priced => FromList(p.status.snapshot))

\* A cap that was verified is not one of a deployment that does not pass it on.
CapOK(cap) == cap.present => cap.deployment # "uncapped"

ModelOK(o) ==
    /\ o = [evidence |-> o.evidence, generation |-> o.generation,
            observed |-> o.observed, ready |-> o.ready, cap |-> o.cap]
    /\ o.evidence \in BOOLEAN
    /\ CapOK(o.cap)

Objects ==
    /\ DOMAIN prov = Models /\ \A m \in Models : ProviderOK(prov[m])
    /\ DOMAIN mod = Models /\ \A m \in Models : ModelOK(mod[m])

\* What administrators are assumed to attest.
Honest(evidence, spec) == evidence => spec.deployment # "uncapped"

Attested == \A m \in Models : Honest(mod[m].evidence, prov[m].spec)

\* The model reconciliation holds evidence and provider of one moment.
JobOK ==
    job.phase = "read" => job.model \in Models /\ Honest(job.evidence, job.provider.spec)

\* The models an admission listed.
ListedOK ==
    call.phase = "models" =>
        call.of \in DOMAIN Calls /\ \A m \in Models : CapOK(call.mod[m].cap)

\* The reservation of an offer is the sum of the components at its bounds.
PricedAt(o, req, at) ==
    LET priced == ReserveComponents(o.candidate.snapshot, o.candidate.digest,
                    [input |-> o.inputBound, output |-> o.outputBound,
                     declared |-> req.declared], at)
    IN  /\ o.inputBound \in Int /\ o.outputBound \in Int
        /\ priced.ok /\ o.reservation = SumComponents(priced.components)

\* A strict offer reserves the whole output cap, and of the input what is
\* known of it.
Bounded(o, req) ==
    IsStrict(o.method) =>
        /\ o.candidate.verified
        /\ o.outputBound = req.maxOutput
        /\ req.exact => o.inputBound = req.input
        /\ ~req.exact => o.inputBound = o.candidate.context - req.maxOutput

\* A reservation was priced from a list, and a strict one goes to a deployment
\* that passes the cap on.
ReservedOK ==
    call.phase = "reserved" =>
        /\ call.of \in DOMAIN Calls
        /\ FromList(call.choice.candidate.snapshot)
        /\ PricedAt(call.choice, Req, call.at)
        /\ Bounded(call.choice, Req)
        /\ IsStrict(call.choice.method) => call.deployment = "capped"

AdmissionInv ==
    /\ Objects /\ Attested /\ JobOK /\ ListedOK /\ ReservedOK
    /\ StrictCovers /\ UsageIsPriced /\ ChoiceIsBest

-----------------------------------------------------------------------------
(* Amounts and sums *)

\* Division rounded up as the code does it: the least c with c * d >= n.
LEMMA RoundedUp ==
  ASSUME NEW n \in Nat, NEW d \in Nat \ {0},
         NEW c, c = n \div d + (IF n % d = 0 THEN 0 ELSE 1)
  PROVE  c \in Nat /\ c * d >= n /\ \A j \in Nat : j < c => j * d < n
<1> DEFINE k == n \div d
           e == n % d
<1>1. k \in Nat /\ e \in Nat /\ e < d /\ n = k * d + e
  <2>1. k \in Int /\ k * d <= n /\ n < (k + 1) * d
    OBVIOUS
  <2>2. k \in Nat
    BY <2>1
  <2>3. e \in 0 .. d - 1 /\ n = d * k + e
    OBVIOUS
  <2> QED BY <2>2, <2>3
<1>2. c = k + (IF e = 0 THEN 0 ELSE 1)
  OBVIOUS
<1> HIDE DEF k, e
<1>3. CASE e = 0
  <2>1. c = k /\ c * d = n
    BY <1>1, <1>2, <1>3
  <2>2. ASSUME NEW j \in Nat, j < c PROVE j * d < n
    <3>1. (j + 1) * d <= k * d
      BY <1>1, <2>1, <2>2
    <3>2. (j + 1) * d = j * d + d /\ j * d \in Nat
      OBVIOUS
    <3> QED BY <1>1, <2>1, <3>1, <3>2
  <2> QED BY <1>1, <2>1, <2>2
<1>4. CASE e # 0
  <2>1. c = k + 1 /\ c * d = k * d + d /\ k * d \in Nat
    BY <1>1, <1>2, <1>4
  <2>2. ASSUME NEW j \in Nat, j < c PROVE j * d < n
    <3>1. j * d <= k * d
      BY <1>1, <2>1, <2>2
    <3>2. j * d \in Nat
      OBVIOUS
    <3> QED BY <1>1, <1>4, <2>1, <3>1, <3>2
  <2> QED BY <1>1, <2>1, <2>2
<1> QED BY <1>3, <1>4

\* A cost is a natural number and grows with the quantity.
LEMMA CeilingGrows ==
  ASSUME NEW p \in Nat, NEW q \in Nat, NEW r \in Nat, q <= r, NEW u \in Nat \ {0}
  PROVE  /\ ceilingProduct(p, q, u) \in Nat /\ ceilingProduct(p, r, u) \in Nat
         /\ ceilingProduct(p, q, u) <= ceilingProduct(p, r, u)
<1>1. p * q \in Nat /\ p * r \in Nat /\ p * q <= p * r
  <2>1. p * r = p * q + p * (r - q)
    OBVIOUS
  <2>2. p * q \in Nat /\ p * r \in Nat /\ p * (r - q) \in Nat
    OBVIOUS
  <2> QED BY <2>1, <2>2
<1> DEFINE a == p * q
           b == p * r
           k == ceilingProduct(p, q, u)
           l == ceilingProduct(p, r, u)
<1>2. a \in Nat /\ b \in Nat /\ a <= b
  BY <1>1
<1>3. /\ k = a \div u + (IF a % u = 0 THEN 0 ELSE 1)
      /\ l = b \div u + (IF b % u = 0 THEN 0 ELSE 1)
  BY DEF ceilingProduct
<1> HIDE DEF a, b, k, l
<1>4. k \in Nat /\ \A j \in Nat : j < k => j * u < a
  BY <1>2, <1>3, RoundedUp
<1>5. l \in Nat /\ l * u >= b
  BY <1>2, <1>3, RoundedUp
<1>6. k <= l
  <2>1. l * u \in Nat
    BY <1>5
  <2> QED BY <1>2, <1>4, <1>5, <2>1
<1> QED BY <1>4, <1>5, <1>6 DEF k, l

\* A sum over the images of the members of a set under a function that keeps
\* them apart is the sum over the set.
LEMMA SumImage ==
  ASSUME NEW S, IsFiniteSet(S), NEW e, NEW f, NEW g, NEW T, T = {e[x] : x \in S},
         \A x, y \in S : e[x] = e[y] => x = y,
         \A x \in S : g[x] \in Int /\ f[e[x]] = g[x]
  PROVE  SumOver(f, T) = SumOver(g, S)
<1> DEFINE Image(A) == {e[x] : x \in A}
           Bad == {A \in SUBSET S : SumOver(f, Image(A)) # SumOver(g, A)}
<1>1. SUFFICES ASSUME Bad # {} PROVE FALSE
  <2>1. S \in SUBSET S OBVIOUS
  <2> QED BY <1>1, <2>1
<1>2. PICK A \in Bad : \A B \in SUBSET A : B # A => B \notin Bad
  <2>1. Bad \subseteq SUBSET S OBVIOUS
  <2> HIDE DEF Bad
  <2> QED BY <1>1, <2>1, SmallestBad
<1>3. A \subseteq S /\ IsFiniteSet(A)
  BY <1>2, FS_Subset
<1>4. A # {}
  <2>1. SUFFICES ASSUME A = {} PROVE FALSE
    OBVIOUS
  <2>2. Image(A) = {}
    BY <2>1
  <2> QED BY <1>2, <2>1, <2>2, SumEmpty
<1>5. PICK x \in A : TRUE
  BY <1>4
<1> DEFINE U == A \ {x}
<1>6. U \in SUBSET A /\ U # A /\ U \in SUBSET S
  BY <1>3, <1>5
<1>7. SumOver(f, Image(U)) = SumOver(g, U)
  BY <1>2, <1>6
<1>8. SumOver(g, A) = g[x] + SumOver(g, U)
  <2>1. \A y \in A : g[y] \in Int
    BY <1>3
  <2> QED BY <1>3, <1>5, <2>1, SumRemove
<1>9. SumOver(f, Image(A)) = f[e[x]] + SumOver(f, Image(A) \ {e[x]})
  <2>1. IsFiniteSet(Image(A))
    <3>1. [y \in A |-> e[y]] \in Surjection(A, Image(A))
      BY DEF Surjection
    <3> HIDE DEF Image
    <3> QED BY <1>3, <3>1, FS_Surjection
  <2>2. \A y \in Image(A) : f[y] \in Int
    BY <1>3
  <2>3. e[x] \in Image(A)
    BY <1>5
  <2> HIDE DEF Image
  <2> QED BY <2>1, <2>2, <2>3, SumRemove
<1>10. Image(A) \ {e[x]} = Image(U)
  BY <1>3, <1>5
<1>11. f[e[x]] = g[x]
  BY <1>3, <1>5
<1> QED BY <1>2, <1>7, <1>8, <1>9, <1>10, <1>11

-----------------------------------------------------------------------------
(* Reservation and settlement of one snapshot *)

\* What the prices of tokens are per.
TokenUnit == 1000000

LEMMA TokenRowFields ==
  ASSUME NEW b, NEW p
  PROVE  /\ TokenRow(b, p).price = p /\ TokenRow(b, p).unit = TokenUnit
         /\ TokenRow(b, p).maximum = Absent /\ TokenRow(b, p).applicability = "request"
BY SMT DEF TokenRow, TokenUnit

\* The rows of a snapshot that was normalized from a list and is accepted.
LEMMA RowsOfList ==
  ASSUME NEW s, FromList(s), \A r \in s.charges : NormalizedRowOK(r)
  PROVE  /\ IsFiniteSet(s.charges)
         /\ \A r \in s.charges :
              /\ r.price \in Nat /\ r.unit \in Nat \ {0} /\ r.maximum \in Int
              /\ ceilingProduct(r.price, MaxUsage, r.unit) <= MaxInt64
              /\ r.basis \in {"input_tokens", "output_tokens"} =>
                   r.maximum = Absent /\ r.applicability = "request"
<1>0. TokenUnit \in Nat \ {0}
  BY SMT DEF TokenUnit
<1>1. PICK list \in PriceLists :
        /\ s.charges = ListRows(list)
        /\ exactMicros(list.input) # Absent /\ exactMicros(list.output) # Absent
        /\ \A r \in list.charges : r.basis \notin {"input_tokens", "output_tokens"}
  BY Zenon DEF FromList
<1> DEFINE tokens == {TokenRow("input_tokens", exactMicros(list.input)),
                      TokenRow("output_tokens", exactMicros(list.output))}
<1>2. s.charges = tokens \cup list.charges
  BY <1>1 DEF ListRows
<1>3. IsFiniteSet(s.charges)
  <2>1. IsFiniteSet(tokens)
    <3>1. tokens = ({} \cup {TokenRow("input_tokens", exactMicros(list.input))})
                     \cup {TokenRow("output_tokens", exactMicros(list.output))}
      OBVIOUS
    <3> HIDE DEF tokens
    <3> QED BY <3>1, FS_EmptySet, FS_AddElement
  <2>2. IsFiniteSet(list.charges)
    BY ListAssumption
  <2> HIDE DEF tokens
  <2> QED BY <1>2, <2>1, <2>2, FS_Union
<1>4. ASSUME NEW r \in list.charges
      PROVE  /\ r.price \in Nat /\ r.unit \in Nat \ {0} /\ r.maximum \in Int
             /\ ceilingProduct(r.price, MaxUsage, r.unit) <= MaxInt64
             /\ r.basis \notin {"input_tokens", "output_tokens"}
  <2>1. r.price \in Int /\ r.unit \in Int /\ r.maximum \in Int /\ Affordable(r.price, r.unit)
    BY <1>4, ListAssumption
  <2>2. r.price >= 0 /\ r.unit > 0
    BY <1>2, <1>4 DEF NormalizedRowOK
  <2> QED BY <1>1, <2>1, <2>2 DEF Affordable
<1>5. ASSUME NEW p \in Int, Affordable(exactMicros(p), TokenUnit), exactMicros(p) # Absent
      PROVE  /\ exactMicros(p) \in Nat
             /\ ceilingProduct(exactMicros(p), MaxUsage, TokenUnit) <= MaxInt64
  <2>1. p >= 0 /\ exactMicros(p) = p \div Precision
    BY <1>5 DEF exactMicros
  <2>2. p \div Precision \in Nat
    <3>1. Precision \in Nat \ {0} BY PricingAssumption
    <3> DEFINE k == p \div Precision
    <3>2. k \in Int /\ k * Precision <= p /\ p < (k + 1) * Precision
      BY <3>1
    <3> HIDE DEF k
    <3>3. k \in Nat
      BY <3>1, <3>2, <2>1
    <3> QED BY <3>3 DEF k
  <2> QED BY <1>0, <1>5, <2>1, <2>2 DEF Affordable
<1>6. ASSUME NEW b, NEW p \in Int, Affordable(exactMicros(p), TokenUnit), exactMicros(p) # Absent,
             NEW r, r = TokenRow(b, exactMicros(p))
      PROVE  /\ r.price \in Nat /\ r.unit \in Nat \ {0} /\ r.maximum \in Int
             /\ ceilingProduct(r.price, MaxUsage, r.unit) <= MaxInt64
             /\ r.maximum = Absent /\ r.applicability = "request"
  <2>1. /\ exactMicros(p) \in Nat
        /\ ceilingProduct(exactMicros(p), MaxUsage, TokenUnit) <= MaxInt64
    BY <1>5, <1>6
  <2>2. r.price = exactMicros(p) /\ r.unit = TokenUnit /\ r.maximum = Absent /\ r.applicability = "request"
    BY <1>6, TokenRowFields
  <2> QED BY <1>0, <2>1, <2>2 DEF Absent
<1>7. /\ list.input \in Int /\ Affordable(exactMicros(list.input), TokenUnit)
      /\ list.output \in Int /\ Affordable(exactMicros(list.output), TokenUnit)
  BY ListAssumption, SMT DEF TokenUnit
<1>8. ASSUME NEW r \in s.charges
      PROVE  /\ r.price \in Nat /\ r.unit \in Nat \ {0} /\ r.maximum \in Int
             /\ ceilingProduct(r.price, MaxUsage, r.unit) <= MaxInt64
             /\ r.basis \in {"input_tokens", "output_tokens"} =>
                  r.maximum = Absent /\ r.applicability = "request"
  <2>1. CASE r \in list.charges BY <1>4, <2>1
  <2>2. CASE r = TokenRow("input_tokens", exactMicros(list.input)) BY <1>1, <1>6, <1>7, <2>2
  <2>3. CASE r = TokenRow("output_tokens", exactMicros(list.output)) BY <1>1, <1>6, <1>7, <2>3
  <2> QED BY <1>2, <1>8, <2>1, <2>2, <2>3
<1> QED BY <1>3, <1>8

\* What a request declares.
Declares(ctx) ==
    /\ ctx.input \in Int /\ ctx.output \in Int
    /\ \A b \in DOMAIN ctx.declared : ctx.declared[b] \in Int

\* The components of a reservation that was priced, one for each charged row.
LEMMA ReservedRows ==
  ASSUME NEW s, FromList(s), NEW digest, NEW ctx, Declares(ctx), NEW at,
         ReserveComponents(s, digest, ctx, at).ok
  PROVE  /\ ValidateSnapshotIntegrity(s, digest)
         /\ ReserveComponents(s, digest, ctx, at).components
              = {Component(r, ReservedQuantity(r, ctx)) : r \in Charged(s.charges)}
         /\ \A r \in Charged(s.charges) : ReservedQuantity(r, ctx) \in Nat
         /\ \A r \in s.charges : NormalizedRowOK(r)
         /\ NoDuplicates(s.charges)
<1>1. /\ ValidateSnapshot(s, digest, s.generation, at)
      /\ \A r \in Charged(s.charges) : ReservedQuantity(r, ctx) >= 0
      /\ ReserveComponents(s, digest, ctx, at).components
           = {Component(r, ReservedQuantity(r, ctx)) : r \in Charged(s.charges)}
  BY DEF ReserveComponents, Fails
<1>2. ValidateSnapshotIntegrity(s, digest)
  BY <1>1 DEF ValidateSnapshot
<1>3. (\A r \in s.charges : NormalizedRowOK(r)) /\ NoDuplicates(s.charges)
  BY <1>2 DEF ValidateSnapshotIntegrity, Partition
<1>4. ASSUME NEW r \in Charged(s.charges) PROVE ReservedQuantity(r, ctx) \in Int
  <2>1. r.maximum \in Int
    BY <1>3, RowsOfList DEF Charged
  <2>2. Absent \in Int
    BY DEF Absent
  <2>3. requestQuantity(r, ctx) \in Int
    <3>1. CASE r.applicability # "request"
      BY <2>1, <3>1 DEF requestQuantity
    <3>2. CASE r.applicability = "request" /\ r.basis = "input_tokens"
      BY <3>2 DEF requestQuantity, Declares
    <3>3. CASE r.applicability = "request" /\ r.basis = "output_tokens"
      BY <3>3 DEF requestQuantity, Declares
    <3>4. CASE r.applicability = "request" /\ r.basis \notin {"input_tokens", "output_tokens"}
      BY <2>2, <3>4 DEF requestQuantity, Declares
    <3> QED BY <3>1, <3>2, <3>3, <3>4
  <2> QED BY <2>1, <2>3 DEF ReservedQuantity
<1> QED BY <1>1, <1>2, <1>3, <1>4

\* The cost of a set of components, one for each of the rows.
LEMMA CostOfRows ==
  ASSUME NEW rows, IsFiniteSet(rows), NoDuplicates(rows), NEW q,
         \A r \in rows : q[r] \in Nat /\ r.price \in Nat /\ r.unit \in Nat \ {0}
  PROVE  /\ SumComponents({Component(r, q[r]) : r \in rows}) \in Nat
         /\ SumComponents({Component(r, q[r]) : r \in rows})
              = SumOver([r \in rows |-> ceilingProduct(r.price, q[r], r.unit)], rows)
<1> DEFINE e == [r \in rows |-> Component(r, q[r])]
           C == {Component(r, q[r]) : r \in rows}
           f == [c \in C |-> c.micros]
           g == [r \in rows |-> ceilingProduct(r.price, q[r], r.unit)]
<1>1. C = {e[r] : r \in rows}
  OBVIOUS
<1>2. \A x, y \in rows : e[x] = e[y] => x = y
  <2>1. \A x \in rows : e[x].basis = x.basis
    BY DEF Component
  <2> QED BY <2>1 DEF NoDuplicates
<1>3. \A r \in rows : g[r] \in Nat
  BY CeilingGrows
<1>4. \A r \in rows : f[e[r]] = g[r]
  BY DEF Component
<1>5. SumComponents(C) = SumOver(f, C)
  BY DEF SumComponents
<1> HIDE DEF C, e, f, g
<1>6. SumOver(f, C) = SumOver(g, rows)
  <2>1. \A r \in rows : g[r] \in Int /\ f[e[r]] = g[r]
    BY <1>3, <1>4
  <2> QED BY <1>1, <1>2, <2>1, SumImage
<1>7. SumOver(g, rows) \in Nat
  BY <1>3, SumNat
<1> QED BY <1>5, <1>6, <1>7 DEF C, g

\* Usage on the charged bases is priced against the rows that were reserved,
\* and if no quantity exceeds its bound costs no more than the reservation.
LEMMA SettlementSound ==
  ASSUME NEW s, FromList(s), NEW digest, NEW ctx, Declares(ctx), NEW at,
         ReserveComponents(s, digest, ctx, at).ok,
         NEW reserved, reserved = ReserveComponents(s, digest, ctx, at).components,
         NEW B, B \subseteq {c.basis : c \in reserved},
         NEW usage \in [B -> 0 .. MaxUsage],
         NEW settled, settled = SettleComponents(s, digest, reserved, usage)
  PROVE  /\ settled.ok
         /\ settled.exceeded <=> \E b \in B : usage[b] > ReservedOf(reserved, b)
         /\ SumComponents(settled.components) \in Nat
         /\ SumComponents(reserved) \in Nat
         /\ ~settled.exceeded => SumComponents(settled.components) <= SumComponents(reserved)
<1> DEFINE rows == Charged(s.charges)
           priced == {r \in rows : r.basis \in DOMAIN usage}
           q == [r \in rows |-> ReservedQuantity(r, ctx)]
           u == [r \in priced |-> usage[r.basis]]
           actual == {Component(r, usage[r.basis]) : r \in priced}
<1>1. /\ ValidateSnapshotIntegrity(s, digest)
      /\ reserved = {Component(r, ReservedQuantity(r, ctx)) : r \in rows}
      /\ \A r \in rows : ReservedQuantity(r, ctx) \in Nat
      /\ \A r \in s.charges : NormalizedRowOK(r)
      /\ NoDuplicates(s.charges)
  BY ReservedRows
<1>2. rows \subseteq s.charges /\ priced \subseteq rows
  BY DEF Charged
<1>3. /\ IsFiniteSet(rows) /\ IsFiniteSet(priced)
      /\ \A r \in rows : /\ r.price \in Nat /\ r.unit \in Nat \ {0}
                         /\ ceilingProduct(r.price, MaxUsage, r.unit) <= MaxInt64
                         /\ r.basis \in AllBases
  <2>1. IsFiniteSet(s.charges)
    BY <1>1, RowsOfList
  <2>2. IsFiniteSet(rows) /\ IsFiniteSet(priced)
    BY <1>2, <2>1, FS_Subset
  <2>3. ASSUME NEW r \in rows
        PROVE  /\ r.price \in Nat /\ r.unit \in Nat \ {0}
               /\ ceilingProduct(r.price, MaxUsage, r.unit) <= MaxInt64
               /\ r.basis \in AllBases
    <3>1. r \in s.charges BY <1>2, <2>3
    <3>2. r.basis \in AllBases BY <1>1, <3>1 DEF NormalizedRowOK
    <3> QED BY <1>1, <3>1, <3>2, RowsOfList
  <2> QED BY <2>2, <2>3
<1>4. NoDuplicates(rows) /\ NoDuplicates(priced)
  BY <1>1, <1>2 DEF NoDuplicates
<1>5. DOMAIN usage = B /\ \A b \in B : usage[b] \in Nat /\ usage[b] <= MaxUsage
  BY AdmissionBounds
<1>6. /\ reserved = {Component(r, q[r]) : r \in rows}
      /\ actual = {Component(r, u[r]) : r \in priced}
      /\ \A r \in rows : q[r] \in Nat /\ q[r] = ReservedQuantity(r, ctx)
      /\ \A r \in priced : u[r] = usage[r.basis] /\ u[r] \in Nat /\ u[r] <= MaxUsage
  BY <1>1, <1>5
<1>7. \A r, x : (Component(r, x)).basis = r.basis /\ (Component(r, x)).quantity = x
                /\ (Component(r, x)).price = r.price /\ (Component(r, x)).unit = r.unit
                /\ (Component(r, x)).micros = ceilingProduct(r.price, x, r.unit)
  BY DEF Component
<1>8. \A b \in B : \E r \in priced : r.basis = b
  <2>1. SUFFICES ASSUME NEW b \in B PROVE \E r \in priced : r.basis = b
    OBVIOUS
  <2>2. PICK c \in reserved : c.basis = b
    OBVIOUS
  <2>3. PICK r \in rows : c = Component(r, q[r])
    BY <1>6
  <2>4. r.basis = b
    BY <1>7, <2>2, <2>3
  <2> QED BY <1>5, <2>4
<1>9. \A r \in rows : ReservedOf(reserved, r.basis) = q[r]
  <2>1. SUFFICES ASSUME NEW r \in rows PROVE ReservedOf(reserved, r.basis) = q[r]
    OBVIOUS
  <2> DEFINE c == RowOf(reserved, r.basis)
  <2>2. \E d \in reserved : d.basis = r.basis
    BY <1>6, <1>7
  <2>3. c \in reserved /\ c.basis = r.basis
    BY <2>2 DEF RowOf
  <2> HIDE DEF c
  <2>4. PICK t \in rows : c = Component(t, q[t])
    BY <1>6, <2>3
  <2>5. t = r
    BY <1>4, <1>7, <2>3, <2>4 DEF NoDuplicates
  <2>6. c.quantity = q[r]
    BY <1>7, <2>4, <2>5
  <2> QED BY <2>6 DEF ReservedOf, c
<1>10. NoDuplicates(reserved)
  <2>1. SUFFICES ASSUME NEW c \in reserved, NEW d \in reserved, c.basis = d.basis PROVE c = d
    BY DEF NoDuplicates
  <2>2. PICK r \in rows : c = Component(r, q[r]) BY <1>6
  <2>3. PICK t \in rows : d = Component(t, q[t]) BY <1>6
  <2>4. r = t
    BY <1>4, <1>7, <2>1, <2>2, <2>3 DEF NoDuplicates
  <2> QED BY <2>2, <2>3, <2>4
<1>11. \A r \in rows : Matches(r, reserved)
  BY <1>6, <1>7 DEF Matches
<1>12. Quantified(actual)
  <2>1. SUFFICES ASSUME NEW c \in actual PROVE c.quantity >= 0 /\ c.micros <= MaxInt64
    BY DEF Quantified
  <2>2. PICK r \in priced : c = Component(r, u[r])
    BY <1>6
  <2>3. c.quantity = u[r] /\ c.micros = ceilingProduct(r.price, u[r], r.unit)
    BY <1>7, <2>2
  <2>4. u[r] \in Nat /\ u[r] <= MaxUsage /\ MaxUsage \in Nat /\ MaxInt64 \in Nat
    BY <1>6, AdmissionBounds, PricingAssumption
  <2>5. /\ r.price \in Nat /\ r.unit \in Nat \ {0}
        /\ ceilingProduct(r.price, MaxUsage, r.unit) <= MaxInt64
    BY <1>2, <1>3
  <2>6. /\ ceilingProduct(r.price, u[r], r.unit) \in Nat
        /\ ceilingProduct(r.price, MaxUsage, r.unit) \in Nat
        /\ ceilingProduct(r.price, u[r], r.unit) <= ceilingProduct(r.price, MaxUsage, r.unit)
    BY <2>4, <2>5, CeilingGrows
  <2> QED BY <2>3, <2>4, <2>5, <2>6
<1>13. DOMAIN usage \subseteq Bases(rows)
  BY <1>2, <1>5, <1>8 DEF Bases
<1>14. canonicalUsage(usage)
  <2>1. \A b \in B : b \in AllBases
    BY <1>2, <1>3, <1>8
  <2> QED BY <1>5, <2>1 DEF canonicalUsage
<1>15. settled = [ok |-> TRUE, components |-> actual,
                  missing |-> Bases(rows) \ DOMAIN usage,
                  exceeded |-> \E c \in actual : c.quantity > ReservedOf(reserved, c.basis)]
  BY <1>1, <1>10, <1>11, <1>12, <1>13, <1>14 DEF SettleComponents
<1>16. /\ settled.ok /\ settled.components = actual
       /\ settled.exceeded <=> \E c \in actual : c.quantity > ReservedOf(reserved, c.basis)
  BY <1>15
<1> HIDE DEF rows, priced, q, u, actual
<1>17. settled.exceeded <=> \E b \in B : usage[b] > ReservedOf(reserved, b)
  <2>1. ASSUME NEW c \in actual, c.quantity > ReservedOf(reserved, c.basis)
        PROVE  \E b \in B : usage[b] > ReservedOf(reserved, b)
    <3>1. PICK r \in priced : c = Component(r, u[r])
      BY <1>6, <2>1
    <3>2. r.basis \in B /\ u[r] = usage[r.basis]
      BY <1>5, <1>6 DEF priced
    <3>3. c.basis = r.basis /\ c.quantity = u[r]
      BY <1>7, <3>1
    <3> QED BY <2>1, <3>2, <3>3
  <2>2. ASSUME NEW b \in B, usage[b] > ReservedOf(reserved, b)
        PROVE  \E c \in actual : c.quantity > ReservedOf(reserved, c.basis)
    <3>1. PICK r \in priced : r.basis = b
      BY <1>8, <2>2
    <3>2. Component(r, u[r]) \in actual
      BY <1>6
    <3>3. (Component(r, u[r])).basis = b /\ (Component(r, u[r])).quantity = usage[b]
      BY <1>6, <1>7, <3>1
    <3> QED BY <2>2, <3>2, <3>3
  <2> QED BY <1>16, <2>1, <2>2
<1> DEFINE f == [r \in rows |-> ceilingProduct(r.price, q[r], r.unit)]
           g == [r \in priced |-> ceilingProduct(r.price, u[r], r.unit)]
<1>18. SumComponents(reserved) \in Nat /\ SumComponents(reserved) = SumOver(f, rows)
  BY <1>3, <1>4, <1>6, CostOfRows
<1>19. SumComponents(actual) \in Nat /\ SumComponents(actual) = SumOver(g, priced)
  BY <1>2, <1>3, <1>4, <1>6, CostOfRows
<1>20. ASSUME ~settled.exceeded PROVE SumComponents(actual) <= SumComponents(reserved)
  <2>1. ASSUME NEW r \in rows PROVE f[r] \in Nat
    BY <1>3, <1>6, <2>1, CeilingGrows
  <2>2. ASSUME NEW r \in priced PROVE f[r] \in Int /\ g[r] \in Int /\ g[r] <= f[r]
    <3>1. r \in rows /\ u[r] \in Nat /\ q[r] \in Nat /\ r.price \in Nat /\ r.unit \in Nat \ {0}
      BY <1>2, <1>3, <1>6, <2>2
    <3>2. u[r] <= q[r]
      <4>1. r.basis \in B /\ u[r] = usage[r.basis]
        BY <1>5, <1>6, <2>2 DEF priced
      <4>2. ReservedOf(reserved, r.basis) = q[r]
        BY <1>9, <3>1
      <4>3. ~(u[r] > q[r])
        BY <1>17, <1>20, <4>1, <4>2
      <4> QED BY <3>1, <4>3
    <3>3. /\ ceilingProduct(r.price, u[r], r.unit) \in Nat
          /\ ceilingProduct(r.price, q[r], r.unit) \in Nat
          /\ ceilingProduct(r.price, u[r], r.unit) <= ceilingProduct(r.price, q[r], r.unit)
      BY <3>1, <3>2, CeilingGrows
    <3>4. /\ f[r] = ceilingProduct(r.price, q[r], r.unit)
          /\ g[r] = ceilingProduct(r.price, u[r], r.unit)
      BY <2>2, <3>1
    <3> QED BY <3>3, <3>4
  <2> HIDE DEF f, g
  <2>3. SumOver(g, priced) <= SumOver(f, priced)
    BY <1>3, <2>2, SumAtMost
  <2>4. SumOver(f, rows) = SumOver(f, rows \ priced) + SumOver(f, priced)
    <3>1. \A r \in rows : f[r] \in Int BY <2>1
    <3> QED BY <1>2, <1>3, <3>1, SumSplit
  <2>5. SumOver(f, rows \ priced) \in Nat
    <3>1. IsFiniteSet(rows \ priced) BY <1>3, FS_Subset
    <3> QED BY <2>1, <3>1, SumNat
  <2>6. SumOver(f, priced) \in Nat
    BY <1>2, <1>3, <2>1, SumNat
  <2> QED BY <1>18, <1>19, <2>3, <2>4, <2>5, <2>6
<1> QED BY <1>16, <1>17, <1>18, <1>19, <1>20

\* The amount of a reservation.
LEMMA ReservationNat ==
  ASSUME NEW s, FromList(s), NEW digest, NEW ctx, Declares(ctx), NEW at,
         ReserveComponents(s, digest, ctx, at).ok
  PROVE  SumComponents(ReserveComponents(s, digest, ctx, at).components) \in Nat
<1> DEFINE rows == Charged(s.charges)
           q == [r \in rows |-> ReservedQuantity(r, ctx)]
<1>1. /\ ReserveComponents(s, digest, ctx, at).components
           = {Component(r, ReservedQuantity(r, ctx)) : r \in rows}
      /\ \A r \in rows : ReservedQuantity(r, ctx) \in Nat
      /\ \A r \in s.charges : NormalizedRowOK(r)
      /\ NoDuplicates(s.charges)
  BY ReservedRows
<1>2. rows \subseteq s.charges
  BY DEF Charged
<1>3. IsFiniteSet(s.charges) /\ \A r \in s.charges : r.price \in Nat /\ r.unit \in Nat \ {0}
  BY <1>1, RowsOfList
<1>4. IsFiniteSet(rows) /\ NoDuplicates(rows)
  BY <1>1, <1>2, <1>3, FS_Subset DEF NoDuplicates
<1>5. \A r \in rows : q[r] \in Nat /\ r.price \in Nat /\ r.unit \in Nat \ {0}
  BY <1>1, <1>2, <1>3
<1>6. ReserveComponents(s, digest, ctx, at).components = {Component(r, q[r]) : r \in rows}
  BY <1>1
<1> HIDE DEF rows, q
<1>7. SumComponents({Component(r, q[r]) : r \in rows}) \in Nat
  BY <1>4, <1>5, CostOfRows
<1> QED BY <1>6, <1>7

-----------------------------------------------------------------------------
(* Candidates and offers *)

\* A set of indices that is not empty has a least one.
LEMMA LeastIndex ==
  ASSUME NEW n, NEW S, S \subseteq 1 .. n, S # {}
  PROVE  \E i \in S : \A j \in S : i <= j
<1>1. S \subseteq Nat
  OBVIOUS
<1>2. IsWellFoundedOn(OpToRel(<, Nat), Nat)
  BY NatLessThanWellFounded
<1>3. PICK i \in S : \A j \in S : ~(<<j, i>> \in OpToRel(<, Nat))
  BY <1>1, <1>2, WFMin
<1>4. ASSUME NEW j \in S PROVE i <= j
  <2>1. i \in Nat /\ j \in Nat
    BY <1>1, <1>4
  <2>2. ~(j < i)
    BY <1>3, <1>4, <2>1 DEF OpToRel
  <2> QED BY <2>1, <2>2
<1> QED BY <1>4

\* If no check is reported to fail, all hold.
LEMMA NoFailure ==
  ASSUME NEW n, NEW checks, DOMAIN checks = 1 .. n,
         \A i \in 1 .. n : checks[i][2] = Empty => checks[i][1],
         FirstFailure(checks) = Empty
  PROVE  \A i \in 1 .. n : checks[i][1]
<1> DEFINE failed == {i \in DOMAIN checks : ~checks[i][1]}
           first == CHOOSE i \in failed : \A j \in failed : i <= j
<1>1. SUFFICES ASSUME failed # {} PROVE FALSE
  OBVIOUS
<1>2. failed \subseteq 1 .. n
  BY Zenon
<1> HIDE DEF failed
<1>3. \E i \in failed : \A j \in failed : i <= j
  BY <1>1, <1>2, LeastIndex, Zenon
<1>4. first \in failed
  BY <1>3
<1> HIDE DEF first
<1>5. FirstFailure(checks) = checks[first][2]
  BY <1>1 DEF FirstFailure, failed, first
<1>6. ~checks[first][1] /\ first \in 1 .. n
  BY <1>2, <1>4 DEF failed
<1> QED BY <1>5, <1>6

\* A feasible candidate has a priced provider with a route binding, and a
\* verified cap is one of the provider's deployment.
LEMMA CandidateSound ==
  ASSUME NEW req, NEW model, NEW provider, NEW at,
         NEW c, c = BuildCandidate(req, model, provider, at)
  PROVE  /\ c.ref = model.ref /\ c.context = model.context /\ c.quality = model.quality
         /\ c.snapshot = provider.snapshot /\ c.digest = provider.digest
         /\ c.latency \in {model.latency, Absent}
         /\ c.feasible <=> c.reason = Empty
         /\ c.feasible => provider.priced /\ provider.deployment # Empty
         /\ c.verified => model.cap.present /\ model.cap.deployment = provider.deployment
<1> DEFINE checks == <<
          <<provider.present, "provider_unavailable">>,
          <<model.wellFormed /\ provider.wellFormed, "not_routable">>,
          <<matchesTarget(req, model), "workload_target_mismatch">>,
          <<model.observed = model.generation /\ model.ready, "model_not_ready">>,
          <<provider.observed = provider.generation /\ provider.ready, "provider_unavailable">>,
          <<model.routable /\ providerRouteBinding(provider)
            /\ OutputCapSupported(provider.type, provider.pathMode), "not_routable">>,
          <<~req.sensitive \/ model.sensitive \/ provider.sensitive, "governance_infeasible">>,
          <<req.zones = {} \/ zoneAllowed(req.zones, provider.residency, provider.region),
            "governance_infeasible">>,
          <<Fresh(model.evaluatedAt, at), "quality_stale">>,
          <<model.context > 0 /\ provider.priced, "pricing_incomplete">>,
          <<provider.priced /\ ValidateSnapshot(provider.snapshot, provider.digest,
                                                provider.generation, at), "pricing_stale">> >>
           reason == FirstFailure(checks)
<1>1. /\ c.ref = model.ref /\ c.context = model.context /\ c.quality = model.quality
      /\ c.snapshot = provider.snapshot /\ c.digest = provider.digest
      /\ c.feasible = (reason = Empty) /\ c.reason = reason
      /\ c.verified = VerifiedOutputCap(model, provider, at)
      /\ c.latency \in {model.latency, Absent}
  BY DEF BuildCandidate
<1>2. DOMAIN checks = 1 .. 11 /\ \A i \in 1 .. 11 : checks[i][2] # Empty
  BY DEF Empty
<1>3. /\ checks[6][1] = (model.routable /\ providerRouteBinding(provider)
                          /\ OutputCapSupported(provider.type, provider.pathMode))
      /\ checks[10][1] = (model.context > 0 /\ provider.priced)
  OBVIOUS
<1> HIDE DEF checks
<1>4. ASSUME reason = Empty PROVE provider.priced /\ provider.deployment # Empty
  <2>1. \A i \in 1 .. 11 : checks[i][1]
    BY <1>2, <1>4, NoFailure
  <2>2. checks[6][1] /\ checks[10][1]
    BY <2>1
  <2> QED BY <1>3, <2>2 DEF providerRouteBinding
<1>5. ASSUME VerifiedOutputCap(model, provider, at)
      PROVE  model.cap.present /\ model.cap.deployment = provider.deployment
  BY <1>5 DEF VerifiedOutputCap, SameProvider
<1> QED BY <1>1, <1>4, <1>5

\* The numbers of a request and of its routing policy.
Numeric(req, routing) ==
    /\ req.exact \in BOOLEAN /\ req.input \in Int /\ req.maxOutput \in Int
    /\ \A b \in DOMAIN req.declared : req.declared[b] \in Int
    /\ routing.mean \in Int /\ routing.margin \in Int
    /\ routing.quantile \in Int /\ routing.adaptive \in Int

\* Tokens that a method grants; a strict one grants the output cap, which is
\* verified.
Granted(t, req, c) ==
    t.reason = Empty =>
        /\ t.tokens \in Int
        /\ IsStrict(t.method) => t.tokens = req.maxOutput /\ c.verified

LEMMA StrictGranted ==
  ASSUME NEW req, req.maxOutput \in Int, NEW c, NEW fallback
  PROVE  Granted(Strict(req, c, fallback), req, c)
BY DEF Empty, Granted, Strict, Tokens, Refused

LEMMA RefusedGranted ==
  ASSUME NEW req, NEW c, NEW method, NEW reason, reason # Empty
  PROVE  Granted(Refused(method, reason), req, c)
BY DEF Granted, Refused

LEMMA ClampGranted ==
  ASSUME NEW req, req.maxOutput \in Int, NEW c, NEW v \in Int, NEW method, ~IsStrict(method)
  PROVE  Granted(Tokens(Smaller(v, req.maxOutput), method, Empty), req, c)
BY DEF Granted, Tokens, Smaller

\* An estimate is granted by a method that is not strict.
LEMMA EstimateGranted ==
  ASSUME NEW req, NEW routing, Numeric(req, routing), NEW c,
         NEW method, method # "strict_provider_cap"
  PROVE  Granted(Estimated(req, routing, c, method), req, c)
<1> DEFINE t == Estimated(req, routing, c, method)
           invalid == validateCalibrationEvidence(routing.evidence)
           Clamped(v) == Tokens(Smaller(v, req.maxOutput), method, Empty)
           uncalibrated == Refused(method, "insufficient_calibration")
<1>1. /\ req.maxOutput \in Int /\ routing.mean \in Int /\ routing.margin \in Int
      /\ routing.quantile \in Int /\ routing.adaptive \in Int
      /\ routing.mean + routing.margin \in Int
  BY DEF Numeric
<1>2. Granted(uncalibrated, req, c)
  BY RefusedGranted DEF Empty
<1>3. ASSUME NEW v \in Int, ~IsStrict(method) PROVE Granted(Clamped(v), req, c)
  BY <1>1, <1>3, ClampGranted
<1>4. CASE method = "mean"
  <2>1. t \in {uncalibrated, Clamped(routing.mean)}
    BY <1>4 DEF Estimated
  <2>2. ~IsStrict(method) BY <1>4 DEF IsStrict
  <2> HIDE DEF t, Clamped, uncalibrated
  <2> QED BY <1>1, <1>2, <1>3, <2>1, <2>2 DEF t
<1>5. CASE method = "fixed_margin"
  <2>1. t \in {uncalibrated, Clamped(routing.mean + routing.margin)}
    BY <1>5 DEF Estimated
  <2>2. ~IsStrict(method) BY <1>5 DEF IsStrict
  <2> HIDE DEF t, Clamped, uncalibrated
  <2> QED BY <1>1, <1>2, <1>3, <2>1, <2>2 DEF t
<1>6. CASE method = "fixed_quantile"
  <2>1. t \in {uncalibrated, Clamped(routing.quantile)}
    BY <1>6 DEF Estimated
  <2>2. ~IsStrict(method) BY <1>6 DEF IsStrict
  <2> HIDE DEF t, Clamped, uncalibrated
  <2> QED BY <1>1, <1>2, <1>3, <2>1, <2>2 DEF t
<1>7. CASE method \in {"adaptive_quantile", "govar_fixed_cohort"}
  <2>1. \/ t \in {uncalibrated, Clamped(routing.adaptive), Strict(req, c, invalid)}
        \/ invalid # Empty /\ t = Refused(method, invalid)
    BY <1>7 DEF Estimated
  <2>2. ~IsStrict(method) BY <1>7 DEF IsStrict
  <2>3. Granted(Strict(req, c, invalid), req, c)
    BY <1>1, StrictGranted
  <2>4. invalid # Empty => Granted(Refused(method, invalid), req, c)
    BY RefusedGranted
  <2> HIDE DEF t, Clamped, uncalibrated, invalid
  <2> QED BY <1>1, <1>2, <1>3, <2>1, <2>2, <2>3, <2>4 DEF t
<1>8. CASE method \notin {"mean", "fixed_margin", "fixed_quantile", "adaptive_quantile",
                          "govar_fixed_cohort"}
  <2>1. t = Refused(method, "reservation_method_unknown")
    BY <1>8 DEF Estimated
  <2> QED BY <2>1, RefusedGranted DEF Empty
<1> QED BY <1>4, <1>5, <1>6, <1>7, <1>8

\* Whatever the method and its evidence.
LEMMA TokensGranted ==
  ASSUME NEW req, NEW routing, Numeric(req, routing), NEW c
  PROVE  Granted(reservationTokens(req, routing, c), req, c)
<1>1. req.maxOutput \in Int
  BY DEF Numeric
<1>2. ASSUME routing.method = Empty
      PROVE  \/ reservationTokens(req, routing, c)
                  = Refused("strict_provider_cap", "insufficient_evidence")
             \/ reservationTokens(req, routing, c) = Strict(req, c, Empty)
  <2>1. CASE req.maxOutput <= 0
    BY <1>2, <2>1 DEF reservationTokens
  <2>2. CASE req.maxOutput > 0
    BY <1>1, <1>2, <2>2 DEF reservationTokens
  <2> QED BY <1>1, <2>1, <2>2
<1>3. ASSUME routing.method # Empty
      PROVE  \/ reservationTokens(req, routing, c)
                  = Refused(routing.method, "insufficient_evidence")
             \/ reservationTokens(req, routing, c) = Strict(req, c, Empty)
             \/ reservationTokens(req, routing, c) = Strict(req, c, "input_bound_fallback")
             \/ /\ routing.method # "strict_provider_cap"
                /\ reservationTokens(req, routing, c)
                     = Estimated(req, routing, c, routing.method)
  <2>1. reservationTokens(req, routing, c) =
          CASE req.maxOutput <= 0 -> Refused(routing.method, "insufficient_evidence")
            [] req.maxOutput > 0 /\ routing.method = "strict_provider_cap" ->
                 Strict(req, c, Empty)
            [] req.maxOutput > 0 /\ routing.method # "strict_provider_cap" /\ ~req.exact ->
                 Strict(req, c, "input_bound_fallback")
            [] OTHER -> Estimated(req, routing, c, routing.method)
    BY <1>3 DEF reservationTokens
  <2>2. CASE req.maxOutput <= 0
    BY <2>1, <2>2
  <2>3. CASE req.maxOutput > 0 /\ routing.method = "strict_provider_cap"
    BY <1>1, <2>1, <2>3
  <2>4. CASE req.maxOutput > 0 /\ routing.method # "strict_provider_cap" /\ ~req.exact
    BY <1>1, <2>1, <2>4
  <2>5. CASE req.maxOutput > 0 /\ routing.method # "strict_provider_cap" /\ req.exact
    BY <1>1, <2>1, <2>5
  <2> QED BY <1>1, <2>2, <2>3, <2>4, <2>5
<1> QED BY <1>1, <1>2, <1>3, RefusedGranted, StrictGranted, EstimateGranted DEF Empty

\* Guardrails pass only feasible candidates.
LEMMA GuardedFeasible ==
  ASSUME NEW req, NEW routing, NEW c, c.feasible <=> c.reason = Empty,
         GuardFailure(req, routing, c) = Empty
  PROVE  c.feasible
<1> DEFINE a2 == c.quality >= routing.minQuality
           a3 == (routing.maxLatency > 0 \/ routing.objective = "latency") => c.latency # Absent
           a4 == routing.maxLatency > 0 => c.latency <= routing.maxLatency
           a5 == c.context > 0 /\ (IF req.exact THEN req.input + req.maxOutput <= c.context
                                   ELSE req.maxOutput < c.context)
           checks == << <<c.feasible, c.reason>>, <<a2, "quality_below_minimum">>,
                        <<a3, "latency_unavailable">>, <<a4, "latency_exceeded">>,
                        <<a5, "context_limit">> >>
<1>1. FirstFailure(checks) = Empty
  BY Zenon DEF GuardFailure
<1> HIDE DEF a2, a3, a4, a5
<1>2. DOMAIN checks = 1 .. 5 /\ 1 \in 1 .. 5
  OBVIOUS
<1>3. checks[1][1] = c.feasible /\ checks[1][2] = c.reason
  OBVIOUS
<1>4. /\ checks[2][2] # Empty /\ checks[3][2] # Empty
      /\ checks[4][2] # Empty /\ checks[5][2] # Empty
  BY DEF Empty
<1> HIDE DEF checks
<1>5. \A i \in 1 .. 5 : i = 1 \/ i = 2 \/ i = 3 \/ i = 4 \/ i = 5
  OBVIOUS
<1>6. \A i \in 1 .. 5 : checks[i][2] = Empty => checks[i][1]
  BY <1>3, <1>4, <1>5, Zenon
<1>7. \A i \in 1 .. 5 : checks[i][1]
  BY <1>1, <1>2, <1>6, NoFailure, Zenon
<1> QED BY <1>2, <1>3, <1>7, Zenon

\* An offer without a reason is one of a feasible candidate, priced at its
\* bounds.
LEMMA OfferSound ==
  ASSUME NEW req, NEW routing, Numeric(req, routing), NEW c, c.context \in Int,
         c.feasible <=> c.reason = Empty, NEW at,
         NEW o, o = Offer(req, routing, c, at)
  PROVE  /\ o.ref = c.ref /\ o.candidate = c
         /\ o.reason = Empty => c.feasible /\ PricedAt(o, req, at) /\ Bounded(o, req)
<1> DEFINE guard == GuardFailure(req, routing, c)
           tokens == reservationTokens(req, routing, c)
           whole == IsStrict(tokens.method) /\ ~req.exact
           input == IF whole THEN c.context - tokens.tokens ELSE req.input
           priced == ReserveComponents(c.snapshot, c.digest,
                       [input |-> input, output |-> tokens.tokens,
                        declared |-> req.declared], at)
           sum == SumComponents(priced.components)
           reason == CASE guard # Empty -> guard
                       [] guard = Empty /\ tokens.reason # Empty -> tokens.reason
                       [] OTHER -> IF priced.ok THEN IF sum > MaxInt64 THEN "pricing_error" ELSE Empty
                                   ELSE "pricing_error"
           accepted == [ref |-> c.ref, reason |-> Empty, candidate |-> c, reservation |-> sum,
                        method |-> IF whole THEN "strict_context_window_bound" ELSE tokens.method,
                        fallback |-> tokens.fallback, inputBound |-> input,
                        outputBound |-> tokens.tokens]
<1>1. o = IF reason # Empty THEN [ref |-> c.ref, reason |-> reason, candidate |-> c] ELSE accepted
  BY DEF Offer, Quote
<1>2. Granted(tokens, req, c)
  BY TokensGranted
<1>3. o.ref = c.ref /\ o.candidate = c /\ o.reason = reason
  <2> HIDE DEF reason, sum, whole, input, tokens
  <2>1. CASE reason = Empty BY <1>1, <2>1
  <2>2. CASE reason # Empty BY <1>1, <2>2
  <2> QED BY <2>1, <2>2
<1> HIDE DEF guard, tokens, priced, sum
<1>4. ASSUME reason = Empty PROVE c.feasible /\ PricedAt(o, req, at) /\ Bounded(o, req)
  <2>1. guard = Empty /\ tokens.reason = Empty /\ priced.ok
    BY <1>4 DEF Empty
  <2>2. c.feasible
    BY <2>1, GuardedFeasible DEF guard
  <2>3. /\ o.candidate = c /\ o.reservation = sum /\ o.inputBound = input
        /\ o.outputBound = tokens.tokens
        /\ o.method = IF whole THEN "strict_context_window_bound" ELSE tokens.method
    <3> HIDE DEF reason, whole, input
    <3>1. o = accepted
      BY <1>1, <1>4
    <3> QED BY <3>1
  <2>4. /\ req.exact \in BOOLEAN /\ req.input \in Int /\ tokens.tokens \in Int
        /\ IsStrict(tokens.method) => tokens.tokens = req.maxOutput /\ c.verified
    BY <1>2, <2>1 DEF Numeric, Granted
  <2>5. input \in Int
    BY <2>4
  <2>6. PricedAt(o, req, at)
    BY <2>1, <2>3, <2>4, <2>5 DEF PricedAt, priced, sum
  <2>7. ASSUME IsStrict(o.method)
        PROVE  /\ o.candidate.verified /\ o.outputBound = req.maxOutput
               /\ req.exact => o.inputBound = req.input
               /\ ~req.exact => o.inputBound = o.candidate.context - req.maxOutput
    <3>1. IsStrict(tokens.method)
      BY <2>3, <2>7
    <3> QED BY <2>3, <2>4, <3>1
  <2> QED BY <2>2, <2>6, <2>7 DEF Bounded
<1> QED BY <1>3, <1>4

-----------------------------------------------------------------------------
(* The choice *)

\* What the order of the candidates compares first.
FirstKey(routing, o) ==
    CASE routing.objective = "quality" -> -o.candidate.quality
      [] routing.objective = "latency" -> o.candidate.latency
      [] OTHER -> 0

\* Lexicographic order of two triples.
Lexical(k, r, n, l, s, p) == k < l \/ (k = l /\ (r < s \/ (r = s /\ n < p)))

LEMMA BeforeIsLexical ==
  ASSUME NEW routing, NEW a, NEW b
  PROVE  Before(routing, a, b) <=> Lexical(FirstKey(routing, a), a.reservation, a.ref,
                                           FirstKey(routing, b), b.reservation, b.ref)
<1> DEFINE k == <<FirstKey(routing, a), a.reservation, a.ref>>
           l == <<FirstKey(routing, b), b.reservation, b.ref>>
<1>1. Before(routing, a, b) <=> \E i \in 1 .. 3 : /\ k[i] < l[i]
                                                  /\ \A j \in 1 .. i - 1 : k[j] = l[j]
  BY Zenon DEF Before, FirstKey
<1>2. /\ k[1] = FirstKey(routing, a) /\ k[2] = a.reservation /\ k[3] = a.ref
      /\ l[1] = FirstKey(routing, b) /\ l[2] = b.reservation /\ l[3] = b.ref
  OBVIOUS
<1> HIDE DEF k, l
<1>3. /\ \A i \in 1 .. 3 : i = 1 \/ i = 2 \/ i = 3
      /\ 1 \in 1 .. 3 /\ 2 \in 1 .. 3 /\ 3 \in 1 .. 3
      /\ 1 .. 1 - 1 = {} /\ 1 .. 2 - 1 = {1} /\ 1 .. 3 - 1 = {1, 2}
  OBVIOUS
<1>4. (\E i \in 1 .. 3 : k[i] < l[i] /\ \A j \in 1 .. i - 1 : k[j] = l[j])
        <=> \/ k[1] < l[1]
            \/ k[2] < l[2] /\ k[1] = l[1]
            \/ k[3] < l[3] /\ k[1] = l[1] /\ k[2] = l[2]
  BY <1>3
<1> QED BY <1>1, <1>2, <1>4 DEF Lexical

\* Offers that can be compared; their references tell them apart.
Comparable(S) ==
    /\ \A o \in S : /\ o.candidate.quality \in Int /\ o.candidate.latency \in Int
                    /\ o.reservation \in Int /\ o.ref \in Int
    /\ \A o, p \in S : o.ref = p.ref => o = p

LEMMA KeyIsInt ==
  ASSUME NEW routing, NEW S, Comparable(S), NEW o \in S
  PROVE  FirstKey(routing, o) \in Int
<1>1. o.candidate.quality \in Int /\ o.candidate.latency \in Int
  BY DEF Comparable
<1> QED BY <1>1 DEF FirstKey

\* Two offers are in order one way or the other.
LEMMA BeforeTotal ==
  ASSUME NEW routing, NEW S, Comparable(S), NEW a \in S, NEW b \in S, a # b
  PROVE  Before(routing, a, b) \/ Before(routing, b, a)
<1>1. /\ FirstKey(routing, a) \in Int /\ FirstKey(routing, b) \in Int
  BY KeyIsInt
<1>2. /\ a.reservation \in Int /\ b.reservation \in Int /\ a.ref \in Int /\ b.ref \in Int
      /\ a.ref # b.ref
  BY DEF Comparable
<1> QED BY <1>1, <1>2, BeforeIsLexical DEF Lexical

LEMMA BeforeTransitive ==
  ASSUME NEW routing, NEW S, Comparable(S), NEW a \in S, NEW b \in S, NEW c \in S,
         Before(routing, a, b), Before(routing, b, c)
  PROVE  Before(routing, a, c)
<1>1. /\ FirstKey(routing, a) \in Int /\ FirstKey(routing, b) \in Int
      /\ FirstKey(routing, c) \in Int
  BY KeyIsInt
<1>2. /\ a.reservation \in Int /\ b.reservation \in Int /\ c.reservation \in Int
      /\ a.ref \in Int /\ b.ref \in Int /\ c.ref \in Int
  BY DEF Comparable
<1> QED BY <1>1, <1>2, BeforeIsLexical DEF Lexical

\* Finitely many offers have a first one.
LEMMA FirstExists ==
  ASSUME NEW routing, NEW S, IsFiniteSet(S), S # {}, Comparable(S)
  PROVE  \E o \in S : \A p \in S \ {o} : Before(routing, o, p)
<1> DEFINE First(o, A) == \A p \in A \ {o} : Before(routing, o, p)
           Bad == {A \in SUBSET S : A # {} /\ ~ \E o \in A : First(o, A)}
<1>1. SUFFICES ASSUME Bad # {} PROVE FALSE
  <2>1. S \in SUBSET S OBVIOUS
  <2> QED BY <1>1, <2>1
<1>2. PICK A \in Bad : \A B \in SUBSET A : B # A => B \notin Bad
  <2>1. Bad \subseteq SUBSET S OBVIOUS
  <2> HIDE DEF Bad
  <2> QED BY <1>1, <2>1, SmallestBad
<1>3. A \subseteq S /\ A # {} /\ \A o \in A : ~First(o, A)
  BY <1>2
<1>4. PICK x \in A : TRUE
  BY <1>3
<1> DEFINE U == A \ {x}
<1>5. U \in SUBSET A /\ U # A /\ U \in SUBSET S
  BY <1>3, <1>4
<1>6. U # {}
  <2>1. SUFFICES ASSUME U = {} PROVE FALSE
    OBVIOUS
  <2>2. First(x, A)
    BY <2>1
  <2> QED BY <1>3, <1>4, <2>2
<1>7. PICK y \in U : First(y, U)
  BY <1>2, <1>5, <1>6
<1>8. x \in S /\ y \in S /\ y # x /\ y \in A
  BY <1>3, <1>4
<1>9. CASE Before(routing, x, y)
  <2>1. ASSUME NEW p \in A \ {x} PROVE Before(routing, x, p)
    <3>1. CASE p = y BY <1>9, <3>1
    <3>2. CASE p # y
      <4>1. Before(routing, y, p) BY <1>7, <2>1, <3>2
      <4>2. p \in S BY <1>3, <2>1
      <4> QED BY <1>8, <1>9, <4>1, <4>2, BeforeTransitive
    <3> QED BY <3>1, <3>2
  <2> QED BY <1>3, <1>4, <2>1
<1>10. CASE Before(routing, y, x)
  <2>1. ASSUME NEW p \in A \ {y} PROVE Before(routing, y, p)
    BY <1>7, <1>10, <2>1
  <2> QED BY <1>3, <1>8, <2>1
<1> QED BY <1>8, <1>9, <1>10, BeforeTotal

\* The offer chosen is one that fits, and none that fits ranks better; if some
\* offer fits none is chosen only because another could not be priced.
LEMMA ChoiceSound ==
  ASSUME NEW routing, NEW offers, NEW available, DOMAIN offers = Models,
         \A i \in Models : offers[i].ref = i,
         \A i \in Models : offers[i].reason = Empty =>
             /\ offers[i].candidate.quality \in Int /\ offers[i].candidate.latency \in Int
             /\ offers[i].reservation \in Int,
         NEW chosen, chosen = chooseAdmission(routing, offers, available)
  PROVE  /\ chosen.ok =>
              \E i \in Models :
                  /\ chosen.choice = offers[i] /\ offers[i].reason = Empty
                  /\ \A m \in Models :
                        offers[m].reason = Empty /\ offers[m].reservation <= available =>
                            Rank(routing.objective, Weighed(offers[i]))
                              <= Rank(routing.objective, Weighed(offers[m]))
         /\ ~chosen.ok =>
              \A m \in Models :
                  offers[m].reason = Empty /\ offers[m].reservation <= available =>
                      chosen.reason = "pricing_incomplete"
<1> DEFINE priced == {i \in DOMAIN offers : offers[i].reason = Empty}
           indices == {j \in priced : offers[j].reservation <= available}
           fitting == {offers[i] : i \in indices}
           none(reason) == [ok |-> FALSE, reason |-> reason]
           broken == \E i \in DOMAIN offers : offers[i].reason = "pricing_error"
           best == CHOOSE o \in fitting : \A other \in fitting \ {o} : Before(routing, o, other)
<1>1. chosen = CASE broken -> none("pricing_incomplete")
                 [] offers = << >> -> none("no_candidate")
                 [] OTHER ->
                      IF fitting # {} THEN [ok |-> TRUE, reason |-> Empty, choice |-> best]
                      ELSE IF priced # {} THEN none("budget_unavailable")
                      ELSE none(offers[Len(offers)].reason)
  BY Zenon DEF chooseAdmission
<1>2. indices \subseteq Models /\ Models \subseteq Nat /\ IsFiniteSet(indices)
  <2>1. indices \subseteq Models OBVIOUS
  <2> HIDE DEF indices
  <2> QED BY <2>1, AdmissionBounds, FS_Subset
<1>3. \A m \in Models : offers[m].reason = Empty /\ offers[m].reservation <= available
                          => m \in indices
  OBVIOUS
<1>4. \A i \in indices : offers[i].reason = Empty
  OBVIOUS
<1> HIDE DEF indices
<1>5. IsFiniteSet(fitting) /\ Comparable(fitting)
  <2>1. IsFiniteSet(fitting)
    <3>1. [i \in indices |-> offers[i]] \in Surjection(indices, fitting)
      BY DEF Surjection
    <3> HIDE DEF fitting
    <3> QED BY <1>2, <3>1, FS_Surjection
  <2>2. ASSUME NEW o \in fitting
        PROVE  /\ o.candidate.quality \in Int /\ o.candidate.latency \in Int
               /\ o.reservation \in Int /\ o.ref \in Int
    <3>1. PICK i \in indices : o = offers[i] BY <2>2
    <3> QED BY <1>2, <1>4, <3>1
  <2>3. ASSUME NEW o \in fitting, NEW p \in fitting, o.ref = p.ref PROVE o = p
    <3>1. PICK i \in indices : o = offers[i] BY <2>3
    <3>2. PICK j \in indices : p = offers[j] BY <2>3
    <3>3. i = j BY <1>2, <2>3, <3>1, <3>2
    <3> QED BY <3>1, <3>2, <3>3
  <2> QED BY <2>1, <2>2, <2>3 DEF Comparable
<1>6. ASSUME fitting # {}
      PROVE  best \in fitting /\ \A p \in fitting \ {best} : Before(routing, best, p)
  <2>1. \E o \in fitting : \A p \in fitting \ {o} : Before(routing, o, p)
    <3> HIDE DEF fitting
    <3> QED BY <1>5, <1>6, FirstExists
  <2> QED BY <2>1, Zenon
<1>7. ASSUME chosen.ok PROVE fitting # {} /\ chosen.choice = best
  <2> HIDE DEF best, fitting, broken, priced
  <2> QED BY <1>1, <1>7
<1>8. ASSUME ~chosen.ok, NEW m \in Models, offers[m].reason = Empty,
             offers[m].reservation <= available
      PROVE  chosen.reason = "pricing_incomplete"
  <2>1. fitting # {}
    BY <1>3, <1>8
  <2>2. offers # << >>
    <3>1. DOMAIN << >> = {} OBVIOUS
    <3> QED BY <1>8, <3>1
  <2> HIDE DEF best, fitting, broken, priced
  <2>3. CASE broken BY <1>1, <2>3
  <2>4. CASE ~broken
    <3>1. chosen = [ok |-> TRUE, reason |-> Empty, choice |-> best]
      BY <1>1, <2>1, <2>2, <2>4
    <3> QED BY <1>8, <3>1
  <2> QED BY <2>3, <2>4
<1>9. ASSUME chosen.ok
      PROVE  \E i \in Models :
                  /\ chosen.choice = offers[i] /\ offers[i].reason = Empty
                  /\ \A m \in Models :
                        offers[m].reason = Empty /\ offers[m].reservation <= available =>
                            Rank(routing.objective, Weighed(offers[i]))
                              <= Rank(routing.objective, Weighed(offers[m]))
  <2>1. PICK i \in indices : best = offers[i]
    BY <1>6, <1>7, <1>9
  <2>2. i \in Models /\ offers[i].reason = Empty /\ chosen.choice = offers[i]
    BY <1>2, <1>4, <1>7, <1>9, <2>1
  <2>3. ASSUME NEW m \in Models, offers[m].reason = Empty, offers[m].reservation <= available
        PROVE  Rank(routing.objective, Weighed(offers[i]))
                 <= Rank(routing.objective, Weighed(offers[m]))
    <3> DEFINE o == offers[i]
               p == offers[m]
    <3>1. /\ o.candidate.quality \in Int /\ o.candidate.latency \in Int /\ o.reservation \in Int
          /\ p.candidate.quality \in Int /\ p.candidate.latency \in Int /\ p.reservation \in Int
      BY <2>2, <2>3
    <3>2. p \in fitting
      BY <1>3, <2>3
    <3>3. p = o \/ Before(routing, o, p)
      <4> HIDE DEF fitting, best, p
      <4> QED BY <1>6, <1>7, <1>9, <2>1, <3>2
    <3>4. /\ Weighed(o).quality = o.candidate.quality /\ Weighed(o).latency = o.candidate.latency
          /\ Weighed(o).reservation = o.reservation
      BY <2>2 DEF Weighed
    <3>5. /\ Weighed(p).quality = p.candidate.quality /\ Weighed(p).latency = p.candidate.latency
          /\ Weighed(p).reservation = p.reservation
      BY <2>3 DEF Weighed
    <3> HIDE DEF o, p
    <3>6. p = o \/ FirstKey(routing, o) < FirstKey(routing, p)
          \/ (FirstKey(routing, o) = FirstKey(routing, p)
              /\ (o.reservation < p.reservation \/ o.reservation = p.reservation))
      BY <3>3, BeforeIsLexical DEF Lexical
    <3>7. Rank(routing.objective, Weighed(o)) <= Rank(routing.objective, Weighed(p))
      <4>1. CASE routing.objective = "quality"
        BY <3>1, <3>4, <3>5, <3>6, <4>1 DEF Rank, FirstKey
      <4>2. CASE routing.objective = "latency"
        BY <3>1, <3>4, <3>5, <3>6, <4>2 DEF Rank, FirstKey
      <4>3. CASE routing.objective \notin {"quality", "latency"}
        BY <3>1, <3>4, <3>5, <3>6, <4>3 DEF Rank, FirstKey
      <4> QED BY <4>1, <4>2, <4>3
    <3> QED BY <3>7 DEF o, p
  <2> QED BY <2>2, <2>3
<1> QED BY <1>8, <1>9

-----------------------------------------------------------------------------
(* Edits and reconciliations *)

\* What a provider publishes was normalized from the list it declares.
LEMMA PublishedFromList ==
  ASSUME NEW spec, spec.list \in PriceLists
  PROVE  /\ Published(spec).priced \in BOOLEAN
         /\ Published(spec).priced => FromList(Published(spec).snapshot)
<1> DEFINE d == Declared(spec)
           n == Normalize(d, clock)
<1>1. /\ d.input = spec.list.input /\ d.output = spec.list.output
      /\ d.charges = spec.list.charges
  BY DEF Declared
<1> HIDE DEF d
<1>2. ASSUME n.ok PROVE FromList(n.snapshot)
  <2>1. /\ exactMicros(d.input) # Absent /\ exactMicros(d.output) # Absent
        /\ \A r \in d.charges : ChargeOK(r)
        /\ n.snapshot.charges = {TokenRow("input_tokens", exactMicros(d.input)),
                                 TokenRow("output_tokens", exactMicros(d.output))}
                                \cup d.charges
    BY <1>2 DEF Normalize, Fails
  <2>2. \A r \in d.charges : r.basis \notin {"input_tokens", "output_tokens"}
    BY <2>1 DEF ChargeOK
  <2>3. n.snapshot.charges = ListRows(spec.list)
    BY <1>1, <2>1 DEF ListRows
  <2> QED BY <1>1, <2>1, <2>2, <2>3 DEF FromList
<1> HIDE DEF n
<1>3. Published(spec) = IF n.ok
        THEN [observed |-> spec.generation, ready |-> TRUE, priced |-> TRUE,
              snapshot |-> n.snapshot, digest |-> n.digest]
        ELSE [Unready EXCEPT !.observed = spec.generation]
  BY DEF Published, n, d
<1>4. CASE n.ok
  BY <1>2, <1>3, <1>4
<1>5. CASE ~n.ok
  BY <1>3, <1>5 DEF Unready
<1> QED BY <1>4, <1>5

\* The cap a reconciliation publishes is one of a deployment that was attested.
LEMMA CapAttested ==
  ASSUME NEW evidence, NEW provider, Honest(evidence, provider.spec)
  PROVE  CapOK(OutputCap(evidence, provider))
<1> DEFINE c == OutputCap(evidence, provider)
<1>1. ASSUME c.present PROVE evidence /\ c.deployment = provider.spec.deployment
  BY <1>1 DEF OutputCap, NoCap
<1> QED BY <1>1 DEF CapOK, Honest

\* Initially providers are attested and what they publish is from their lists.
LEMMA InitHolds == AdmissionInit => AdmissionInv
<1> SUFFICES ASSUME AdmissionInit PROVE AdmissionInv
  OBVIOUS
<1>1. job.phase = "idle" /\ call.phase = "idle"
  BY DEF AdmissionInit, Idle
<1> DEFINE spec(m) == ProviderSpec(FirstList[m], "capped", 1, 0)
<1>2. DOMAIN prov = Models /\ DOMAIN mod = Models
  BY DEF AdmissionInit
<1>3. ASSUME NEW m \in Models
      PROVE  ProviderOK(prov[m]) /\ prov[m].spec.deployment = "capped"
  <2>1. prov[m] = [spec |-> spec(m), status |-> IF m \in Edited THEN Unready ELSE Published(spec(m))]
    BY <1>3 DEF AdmissionInit
  <2>2. spec(m).list \in PriceLists /\ spec(m).deployment = "capped"
    BY <1>3, ListAssumption DEF ProviderSpec
  <2> HIDE DEF spec
  <2>3. /\ Published(spec(m)).priced \in BOOLEAN
        /\ Published(spec(m)).priced => FromList(Published(spec(m)).snapshot)
    BY <2>2, PublishedFromList
  <2>4. Unready.priced = FALSE
    BY DEF Unready
  <2>5. prov[m].spec = spec(m) /\ prov[m] = [spec |-> prov[m].spec, status |-> prov[m].status]
    BY <2>1
  <2>6. CASE m \in Edited
    <3>1. prov[m].status = Unready BY <2>1, <2>6
    <3> QED BY <2>2, <2>4, <2>5, <3>1 DEF ProviderOK, Deployments
  <2>7. CASE m \notin Edited
    <3>1. prov[m].status = Published(spec(m)) BY <2>1, <2>7
    <3> QED BY <2>2, <2>3, <2>5, <3>1 DEF ProviderOK, Deployments
  <2> QED BY <2>6, <2>7
<1>4. ASSUME NEW m \in Models PROVE ModelOK(mod[m])
  <2> DEFINE cap == OutputCap(TRUE, prov[m])
  <2>1. mod[m] = [evidence |-> TRUE, generation |-> 1,
                  observed |-> IF m \in Edited THEN 0 ELSE 1,
                  ready |-> m \notin Edited /\ cap.present,
                  cap |-> IF m \in Edited THEN NoCap ELSE cap]
    BY <1>4 DEF AdmissionInit
  <2>2. Honest(TRUE, prov[m].spec)
    BY <1>3, <1>4 DEF Honest
  <2>3. CapOK(cap)
    BY <2>2, CapAttested
  <2>4. CapOK(NoCap)
    BY DEF CapOK, NoCap
  <2> HIDE DEF cap
  <2>5. /\ mod[m] = [evidence |-> mod[m].evidence, generation |-> mod[m].generation,
                     observed |-> mod[m].observed, ready |-> mod[m].ready, cap |-> mod[m].cap]
        /\ mod[m].evidence = TRUE /\ mod[m].cap \in {NoCap, cap}
    BY <2>1
  <2> QED BY <2>3, <2>4, <2>5 DEF ModelOK
<1>5. Objects
  BY <1>2, <1>3, <1>4 DEF Objects
<1>6. Attested
  BY <1>3 DEF Attested, Honest
<1>7. JobOK /\ ListedOK /\ ReservedOK
  BY <1>1 DEF JobOK, ListedOK, ReservedOK
<1>8. StrictCovers /\ UsageIsPriced /\ ChoiceIsBest
  BY <1>1 DEF StrictCovers, UsageIsPriced, ChoiceIsBest
<1> QED BY <1>5, <1>6, <1>7, <1>8 DEF AdmissionInv

\* The parts of the invariant that are about the admission.
CallInv == ListedOK /\ ReservedOK /\ StrictCovers /\ UsageIsPriced /\ ChoiceIsBest

LEMMA CallUntouched ==
  ASSUME CallInv, UNCHANGED call
  PROVE  CallInv'
BY DEF CallInv, ListedOK, ReservedOK, StrictCovers, UsageIsPriced, ChoiceIsBest, Req, Policy

\* The part about the objects and the reconciliation.
ObjectInv == Objects /\ Attested /\ JobOK

LEMMA EditProviderHolds ==
  ASSUME ObjectInv, NEW m \in Edited, NEW list \in PriceLists, NEW d \in Deployments,
         EditProvider(m, list, d)
  PROVE  ObjectInv' /\ UNCHANGED call
<1>1. m \in Models
  BY AdmissionBounds
<1>2. DOMAIN prov = Models /\ ProviderOK(prov[m]) /\ \A k \in Models : ProviderOK(prov[k])
  BY <1>1 DEF ObjectInv, Objects
<1> DEFINE spec == ProviderSpec(list, d, prov[m].spec.generation + 1, clock)
<1>3. /\ prov' = [prov EXCEPT ![m].spec = spec] /\ UNCHANGED <<clock, mod, job, call>>
      /\ mod[m].evidence => d # "uncapped"
  BY DEF EditProvider
<1>4. spec.list = list /\ spec.deployment = d
  BY DEF ProviderSpec
<1> HIDE DEF spec
<1>5. /\ DOMAIN prov' = Models /\ \A k \in Models \ {m} : prov'[k] = prov[k]
      /\ prov'[m] = [prov[m] EXCEPT !.spec = spec]
  BY <1>1, <1>2, <1>3
<1>6. prov'[m] = [spec |-> spec, status |-> prov[m].status]
  <2>1. prov[m] = [spec |-> prov[m].spec, status |-> prov[m].status]
    BY <1>2 DEF ProviderOK
  <2> QED BY <1>5, <2>1
<1>7. prov'[m].spec = spec /\ prov'[m].status = prov[m].status
  BY <1>6
<1>8. ProviderOK(prov'[m])
  BY <1>2, <1>4, <1>6, <1>7 DEF ProviderOK
<1>9. Objects'
  <2>1. \A k \in Models : ProviderOK(prov'[k])
    BY <1>2, <1>5, <1>8
  <2> QED BY <1>3, <1>5, <2>1 DEF ObjectInv, Objects, ProviderOK, ModelOK, CapOK, FromList
<1>10. Attested'
  <2>1. \A k \in Models : Honest(mod[k].evidence, prov'[k].spec)
    <3>1. ASSUME NEW k \in Models PROVE Honest(mod[k].evidence, prov'[k].spec)
      <4>1. CASE k = m BY <1>3, <1>4, <1>7, <4>1 DEF Honest
      <4>2. CASE k # m BY <1>5, <3>1, <4>2 DEF ObjectInv, Attested
      <4> QED BY <4>1, <4>2
    <3> QED BY <3>1
  <2> QED BY <1>3, <2>1 DEF Attested, Honest
<1>11. JobOK'
  BY <1>3 DEF ObjectInv, JobOK, Honest
<1> QED BY <1>3, <1>9, <1>10, <1>11 DEF ObjectInv

LEMMA EditModelHolds ==
  ASSUME ObjectInv, NEW m \in Edited, EditModel(m)
  PROVE  ObjectInv' /\ UNCHANGED call
<1>1. m \in Models
  BY AdmissionBounds
<1>2. DOMAIN mod = Models /\ \A k \in Models : ModelOK(mod[k])
  BY DEF ObjectInv, Objects
<1>3. /\ mod' = [mod EXCEPT ![m].evidence = ~mod[m].evidence,
                            ![m].generation = mod[m].generation + 1]
      /\ UNCHANGED <<clock, prov, job, call>>
      /\ ~mod[m].evidence => prov[m].spec.deployment # "uncapped"
  BY DEF EditModel
<1>4. DOMAIN mod' = Models /\ \A k \in Models \ {m} : mod'[k] = mod[k]
  BY <1>1, <1>2, <1>3
<1>5. mod'[m] = [evidence |-> ~mod[m].evidence, generation |-> mod[m].generation + 1,
                 observed |-> mod[m].observed, ready |-> mod[m].ready, cap |-> mod[m].cap]
  <2>1. mod[m] = [evidence |-> mod[m].evidence, generation |-> mod[m].generation,
                  observed |-> mod[m].observed, ready |-> mod[m].ready, cap |-> mod[m].cap]
    BY <1>1, <1>2 DEF ModelOK
  <2>2. mod'[m] = [mod[m] EXCEPT !.evidence = ~mod[m].evidence,
                                 !.generation = mod[m].generation + 1]
    BY <1>1, <1>2, <1>3
  <2> QED BY <2>1, <2>2, ZenonT(60)
<1>6. ModelOK(mod'[m]) /\ mod'[m].evidence = ~mod[m].evidence
  BY <1>1, <1>2, <1>5 DEF ModelOK
<1>7. Objects'
  <2>1. \A k \in Models : ModelOK(mod'[k])
    BY <1>2, <1>4, <1>6
  <2> QED BY <1>3, <1>4, <2>1 DEF ObjectInv, Objects, ProviderOK, ModelOK, CapOK, FromList
<1>8. Attested'
  <2>1. \A k \in Models : Honest(mod'[k].evidence, prov[k].spec)
    <3>1. ASSUME NEW k \in Models PROVE Honest(mod'[k].evidence, prov[k].spec)
      <4>1. CASE k = m BY <1>3, <1>6, <4>1 DEF Honest
      <4>2. CASE k # m BY <1>4, <3>1, <4>2 DEF ObjectInv, Attested
      <4> QED BY <4>1, <4>2
    <3> QED BY <3>1
  <2> QED BY <1>3, <2>1 DEF Attested, Honest
<1>9. JobOK'
  BY <1>3 DEF ObjectInv, JobOK, Honest
<1> QED BY <1>3, <1>7, <1>8, <1>9 DEF ObjectInv

LEMMA ReconcileProviderHolds ==
  ASSUME ObjectInv, NEW m \in Edited, ReconcileProvider(m)
  PROVE  ObjectInv' /\ UNCHANGED call
<1>1. m \in Models
  BY AdmissionBounds
<1>2. DOMAIN prov = Models /\ ProviderOK(prov[m]) /\ \A k \in Models : ProviderOK(prov[k])
  BY <1>1 DEF ObjectInv, Objects
<1> DEFINE status == Published(prov[m].spec)
<1>3. prov' = [prov EXCEPT ![m].status = status] /\ UNCHANGED <<clock, mod, job, call>>
  BY DEF ReconcileProvider
<1>4. status.priced \in BOOLEAN /\ (status.priced => FromList(status.snapshot))
  BY <1>2, PublishedFromList DEF ProviderOK
<1> HIDE DEF status
<1>5. /\ DOMAIN prov' = Models /\ \A k \in Models \ {m} : prov'[k] = prov[k]
      /\ prov'[m] = [prov[m] EXCEPT !.status = status]
  BY <1>1, <1>2, <1>3
<1>6. prov'[m] = [spec |-> prov[m].spec, status |-> status]
  <2>1. prov[m] = [spec |-> prov[m].spec, status |-> prov[m].status]
    BY <1>2 DEF ProviderOK
  <2> QED BY <1>5, <2>1
<1>7. prov'[m].spec = prov[m].spec /\ prov'[m].status = status
  BY <1>6
<1>8. ProviderOK(prov'[m])
  BY <1>2, <1>4, <1>6, <1>7 DEF ProviderOK
<1>9. Objects'
  <2>1. \A k \in Models : ProviderOK(prov'[k])
    BY <1>2, <1>5, <1>8
  <2> QED BY <1>3, <1>5, <2>1 DEF ObjectInv, Objects, ProviderOK, ModelOK, CapOK, FromList
<1>10. Attested'
  <2>1. \A k \in Models : prov'[k].spec = prov[k].spec
    BY <1>5, <1>7
  <2> QED BY <1>3, <2>1 DEF ObjectInv, Attested, Honest
<1>11. JobOK'
  BY <1>3 DEF ObjectInv, JobOK, Honest
<1> QED BY <1>3, <1>9, <1>10, <1>11 DEF ObjectInv

\* Objects that are not touched stay as they are.
LEMMA ObjectsUntouched ==
  ASSUME ObjectInv, UNCHANGED <<prov, mod>>
  PROVE  Objects' /\ Attested'
BY DEF ObjectInv, Objects, ProviderOK, ModelOK, CapOK, FromList, Attested, Honest

LEMMA ReconcileModelReadHolds ==
  ASSUME ObjectInv, NEW m \in Edited, ReconcileModelRead(m)
  PROVE  ObjectInv' /\ UNCHANGED call
<1>1. m \in Models
  BY AdmissionBounds
<1>2. /\ UNCHANGED <<clock, prov, mod, call>>
      /\ job'.model = m /\ job'.evidence = mod[m].evidence /\ job'.provider = prov[m]
  BY DEF ReconcileModelRead
<1>3. JobOK'
  BY <1>1, <1>2 DEF ObjectInv, Attested, JobOK, Honest
<1> QED BY <1>2, <1>3, ObjectsUntouched DEF ObjectInv

LEMMA ReconcileModelWriteHolds ==
  ASSUME ObjectInv, ReconcileModelWrite
  PROVE  ObjectInv' /\ UNCHANGED call
<1> DEFINE m == job.model
           cap == OutputCap(job.evidence, job.provider)
<1>1. m \in Models /\ CapOK(cap)
  BY CapAttested DEF ObjectInv, JobOK, ReconcileModelWrite
<1>2. DOMAIN mod = Models /\ \A k \in Models : ModelOK(mod[k])
  BY DEF ObjectInv, Objects
<1>3. UNCHANGED <<clock, prov, call>> /\ job' = Idle
  BY DEF ReconcileModelWrite
<1>4. JobOK'
  BY <1>3 DEF JobOK, Idle
<1>5. CASE mod' = mod
  BY <1>3, <1>4, <1>5, ObjectsUntouched DEF ObjectInv
<1>6. CASE mod' = [mod EXCEPT ![m] = [mod[m] EXCEPT !.observed = job.generation, !.cap = cap,
                                                    !.ready = cap.present]]
  <2> HIDE DEF m, cap
  <2>1. DOMAIN mod' = Models /\ \A k \in Models \ {m} : mod'[k] = mod[k]
    BY <1>1, <1>2, <1>6
  <2>2. mod'[m] = [evidence |-> mod[m].evidence, generation |-> mod[m].generation,
                   observed |-> job.generation, ready |-> cap.present, cap |-> cap]
    <3>1. mod[m] = [evidence |-> mod[m].evidence, generation |-> mod[m].generation,
                    observed |-> mod[m].observed, ready |-> mod[m].ready, cap |-> mod[m].cap]
      BY <1>1, <1>2 DEF ModelOK
    <3>2. mod'[m] = [mod[m] EXCEPT !.observed = job.generation, !.cap = cap, !.ready = cap.present]
      BY <1>1, <1>2, <1>6
    <3> QED BY <3>1, <3>2
  <2>3. ModelOK(mod'[m]) /\ mod'[m].evidence = mod[m].evidence
    BY <1>1, <1>2, <2>2 DEF ModelOK
  <2>4. Objects'
    <3>1. \A k \in Models : ModelOK(mod'[k])
      BY <1>2, <2>1, <2>3
    <3> QED BY <1>3, <2>1, <3>1 DEF ObjectInv, Objects, ProviderOK, ModelOK, CapOK, FromList
  <2>5. Attested'
    <3>1. \A k \in Models : mod'[k].evidence = mod[k].evidence
      BY <2>1, <2>3
    <3> QED BY <1>3, <3>1 DEF ObjectInv, Attested, Honest
  <2> QED BY <1>3, <1>4, <2>4, <2>5 DEF ObjectInv
<1> QED BY <1>5, <1>6 DEF ReconcileModelWrite

LEMMA TickHolds ==
  ASSUME ObjectInv, Tick
  PROVE  ObjectInv' /\ UNCHANGED call
<1>1. UNCHANGED <<prov, mod, job, call>>
  BY DEF Tick
<1>2. JobOK'
  BY <1>1 DEF ObjectInv, JobOK, Honest
<1> QED BY <1>1, <1>2, ObjectsUntouched DEF ObjectInv

-----------------------------------------------------------------------------
(* Admission *)

\* The models are listed as they are.
LEMMA AdmitModelsHolds ==
  ASSUME ObjectInv, CallInv, NEW i \in DOMAIN Calls, AdmitModels(i)
  PROVE  ObjectInv' /\ CallInv'
<1>1. UNCHANGED <<clock, prov, mod, job>> /\ call' = [phase |-> "models", of |-> i, mod |-> mod]
  BY DEF AdmitModels
<1>2. call'.phase = "models" /\ call'.of = i /\ call'.mod = mod
  BY <1>1
<1>3. JobOK'
  BY <1>1 DEF ObjectInv, JobOK, Honest
<1>4. \A m \in Models : CapOK(mod[m].cap)
  BY DEF ObjectInv, Objects, ModelOK
<1>5. ListedOK'
  BY <1>2, <1>4 DEF ListedOK, CapOK
<1>6. ReservedOK' /\ StrictCovers' /\ UsageIsPriced' /\ ChoiceIsBest'
  BY <1>2 DEF ReservedOK, StrictCovers, UsageIsPriced, ChoiceIsBest
<1> QED BY <1>1, <1>3, <1>5, <1>6, ObjectsUntouched DEF ObjectInv, CallInv

\* The numbers of the call that is being admitted.
LEMMA CallNumeric ==
  ASSUME call.of \in DOMAIN Calls
  PROVE  Numeric(Req, Policy)
BY CallAssumption DEF Numeric, Req, Policy

\* An offer made from the models as they were listed and the providers as they
\* are now: if it relies on a cap, the deployment passes it on.
LEMMA OffersSound ==
  ASSUME ObjectInv, ListedOK, call.phase = "models", NEW m \in Models,
         NEW o, o = Offers[m]
  PROVE  /\ o.ref = m /\ o.candidate.quality \in Int /\ o.candidate.latency \in Int
         /\ o.reason = Empty =>
              /\ FromList(o.candidate.snapshot)
              /\ PricedAt(o, Req, clock) /\ Bounded(o, Req)
              /\ o.reservation \in Int
              /\ IsStrict(o.method) => prov[m].spec.deployment = "capped"
<1> DEFINE model == ModelOf(m, call.mod[m])
           provider == ProviderOf(m, prov[m])
           c == BuildCandidate(Req, model, provider, clock)
<1>1. o = Offer(Req, Policy, c, clock)
  BY DEF Offers
<1>2. /\ model.ref = m /\ model.context = ModelSpec[m].context
      /\ model.quality = ModelSpec[m].quality /\ model.latency = ModelSpec[m].latency
      /\ model.cap = call.mod[m].cap
  BY DEF ModelOf
<1>3. /\ provider.deployment = prov[m].spec.deployment
      /\ provider.priced = prov[m].status.priced
      /\ provider.priced => provider.snapshot = prov[m].status.snapshot
  BY DEF ProviderOf
<1>4. /\ ModelSpec[m].context \in Int /\ ModelSpec[m].quality \in Int
      /\ ModelSpec[m].latency \in Int
  BY CallAssumption
<1>5. call.of \in DOMAIN Calls /\ CapOK(call.mod[m].cap)
  BY DEF ListedOK
<1>6. ProviderOK(prov[m])
  BY DEF ObjectInv, Objects
<1> HIDE DEF model, provider
<1>7. /\ c.ref = model.ref /\ c.context = model.context /\ c.quality = model.quality
      /\ c.snapshot = provider.snapshot
      /\ c.latency \in {model.latency, Absent}
      /\ c.feasible <=> c.reason = Empty
      /\ c.feasible => provider.priced /\ provider.deployment # Empty
      /\ c.verified => model.cap.present /\ model.cap.deployment = provider.deployment
  BY CandidateSound
<1> HIDE DEF c
<1>8. c.ref = m /\ c.context \in Int /\ c.quality \in Int /\ c.latency \in Int
  BY <1>2, <1>4, <1>7 DEF Absent
<1>9. Numeric(Req, Policy)
  BY <1>5, CallNumeric
<1>10. /\ o.ref = c.ref /\ o.candidate = c
       /\ o.reason = Empty => c.feasible /\ PricedAt(o, Req, clock) /\ Bounded(o, Req)
  BY <1>1, <1>7, <1>8, <1>9, OfferSound
<1>11. ASSUME o.reason = Empty
       PROVE  /\ FromList(o.candidate.snapshot) /\ o.reservation \in Int
              /\ IsStrict(o.method) => prov[m].spec.deployment = "capped"
  <2>1. FromList(o.candidate.snapshot)
    <3>1. provider.priced /\ o.candidate.snapshot = prov[m].status.snapshot
      BY <1>3, <1>7, <1>10, <1>11
    <3> QED BY <1>3, <1>6, <3>1 DEF ProviderOK
  <2>2. o.reservation \in Int
    <3> DEFINE ctx == [input |-> o.inputBound, output |-> o.outputBound,
                       declared |-> Req.declared]
               s == o.candidate.snapshot
    <3>1. /\ o.inputBound \in Int /\ o.outputBound \in Int
          /\ ReserveComponents(s, o.candidate.digest, ctx, clock).ok
          /\ o.reservation
               = SumComponents(ReserveComponents(s, o.candidate.digest, ctx, clock).components)
      BY <1>10, <1>11 DEF PricedAt
    <3>2. Declares(ctx)
      BY <1>9, <3>1 DEF Numeric, Declares
    <3> HIDE DEF ctx
    <3>3. o.reservation \in Nat
      BY <2>1, <3>1, <3>2, ReservationNat
    <3> QED BY <3>3
  <2>3. ASSUME IsStrict(o.method) PROVE prov[m].spec.deployment = "capped"
    <3>1. c.verified
      BY <1>10, <1>11, <2>3 DEF Bounded
    <3>2. /\ prov[m].spec.deployment = call.mod[m].cap.deployment
          /\ call.mod[m].cap.present /\ prov[m].spec.deployment # Empty
      BY <1>2, <1>3, <1>7, <1>10, <1>11, <3>1
    <3>3. prov[m].spec.deployment # "uncapped"
      BY <1>5, <3>2 DEF CapOK
    <3> QED BY <1>6, <3>2, <3>3 DEF ProviderOK, Deployments
  <2> QED BY <2>1, <2>2, <2>3
<1> QED BY <1>8, <1>10, <1>11

\* The policy refuses for a reason that is not one of the budget.
LEMMA PolicyRefusal ==
  ASSUME NEW req, NEW budget, NEW routing, NEW at, NEW reason,
         reason = validatePolicyAndTarget(req, budget, routing, at), reason # Empty
  PROVE  reason \in {"policy_not_ready", "budget_target_mismatch"}
<1> DEFINE a1 == budget.ready /\ routing.ready
           a2 == routing.evaluatedAt <= at /\ at - routing.evaluatedAt <= Day
           a3 == \A k \in DOMAIN budget.target : budget.target[k] \in {Empty, req[k]}
           checks == << <<a1, "policy_not_ready">>, <<a2, "policy_not_ready">>,
                        <<a3, "budget_target_mismatch">> >>
           failed == {i \in DOMAIN checks : ~checks[i][1]}
           first == CHOOSE i \in failed : \A j \in failed : i <= j
<1>1. reason = FirstFailure(checks)
  BY Zenon DEF validatePolicyAndTarget
<1> HIDE DEF a1, a2, a3
<1>2. DOMAIN checks = 1 .. 3
  OBVIOUS
<1>3. /\ checks[1][2] = "policy_not_ready" /\ checks[2][2] = "policy_not_ready"
      /\ checks[3][2] = "budget_target_mismatch"
  OBVIOUS
<1> HIDE DEF checks
<1>4. failed \subseteq 1 .. 3
  BY <1>2, Zenon
<1>5. reason = IF failed = {} THEN Empty ELSE checks[first][2]
  BY <1>1, Zenon DEF FirstFailure
<1> HIDE DEF failed
<1>6. failed # {} /\ reason = checks[first][2]
  BY <1>5
<1>7. \E i \in failed : \A j \in failed : i <= j
  BY <1>4, <1>6, LeastIndex
<1>8. first \in failed
  BY <1>7, Zenon
<1> HIDE DEF first
<1>9. first = 1 \/ first = 2 \/ first = 3
  BY <1>4, <1>8
<1> QED BY <1>3, <1>6, <1>9

\* No such reason makes the request wait for budget.
LEMMA NoQueue ==
  ASSUME NEW routing, NEW reason,
         reason \in {"policy_not_ready", "budget_target_mismatch", "pricing_incomplete"}
  PROVE  decisionForAdmissionFailure(routing, reason) # "queue"
<1>1. reason # "budget_unavailable" /\ ~isCalibrationReason(reason)
  BY DEF isCalibrationReason
<1>2. decisionForAdmissionFailure(routing, reason) = "abstain"
  BY <1>1 DEF decisionForAdmissionFailure
<1> QED BY <1>2

\* The decision: what was chosen is reserved, or the request is refused.
LEMMA AdmitDecideHolds ==
  ASSUME ObjectInv, CallInv, AdmitDecide
  PROVE  ObjectInv' /\ CallInv'
<1> DEFINE offers == Offers
           chosen == Chosen(offers)
           available == quantityToMicros(Policy.quantity)
           choice == chosen.choice
           weighed == [m \in Models |-> Weighed(offers[m])]
<1>1. /\ UNCHANGED <<clock, prov, mod, job>> /\ call.phase = "models"
      /\ chosen.ok =>
           call' = [phase |-> "reserved", of |-> call.of, offers |-> weighed,
                    choice |-> choice, at |-> clock,
                    deployment |-> prov[choice.ref].spec.deployment]
      /\ ~chosen.ok =>
           call' = [phase |-> "refused", of |-> call.of, offers |-> weighed,
                    decision |-> decisionForAdmissionFailure(Policy, chosen.reason)]
  BY Zenon DEF AdmitDecide
<1>2. DOMAIN offers = Models
  BY DEF Offers
<1>3. \A m \in Models :
         /\ offers[m].ref = m
         /\ offers[m].candidate.quality \in Int /\ offers[m].candidate.latency \in Int
         /\ offers[m].reason = Empty =>
              /\ FromList(offers[m].candidate.snapshot)
              /\ PricedAt(offers[m], Req, clock) /\ Bounded(offers[m], Req)
              /\ offers[m].reservation \in Int
              /\ IsStrict(offers[m].method) => prov[m].spec.deployment = "capped"
  BY <1>1, OffersSound DEF CallInv
<1>4. ObjectInv'
  <2>1. JobOK'
    BY <1>1 DEF ObjectInv, JobOK, Honest
  <2> QED BY <1>1, <2>1, ObjectsUntouched DEF ObjectInv
<1> DEFINE refusal == validatePolicyAndTarget(Req, Policy.budget, Policy, clock)
           pick == chooseAdmission(Policy, offers, available)
           Fits(m) == offers[m].reason = Empty /\ offers[m].reservation <= available
           Ranked(i, m) == Rank(Policy.objective, Weighed(offers[i]))
                             <= Rank(Policy.objective, Weighed(offers[m]))
<1>5. chosen = IF refusal # Empty THEN [ok |-> FALSE, reason |-> refusal] ELSE pick
  BY DEF Chosen
<1>6. /\ pick.ok => \E i \in Models : /\ pick.choice = offers[i] /\ offers[i].reason = Empty
                                      /\ \A m \in Models : Fits(m) => Ranked(i, m)
      /\ ~pick.ok => \A m \in Models : Fits(m) => pick.reason = "pricing_incomplete"
  <2> HIDE DEF offers
  <2>1. \A i \in Models : offers[i].ref = i
    BY <1>3
  <2>2. \A i \in Models : offers[i].reason = Empty =>
             /\ offers[i].candidate.quality \in Int /\ offers[i].candidate.latency \in Int
             /\ offers[i].reservation \in Int
    BY <1>3
  <2> HIDE DEF available
  <2> QED BY <1>2, <2>1, <2>2, ChoiceSound
<1>7. call.of \in DOMAIN Calls
  BY <1>1 DEF CallInv, ListedOK
<1>8. /\ call'.of = call.of => Req' = Req /\ Policy' = Policy
  BY DEF Req, Policy
<1> HIDE DEF offers, chosen, pick, refusal, available, Ranked
<1>9. CASE chosen.ok
  <2>1. chosen = pick
    BY <1>5, <1>9
  <2>2. PICK i \in Models : /\ choice = offers[i] /\ offers[i].reason = Empty
                            /\ \A m \in Models : Fits(m) => Ranked(i, m)
    BY <1>6, <1>9, <2>1
  <2>3. choice.ref = i
    BY <1>3, <2>2
  <2> HIDE DEF choice, weighed
  <2>4. /\ call'.phase = "reserved" /\ call'.of = call.of /\ call'.offers = weighed
        /\ call'.choice = offers[i] /\ call'.at = clock
        /\ call'.deployment = prov[i].spec.deployment
    BY <1>1, <1>9, <2>2, <2>3
  <2>5. Req' = Req /\ Policy' = Policy
    BY <1>8, <2>4
  <2>6. ReservedOK'
    <3>1. /\ FromList(offers[i].candidate.snapshot)
          /\ PricedAt(offers[i], Req, clock) /\ Bounded(offers[i], Req)
          /\ IsStrict(offers[i].method) => prov[i].spec.deployment = "capped"
      BY <1>3, <2>2
    <3>2. FromList(call'.choice.candidate.snapshot)
      BY <2>4, <3>1
    <3>3. PricedAt(call'.choice, Req', call'.at) /\ Bounded(call'.choice, Req')
      BY <2>4, <2>5, <3>1
    <3>4. IsStrict(call'.choice.method) => call'.deployment = "capped"
      BY <2>4, <3>1
    <3> QED BY <1>7, <2>4, <3>2, <3>3, <3>4 DEF ReservedOK, FromList, PricedAt, Bounded
  <2>7. ChoiceIsBest'
    <3>1. ASSUME NEW m \in Models,
                 call'.offers[m].reason = Empty,
                 call'.offers[m].reservation <= quantityToMicros(Policy'.quantity)
          PROVE  Rank(Policy'.objective, call'.offers[call'.choice.ref])
                   <= Rank(Policy'.objective, call'.offers[m])
      <4>1. call'.offers[m] = Weighed(offers[m]) /\ call'.offers[i] = Weighed(offers[i])
        BY <2>4 DEF weighed
      <4>2. offers[m].reason = Empty
        BY <3>1, <4>1 DEF Weighed
      <4>3. Weighed(offers[m]).reservation = offers[m].reservation
        BY <4>2 DEF Weighed
      <4>4. Fits(m)
        BY <2>5, <3>1, <4>1, <4>2, <4>3 DEF available
      <4>5. call'.choice.ref = i
        BY <2>2, <2>3, <2>4
      <4>6. Ranked(i, m)
        BY <2>2, <4>4
      <4> QED BY <2>5, <4>1, <4>5, <4>6 DEF Ranked
    <3> QED BY <2>4, <3>1 DEF ChoiceIsBest
  <2>8. ListedOK' /\ StrictCovers' /\ UsageIsPriced'
    BY <2>4 DEF ListedOK, StrictCovers, UsageIsPriced
  <2> QED BY <1>4, <2>6, <2>7, <2>8 DEF CallInv
<1>10. CASE ~chosen.ok
  <2> HIDE DEF weighed
  <2>1. /\ call'.phase = "refused" /\ call'.of = call.of /\ call'.offers = weighed
        /\ call'.decision = decisionForAdmissionFailure(Policy, chosen.reason)
    BY <1>1, <1>10
  <2>2. Req' = Req /\ Policy' = Policy
    BY <1>8, <2>1
  <2>3. ASSUME NEW m \in Models, Fits(m) PROVE call'.decision # "queue"
    <3>1. CASE refusal # Empty
      <4>1. chosen.reason = refusal BY <1>5, <3>1
      <4>2. refusal \in {"policy_not_ready", "budget_target_mismatch"}
        BY <3>1, PolicyRefusal DEF refusal
      <4> QED BY <2>1, <4>1, <4>2, NoQueue
    <3>2. CASE refusal = Empty
      <4>1. chosen = pick BY <1>5, <3>2
      <4>2. chosen.reason = "pricing_incomplete"
        BY <1>6, <1>10, <2>3, <4>1
      <4> QED BY <2>1, <4>2, NoQueue
    <3> QED BY <3>1, <3>2
  <2>4. ChoiceIsBest'
    <3>1. ASSUME NEW m \in Models,
                 call'.offers[m].reason = Empty,
                 call'.offers[m].reservation <= quantityToMicros(Policy'.quantity)
          PROVE  call'.decision # "queue"
      <4>1. call'.offers[m] = Weighed(offers[m])
        BY <2>1 DEF weighed
      <4>2. offers[m].reason = Empty
        BY <3>1, <4>1 DEF Weighed
      <4>3. Weighed(offers[m]).reservation = offers[m].reservation
        BY <4>2 DEF Weighed
      <4>4. Fits(m)
        BY <2>2, <3>1, <4>1, <4>2, <4>3 DEF available
      <4> QED BY <2>3, <4>4
    <3> QED BY <2>1, <3>1 DEF ChoiceIsBest
  <2>5. ListedOK' /\ ReservedOK' /\ StrictCovers' /\ UsageIsPriced'
    BY <2>1 DEF ListedOK, ReservedOK, StrictCovers, UsageIsPriced
  <2> QED BY <1>4, <2>4, <2>5 DEF CallInv
<1> QED BY <1>9, <1>10

-----------------------------------------------------------------------------
(* Settlement *)

\* What a strict reservation holds of each basis bounds what can be billed of
\* it, and usage within its bounds costs no more than was reserved.
LEMMA SettleHolds ==
  ASSUME ObjectInv, CallInv, call.phase = "reserved", NEW usage \in Usages, Settle(usage)
  PROVE  ObjectInv' /\ CallInv'
<1> DEFINE choice == call.choice
           s == choice.candidate.snapshot
           digest == choice.candidate.digest
           ctx == [input |-> choice.inputBound, output |-> choice.outputBound,
                   declared |-> Req.declared]
           reserved == ReserveComponents(s, digest, ctx, call.at).components
           settled == SettleComponents(s, digest, reserved, usage)
<1>1. /\ UNCHANGED <<clock, prov, mod, job>>
      /\ call' = [phase |-> "settled", ok |-> settled.ok, method |-> choice.method,
                  reservation |-> choice.reservation,
                  cost |-> IF settled.ok THEN SumComponents(settled.components) ELSE Absent,
                  exceeded |-> settled.ok /\ settled.exceeded]
  BY DEF Settle, ReservedComponents
<1>2. reserved = ReservedComponents
  BY DEF ReservedComponents
<1>3. /\ call.of \in DOMAIN Calls /\ FromList(s) /\ PricedAt(choice, Req, call.at)
      /\ Bounded(choice, Req) /\ (IsStrict(choice.method) => call.deployment = "capped")
  BY DEF CallInv, ReservedOK
<1>4. Numeric(Req, Policy)
  BY <1>3, CallNumeric
<1>5. /\ choice.inputBound \in Int /\ choice.outputBound \in Int
      /\ ReserveComponents(s, digest, ctx, call.at).ok
      /\ choice.reservation = SumComponents(reserved)
  BY <1>3 DEF PricedAt
<1>6. Declares(ctx)
  BY <1>4, <1>5 DEF Numeric, Declares
<1>7. PICK B \in SUBSET {c.basis : c \in reserved} :
         usage \in [B -> 0 .. MaxUsage] /\ \A b \in B : usage[b] <= MostUsed(b)
  BY <1>2 DEF Usages
<1>8. ctx.input = choice.inputBound /\ ctx.output = choice.outputBound
  OBVIOUS
<1> HIDE DEF s, digest, ctx, reserved, settled
<1>9. /\ settled.ok
      /\ settled.exceeded <=> \E b \in B : usage[b] > ReservedOf(reserved, b)
      /\ SumComponents(settled.components) \in Nat
      /\ SumComponents(reserved) \in Nat
      /\ ~settled.exceeded => SumComponents(settled.components) <= SumComponents(reserved)
  <2>1. B \subseteq {c.basis : c \in reserved} /\ usage \in [B -> 0 .. MaxUsage]
    BY <1>7
  <2>2. reserved = ReserveComponents(s, digest, ctx, call.at).components
    BY DEF reserved
  <2>3. settled = SettleComponents(s, digest, reserved, usage)
    BY DEF settled
  <2> QED BY <1>3, <1>5, <1>6, <2>1, <2>2, <2>3, SettlementSound
<1>10. /\ call'.phase = "settled" /\ call'.ok = settled.ok /\ call'.method = choice.method
       /\ call'.reservation = choice.reservation
       /\ call'.cost = SumComponents(settled.components)
       /\ call'.exceeded <=> settled.exceeded
  BY <1>1, <1>9
<1>11. ASSUME IsStrict(choice.method), NEW b \in B
       PROVE  ~(usage[b] > ReservedOf(reserved, b))
  <2>1. PICK c \in reserved : c.basis = b
    BY <1>7, <1>11
  <2>2. /\ reserved = {Component(r, ReservedQuantity(r, ctx)) : r \in Charged(s.charges)}
        /\ \A r \in s.charges : NormalizedRowOK(r)
        /\ NoDuplicates(s.charges)
        /\ \A r \in Charged(s.charges) : ReservedQuantity(r, ctx) \in Nat
    <3> DEFINE priced == ReserveComponents(s, digest, ctx, call.at)
    <3>1. priced.ok /\ reserved = priced.components
      BY <1>3, <1>5, <1>6 DEF reserved
    <3>2. /\ priced.components = {Component(r, ReservedQuantity(r, ctx)) : r \in Charged(s.charges)}
          /\ \A r \in Charged(s.charges) : ReservedQuantity(r, ctx) \in Nat
          /\ \A r \in s.charges : NormalizedRowOK(r)
          /\ NoDuplicates(s.charges)
      BY <1>3, <1>5, <1>6, <3>1, ReservedRows
    <3> HIDE DEF priced
    <3> QED BY <3>1, <3>2
  <2>3. PICK r \in Charged(s.charges) : c = Component(r, ReservedQuantity(r, ctx))
    BY <2>1, <2>2
  <2>4. r \in s.charges /\ r.basis = b /\ c.quantity = ReservedQuantity(r, ctx)
    BY <2>1, <2>3 DEF Charged, Component
  <2>5. ReservedOf(reserved, b) = ReservedQuantity(r, ctx)
    <3> DEFINE d == RowOf(reserved, b)
    <3>1. d \in reserved /\ d.basis = b
      BY <2>1 DEF RowOf
    <3> HIDE DEF d
    <3>2. PICK t \in Charged(s.charges) : d = Component(t, ReservedQuantity(t, ctx))
      BY <2>2, <3>1
    <3>3. t \in s.charges /\ t.basis = b /\ d.quantity = ReservedQuantity(t, ctx)
      BY <3>1, <3>2 DEF Charged, Component
    <3>4. t = r
      BY <2>2, <2>4, <3>3 DEF NoDuplicates
    <3> QED BY <3>3, <3>4 DEF ReservedOf, d
  <2>6. usage[b] \in Int /\ usage[b] <= MostUsed(b)
    BY <1>7, <1>11
  <2>7. /\ choice.outputBound = Req.maxOutput
        /\ Req.exact => choice.inputBound = Req.input
        /\ ~Req.exact => choice.inputBound = choice.candidate.context - Req.maxOutput
        /\ call.deployment = "capped" /\ Req.exact \in BOOLEAN
    BY <1>3, <1>4, <1>11 DEF Bounded, Numeric
  <2>8. r.basis \in {"input_tokens", "output_tokens"} =>
           r.maximum = Absent /\ r.applicability = "request"
    BY <1>3, <2>2, <2>4, RowsOfList
  <2>9. CASE b = "input_tokens"
    <3>1. ReservedQuantity(r, ctx) = choice.inputBound
      BY <1>8, <2>4, <2>8, <2>9 DEF ReservedQuantity, requestQuantity
    <3>2. MostUsed(b) = choice.inputBound
      <4>1. MostUsed(b) = IF Req.exact THEN Req.input
                          ELSE call.choice.candidate.context - Req.maxOutput
        BY <2>9 DEF MostUsed
      <4> QED BY <2>7, <4>1
    <3> QED BY <2>2, <2>5, <2>6, <3>1, <3>2
  <2>10. CASE b = "output_tokens"
    <3>1. ReservedQuantity(r, ctx) = choice.outputBound
      BY <1>8, <2>4, <2>8, <2>10 DEF ReservedQuantity, requestQuantity
    <3>2. MostUsed(b) = choice.outputBound
      BY <2>7, <2>10 DEF MostUsed
    <3> QED BY <2>2, <2>5, <2>6, <3>1, <3>2
  <2>11. CASE b \notin {"input_tokens", "output_tokens"}
    <3>1. MostUsed(b) = ReservedOf(reserved, b)
      BY <1>2, <2>11 DEF MostUsed
    <3> QED BY <2>2, <2>5, <2>6, <3>1
  <2> QED BY <2>9, <2>10, <2>11
<1>12. StrictCovers'
  <2>1. ASSUME IsStrict(choice.method) PROVE ~settled.exceeded
    BY <1>9, <1>11, <2>1
  <2> QED BY <1>5, <1>9, <1>10, <2>1 DEF StrictCovers
<1>13. UsageIsPriced'
  BY <1>5, <1>9, <1>10 DEF UsageIsPriced
<1>14. ListedOK' /\ ReservedOK' /\ ChoiceIsBest'
  BY <1>10 DEF ListedOK, ReservedOK, ChoiceIsBest
<1>15. JobOK'
  BY <1>1 DEF ObjectInv, JobOK, Honest
<1> QED BY <1>1, <1>12, <1>13, <1>14, <1>15, ObjectsUntouched DEF ObjectInv, CallInv

-----------------------------------------------------------------------------
(* Theorems *)

\* Every step preserves the invariant.
LEMMA StepHolds == AdmissionInv /\ [AdmissionNext]_admissionVars => AdmissionInv'
<1> SUFFICES ASSUME AdmissionInv, [AdmissionNext]_admissionVars PROVE ObjectInv' /\ CallInv'
  BY DEF AdmissionInv, ObjectInv, CallInv
<1>1. ObjectInv /\ CallInv
  BY DEF AdmissionInv, ObjectInv, CallInv
<1>2. ASSUME NEW m \in Edited, NEW list \in PriceLists, NEW d \in Deployments,
             EditProvider(m, list, d)
      PROVE  ObjectInv' /\ CallInv'
  BY <1>1, <1>2, EditProviderHolds, CallUntouched
<1>3. ASSUME NEW m \in Edited, EditModel(m) PROVE ObjectInv' /\ CallInv'
  BY <1>1, <1>3, EditModelHolds, CallUntouched
<1>4. ASSUME NEW m \in Edited, ReconcileProvider(m) PROVE ObjectInv' /\ CallInv'
  BY <1>1, <1>4, ReconcileProviderHolds, CallUntouched
<1>5. ASSUME NEW m \in Edited, ReconcileModelRead(m) PROVE ObjectInv' /\ CallInv'
  BY <1>1, <1>5, ReconcileModelReadHolds, CallUntouched
<1>6. ASSUME ReconcileModelWrite PROVE ObjectInv' /\ CallInv'
  BY <1>1, <1>6, ReconcileModelWriteHolds, CallUntouched
<1>7. ASSUME Tick PROVE ObjectInv' /\ CallInv'
  BY <1>1, <1>7, TickHolds, CallUntouched
<1>8. ASSUME NEW i \in DOMAIN Calls, AdmitModels(i) PROVE ObjectInv' /\ CallInv'
  BY <1>1, <1>8, AdmitModelsHolds
<1>9. ASSUME AdmitDecide PROVE ObjectInv' /\ CallInv'
  BY <1>1, <1>9, AdmitDecideHolds
<1>10. ASSUME call.phase = "reserved", NEW usage \in Usages, Settle(usage)
       PROVE  ObjectInv' /\ CallInv'
  BY <1>1, <1>10, SettleHolds
<1>11. CASE UNCHANGED admissionVars
  <2>1. UNCHANGED <<clock, prov, mod, edits, job, call>>
    BY <1>11 DEF admissionVars
  <2>2. JobOK'
    BY <1>1, <2>1 DEF ObjectInv, JobOK, Honest
  <2> QED BY <1>1, <2>1, <2>2, ObjectsUntouched, CallUntouched DEF ObjectInv
<1> QED BY <1>2, <1>3, <1>4, <1>5, <1>6, <1>7, <1>8, <1>9, <1>10, <1>11 DEF AdmissionNext

\* The invariant of edits, reconciliations, one admission and its settlement.
THEOREM AdmissionInvariant == AdmissionSpec => []AdmissionInv
BY InitHolds, StepHolds, PTL DEF AdmissionSpec

\* A strict reservation covers what the provider bills, whatever was edited
\* and reconciled between the listings of models and providers (snapshot.go).
THEOREM StrictAlwaysCovers == AdmissionSpec => []StrictCovers
<1>1. AdmissionInv => StrictCovers
  BY DEF AdmissionInv
<1> QED BY <1>1, AdmissionInvariant, PTL

\* Usage on the charged bases is priced, and costs more than was reserved only
\* if a quantity exceeds its bound (pricing.go).
THEOREM UsageAlwaysPriced == AdmissionSpec => []UsageIsPriced
<1>1. AdmissionInv => UsageIsPriced
  BY DEF AdmissionInv
<1> QED BY <1>1, AdmissionInvariant, PTL

\* The engine reserves the offer that ranks best among those that fit, and
\* queues a request only if none fits (admission_policy.go).
THEOREM ChoiceAlwaysBest == AdmissionSpec => []ChoiceIsBest
<1>1. AdmissionInv => ChoiceIsBest
  BY DEF AdmissionInv
<1> QED BY <1>1, AdmissionInvariant, PTL
=============================================================================
