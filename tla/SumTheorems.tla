---------------------------- MODULE SumTheorems ----------------------------
(***************************************************************************)
(* What SumOver computes, for every finite set.  SumOver is defined by     *)
(* choice over a recursive function; SumUnfold recovers the recursion, and *)
(* the other lemmas follow from it by taking a smallest counterexample.    *)
(***************************************************************************)
EXTENDS Sums, FiniteSetTheorems, WellFoundedInduction, TLAPS

\* The member the recursive definition of SumOver takes first.
Pick(s) == CHOOSE x \in s : TRUE

\* g satisfies the recursive definition of the sums of f over subsets of D.
IsSum(g, f, D) ==
    g = [s \in SUBSET D |->
            IF s = {} THEN 0 ELSE f[Pick(s)] + g[s \ {Pick(s)}]]

\* SumOver is the value, at S, of the function its recursive definition chooses.
LEMMA SumOverIsChoice ==
  ASSUME NEW f, NEW S
  PROVE  SumOver(f, S) = (CHOOSE g : IsSum(g, f, S))[S]
BY DEF SumOver, MapThenSumSet, MapThenFoldSet, IsSum, Pick

\* Pick chooses a member of a set that has one.
LEMMA PickIn == ASSUME NEW S, S # {} PROVE Pick(S) \in S
BY DEF Pick

\* Induction over finite sets, as the existence of a smallest counterexample.
LEMMA SmallestBad ==
  ASSUME NEW S, IsFiniteSet(S), NEW Bad, Bad \subseteq SUBSET S, Bad # {}
  PROVE  \E A \in Bad : \A B \in SUBSET A : B # A => B \notin Bad
<1>1. FiniteSubsetsOf(S) = SUBSET S
  BY FS_FiniteSubsetsOfFinite
<1>2. IsWellFoundedOn(StrictSubsetOrdering(S), SUBSET S)
  BY <1>1, FS_StrictSubsetOrderingWellFounded
<1>3. PICK A \in Bad : \A B \in Bad : ~(<<B, A>> \in StrictSubsetOrdering(S))
  BY <1>2, WFMin
<1>4. ASSUME NEW B \in SUBSET A, B # A, B \in Bad PROVE FALSE
  <2>1. <<B, A>> \in StrictSubsetOrdering(S)
    BY <1>4 DEF StrictSubsetOrdering
  <2> QED BY <1>3, <1>4, <2>1
<1> QED BY <1>4

\* Two functions that satisfy the recursive definition agree on finite sets.
LEMMA SumUnique ==
  ASSUME NEW f, NEW D, NEW E, NEW g, NEW h, IsSum(g, f, D), IsSum(h, f, E),
         NEW U, U \subseteq D, U \subseteq E, IsFiniteSet(U)
  PROVE  g[U] = h[U]
<1> DEFINE Bad == {V \in SUBSET U : g[V] # h[V]}
<1>1. SUFFICES ASSUME Bad # {} PROVE FALSE
  BY <1>1
<1>2. PICK A \in Bad : \A B \in SUBSET A : B # A => B \notin Bad
  <2>1. Bad \subseteq SUBSET U OBVIOUS
  <2> HIDE DEF Bad
  <2> QED BY <1>1, <2>1, SmallestBad
<1>3. A \in SUBSET D /\ A \in SUBSET E /\ A \subseteq U
  BY <1>2
<1>4. g[A] = IF A = {} THEN 0 ELSE f[Pick(A)] + g[A \ {Pick(A)}]
  BY <1>3 DEF IsSum
<1>5. h[A] = IF A = {} THEN 0 ELSE f[Pick(A)] + h[A \ {Pick(A)}]
  BY <1>3 DEF IsSum
<1>6. A # {}
  BY <1>2, <1>4, <1>5
<1>7. Pick(A) \in A
  BY <1>6, PickIn
<1>8. (A \ {Pick(A)}) \in SUBSET A /\ A \ {Pick(A)} # A
  BY <1>7
<1>9. A \ {Pick(A)} \notin Bad
  BY <1>2, <1>8
<1>10. g[A \ {Pick(A)}] = h[A \ {Pick(A)}]
  BY <1>9, <1>3, <1>8
<1> QED BY <1>2, <1>4, <1>5, <1>10

\* Some function satisfies the recursive definition.
LEMMA SumExists ==
  ASSUME NEW f, NEW S, IsFiniteSet(S)
  PROVE  \E g : IsSum(g, f, S)
<1> DEFINE Bad == {A \in SUBSET S : ~ \E g : IsSum(g, f, A)}
<1>1. SUFFICES ASSUME Bad # {} PROVE FALSE
  <2>1. S \in SUBSET S OBVIOUS
  <2> QED BY <1>1, <2>1
<1>2. PICK A \in Bad : \A B \in SUBSET A : B # A => B \notin Bad
  <2>1. Bad \subseteq SUBSET S OBVIOUS
  <2> HIDE DEF Bad
  <2> QED BY <1>1, <2>1, SmallestBad
<1> DEFINE V(T) == (CHOOSE g : IsSum(g, f, T))[T]
           W(T) == IF T = {} THEN 0 ELSE f[Pick(T)] + V(T \ {Pick(T)})
           h == [T \in SUBSET A |-> W(T)]
<1> HIDE DEF V
<1>3. ASSUME NEW T \in SUBSET A, T # A PROVE V(T) = W(T)
  <2>1. T \in SUBSET S BY <1>2
  <2>2. \E g : IsSum(g, f, T) BY <1>2, <1>3, <2>1
  <2> DEFINE g == CHOOSE k : IsSum(k, f, T)
  <2>3. IsSum(g, f, T) BY <2>2
  <2>4. V(T) = g[T] BY DEF V
  <2> HIDE DEF g
  <2>5. g[T] = IF T = {} THEN 0 ELSE f[Pick(T)] + g[T \ {Pick(T)}]
    BY <2>3 DEF IsSum
  <2>6. CASE T = {} BY <2>4, <2>5, <2>6
  <2>7. CASE T # {}
    <3> DEFINE U == T \ {Pick(T)}
               k == CHOOSE l : IsSum(l, f, U)
    <3>1. Pick(T) \in T BY <2>7, PickIn
    <3>2. U \in SUBSET A /\ U # A BY <3>1, <1>3
    <3>3. U \in SUBSET S BY <3>2, <1>2
    <3>4. \E l : IsSum(l, f, U) BY <1>2, <3>2, <3>3
    <3>5. IsSum(k, f, U) BY <3>4
    <3>6. IsFiniteSet(U) BY <3>3, FS_Subset
    <3>7. V(U) = k[U] BY DEF V
    <3> HIDE DEF k
    <3>8. g[U] = k[U] BY <2>3, <3>5, <3>6, SumUnique
    <3> QED BY <2>7, <2>4, <2>5, <3>7, <3>8
  <2> QED BY <2>6, <2>7
<1>4. IsSum(h, f, A)
  <2>1. ASSUME NEW T \in SUBSET A
        PROVE  W(T) = IF T = {} THEN 0 ELSE f[Pick(T)] + h[T \ {Pick(T)}]
    <3>1. CASE T = {} BY <3>1
    <3>2. CASE T # {}
      <4> DEFINE U == T \ {Pick(T)}
      <4>1. Pick(T) \in T BY <3>2, PickIn
      <4>2. U \in SUBSET A /\ U # A BY <4>1
      <4>3. h[U] = W(U) BY <4>2
      <4>4. V(U) = W(U) BY <4>2, <1>3
      <4> QED BY <3>2, <4>3, <4>4
    <3> QED BY <3>1, <3>2
  <2>2. h = [T \in SUBSET A |-> IF T = {} THEN 0 ELSE f[Pick(T)] + h[T \ {Pick(T)}]]
    BY <2>1
  <2> QED BY <2>2 DEF IsSum
<1> QED BY <1>2, <1>4

\* One unfolding of the recursive definition.
LEMMA SumUnfold ==
  ASSUME NEW f, NEW S, IsFiniteSet(S)
  PROVE  SumOver(f, S) = IF S = {} THEN 0
                         ELSE f[Pick(S)] + SumOver(f, S \ {Pick(S)})
<1> DEFINE g == CHOOSE k : IsSum(k, f, S)
           U == S \ {Pick(S)}
           h == CHOOSE k : IsSum(k, f, U)
<1>1. IsSum(g, f, S) BY SumExists
<1>2. IsFiniteSet(U) BY FS_Subset
<1>3. IsSum(h, f, U) BY <1>2, SumExists
<1>4. SumOver(f, S) = g[S] BY SumOverIsChoice
<1>5. SumOver(f, U) = h[U] BY SumOverIsChoice
<1> HIDE DEF g, h
<1>6. g[S] = IF S = {} THEN 0 ELSE f[Pick(S)] + g[U]
  BY <1>1 DEF IsSum
<1>7. g[U] = h[U]
  BY <1>1, <1>2, <1>3, SumUnique
<1> QED BY <1>4, <1>5, <1>6, <1>7

\* An empty sum is zero.
LEMMA SumEmpty == ASSUME NEW f PROVE SumOver(f, {}) = 0
BY SumUnfold, FS_EmptySet

\* A sum of integers is an integer.
LEMMA SumInt ==
  ASSUME NEW S, IsFiniteSet(S), NEW f, \A x \in S : f[x] \in Int
  PROVE  SumOver(f, S) \in Int
<1> DEFINE Bad == {A \in SUBSET S : SumOver(f, A) \notin Int}
<1>1. SUFFICES ASSUME Bad # {} PROVE FALSE
  <2>1. S \in SUBSET S OBVIOUS
  <2> QED BY <1>1, <2>1
<1>2. PICK A \in Bad : \A B \in SUBSET A : B # A => B \notin Bad
  <2>1. Bad \subseteq SUBSET S OBVIOUS
  <2> HIDE DEF Bad
  <2> QED BY <1>1, <2>1, SmallestBad
<1> DEFINE U == A \ {Pick(A)}
<1>3. SumOver(f, A) = IF A = {} THEN 0 ELSE f[Pick(A)] + SumOver(f, U)
  BY <1>2, FS_Subset, SumUnfold
<1>4. A # {}
  BY <1>2, <1>3
<1>5. Pick(A) \in A
  BY <1>4, PickIn
<1>6. U \in SUBSET A /\ U # A /\ U \in SUBSET S
  BY <1>5, <1>2
<1>7. SumOver(f, U) \in Int
  BY <1>6, <1>2
<1>8. f[Pick(A)] \in Int
  BY <1>5, <1>2
<1> QED BY <1>2, <1>3, <1>4, <1>7, <1>8

\* A sum of naturals is a natural.
LEMMA SumNat ==
  ASSUME NEW S, IsFiniteSet(S), NEW f, \A x \in S : f[x] \in Nat
  PROVE  SumOver(f, S) \in Nat
<1> DEFINE Bad == {A \in SUBSET S : SumOver(f, A) \notin Nat}
<1>1. SUFFICES ASSUME Bad # {} PROVE FALSE
  <2>1. S \in SUBSET S OBVIOUS
  <2> QED BY <1>1, <2>1
<1>2. PICK A \in Bad : \A B \in SUBSET A : B # A => B \notin Bad
  <2>1. Bad \subseteq SUBSET S OBVIOUS
  <2> HIDE DEF Bad
  <2> QED BY <1>1, <2>1, SmallestBad
<1> DEFINE U == A \ {Pick(A)}
<1>3. SumOver(f, A) = IF A = {} THEN 0 ELSE f[Pick(A)] + SumOver(f, U)
  BY <1>2, FS_Subset, SumUnfold
<1>4. A # {}
  BY <1>2, <1>3
<1>5. Pick(A) \in A
  BY <1>4, PickIn
<1>6. U \in SUBSET A /\ U # A /\ U \in SUBSET S
  BY <1>5, <1>2
<1>7. SumOver(f, U) \in Nat
  BY <1>6, <1>2
<1>8. f[Pick(A)] \in Nat
  BY <1>5, <1>2
<1> QED BY <1>2, <1>3, <1>4, <1>7, <1>8

\* Any member's value can be taken out of a sum first.
LEMMA SumRemove ==
  ASSUME NEW S, IsFiniteSet(S), NEW f, \A y \in S : f[y] \in Int,
         NEW x \in S
  PROVE  SumOver(f, S) = f[x] + SumOver(f, S \ {x})
<1> DEFINE Bad == {A \in SUBSET S :
                     \E y \in A : SumOver(f, A) # f[y] + SumOver(f, A \ {y})}
<1>1. SUFFICES ASSUME Bad # {} PROVE FALSE
  <2>1. S \in SUBSET S OBVIOUS
  <2> QED BY <1>1, <2>1
<1>2. PICK A \in Bad : \A B \in SUBSET A : B # A => B \notin Bad
  <2>1. Bad \subseteq SUBSET S OBVIOUS
  <2> HIDE DEF Bad
  <2> QED BY <1>1, <2>1, SmallestBad
<1>3. PICK y \in A : SumOver(f, A) # f[y] + SumOver(f, A \ {y})
  BY <1>2
<1> DEFINE c == Pick(A)
           U == A \ {c}
           V == A \ {y}
           W == A \ {c, y}
<1>4. c \in A BY <1>3, PickIn
<1>5. SumOver(f, A) = f[c] + SumOver(f, U)
  BY <1>2, <1>3, FS_Subset, SumUnfold
<1>6. y # c BY <1>3, <1>5
<1>7. /\ U \in SUBSET A /\ U # A /\ U \in SUBSET S /\ y \in U /\ U \ {y} = W
      /\ V \in SUBSET A /\ V # A /\ V \in SUBSET S /\ c \in V /\ V \ {c} = W
      /\ W \in SUBSET S
  BY <1>2, <1>3, <1>4, <1>6
<1>7a. \A B \in SUBSET A : B # A =>
         \A z \in B : SumOver(f, B) = f[z] + SumOver(f, B \ {z})
  BY <1>2
<1> HIDE DEF c, U, V, W, Bad
<1>8. SumOver(f, U) = f[y] + SumOver(f, W)
  <2>1. SumOver(f, U) = f[y] + SumOver(f, U \ {y}) BY <1>7, <1>7a
  <2> QED BY <1>7, <2>1, Zenon
<1>9. SumOver(f, V) = f[c] + SumOver(f, W)
  <2>1. SumOver(f, V) = f[c] + SumOver(f, V \ {c}) BY <1>7, <1>7a
  <2> QED BY <1>7, <2>1, Zenon
<1>10. SumOver(f, W) \in Int /\ f[c] \in Int /\ f[y] \in Int
  <2>1. IsFiniteSet(W) BY <1>7, FS_Subset
  <2>2. f[c] \in Int /\ f[y] \in Int BY <1>7
  <2>3. \A z \in W : f[z] \in Int BY <1>7
  <2> QED BY <2>1, <2>2, <2>3, SumInt
<1>11. SumOver(f, A) = f[y] + SumOver(f, V)
  BY <1>5, <1>8, <1>9, <1>10
<1> QED BY <1>3, <1>11 DEF V

\* Functions that agree on S have the same sum over S.
LEMMA SumEqual ==
  ASSUME NEW S, IsFiniteSet(S), NEW f, NEW g, \A x \in S : f[x] = g[x]
  PROVE  SumOver(f, S) = SumOver(g, S)
<1> DEFINE Bad == {A \in SUBSET S : SumOver(f, A) # SumOver(g, A)}
<1>1. SUFFICES ASSUME Bad # {} PROVE FALSE
  <2>1. S \in SUBSET S OBVIOUS
  <2> QED BY <1>1, <2>1
<1>2. PICK A \in Bad : \A B \in SUBSET A : B # A => B \notin Bad
  <2>1. Bad \subseteq SUBSET S OBVIOUS
  <2> HIDE DEF Bad
  <2> QED BY <1>1, <2>1, SmallestBad
<1> DEFINE U == A \ {Pick(A)}
<1>3. /\ SumOver(f, A) = IF A = {} THEN 0 ELSE f[Pick(A)] + SumOver(f, U)
      /\ SumOver(g, A) = IF A = {} THEN 0 ELSE g[Pick(A)] + SumOver(g, U)
  BY <1>2, FS_Subset, SumUnfold
<1>4. A # {}
  BY <1>2, <1>3
<1>5. Pick(A) \in A
  BY <1>4, PickIn
<1>6. U \in SUBSET A /\ U # A /\ U \in SUBSET S
  BY <1>5, <1>2
<1>7. SumOver(f, U) = SumOver(g, U)
  BY <1>6, <1>2
<1>8. f[Pick(A)] = g[Pick(A)]
  BY <1>5, <1>2
<1> QED BY <1>2, <1>3, <1>7, <1>8

\* Raising f by g on a part G of S raises the sum by the sum of g over G.
LEMMA SumRaise ==
  ASSUME NEW S, IsFiniteSet(S), NEW G, G \subseteq S, NEW f, NEW g, NEW h,
         \A x \in S : f[x] \in Int, \A x \in G : g[x] \in Int,
         \A x \in G : h[x] = f[x] + g[x],
         \A x \in S \ G : h[x] = f[x]
  PROVE  SumOver(h, S) = SumOver(f, S) + SumOver(g, G)
<1> DEFINE Bad == {A \in SUBSET S :
                     SumOver(h, A) # SumOver(f, A) + SumOver(g, A \cap G)}
<1>1. SUFFICES ASSUME Bad # {} PROVE FALSE
  <2>1. S \in SUBSET S /\ S \cap G = G OBVIOUS
  <2> QED BY <1>1, <2>1
<1>2. PICK A \in Bad : \A B \in SUBSET A : B # A => B \notin Bad
  <2>1. Bad \subseteq SUBSET S OBVIOUS
  <2> HIDE DEF Bad
  <2> QED BY <1>1, <2>1, SmallestBad
<1>2a. SumOver(h, A) # SumOver(f, A) + SumOver(g, A \cap G)
  BY <1>2
<1>3. A # {}
  <2> SUFFICES ASSUME A = {} PROVE FALSE OBVIOUS
  <2>1. A \cap G = {} OBVIOUS
  <2>2. SumOver(h, A) = 0 /\ SumOver(f, A) = 0 BY SumEmpty
  <2>3. SumOver(g, A \cap G) = 0 BY <2>1, SumEmpty
  <2> QED BY <1>2a, <2>2, <2>3
<1> DEFINE c == Pick(A)
           U == A \ {c}
<1>4. c \in A BY <1>3, PickIn
<1>5. U \in SUBSET A /\ U # A /\ U \in SUBSET S BY <1>2, <1>4
<1>6. IsFiniteSet(A) /\ IsFiniteSet(U) /\ IsFiniteSet(A \cap G) /\ IsFiniteSet(U \cap G)
  BY <1>2, <1>5, FS_Subset
<1>7. /\ SumOver(h, A) = h[c] + SumOver(h, U)
      /\ SumOver(f, A) = f[c] + SumOver(f, U)
  BY <1>3, <1>6, SumUnfold
<1>8. SumOver(h, U) = SumOver(f, U) + SumOver(g, U \cap G)
  BY <1>2, <1>5
<1>9. SumOver(f, U) \in Int /\ SumOver(g, U \cap G) \in Int
  <2>1. \A x \in U : f[x] \in Int BY <1>5
  <2>2. \A x \in U \cap G : g[x] \in Int OBVIOUS
  <2> QED BY <1>6, <2>1, <2>2, SumInt
<1>10. c \in S BY <1>2, <1>4
<1> HIDE DEF c, U, Bad
<1>11. CASE c \in G
  <2>1. c \in A \cap G /\ (A \cap G) \ {c} = U \cap G BY <1>4, <1>11 DEF U
  <2>2. \A y \in A \cap G : g[y] \in Int OBVIOUS
  <2>3. SumOver(g, A \cap G) = g[c] + SumOver(g, (A \cap G) \ {c})
    BY <1>6, <2>1, <2>2, SumRemove
  <2>4. h[c] = f[c] + g[c] /\ f[c] \in Int /\ g[c] \in Int BY <1>10, <1>11
  <2>5. SumOver(g, A \cap G) = g[c] + SumOver(g, U \cap G)
    BY <2>1, <2>3, Zenon
  <2> QED BY <1>2a, <1>7, <1>8, <1>9, <2>4, <2>5
<1>12. CASE c \notin G
  <2>1. A \cap G = U \cap G BY <1>4, <1>12 DEF U
  <2>2. h[c] = f[c] /\ f[c] \in Int BY <1>10, <1>12
  <2>3. SumOver(g, A \cap G) = SumOver(g, U \cap G)
    BY <2>1, Zenon
  <2> QED BY <1>2a, <1>7, <1>8, <1>9, <2>2, <2>3
<1> QED BY <1>11, <1>12

\* A sum splits into the sums over a part and over the rest.
LEMMA SumSplit ==
  ASSUME NEW S, IsFiniteSet(S), NEW G, G \subseteq S, NEW f,
         \A x \in S : f[x] \in Int
  PROVE  SumOver(f, S) = SumOver(f, S \ G) + SumOver(f, G)
<1> DEFINE Bad == {A \in SUBSET G :
                     SumOver(f, S) # SumOver(f, S \ A) + SumOver(f, A)}
<1>0. IsFiniteSet(G) BY FS_Subset
<1>1. SUFFICES ASSUME Bad # {} PROVE FALSE
  <2>1. G \in SUBSET G OBVIOUS
  <2> QED BY <1>1, <2>1
<1>2. PICK A \in Bad : \A B \in SUBSET A : B # A => B \notin Bad
  <2>1. Bad \subseteq SUBSET G OBVIOUS
  <2> HIDE DEF Bad
  <2> QED BY <1>0, <1>1, <2>1, SmallestBad
<1>2a. SumOver(f, S) # SumOver(f, S \ A) + SumOver(f, A)
  BY <1>2
<1>3. A # {}
  <2> SUFFICES ASSUME A = {} PROVE FALSE OBVIOUS
  <2>1. S \ A = S OBVIOUS
  <2>2. SumOver(f, A) = 0 BY SumEmpty
  <2>3. SumOver(f, S) \in Int BY SumInt
  <2>4. SumOver(f, S \ A) = SumOver(f, S) BY <2>1, Zenon
  <2> QED BY <1>2a, <2>2, <2>3, <2>4
<1> DEFINE c == Pick(A)
           U == A \ {c}
<1>4. c \in A BY <1>3, PickIn
<1>5. U \in SUBSET A /\ U # A /\ U \in SUBSET G /\ A \subseteq S /\ c \in S \ U
  BY <1>2, <1>4
<1>6. IsFiniteSet(A) /\ IsFiniteSet(U) /\ IsFiniteSet(S \ U) /\ IsFiniteSet(S \ A)
  BY <1>5, FS_Subset
<1>7. SumOver(f, S) = SumOver(f, S \ U) + SumOver(f, U)
  BY <1>2, <1>5
<1>8. (S \ U) \ {c} = S \ A BY <1>4
<1>9. SumOver(f, A) = f[c] + SumOver(f, U)
  BY <1>3, <1>6, SumUnfold
<1> HIDE DEF c, U, Bad
<1>10. \A y \in S \ U : f[y] \in Int OBVIOUS
<1>11. SumOver(f, S \ U) = f[c] + SumOver(f, (S \ U) \ {c})
  BY <1>5, <1>6, <1>10, SumRemove
<1>12. SumOver(f, U) \in Int /\ SumOver(f, S \ A) \in Int /\ f[c] \in Int
  <2>1. \A y \in U : f[y] \in Int BY <1>5
  <2>2. \A y \in S \ A : f[y] \in Int OBVIOUS
  <2>3. f[c] \in Int BY <1>5
  <2> QED BY <1>6, <2>1, <2>2, <2>3, SumInt
<1>13. SumOver(f, S \ U) = f[c] + SumOver(f, S \ A)
  BY <1>8, <1>11, Zenon
<1> QED BY <1>2a, <1>7, <1>9, <1>12, <1>13

\* Changing f at one member changes the sum by the difference.
LEMMA SumPoint ==
  ASSUME NEW S, IsFiniteSet(S), NEW f, NEW g, NEW x \in S,
         \A y \in S : f[y] \in Int, g[x] \in Int,
         \A y \in S \ {x} : g[y] = f[y]
  PROVE  SumOver(g, S) = SumOver(f, S) + (g[x] - f[x])
<1> DEFINE U == S \ {x}
<1>1. IsFiniteSet(U)
  BY FS_Subset
<1>2. SumOver(f, S) = f[x] + SumOver(f, U)
  BY SumRemove
<1>3. \A y \in S : g[y] \in Int
  OBVIOUS
<1>4. SumOver(g, S) = g[x] + SumOver(g, U)
  BY <1>3, SumRemove
<1>5. SumOver(g, U) = SumOver(f, U)
  BY <1>1, SumEqual
<1>6. SumOver(f, U) \in Int
  BY <1>1, SumInt
<1> HIDE DEF U
<1> QED BY <1>2, <1>4, <1>5, <1>6

\* A sum of zeros is zero.
LEMMA SumZero ==
  ASSUME NEW S, IsFiniteSet(S), NEW f, \A x \in S : f[x] = 0
  PROVE  SumOver(f, S) = 0
<1> DEFINE Bad == {A \in SUBSET S : SumOver(f, A) # 0}
<1>1. SUFFICES ASSUME Bad # {} PROVE FALSE
  <2>1. S \in SUBSET S OBVIOUS
  <2> QED BY <1>1, <2>1
<1>2. PICK A \in Bad : \A B \in SUBSET A : B # A => B \notin Bad
  <2>1. Bad \subseteq SUBSET S OBVIOUS
  <2> HIDE DEF Bad
  <2> QED BY <1>1, <2>1, SmallestBad
<1> DEFINE U == A \ {Pick(A)}
<1>3. SumOver(f, A) = IF A = {} THEN 0 ELSE f[Pick(A)] + SumOver(f, U)
  BY <1>2, FS_Subset, SumUnfold
<1>4. A # {}
  BY <1>2, <1>3
<1>5. Pick(A) \in A
  BY <1>4, PickIn
<1>6. U \in SUBSET A /\ U # A /\ U \in SUBSET S
  BY <1>5, <1>2
<1>7. SumOver(f, U) = 0
  BY <1>6, <1>2
<1>8. f[Pick(A)] = 0
  BY <1>5, <1>2
<1> QED BY <1>2, <1>3, <1>4, <1>7, <1>8

\* A sum of ones is the cardinality.
LEMMA SumOnes ==
  ASSUME NEW S, IsFiniteSet(S), NEW f, \A x \in S : f[x] = 1
  PROVE  SumOver(f, S) = Cardinality(S)
<1> DEFINE Bad == {A \in SUBSET S : SumOver(f, A) # Cardinality(A)}
<1>1. SUFFICES ASSUME Bad # {} PROVE FALSE
  <2>1. S \in SUBSET S OBVIOUS
  <2> QED BY <1>1, <2>1
<1>2. PICK A \in Bad : \A B \in SUBSET A : B # A => B \notin Bad
  <2>1. Bad \subseteq SUBSET S OBVIOUS
  <2> HIDE DEF Bad
  <2> QED BY <1>1, <2>1, SmallestBad
<1> DEFINE U == A \ {Pick(A)}
<1>3. SumOver(f, A) = IF A = {} THEN 0 ELSE f[Pick(A)] + SumOver(f, U)
  BY <1>2, FS_Subset, SumUnfold
<1>4. A # {}
  BY <1>2, <1>3, FS_EmptySet
<1>5. Pick(A) \in A
  BY <1>4, PickIn
<1>6. U \in SUBSET A /\ U # A /\ U \in SUBSET S
  BY <1>5, <1>2
<1>7. SumOver(f, U) = Cardinality(U)
  BY <1>6, <1>2
<1>8. f[Pick(A)] = 1
  BY <1>5, <1>2
<1>9. IsFiniteSet(A) BY <1>2, FS_Subset
<1>10. Cardinality(U) = Cardinality(A) - 1 /\ Cardinality(A) \in Nat
  BY <1>5, <1>9, FS_RemoveElement, FS_CardinalityType
<1>11. SumOver(f, A) # Cardinality(A)
  BY <1>2
<1> HIDE DEF U, Bad
<1> QED BY <1>3, <1>4, <1>7, <1>8, <1>10, <1>11

\* Members with value zero can be left out.
LEMMA SumDrop ==
  ASSUME NEW S, IsFiniteSet(S), NEW G, G \subseteq S, NEW f,
         \A x \in S : f[x] \in Int, \A x \in S \ G : f[x] = 0
  PROVE  SumOver(f, S) = SumOver(f, G)
<1>1. SumOver(f, S) = SumOver(f, S \ G) + SumOver(f, G)
  BY SumSplit
<1>2. SumOver(f, S \ G) = 0
  <2>1. IsFiniteSet(S \ G) BY FS_Subset
  <2> QED BY <2>1, SumZero
<1>3. SumOver(f, G) \in Int
  <2>1. IsFiniteSet(G) BY FS_Subset
  <2> QED BY <2>1, SumInt
<1> QED BY <1>1, <1>2, <1>3

\* A sum grows only if one of its terms does.
LEMMA SumAtMost ==
  ASSUME NEW S, IsFiniteSet(S), NEW f, NEW g,
         \A x \in S : f[x] \in Int /\ g[x] \in Int /\ g[x] <= f[x]
  PROVE  SumOver(g, S) <= SumOver(f, S)
<1> DEFINE d == [x \in S |-> f[x] - g[x]]
<1>1. \A x \in S : d[x] \in Nat /\ f[x] = g[x] + d[x]
  OBVIOUS
<1> HIDE DEF d
<1>2. SumOver(f, S) = SumOver(g, S) + SumOver(d, S)
  BY <1>1, SumRaise
<1>3. SumOver(d, S) \in Nat
  BY <1>1, SumNat
<1>4. SumOver(g, S) \in Int
  BY SumInt
<1> QED BY <1>2, <1>3, <1>4

=============================================================================
