-------------------------------- MODULE Induction --------------------------------
(***************************************************************************)
(* Induction over the naturals and over finite sets, stated of sets where  *)
(* a textbook has a predicate, and what it proves of the recursive         *)
(* functions in the models: that they exist, so that their defining        *)
(* equations hold, and that finite sums do not depend on the order.        *)
(***************************************************************************)
EXTENDS Integers, FiniteSets, FiniteSetTheorems, WellFoundedInduction, TLAPS

\* Induction over the naturals.
LEMMA SetInduction ==
  ASSUME NEW T, 0 \in T, \A n \in Nat : n \in T => n + 1 \in T
  PROVE  Nat \subseteq T
<1> DEFINE C == Nat \ T
           R == OpToRel(<, Nat)
<1>1. SUFFICES ASSUME C # {} PROVE FALSE
  OBVIOUS
<1>2. IsWellFoundedOn(R, Nat)
  BY NatLessThanWellFounded
<1>3. C \subseteq Nat
  OBVIOUS
<1>4. \A x, y \in Nat : x < y => <<x, y>> \in R
  BY DEF OpToRel
<1> HIDE DEF R, C
<1>5. PICK x \in C : \A y \in C : ~ (<<y, x>> \in R)
  BY <1>1, <1>2, <1>3, WFMin
<1>6. x \in Nat /\ x # 0 /\ x \notin T
  BY <1>5 DEF C
<1>7. x - 1 \in Nat /\ x - 1 < x
  BY <1>6
<1>8. x - 1 \in T
  BY <1>4, <1>5, <1>6, <1>7 DEF C
<1> QED
  BY <1>6, <1>7, <1>8

\* Induction over the subsets of a finite set: what holds of a set when it
\* holds of the set without any one of its elements holds of them all.
LEMMA SubsetInduction ==
  ASSUME NEW U, IsFiniteSet(U), NEW P,
         \A S \in SUBSET U : (\A x \in S : S \ {x} \in P) => S \in P
  PROVE  SUBSET U \subseteq P
<1> DEFINE T == {n \in Nat : \A S \in SUBSET U : Cardinality(S) = n => S \in P}
<1>1. \A S \in SUBSET U : IsFiniteSet(S) /\ Cardinality(S) \in Nat
  BY FS_Subset, FS_CardinalityType
<1>2. 0 \in T
  <2>1. ASSUME NEW S \in SUBSET U, Cardinality(S) = 0 PROVE S \in P
    <3>1. S = {}
      BY <1>1, <2>1, FS_EmptySet
    <3> QED
      BY <3>1
  <2> QED
    BY <2>1
<1>3. ASSUME NEW n \in Nat, n \in T PROVE n + 1 \in T
  <2>1. ASSUME NEW S \in SUBSET U, Cardinality(S) = n + 1 PROVE S \in P
    <3>1. ASSUME NEW x \in S PROVE S \ {x} \in P
      <4>1. Cardinality(S \ {x}) = n
        BY <1>1, <2>1, FS_RemoveElement
      <4> QED
        BY <1>3, <4>1
    <3> QED
      BY <3>1
  <2> QED
    BY <2>1
<1> HIDE DEF T
<1>4. Nat \subseteq T
  BY <1>2, <1>3, SetInduction
<1> QED
  BY <1>1, <1>4 DEF T

-----------------------------------------------------------------------------
(* Iteration. *)

\* The first n values of the iteration of F from x0.
Iterates(g, n, F, x0) ==
  /\ DOMAIN g = 0 .. n
  /\ g[0] = x0
  /\ \A m \in 0 .. n - 1 : g[m + 1] = F[g[m]]

\* A map of S into itself, and its iteration for ever. They have names for the
\* provers, which match names more readily than sets of functions.
MapsInto(F, S) == F \in [S -> S]
IsIteration(g, S, F, x0) ==
  g \in [Nat -> S] /\ g[0] = x0 /\ \A n \in Nat : g[n + 1] = F[g[n]]

\* A function iterated from a first element has all its values, by induction
\* on how many.
LEMMA IterationExists ==
  ASSUME NEW S, NEW F, MapsInto(F, S), NEW x0 \in S
  PROVE  \E g : IsIteration(g, S, F, x0)
<1> USE DEF MapsInto
<1> DEFINE T == {n \in Nat : \E g \in [0 .. n -> S] : Iterates(g, n, F, x0)}
<1>1. 0 \in T
  <2> DEFINE g == [m \in 0 .. 0 |-> x0]
  <2>1. g \in [0 .. 0 -> S] /\ Iterates(g, 0, F, x0)
    BY DEF Iterates
  <2> QED
    BY <2>1
<1>2. ASSUME NEW n \in Nat, n \in T PROVE n + 1 \in T
  <2>1. PICK g \in [0 .. n -> S] : Iterates(g, n, F, x0)
    BY <1>2
  <2> DEFINE h == [m \in 0 .. n + 1 |-> IF m = n + 1 THEN F[g[n]] ELSE g[m]]
  <2>2. h \in [0 .. n + 1 -> S]
    BY <2>1
  <2>3. Iterates(h, n + 1, F, x0)
    BY <2>1 DEF Iterates
  <2> QED
    BY <2>2, <2>3
<1> HIDE DEF T
<1>3. Nat \subseteq T
  BY <1>1, <1>2, SetInduction
<1> DEFINE sol == [n \in Nat |-> CHOOSE g \in [0 .. n -> S] : Iterates(g, n, F, x0)]
<1>4. \A n \in Nat : sol[n] \in [0 .. n -> S] /\ Iterates(sol[n], n, F, x0)
  BY <1>3 DEF T
<1> HIDE DEF sol
<1>5. ASSUME NEW n \in Nat PROVE sol[n + 1][n] = sol[n][n]
  <2> DEFINE Q == {m \in Nat : m <= n => sol[n + 1][m] = sol[n][m]}
  <2>1. 0 \in Q
    BY <1>4 DEF Iterates
  <2>2. ASSUME NEW m \in Nat, m \in Q PROVE m + 1 \in Q
    <3> SUFFICES ASSUME m + 1 <= n PROVE sol[n + 1][m + 1] = sol[n][m + 1]
      OBVIOUS
    <3>1. m \in 0 .. n - 1 /\ m \in 0 .. (n + 1) - 1 /\ sol[n + 1][m] = sol[n][m]
      BY <2>2
    <3> QED
      BY <1>4, <3>1 DEF Iterates
  <2> HIDE DEF Q
  <2>3. Nat \subseteq Q
    BY <2>1, <2>2, SetInduction
  <2> QED
    BY <2>3 DEF Q
<1> DEFINE f == [n \in Nat |-> sol[n][n]]
<1>6. f \in [Nat -> S]
  BY <1>4
<1>7. f[0] = x0
  BY <1>4 DEF Iterates
<1>8. ASSUME NEW n \in Nat PROVE f[n + 1] = F[f[n]]
  <2>1. n \in 0 .. (n + 1) - 1
    OBVIOUS
  <2>2. sol[n + 1][n + 1] = F[sol[n + 1][n]]
    BY <1>4, <2>1 DEF Iterates
  <2> QED
    BY <1>5, <2>2
<1>9. IsIteration(f, S, F, x0)
  <2> HIDE DEF f
  <2> QED
    BY <1>6, <1>7, <1>8 DEF IsIteration
<1> HIDE DEF f
<1> QED
  BY <1>9

-----------------------------------------------------------------------------
(* Finite sums, as MapThenSumSet computes them. *)

\* iter adds up the weights w over each subset of U, in the order of CHOOSE.
IsSum(iter, w, U) ==
  iter = [s \in SUBSET U |->
            IF s = {} THEN 0
            ELSE w[CHOOSE x \in s : TRUE] + iter[s \ {CHOOSE x \in s : TRUE}]]

\* The sum over the subsets of a finite set exists, by induction on the
\* subset.
LEMMA SumExists ==
  ASSUME NEW U, IsFiniteSet(U), NEW w
  PROVE  \E iter : IsSum(iter, w, U)
<1> DEFINE Small(n) == {s \in SUBSET U : Cardinality(s) <= n}
           Body(g, s) == IF s = {} THEN 0
                         ELSE w[CHOOSE x \in s : TRUE] + g[s \ {CHOOSE x \in s : TRUE}]
           T == {n \in Nat : \E g : g = [s \in Small(n) |-> Body(g, s)]}
<1>1. \A s \in SUBSET U : IsFiniteSet(s) /\ Cardinality(s) \in Nat
                          /\ Cardinality(s) <= Cardinality(U)
  BY FS_Subset, FS_CardinalityType
<1>2. 0 \in T
  <2> DEFINE g == [s \in Small(0) |-> 0]
  <2>1. \A s \in Small(0) : s = {}
    BY <1>1, FS_EmptySet
  <2>2. g = [s \in Small(0) |-> Body(g, s)]
    BY <2>1
  <2> HIDE DEF g
  <2> QED
    BY <2>2
<1>3. ASSUME NEW n \in Nat, n \in T PROVE n + 1 \in T
  <2>1. PICK g : g = [s \in Small(n) |-> Body(g, s)]
    BY <1>3
  <2> DEFINE h == [s \in Small(n + 1) |-> Body(g, s)]
  <2>2. ASSUME NEW s \in Small(n + 1), s # {}
        PROVE  h[s \ {CHOOSE x \in s : TRUE}] = g[s \ {CHOOSE x \in s : TRUE}]
    <3> DEFINE c == CHOOSE x \in s : TRUE
               r == s \ {c}
    <3>5. c \in s
      BY <2>2
    <3>6. IsFiniteSet(s) /\ Cardinality(s) \in Nat /\ Cardinality(s) <= n + 1 /\ r \in SUBSET U
      BY <1>1
    <3>7. Cardinality(r) = Cardinality(s) - 1
      <4> HIDE DEF c
      <4> QED
        BY <3>5, <3>6, FS_RemoveElement
    <3>1. r \in Small(n)
      <4> HIDE DEF r
      <4> QED
        BY <3>6, <3>7
    <3>2. r \in Small(n + 1)
      BY <1>1, <3>1
    <3>3. g[r] = Body(g, r)
      BY <2>1, <3>1
    <3>4. h[r] = Body(g, r)
      BY <3>2
    <3> QED
      BY <3>3, <3>4
  <2>3. \A s \in Small(n + 1) : Body(g, s) = Body(h, s)
    <3> HIDE DEF h
    <3> QED
      BY <2>2
  <2>4. h = [s \in Small(n + 1) |-> Body(h, s)]
    BY <2>3
  <2>5. \E f : f = [s \in Small(n + 1) |-> Body(f, s)]
    <3> HIDE DEF h, Small, Body
    <3> QED
      BY <2>4
  <2> HIDE DEF h, Small, Body
  <2> QED
    BY <2>5
<1>4. Nat \subseteq T
  <2> HIDE DEF T
  <2> QED
    BY <1>2, <1>3, SetInduction
<1>5. Small(Cardinality(U)) = SUBSET U /\ Cardinality(U) \in Nat
  BY <1>1
<1>6. PICK g : g = [s \in Small(Cardinality(U)) |-> Body(g, s)]
  BY <1>4, <1>5
<1>7. IsSum(g, w, U)
  BY <1>5, <1>6 DEF IsSum
<1> QED
  BY <1>7

\* A sum of naturals is a natural, and any of its terms may be added last.
LEMMA SumOfTerms ==
  ASSUME NEW U, IsFiniteSet(U), NEW w, \A x \in U : w[x] \in Nat, NEW iter, IsSum(iter, w, U)
  PROVE  /\ iter[{}] = 0
         /\ \A s \in SUBSET U : iter[s] \in Nat
         /\ \A s \in SUBSET U : \A x \in s : iter[s] = w[x] + iter[s \ {x}]
<1> DEFINE N == {s \in SUBSET U : iter[s] \in Nat}
           P == {s \in SUBSET U : \A x \in s : iter[s] = w[x] + iter[s \ {x}]}
<1>1. iter[{}] = 0
  BY DEF IsSum
<1>2. ASSUME NEW s \in SUBSET U, s # {}
      PROVE  \E c \in s : iter[s] = w[c] + iter[s \ {c}]
  <2> DEFINE c == CHOOSE x \in s : TRUE
  <2>1. c \in s
    BY <1>2
  <2>2. iter[s] = w[c] + iter[s \ {c}]
    BY <1>2 DEF IsSum
  <2> HIDE DEF c
  <2> QED
    BY <2>1, <2>2
<1>3. ASSUME NEW s \in SUBSET U, \A x \in s : s \ {x} \in N
      PROVE  s \in N
  <2>1. CASE s = {}
    BY <1>1, <2>1
  <2>2. CASE s # {}
    <3>1. PICK c \in s : iter[s] = w[c] + iter[s \ {c}]
      BY <1>2, <2>2
    <3>2. iter[s \ {c}] \in Nat /\ w[c] \in Nat
      BY <1>3
    <3> QED
      BY <3>1, <3>2
  <2> QED
    BY <2>1, <2>2
<1>4. \A s \in SUBSET U : iter[s] \in Nat
  <2>1. SUBSET U \subseteq N
    <3> HIDE DEF N
    <3> QED
      BY <1>3, SubsetInduction
  <2> QED
    BY <2>1
<1>5. ASSUME NEW s \in SUBSET U, \A x \in s : s \ {x} \in P, NEW x \in s
      PROVE  iter[s] = w[x] + iter[s \ {x}]
  <2>1. PICK c \in s : iter[s] = w[c] + iter[s \ {c}]
    BY <1>2
  <2>2. CASE x = c
    BY <2>1, <2>2
  <2>3. CASE x # c
    <3>1. (s \ {c}) \ {x} = (s \ {x}) \ {c}
      OBVIOUS
    <3>2. iter[s \ {c}] = w[x] + iter[(s \ {c}) \ {x}]
      BY <1>5, <2>3
    <3>3. iter[s \ {x}] = w[c] + iter[(s \ {x}) \ {c}]
      BY <1>5, <2>3
    <3>4. w[x] \in Nat /\ w[c] \in Nat /\ iter[(s \ {x}) \ {c}] \in Nat
      BY <1>4
    <3> DEFINE r == iter[(s \ {x}) \ {c}]
    <3>5. iter[s] = w[c] + (w[x] + r) /\ iter[s \ {x}] = w[c] + r
      BY <2>1, <3>1, <3>2, <3>3
    <3> HIDE DEF r
    <3>6. r \in Nat /\ w[x] \in Nat /\ w[c] \in Nat
      BY <3>4 DEF r
    <3>7. w[c] + (w[x] + r) = w[x] + (w[c] + r)
      BY <3>6
    <3> QED
      BY <3>5, <3>7
  <2> QED
    BY <2>2, <2>3
<1>6. SUBSET U \subseteq P
  <2>1. ASSUME NEW s \in SUBSET U, \A x \in s : s \ {x} \in P
        PROVE  s \in P
    BY <1>5, <2>1
  <2> HIDE DEF P
  <2> QED
    BY <2>1, SubsetInduction
<1> QED
  BY <1>1, <1>4, <1>6

\* Terms that are paired off, one by one, with terms as large add up to no more.
LEMMA SumIsBounded ==
  ASSUME NEW U, IsFiniteSet(U), NEW w, \A x \in U : w[x] \in Nat, NEW a, IsSum(a, w, U),
         NEW V, IsFiniteSet(V), NEW v, \A x \in V : v[x] \in Nat, NEW b, IsSum(b, v, V),
         NEW g \in [U -> V], \A x, y \in U : g[x] = g[y] => x = y,
         \A x \in U : w[x] <= v[g[x]]
  PROVE  a[U] <= b[V]
<1> DEFINE P == {s \in SUBSET U : \A r \in SUBSET V : {g[x] : x \in s} \subseteq r => a[s] <= b[r]}
<1>1. /\ a[{}] = 0
      /\ \A s \in SUBSET U : a[s] \in Nat
      /\ \A s \in SUBSET U : \A x \in s : a[s] = w[x] + a[s \ {x}]
  BY SumOfTerms
<1>2. /\ \A s \in SUBSET V : b[s] \in Nat
      /\ \A s \in SUBSET V : \A x \in s : b[s] = v[x] + b[s \ {x}]
  BY SumOfTerms
<1>3. ASSUME NEW s \in SUBSET U, \A x \in s : s \ {x} \in P
      PROVE  s \in P
  <2> SUFFICES ASSUME NEW r \in SUBSET V, {g[x] : x \in s} \subseteq r PROVE a[s] <= b[r]
    OBVIOUS
  <2>1. CASE s = {}
    <3>1. a[s] = 0 /\ b[r] \in Nat
      BY <1>1, <1>2, <2>1
    <3> QED
      BY <3>1
  <2>2. CASE s # {}
    <3>1. PICK x \in s : TRUE
      BY <2>2
    <3>2. g[x] \in r /\ {g[y] : y \in s \ {x}} \subseteq r \ {g[x]}
      OBVIOUS
    <3>3. a[s \ {x}] <= b[r \ {g[x]}]
      BY <1>3, <3>2
    <3>4. a[s] = w[x] + a[s \ {x}] /\ b[r] = v[g[x]] + b[r \ {g[x]}]
      BY <1>1, <1>2, <3>2
    <3>5. /\ a[s \ {x}] \in Nat /\ b[r \ {g[x]}] \in Nat
          /\ w[x] \in Nat /\ v[g[x]] \in Nat /\ w[x] <= v[g[x]]
      BY <1>1, <1>2
    <3> QED
      BY <3>3, <3>4, <3>5
  <2> QED
    BY <2>1, <2>2
<1> HIDE DEF P
<1>4. SUBSET U \subseteq P
  BY <1>3, SubsetInduction
<1>5. {g[x] : x \in U} \subseteq V
  OBVIOUS
<1> QED
  BY <1>4, <1>5 DEF P
=============================================================================
