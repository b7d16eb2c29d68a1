----------------------------- MODULE SumLemmas -----------------------------
(***************************************************************************)
(* What a sum over a finite set does when one term changes, when all terms *)
(* grow and when the terms change places: the arithmetic of every ledger   *)
(* of this project (units in orders, units in shipments, failures by age). *)
(* SumFunction is the fold of the community module Functions.              *)
(*                                                                         *)
(* The fold picks the elements in an order CHOOSE fixes.  A function g on  *)
(* the subsets of S that satisfies its equation exists and is the only one *)
(* (SumExists, SumUnique), and may take out any element first (SumApart).  *)
(* All of it is by induction on the subsets of S: strict inclusion is well *)
(* founded on the subsets of a finite set (SubsetInduction).               *)
(***************************************************************************)
EXTENDS Functions, FiniteSetTheorems, TLAPS

\* The element the fold takes out of s first
Chosen(s) == CHOOSE x \in s : TRUE
Body(f, g, s) == IF s = {} THEN 0 ELSE f[Chosen(s)] + g[s \ {Chosen(s)}]
\* g is the fold of f over every subset of S
Equation(f, S, g) == g = [s \in SUBSET S |-> Body(f, g, s)]

\* SumFunction is the value at its domain of a function that satisfies the equation.
LEMMA SumIsChoice ==
    ASSUME NEW f
    PROVE  SumFunction(f) = (CHOOSE g : Equation(f, DOMAIN f, g))[DOMAIN f]
BY DEF SumFunction, SumFunctionOnSet, FoldFunctionOnSet, MapThenFoldSet, Equation, Body, Chosen

\* Induction on subsets: what holds of a subset of a finite set whenever it holds
\* of its strict subsets holds of them all.
LEMMA SubsetInduction ==
    ASSUME NEW S, IsFiniteSet(S), NEW T,
           \A s \in SUBSET S : (\A u \in SUBSET s : u # s => u \in T) => s \in T
    PROVE  SUBSET S \subseteq T
<1> SUFFICES ASSUME (SUBSET S) \ T # {} PROVE FALSE
  OBVIOUS
<1>1. IsWellFoundedOn(StrictSubsetOrdering(S), SUBSET S)
  <2>1. FiniteSubsetsOf(S) = SUBSET S
    BY FS_FiniteSubsetsOfFinite
  <2>2. IsWellFoundedOn(StrictSubsetOrdering(S), FiniteSubsetsOf(S))
    BY FS_StrictSubsetOrderingWellFounded
  <2> QED BY <2>1, <2>2
<1>2. PICK s \in (SUBSET S) \ T : \A u \in (SUBSET S) \ T : ~(<<u, s>> \in StrictSubsetOrdering(S))
  <2> DEFINE B == (SUBSET S) \ T
  <2>1. B \subseteq SUBSET S /\ B # {}
    OBVIOUS
  <2> HIDE DEF B
  <2>2. \E s \in B : \A u \in B : ~(<<u, s>> \in StrictSubsetOrdering(S))
    BY <1>1, <2>1, WFMin
  <2> QED BY <2>2 DEF B
<1>3. \A u \in SUBSET s : u # s => u \in T
  BY <1>2 DEF StrictSubsetOrdering
<1> QED BY <1>2, <1>3

\* The fold takes out an element of the set.
LEMMA ChosenIn ==
    ASSUME NEW s, s # {}
    PROVE  Chosen(s) \in s
BY DEF Chosen

\* The equation at one subset: nothing sums to zero, otherwise one element apart.
LEMMA EquationAt ==
    ASSUME NEW f, NEW S, NEW g, Equation(f, S, g), NEW s \in SUBSET S
    PROVE  /\ s = {} => g[s] = 0
           /\ s # {} => g[s] = f[Chosen(s)] + g[s \ {Chosen(s)}]
<1>1. g[s] = Body(f, g, s)
  <2> DEFINE h == [u \in SUBSET S |-> Body(f, g, u)]
  <2>1. h[s] = Body(f, g, s)
    OBVIOUS
  <2>2. g = h
    BY DEF Equation
  <2> HIDE DEF h
  <2> QED BY <2>1, <2>2
<1> QED BY <1>1 DEF Body

\* Folds of one function over two sets agree where both are defined.
LEMMA SumUnique ==
    ASSUME NEW f, NEW A, NEW B, NEW g, NEW h, IsFiniteSet(A), A \subseteq B,
           Equation(f, A, g), Equation(f, B, h)
    PROVE  \A s \in SUBSET A : g[s] = h[s]
<1> DEFINE T == {s \in SUBSET A : g[s] = h[s]}
<1>1. ASSUME NEW s \in SUBSET A, \A u \in SUBSET s : u # s => u \in T
      PROVE  s \in T
  <2>1. CASE s = {}
    <3>1. g[s] = 0
      BY <2>1, EquationAt
    <3>2. h[s] = 0
      BY <2>1, EquationAt
    <3> QED BY <3>1, <3>2
  <2>2. CASE s # {}
    <3> DEFINE c == Chosen(s)
    <3>1. g[s] = f[c] + g[s \ {c}]
      BY <2>2, EquationAt
    <3>2. h[s] = f[c] + h[s \ {c}]
      <4>1. s \in SUBSET B
        OBVIOUS
      <4> QED BY ONLY Equation(f, B, h), <4>1, <2>2, EquationAt
    <3>3. c \in s
      BY <2>2, ChosenIn
    <3> HIDE DEF c
    <3>4. s \ {c} \in T
      BY <3>3, <1>1
    <3> QED BY <3>1, <3>2, <3>4
  <2> QED BY <2>1, <2>2
<1> HIDE DEF T
<1>2. SUBSET A \subseteq T
  BY <1>1, SubsetInduction
<1> QED BY <1>2 DEF T

\* The fold of a function over a finite set exists.
LEMMA SumExists ==
    ASSUME NEW f, NEW S, IsFiniteSet(S)
    PROVE  \E g : Equation(f, S, g)
<1> DEFINE T == {s \in SUBSET S : \E g : Equation(f, s, g)}
<1>1. ASSUME NEW s \in SUBSET S, \A u \in SUBSET s : u # s => u \in T
      PROVE  s \in T
  <2> DEFINE H == [u \in SUBSET s |-> CHOOSE g : Equation(f, u, g)]
             new == [t \in SUBSET s |-> IF t = {} THEN 0 ELSE f[Chosen(t)] + H[t \ {Chosen(t)}][t \ {Chosen(t)}]]
  <2>1. ASSUME NEW u \in SUBSET s, u # s
        PROVE  Equation(f, u, H[u])
    <3>1. \E g : Equation(f, u, g)
      BY <1>1, <2>1
    <3>2. H[u] = CHOOSE g : Equation(f, u, g)
      OBVIOUS
    <3> QED BY <3>1, <3>2
  <2>2. ASSUME NEW t \in SUBSET s, t # {}
        PROVE  Chosen(t) \in t /\ t \ {Chosen(t)} \in SUBSET s /\ t \ {Chosen(t)} # s
    BY <2>2, ChosenIn
  <2> HIDE DEF H
  <2>3. ASSUME NEW t \in SUBSET s
        PROVE  /\ t = {} => new[t] = 0
               /\ t # {} => new[t] = f[Chosen(t)] + H[t \ {Chosen(t)}][t \ {Chosen(t)}]
    OBVIOUS
  <2>4. ASSUME NEW u \in SUBSET s, u # s
        PROVE  new[u] = H[u][u]
    <3>1. CASE u = {}
      <4>1. H[u][u] = 0
        <5>1. Equation(f, u, H[u]) /\ u \in SUBSET u
          BY <2>1, <2>4
        <5> QED BY <3>1, <5>1, EquationAt
      <4> QED BY <4>1, <3>1, <2>3
    <3>2. CASE u # {}
      <4> DEFINE v == u \ {Chosen(u)}
      <4>1. v \in SUBSET s /\ v # s /\ v \subseteq u
        BY <3>2, <2>2
      <4>2. H[u][u] = f[Chosen(u)] + H[u][v]
        BY <3>2, <2>1, <2>4, EquationAt
      <4>3. IsFiniteSet(v)
        <5>1. v \in SUBSET S
          BY <4>1
        <5> QED BY <5>1, FS_Subset
      <4>4. Equation(f, v, H[v]) /\ Equation(f, u, H[u])
        BY <4>1, <2>1, <2>4
      <4> HIDE DEF v
      <4>5. H[v][v] = H[u][v]
        BY <4>1, <4>3, <4>4, SumUnique
      <4>6. new[u] = f[Chosen(u)] + H[v][v]
        BY <3>2, <2>3 DEF v
      <4> QED BY <4>2, <4>5, <4>6
    <3> QED BY <3>1, <3>2
  <2>5. ASSUME NEW t \in SUBSET s
        PROVE  new[t] = Body(f, new, t)
    <3>1. CASE t = {}
      BY <3>1, <2>3 DEF Body
    <3>2. CASE t # {}
      <4>1. new[t \ {Chosen(t)}] = H[t \ {Chosen(t)}][t \ {Chosen(t)}]
        BY <3>2, <2>2, <2>4
      <4>2. new[t] = f[Chosen(t)] + H[t \ {Chosen(t)}][t \ {Chosen(t)}]
        BY <3>2, <2>3
      <4> HIDE DEF new
      <4>3. new[t] = f[Chosen(t)] + new[t \ {Chosen(t)}]
        BY <4>1, <4>2
      <4> QED BY <4>3, <3>2 DEF Body
    <3> QED BY <3>1, <3>2
  <2>6. new = [t \in SUBSET s |-> new[t]]
    OBVIOUS
  <2> HIDE DEF new
  <2>7. [t \in SUBSET s |-> new[t]] = [t \in SUBSET s |-> Body(f, new, t)]
    BY <2>5
  <2>8. Equation(f, s, new)
    BY <2>6, <2>7 DEF Equation
  <2> QED BY <2>8
<1> HIDE DEF T
<1>2. SUBSET S \subseteq T
  BY <1>1, SubsetInduction
<1> QED BY <1>2 DEF T

\* Any element may be taken out first, not only the one the fold chooses
Parts(f, S, g) ==
    \A s \in SUBSET S : g[s] \in Int /\ \A x \in s : g[s] = f[x] + g[s \ {x}]

\* A fold over integers does not depend on the order it takes elements in.
LEMMA SumApart ==
    ASSUME NEW S, IsFiniteSet(S), NEW f \in [S -> Int], NEW g, Equation(f, S, g)
    PROVE  Parts(f, S, g)
<1> DEFINE T == {s \in SUBSET S : g[s] \in Int /\ \A x \in s : g[s] = f[x] + g[s \ {x}]}
<1>1. ASSUME NEW s \in SUBSET S, \A u \in SUBSET s : u # s => u \in T
      PROVE  s \in T
  <2>1. CASE s = {}
    <3>1. g[s] = 0
      BY <2>1, EquationAt
    <3> QED BY <2>1, <3>1
  <2>2. CASE s # {}
    <3> DEFINE c == Chosen(s)
    <3>1. g[s] = f[c] + g[s \ {c}]
      BY ONLY Equation(f, S, g), s \in SUBSET S, <2>2, EquationAt
    <3>2. c \in s
      BY <2>2, ChosenIn
    <3> HIDE DEF c
    <3>3. ASSUME NEW x \in s
          PROVE  /\ g[s \ {x}] \in Int /\ f[x] \in Int
                 /\ \A y \in s \ {x} : g[s \ {x}] = f[y] + g[(s \ {x}) \ {y}]
      <4>1. s \ {x} \in T
        BY <1>1
      <4> QED BY <4>1
    <3>4. g[s] \in Int
      BY <3>1, <3>2, <3>3
    <3>5. ASSUME NEW x \in s, x # c
          PROVE  g[s] = f[x] + g[s \ {x}]
      <4>1. g[s \ {c}] = f[x] + g[(s \ {c}) \ {x}]
        BY <3>2, <3>3, <3>5
      <4>2. g[s \ {x}] = f[c] + g[(s \ {x}) \ {c}]
        BY <3>2, <3>3, <3>5
      <4>3. (s \ {c}) \ {x} = (s \ {x}) \ {c}
        OBVIOUS
      <4>4. g[(s \ {x}) \ {c}] \in Int
        <5>1. (s \ {x}) \ {c} \in T
          BY <1>1, <3>2
        <5> QED BY <5>1
      <4>5. f[x] \in Int /\ f[c] \in Int
        BY <3>2, <3>3
      <4> DEFINE rest == g[(s \ {x}) \ {c}]
                 withX == g[s \ {c}]
                 withC == g[s \ {x}]
      <4>6. withX = f[x] + rest /\ withC = f[c] + rest /\ g[s] = f[c] + withX /\ rest \in Int
        BY <4>1, <4>2, <4>3, <4>4, <3>1
      <4> HIDE DEF rest, withX, withC
      <4>7. g[s] = f[x] + withC
        BY <4>5, <4>6
      <4> QED BY <4>7 DEF withC
    <3> QED BY <3>1, <3>4, <3>5
  <2> QED BY <2>1, <2>2
<1> HIDE DEF T
<1>2. SUBSET S \subseteq T
  BY <1>1, SubsetInduction
<1> QED BY <1>2 DEF T, Parts

\* A sum is the value at the whole set of a fold that any element may leave first.
LEMMA SumPick ==
    ASSUME NEW S, IsFiniteSet(S), NEW f \in [S -> Int]
    PROVE  \E g : SumFunction(f) = g[S] /\ g[{}] = 0 /\ Parts(f, S, g)
<1> DEFINE g == CHOOSE h : Equation(f, S, h)
<1>1. Equation(f, S, g)
  BY SumExists
<1>2. SumFunction(f) = (CHOOSE h : Equation(f, DOMAIN f, h))[DOMAIN f]
  BY SumIsChoice
<1>3. DOMAIN f = S
  OBVIOUS
<1>4. SumFunction(f) = g[S]
  BY <1>2, <1>3
<1> HIDE DEF g
<1>5. g[{}] = 0
  <2>1. {} \in SUBSET S
    OBVIOUS
  <2> QED BY ONLY <1>1, <2>1, EquationAt
<1>6. Parts(f, S, g)
  BY ONLY IsFiniteSet(S), f \in [S -> Int], <1>1, SumApart
<1> QED BY <1>4, <1>5, <1>6

-----------------------------------------------------------------------------
(* Sums                                                                    *)

\* A sum of integers is an integer.
LEMMA SumInt ==
    ASSUME NEW S, IsFiniteSet(S), NEW f \in [S -> Int]
    PROVE  SumFunction(f) \in Int
<1>1. PICK g : SumFunction(f) = g[S] /\ g[{}] = 0 /\ Parts(f, S, g)
  BY SumPick
<1>2. S \in SUBSET S
  OBVIOUS
<1> QED BY <1>1, <1>2 DEF Parts

\* A sum of smaller terms is smaller.
LEMMA SumMonotone ==
    ASSUME NEW S, IsFiniteSet(S), NEW f \in [S -> Int], NEW h \in [S -> Int],
           \A x \in S : f[x] <= h[x]
    PROVE  SumFunction(f) <= SumFunction(h)
<1>1. PICK g : SumFunction(f) = g[S] /\ g[{}] = 0 /\ Parts(f, S, g)
  BY SumPick
<1>2. PICK k : SumFunction(h) = k[S] /\ k[{}] = 0 /\ Parts(h, S, k)
  BY SumPick
<1> DEFINE T == {s \in SUBSET S : g[s] <= k[s]}
<1>3. ASSUME NEW s \in SUBSET S, \A u \in SUBSET s : u # s => u \in T
      PROVE  s \in T
  <2>1. CASE s = {}
    <3>1. g[s] = 0 /\ k[s] = 0
      BY <1>1, <1>2, <2>1
    <3> QED BY <3>1
  <2>2. CASE s # {}
    <3>1. PICK x : x \in s
      BY <2>2
    <3> DEFINE u == s \ {x}
    <3>2. g[s] = f[x] + g[u] /\ g[u] \in Int
      BY <1>1, <3>1 DEF Parts
    <3>3. k[s] = h[x] + k[u] /\ k[u] \in Int
      BY <1>2, <3>1 DEF Parts
    <3>4. g[u] <= k[u]
      BY <1>3, <3>1
    <3>5. f[x] \in Int /\ h[x] \in Int /\ f[x] <= h[x]
      BY <3>1
    <3> HIDE DEF u
    <3> QED BY <3>2, <3>3, <3>4, <3>5
  <2> QED BY <2>1, <2>2
<1> HIDE DEF T
<1>4. SUBSET S \subseteq T
  BY <1>3, SubsetInduction
<1>5. S \in T
  BY <1>4
<1> QED BY <1>1, <1>2, <1>5 DEF T

\* When one term changes, the sum changes by as much.
LEMMA SumChange ==
    ASSUME NEW S, IsFiniteSet(S), NEW f \in [S -> Int], NEW h \in [S -> Int],
           NEW y \in S, \A x \in S \ {y} : h[x] = f[x]
    PROVE  SumFunction(h) = SumFunction(f) - f[y] + h[y]
<1>1. PICK g : SumFunction(f) = g[S] /\ g[{}] = 0 /\ Parts(f, S, g)
  BY SumPick
<1>2. PICK k : SumFunction(h) = k[S] /\ k[{}] = 0 /\ Parts(h, S, k)
  BY SumPick
<1> DEFINE T == {s \in SUBSET S : y \notin s => g[s] = k[s]}
<1>3. ASSUME NEW s \in SUBSET S, \A u \in SUBSET s : u # s => u \in T
      PROVE  s \in T
  <2>1. CASE s = {}
    <3>1. g[s] = 0 /\ k[s] = 0
      BY <1>1, <1>2, <2>1
    <3> QED BY <3>1
  <2>2. CASE s # {} /\ y \notin s
    <3>1. PICK x : x \in s
      BY <2>2
    <3> DEFINE u == s \ {x}
    <3>2. g[s] = f[x] + g[u] /\ g[u] \in Int
      BY <1>1, <3>1 DEF Parts
    <3>3. k[s] = h[x] + k[u] /\ k[u] \in Int
      BY <1>2, <3>1 DEF Parts
    <3>4. g[u] = k[u]
      BY <1>3, <2>2, <3>1
    <3>5. f[x] = h[x]
      BY <2>2, <3>1
    <3> HIDE DEF u
    <3> QED BY <3>2, <3>3, <3>4, <3>5
  <2> QED BY <2>1, <2>2
<1> HIDE DEF T
<1>4. SUBSET S \subseteq T
  BY <1>3, SubsetInduction
<1> DEFINE rest == S \ {y}
<1>5. rest \in T /\ y \notin rest
  BY <1>4
<1>6. g[rest] = k[rest]
  BY <1>5 DEF T
<1>7. g[S] = f[y] + g[rest] /\ g[rest] \in Int
  BY <1>1 DEF Parts
<1>8. k[S] = h[y] + k[rest] /\ k[rest] \in Int
  BY <1>2 DEF Parts
<1> HIDE DEF rest
<1> QED BY <1>1, <1>2, <1>6, <1>7, <1>8

\* A sum of zeros is zero.
LEMMA SumConstantZero ==
    ASSUME NEW S, IsFiniteSet(S), NEW f \in [S -> Int], \A x \in S : f[x] = 0
    PROVE  SumFunction(f) = 0
<1>1. PICK g : SumFunction(f) = g[S] /\ g[{}] = 0 /\ Parts(f, S, g)
  BY SumPick
<1> DEFINE T == {s \in SUBSET S : g[s] = 0}
<1>3. ASSUME NEW s \in SUBSET S, \A u \in SUBSET s : u # s => u \in T
      PROVE  s \in T
  <2>1. CASE s = {}
    BY <1>1, <2>1
  <2>2. CASE s # {}
    <3>1. PICK x : x \in s
      BY <2>2
    <3>2. g[s] = f[x] + g[s \ {x}]
      BY <1>1, <3>1 DEF Parts
    <3>3. g[s \ {x}] = 0 /\ f[x] = 0
      BY <1>3, <3>1
    <3> QED BY <3>2, <3>3
  <2> QED BY <2>1, <2>2
<1> HIDE DEF T
<1>4. SUBSET S \subseteq T
  BY <1>3, SubsetInduction
<1>5. S \in T
  BY <1>4
<1> QED BY <1>1, <1>5 DEF T

\* A sum of natural numbers is one.
LEMMA SumNat ==
    ASSUME NEW S, IsFiniteSet(S), NEW f \in [S -> Nat]
    PROVE  SumFunction(f) \in Nat
<1> DEFINE zero == [x \in S |-> 0]
<1>1. f \in [S -> Int] /\ zero \in [S -> Int] /\ \A x \in S : zero[x] = 0 /\ zero[x] <= f[x]
  OBVIOUS
<1> HIDE DEF zero
<1>2. SumFunction(zero) = 0
  BY <1>1, SumConstantZero
<1>3. SumFunction(zero) <= SumFunction(f)
  BY ONLY IsFiniteSet(S), <1>1, SumMonotone
<1>4. SumFunction(f) \in Int
  BY <1>1, SumInt
<1> QED BY <1>2, <1>3, <1>4

\* A sum of natural numbers is at least each of its terms.
LEMMA SumPart ==
    ASSUME NEW S, IsFiniteSet(S), NEW f \in [S -> Nat], NEW y \in S
    PROVE  f[y] <= SumFunction(f)
<1> DEFINE none == [f EXCEPT ![y] = 0]
<1>1. f \in [S -> Int] /\ none \in [S -> Int] /\ none \in [S -> Nat]
  OBVIOUS
<1>2. SumFunction(none) = SumFunction(f) - f[y] + none[y]
  <2>1. \A x \in S \ {y} : none[x] = f[x]
    OBVIOUS
  <2> HIDE DEF none
  <2> QED BY ONLY IsFiniteSet(S), y \in S, <1>1, <2>1, SumChange
<1>3. SumFunction(f) \in Int /\ SumFunction(none) \in Nat /\ f[y] \in Nat /\ none[y] = 0
  BY <1>1, SumInt, SumNat
<1> HIDE DEF none
<1> QED BY <1>2, <1>3

\* A sum does not change when its terms change places.
LEMMA SumReindex ==
    ASSUME NEW S, NEW R, IsFiniteSet(S), IsFiniteSet(R), NEW f \in [S -> Int], NEW h \in [R -> Int],
           NEW p \in [S -> R], \A x, y \in S : p[x] = p[y] => x = y,
           \A z \in R : \E x \in S : p[x] = z,
           \A x \in S : h[p[x]] = f[x]
    PROVE  SumFunction(h) = SumFunction(f)
<1>1. PICK g : SumFunction(f) = g[S] /\ g[{}] = 0 /\ Parts(f, S, g)
  BY SumPick
<1>2. PICK k : SumFunction(h) = k[R] /\ k[{}] = 0 /\ Parts(h, R, k)
  BY SumPick
<1> DEFINE image(s) == {p[x] : x \in s}
           T == {s \in SUBSET S : g[s] = k[image(s)]}
<1>3. ASSUME NEW s \in SUBSET S, \A u \in SUBSET s : u # s => u \in T
      PROVE  s \in T
  <2>1. CASE s = {}
    <3>1. image(s) = {}
      BY <2>1
    <3> QED BY <1>1, <1>2, <2>1, <3>1
  <2>2. CASE s # {}
    <3>1. PICK x : x \in s
      BY <2>2
    <3> DEFINE u == s \ {x}
    <3>2. g[s] = f[x] + g[u]
      BY <1>1, <3>1 DEF Parts
    <3>3. image(s) \in SUBSET R /\ p[x] \in image(s) /\ image(u) = image(s) \ {p[x]}
      BY <3>1
    <3>4. k[image(s)] = h[p[x]] + k[image(u)]
      <4> HIDE DEF image, u
      <4>1. \A t \in SUBSET R : \A y \in t : k[t] = h[y] + k[t \ {y}]
        BY <1>2 DEF Parts
      <4> QED BY ONLY <3>3, <4>1
    <3>5. g[u] = k[image(u)]
      BY <1>3, <3>1
    <3>6. f[x] = h[p[x]]
      BY <3>1
    <3> HIDE DEF u, image
    <3> QED BY <3>2, <3>4, <3>5, <3>6
  <2> QED BY <2>1, <2>2
<1> HIDE DEF T
<1>4. SUBSET S \subseteq T
  BY <1>3, SubsetInduction
<1>5. S \in T
  BY <1>4
<1>6. image(S) = R
  OBVIOUS
<1> HIDE DEF image
<1> QED BY <1>1, <1>2, <1>5, <1>6 DEF T
=============================================================================
