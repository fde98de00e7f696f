------------------------------ MODULE SumLemmas ------------------------------
(***************************************************************************)
(* What SumFunctionOnSet computes, for every finite set.                   *)
(*                                                                         *)
(* The induction theorems of the library take the predicate as an operator *)
(* parameter and cannot be cited.  These proofs take a smallest            *)
(* counterexample instead: WFMin gives one in a set of numbers, and        *)
(* Minimal in a set of subsets of a finite set.                            *)
(***************************************************************************)
EXTENDS Integers, Sequences, FiniteSets, Functions, WellFoundedInduction, TLAPS

\* A set of numbers that has 0, and with a number the next, has all.
LEMMA Reaches ==
    ASSUME NEW P \in SUBSET Nat, 0 \in P, \A k \in Nat : k \in P => k + 1 \in P
    PROVE  P = Nat
  <1> DEFINE T == Nat \ P
  <1> SUFFICES ASSUME T # {} PROVE FALSE
    BY Zenon
  <1>1. PICK x \in T : \A y \in T : ~ (<<y, x>> \in OpToRel(<, Nat))
    <2>1. T \subseteq Nat
      OBVIOUS
    <2> HIDE DEF T
    <2> QED
      BY <2>1, NatLessThanWellFounded, WFMin, Zenon
  <1>2. \A y \in T : ~ (y < x)
    BY <1>1, Zenon DEF OpToRel
  <1>3. x - 1 \in Nat /\ x - 1 \notin T
    BY <1>2
  <1> QED
    BY <1>3

\* A subset of a finite set is finite.
LEMMA SubsetFinite ==
    ASSUME NEW S, IsFiniteSet(S), NEW U \in SUBSET S
    PROVE  IsFiniteSet(U)
  <1>1. PICK seq \in Seq(S) : \A s \in S : \E n \in 1..Len(seq) : seq[n] = s
    BY DEF IsFiniteSet
  <1>2. CASE U = {}
    <2>1. << >> \in Seq(U)
      OBVIOUS
    <2> QED
      BY <1>2, <2>1, Zenon DEF IsFiniteSet
  <1>3. ASSUME NEW u \in U PROVE IsFiniteSet(U)
    <2> DEFINE kept == [n \in 1..Len(seq) |-> IF seq[n] \in U THEN seq[n] ELSE u]
    <2>1. kept \in Seq(U) /\ Len(kept) = Len(seq)
      OBVIOUS
    <2>2. \A s \in U : \E n \in 1..Len(kept) : kept[n] = s
      BY <1>1, <2>1, Zenon
    <2> HIDE DEF kept
    <2> QED
      BY <2>1, <2>2 DEF IsFiniteSet
  <1> QED
    BY <1>2, <1>3

\* A set of subsets of a finite set has a member minimal under inclusion.
LEMMA Minimal ==
    ASSUME NEW S, IsFiniteSet(S), NEW T \in SUBSET SUBSET S, T # {}
    PROVE  \E x \in T : \A y \in T : y \subseteq x => y = x
  <1>1. PICK seq \in Seq(S) : \A s \in S : \E n \in 1..Len(seq) : seq[n] = s
    BY DEF IsFiniteSet
  \* x has no smaller set in T that lacks only elements among the first k.
  <1> DEFINE First(k) == {s \in S : \E n \in 1..Len(seq) : n =< k /\ seq[n] = s}
             Least(x, k) == \A y \in T : y \subseteq x /\ x \ y \subseteq First(k) => y = x
             P == {k \in Nat : \A x \in T : \E y \in T : y \subseteq x /\ Least(y, k)}
  <1>2. 0 \in P
    <2>1. First(0) = {}
      BY <1>1
    <2>2. \A x \in T : Least(x, 0)
      BY <2>1, Zenon
    <2> HIDE DEF Least
    <2> QED
      BY <2>2
  <1>3. ASSUME NEW k \in Nat, k \in P PROVE k + 1 \in P
    <2> SUFFICES ASSUME NEW x \in T
                 PROVE  \E y \in T : y \subseteq x /\ Least(y, k + 1)
      <3> HIDE DEF Least
      <3> QED
        OBVIOUS
    <2>0. \A z \in T : \E y \in T : y \subseteq z /\ Least(y, k)
      <3> HIDE DEF Least
      <3> QED
        BY <1>3
    <2>1. PICK y \in T : y \subseteq x /\ Least(y, k)
      BY <2>0, Zenon
    <2>2. CASE Least(y, k + 1)
      BY <2>1, <2>2
    <2>3. ASSUME ~ Least(y, k + 1)
          PROVE  \E z \in T : z \subseteq x /\ Least(z, k + 1)
      <3>1. PICK z \in T : z \subseteq y /\ y \ z \subseteq First(k + 1) /\ z # y
        BY <2>3
      <3>2. \A s \in First(k + 1) : s \in First(k) \/ s = seq[k + 1]
        <4>1. Len(seq) \in Nat /\ \A n \in 1..Len(seq) : n =< k + 1 => n =< k \/ n = k + 1
          OBVIOUS
        <4> QED
          BY <4>1, Zenon
      <3>3. seq[k + 1] \notin z
        BY <2>1, <3>1, <3>2
      <3>4. PICK w \in T : w \subseteq z /\ Least(w, k)
        BY <2>0, Zenon
      <3>5. Least(w, k + 1)
        BY <3>2, <3>3, <3>4
      <3> QED
        BY <2>1, <3>1, <3>4, <3>5
    <2> QED
      BY <2>2, <2>3
  <1>4. P = Nat
    <2> HIDE DEF P
    <2>1. P \in SUBSET Nat
      BY DEF P
    <2> QED
      BY <1>2, <1>3, <2>1, Reaches
  <1>5. PICK x \in T : Least(x, Len(seq))
    <2>1. Len(seq) \in P
      <3>1. Len(seq) \in Nat
        OBVIOUS
      <3> QED
        BY <1>4, <3>1, Zenon
    <2> HIDE DEF Least
    <2> QED
      BY <2>1
  <1>6. S \subseteq First(Len(seq))
    BY <1>1
  <1> QED
    BY <1>5, <1>6

-----------------------------------------------------------------------------
(* The recursive function inside the fold.                                 *)

Pick(s) == CHOOSE x \in s : TRUE

Unfolds(f, S, g) ==
    g = [s \in SUBSET S |-> IF s = {} THEN 0 ELSE f[Pick(s)] + g[s \ {Pick(s)}]]

Unfolded(f, S) == CHOOSE g : Unfolds(f, S, g)

\* A sum is that function's value at the whole set.
LEMMA SumIsFold ==
    ASSUME NEW f, NEW S
    PROVE  SumFunctionOnSet(f, S) = Unfolded(f, S)[S]
  BY DEF SumFunctionOnSet, FoldFunctionOnSet, MapThenFoldSet, Unfolded, Unfolds, Pick

\* Taking the picked element out of a non-empty set leaves a smaller one.
LEMMA PickSmaller ==
    ASSUME NEW s, s # {}
    PROVE  /\ Pick(s) \in s
           /\ s \ {Pick(s)} \subseteq s
           /\ s \ {Pick(s)} # s
  BY DEF Pick

\* Two such functions agree wherever both are defined.
LEMMA UnfoldsUnique ==
    ASSUME NEW f, NEW S, IsFiniteSet(S), NEW U \in SUBSET S,
           NEW g, Unfolds(f, U, g), NEW h, Unfolds(f, S, h)
    PROVE  \A s \in SUBSET U : g[s] = h[s]
  <1> DEFINE T == {s \in SUBSET U : g[s] # h[s]}
  <1> SUFFICES ASSUME T # {} PROVE FALSE
    OBVIOUS
  <1>0. T \in SUBSET SUBSET S
    OBVIOUS
  <1>1. PICK x \in T : \A y \in T : y \subseteq x => y = x
    <2> HIDE DEF T
    <2> QED
      BY <1>0, Minimal
  <1>2. x \in SUBSET U /\ x \in SUBSET S /\ g[x] # h[x]
    OBVIOUS
  <1>3. g[x] = IF x = {} THEN 0 ELSE f[Pick(x)] + g[x \ {Pick(x)}]
    BY <1>2, Zenon DEF Unfolds
  <1>4. h[x] = IF x = {} THEN 0 ELSE f[Pick(x)] + h[x \ {Pick(x)}]
    BY <1>2, Zenon DEF Unfolds
  <1>5. x # {}
    BY <1>2, <1>3, <1>4
  <1>6. g[x \ {Pick(x)}] = h[x \ {Pick(x)}]
    BY <1>1, <1>2, <1>5, PickSmaller
  <1> QED
    BY <1>2, <1>3, <1>4, <1>5, <1>6

\* Such a function exists on the subsets of every finite set.
LEMMA UnfoldsExists ==
    ASSUME NEW f, NEW S, IsFiniteSet(S)
    PROVE  Unfolds(f, S, Unfolded(f, S))
  <1> DEFINE T == {U \in SUBSET S : ~ Unfolds(f, U, Unfolded(f, U))}
  <1> SUFFICES ASSUME T # {} PROVE FALSE
    OBVIOUS
  <1>0. T \in SUBSET SUBSET S
    OBVIOUS
  <1>1. PICK U \in T : \A y \in T : y \subseteq U => y = U
    <2> HIDE DEF T
    <2> QED
      BY <1>0, Minimal
  <1>2. \A V \in SUBSET U : V # U => Unfolds(f, V, Unfolded(f, V))
    BY <1>1
  <1> DEFINE At(V) == Unfolded(f, V)[V]
             Value(s) == IF s = {} THEN 0 ELSE f[Pick(s)] + At(s \ {Pick(s)})
             g == [s \in SUBSET U |-> Value(s)]
  <1>3. ASSUME NEW V \in SUBSET U, V # U
        PROVE  At(V) = Value(V)
    <2>1. Unfolds(f, V, Unfolded(f, V)) /\ IsFiniteSet(V)
      BY <1>2, <1>3, SubsetFinite
    <2>2. At(V) = IF V = {} THEN 0 ELSE f[Pick(V)] + Unfolded(f, V)[V \ {Pick(V)}]
      BY <2>1, Zenon DEF Unfolds
    <2>3. CASE V = {}
      BY <2>2, <2>3
    <2>4. CASE V # {}
      <3> DEFINE W == V \ {Pick(V)}
      <3>1. W \in SUBSET V /\ W # U /\ W \in SUBSET U
        BY <2>4, <1>3, PickSmaller
      <3>2. Unfolds(f, W, Unfolded(f, W))
        BY <3>1, <1>2
      <3>3. Unfolded(f, W)[W] = Unfolded(f, V)[W]
        BY <2>1, <3>1, <3>2, UnfoldsUnique
      <3> QED
        BY <2>2, <2>4, <3>3
    <2> QED
      BY <2>3, <2>4
  <1>4. ASSUME NEW s \in SUBSET U
        PROVE  g[s] = IF s = {} THEN 0 ELSE f[Pick(s)] + g[s \ {Pick(s)}]
    <2>1. CASE s = {}
      BY <2>1
    <2>2. CASE s # {}
      <3>1. s \ {Pick(s)} \in SUBSET U /\ s \ {Pick(s)} # U
        BY <2>2, PickSmaller
      <3>2. g[s \ {Pick(s)}] = At(s \ {Pick(s)})
        <4> HIDE DEF At
        <4>1. At(s \ {Pick(s)}) = Value(s \ {Pick(s)})
          BY <3>1, <1>3, Zenon
        <4> QED
          BY <3>1, <4>1
      <3>3. g[s] = f[Pick(s)] + At(s \ {Pick(s)})
        BY <2>2
      <3> QED
        BY <2>2, <3>2, <3>3
    <2> QED
      BY <2>1, <2>2
  <1>5. g = [s \in SUBSET U |-> IF s = {} THEN 0 ELSE f[Pick(s)] + g[s \ {Pick(s)}]]
    <2> HIDE DEF Value
    <2> QED
      BY <1>4, Zenon
  <1>6. Unfolds(f, U, g)
    <2> HIDE DEF g
    <2> QED BY <1>5, Zenon DEF Unfolds
  <1>7. Unfolds(f, U, Unfolded(f, U))
    <2> HIDE DEF g
    <2> QED
      BY <1>6, Zenon DEF Unfolded
  <1> QED
    BY <1>1, <1>7

\* A sum is 0 on the empty set and otherwise the picked term plus the rest.
LEMMA SumUnfold ==
    ASSUME NEW f, NEW S, IsFiniteSet(S)
    PROVE  SumFunctionOnSet(f, S)
             = IF S = {} THEN 0
               ELSE f[Pick(S)] + SumFunctionOnSet(f, S \ {Pick(S)})
  <1>1. Unfolds(f, S, Unfolded(f, S))
    BY UnfoldsExists
  <1>2. Unfolded(f, S)[S] = IF S = {} THEN 0
                            ELSE f[Pick(S)] + Unfolded(f, S)[S \ {Pick(S)}]
    BY <1>1, Zenon DEF Unfolds
  <1>3. CASE S = {}
    BY <1>2, <1>3, SumIsFold
  <1>4. CASE S # {}
    <2> DEFINE W == S \ {Pick(S)}
    <2>1. W \in SUBSET S /\ IsFiniteSet(W)
      BY SubsetFinite
    <2>2. Unfolds(f, W, Unfolded(f, W))
      BY <2>1, UnfoldsExists
    <2>3. Unfolded(f, W)[W] = Unfolded(f, S)[W]
      <3> HIDE DEF W
      <3>1. W \in SUBSET W
        OBVIOUS
      <3> QED
        BY <1>1, <2>1, <2>2, <3>1, UnfoldsUnique
    <2>4. SumFunctionOnSet(f, W) = Unfolded(f, W)[W]
      BY SumIsFold
    <2> QED
      BY <1>2, <1>4, <2>3, <2>4, SumIsFold
  <1> QED
    BY <1>3, <1>4

-----------------------------------------------------------------------------
(* What the models use.                                                    *)

\* Any element may be taken out of a sum first.
LEMMA SumRemove ==
    ASSUME NEW S, IsFiniteSet(S), NEW f, \A s \in S : f[s] \in Int, NEW x \in S
    PROVE  /\ SumFunctionOnSet(f, S) = f[x] + SumFunctionOnSet(f, S \ {x})
           /\ SumFunctionOnSet(f, S \ {x}) \in Int
  <1> DEFINE Sum(U) == SumFunctionOnSet(f, U)
             Good(U) == /\ Sum(U) \in Int
                        /\ \A y \in U : Sum(U) = f[y] + Sum(U \ {y})
             T == {U \in SUBSET S : ~ Good(U)}
  <1>0. T \in SUBSET SUBSET S
    OBVIOUS
  <1>1. ASSUME NEW U \in T, \A y \in T : y \subseteq U => y = U
        PROVE  FALSE
    <2>1. \A V \in SUBSET U : V # U => Good(V)
      BY <1>1
    <2>2. U \in SUBSET S /\ IsFiniteSet(U) /\ ~ Good(U)
      BY SubsetFinite
    <2>3. Sum(U) = IF U = {} THEN 0 ELSE f[Pick(U)] + Sum(U \ {Pick(U)})
      BY <2>2, SumUnfold
    <2>4. U # {}
      BY <2>2, <2>3
    <2> DEFINE p == Pick(U)
    <2>5. p \in U /\ f[p] \in Int
      BY <2>2, <2>4, PickSmaller
    <2> HIDE DEF p, Sum
    <2>6. Sum(U \ {p}) \in Int
      BY <2>1, <2>5
    <2>7. Sum(U) = f[p] + Sum(U \ {p}) /\ Sum(U) \in Int
      BY <2>3, <2>4, <2>5, <2>6 DEF p
    <2>8. PICK y \in U : Sum(U) # f[y] + Sum(U \ {y})
      BY <2>2, <2>7
    <2>9. y # p /\ f[y] \in Int
      BY <2>2, <2>7, <2>8, Zenon
    <2>10. Sum(U \ {p}) = f[y] + Sum((U \ {p}) \ {y})
      BY <2>1, <2>5, <2>9
    <2>11. Sum(U \ {y}) = f[p] + Sum((U \ {y}) \ {p})
      BY <2>1, <2>5, <2>9
    <2>12. (U \ {p}) \ {y} = (U \ {y}) \ {p}
      OBVIOUS
    <2>13. Sum((U \ {y}) \ {p}) \in Int
      BY <2>1, <2>5
    <2> DEFINE a == Sum(U \ {p})
               b == Sum(U \ {y})
               c == Sum((U \ {y}) \ {p})
    <2>14. a = f[y] + c
      BY <2>10, <2>12, Zenon
    <2>15. b = f[p] + c /\ c \in Int /\ Sum(U) = f[p] + a /\ Sum(U) # f[y] + b
      BY <2>7, <2>8, <2>11, <2>13, Zenon
    <2> HIDE DEF a, b, c
    <2> QED
      BY <2>5, <2>9, <2>14, <2>15
  <1>2. T = {}
    <2> HIDE DEF T
    <2> QED
      BY <1>0, <1>1, Minimal
  <1>3. Good(S) /\ Good(S \ {x})
    <2> HIDE DEF Good
    <2> QED
      BY <1>2
  <1> QED
    BY <1>3

\* A sum of integers is an integer.
LEMMA SumType ==
    ASSUME NEW S, IsFiniteSet(S), NEW f, \A s \in S : f[s] \in Int
    PROVE  SumFunctionOnSet(f, S) \in Int
  <1>1. CASE S = {}
    <2>1. SumFunctionOnSet(f, S) = 0
      BY <1>1, SumUnfold, Zenon
    <2> QED
      BY <2>1
  <1>2. ASSUME NEW x \in S PROVE SumFunctionOnSet(f, S) \in Int
    <2>1. /\ SumFunctionOnSet(f, S) = f[x] + SumFunctionOnSet(f, S \ {x})
          /\ SumFunctionOnSet(f, S \ {x}) \in Int
      BY SumRemove
    <2> QED
      BY <2>1
  <1> QED
    BY <1>1, <1>2

\* The empty sum.
LEMMA SumEmpty ==
    ASSUME NEW f
    PROVE  SumFunctionOnSet(f, {}) = 0
  <1>1. IsFiniteSet({})
    <2>1. << >> \in Seq({})
      OBVIOUS
    <2> QED
      BY <2>1, Zenon DEF IsFiniteSet
  <1> QED
    BY <1>1, SumUnfold

\* The sum of pointwise sums.
LEMMA SumAdd ==
    ASSUME NEW S, IsFiniteSet(S), NEW f, \A s \in S : f[s] \in Int,
           NEW g, \A s \in S : g[s] \in Int,
           NEW h, \A s \in S : h[s] = f[s] + g[s]
    PROVE  SumFunctionOnSet(h, S) = SumFunctionOnSet(f, S) + SumFunctionOnSet(g, S)
  <1> DEFINE Sum(a, U) == SumFunctionOnSet(a, U)
             T == {U \in SUBSET S : Sum(h, U) # Sum(f, U) + Sum(g, U)}
  <1>0. T \in SUBSET SUBSET S
    OBVIOUS
  <1>1. ASSUME NEW U \in T, \A y \in T : y \subseteq U => y = U
        PROVE  FALSE
    <2>1. \A V \in SUBSET U : V # U => Sum(h, V) = Sum(f, V) + Sum(g, V)
      BY <1>1
    <2>2. U \in SUBSET S /\ IsFiniteSet(U) /\ Sum(h, U) # Sum(f, U) + Sum(g, U)
      BY SubsetFinite
    <2>3. CASE U = {}
      BY <2>2, <2>3, SumEmpty
    <2>4. ASSUME NEW p \in U PROVE FALSE
      <3>0. \A s \in U : f[s] \in Int /\ g[s] \in Int /\ h[s] \in Int
        BY <2>2
      <3>1. Sum(f, U) = f[p] + Sum(f, U \ {p}) /\ Sum(f, U \ {p}) \in Int
        BY <2>2, <3>0, SumRemove
      <3>2. Sum(g, U) = g[p] + Sum(g, U \ {p}) /\ Sum(g, U \ {p}) \in Int
        BY <2>2, <3>0, SumRemove
      <3>3. Sum(h, U) = h[p] + Sum(h, U \ {p})
        BY <2>2, <3>0, SumRemove
      <3> HIDE DEF Sum
      <3>4. Sum(h, U \ {p}) = Sum(f, U \ {p}) + Sum(g, U \ {p})
        BY <2>1
      <3>5. h[p] = f[p] + g[p] /\ f[p] \in Int /\ g[p] \in Int
        BY <2>2, <3>0
      <3> QED
        BY <2>2, <3>1, <3>2, <3>3, <3>4, <3>5
    <2> QED
      BY <2>3, <2>4
  <1>2. T = {}
    <2> HIDE DEF T
    <2> QED
      BY <1>0, <1>1, Minimal
  <1> QED
    BY <1>2

\* Functions that agree on the set have the same sum.
LEMMA SumSame ==
    ASSUME NEW S, IsFiniteSet(S), NEW f, \A s \in S : f[s] \in Int,
           NEW g, \A s \in S : g[s] = f[s]
    PROVE  SumFunctionOnSet(g, S) = SumFunctionOnSet(f, S)
  <1> DEFINE z == [s \in S |-> 0]
  <1>1. \A s \in S : z[s] \in Int /\ g[s] = f[s] + z[s] /\ f[s] = f[s] + z[s]
    OBVIOUS
  <1> HIDE DEF z
  <1>2. SumFunctionOnSet(g, S) = SumFunctionOnSet(f, S) + SumFunctionOnSet(z, S)
    BY <1>1, SumAdd
  <1>3. SumFunctionOnSet(f, S) = SumFunctionOnSet(f, S) + SumFunctionOnSet(z, S)
    BY <1>1, SumAdd
  <1> QED
    BY <1>2, <1>3

\* A function changed at one argument: the sum changes by as much.
LEMMA SumUpdate ==
    ASSUME NEW S, IsFiniteSet(S), NEW f, \A s \in S : f[s] \in Int,
           NEW x \in S, NEW g, \A s \in S \ {x} : g[s] = f[s], g[x] \in Int
    PROVE  SumFunctionOnSet(g, S) = SumFunctionOnSet(f, S) - f[x] + g[x]
  <1>1. SumFunctionOnSet(f, S) = f[x] + SumFunctionOnSet(f, S \ {x})
        /\ SumFunctionOnSet(f, S \ {x}) \in Int
    BY SumRemove
  <1>2. \A s \in S : g[s] \in Int
    OBVIOUS
  <1>3. SumFunctionOnSet(g, S) = g[x] + SumFunctionOnSet(g, S \ {x})
    BY <1>2, SumRemove
  <1>4. SumFunctionOnSet(g, S \ {x}) = SumFunctionOnSet(f, S \ {x})
    <2>1. IsFiniteSet(S \ {x})
      BY SubsetFinite
    <2> DEFINE R == S \ {x}
    <2>2. \A s \in R : f[s] \in Int /\ g[s] = f[s]
      OBVIOUS
    <2> HIDE DEF R
    <2>3. SumFunctionOnSet(g, R) = SumFunctionOnSet(f, R)
      BY <2>1, <2>2, SumSame DEF R
    <2> QED
      BY <2>3 DEF R
  <1> QED
    BY <1>1, <1>3, <1>4

\* A sum of zeros is zero.
LEMMA SumZero ==
    ASSUME NEW S, IsFiniteSet(S), NEW f, \A s \in S : f[s] = 0
    PROVE  SumFunctionOnSet(f, S) = 0
  <1> DEFINE n == SumFunctionOnSet(f, S)
  <1>1. \A s \in S : f[s] \in Int /\ f[s] = f[s] + f[s]
    OBVIOUS
  <1>2. n = n + n
    BY <1>1, SumAdd
  <1>3. n \in Int
    BY <1>1, SumType
  <1>4. n = 0
    <2> HIDE DEF n
    <2> QED BY <1>2, <1>3
  <1> QED
    BY <1>4

=============================================================================
