---------------------------- MODULE SumTheorems ----------------------------
(***************************************************************************)
(* What the sum of a finite set of amounts is, for MapThenSumSet of the    *)
(* community modules: it is 0 on the empty set, and adding an element adds *)
(* its amount, whichever element the fold chooses first.                   *)
(*                                                                         *)
(* Every fact is proved by looking at a set of least cardinality for which *)
(* it fails: the induction theorems of the library take an operator as a   *)
(* parameter, this needs none.                                             *)
(***************************************************************************)
EXTENDS Integers, FiniteSetsExt, FiniteSetTheorems, WellFoundedInduction, TLAPS

\* f is the fold of the amounts v over the sets of D, and over the subsets of A.
Unfolded(f, v, D) ==
  f = [s \in D |->
        IF s = {} THEN 0
        ELSE v[CHOOSE x \in s : TRUE] + f[s \ {CHOOSE x \in s : TRUE}]]

IsSum(f, v, A) == Unfolded(f, v, SUBSET A)

\* The sum of the amounts v over A.
Sum(v, A) == (CHOOSE f : IsSum(f, v, A))[A]

Amounts(v, A) == IsFiniteSet(A) /\ \A x \in A : v[x] \in Int

LEMMA LeastNumber ==
  ASSUME NEW T \in SUBSET Nat, T # {}
  PROVE  \E m \in T : \A n \in T : m <= n
<1> DEFINE R == OpToRel(<, Nat)
<1>1. PICK m \in T : \A n \in T : ~(<<n, m>> \in R)
  BY NatLessThanWellFounded, WFMin
<1>2. \A n \in T : ~(n < m)
  BY <1>1 DEF OpToRel
<1> QED BY <1>2

\* Of finite subsets with a flaw, one is no larger than any other.
LEMMA LeastSubset ==
  ASSUME NEW A, IsFiniteSet(A), NEW Flawed \in SUBSET SUBSET A, Flawed # {}
  PROVE  \E s \in Flawed : \A t \in Flawed : Cardinality(s) <= Cardinality(t)
<1> DEFINE T == {Cardinality(s) : s \in Flawed}
<1>1. \A s \in Flawed : Cardinality(s) \in Nat
  BY FS_Subset, FS_CardinalityType
<1>2. T \in SUBSET Nat /\ T # {}
  BY <1>1
<1>3. \E m \in T : \A n \in T : m <= n
  <2> HIDE DEF T
  <2> QED BY <1>2, LeastNumber
<1> QED BY <1>3

LEMMA Chosen == ASSUME NEW s, s # {} PROVE (CHOOSE x \in s : TRUE) \in s
OBVIOUS

LEMMA Smaller ==
  ASSUME NEW A, IsFiniteSet(A), NEW s \in SUBSET A, NEW x \in s
  PROVE  /\ s \ {x} \in SUBSET A
         /\ Cardinality(s) \in Nat /\ Cardinality(s \ {x}) \in Nat
         /\ Cardinality(s \ {x}) = Cardinality(s) - 1
         /\ Cardinality(s \ {x}) < Cardinality(s)
BY FS_Subset, FS_RemoveElement, FS_CardinalityType

-----------------------------------------------------------------------------
(* The fold exists *)

Small(A, n) == {s \in SUBSET A : Cardinality(s) <= n}

LEMMA SumUpTo ==
  ASSUME NEW A, IsFiniteSet(A), NEW v
  PROVE  \A n \in Nat : \E f : Unfolded(f, v, Small(A, n))
<1> DEFINE T == {n \in Nat : ~ \E f : Unfolded(f, v, Small(A, n))}
<1> SUFFICES ASSUME T # {} PROVE FALSE
  OBVIOUS
<1>1. PICK m \in T : \A n \in T : m <= n
  <2>1. T \in SUBSET Nat
    OBVIOUS
  <2> HIDE DEF T
  <2> QED BY <2>1, LeastNumber
<1>2. m \in Nat /\ ~ \E f : Unfolded(f, v, Small(A, m))
  OBVIOUS
<1>3. CASE m = 0
  <2> DEFINE f == [s \in Small(A, 0) |-> 0]
  <2>1. \A s \in Small(A, 0) : s = {}
    BY FS_Subset, FS_EmptySet, FS_CardinalityType DEF Small
  <2>2. Unfolded(f, v, Small(A, 0))
    BY <2>1 DEF Unfolded
  <2> QED BY <1>2, <1>3, <2>2
<1>4. CASE m # 0
  <2>1. m - 1 \in Nat /\ m - 1 \notin T
    BY <1>1, <1>2, <1>4
  <2>2. PICK f : Unfolded(f, v, Small(A, m - 1))
    BY <2>1
  <2> DEFINE rest(s) == s \ {CHOOSE x \in s : TRUE}
             g == [s \in Small(A, m) |->
                     IF s = {} THEN 0 ELSE v[CHOOSE x \in s : TRUE] + f[rest(s)]]
  <2>3. \A s \in Small(A, m) : s # {} => rest(s) \in Small(A, m - 1)
    <3> SUFFICES ASSUME NEW s \in Small(A, m), s # {} PROVE rest(s) \in Small(A, m - 1)
      OBVIOUS
    <3>1. PICK x \in s : x = CHOOSE y \in s : TRUE
      BY Chosen
    <3>2. s \in SUBSET A /\ Cardinality(s) <= m
      BY DEF Small
    <3>3. s \ {x} \in Small(A, m - 1)
      BY <1>2, <3>2, Smaller DEF Small
    <3> QED BY <3>1, <3>3
  <2>4. \A s \in Small(A, m - 1) : s \in Small(A, m)
    BY <1>2, FS_Subset, FS_CardinalityType DEF Small
  <2>5. \A s \in Small(A, m - 1) : g[s] = f[s]
    <3> SUFFICES ASSUME NEW s \in Small(A, m - 1) PROVE g[s] = f[s]
      OBVIOUS
    <3>1. f[s] = IF s = {} THEN 0 ELSE v[CHOOSE x \in s : TRUE] + f[rest(s)]
      BY <2>2 DEF Unfolded
    <3> QED BY <2>4, <3>1
  <2>6. \A s \in Small(A, m) :
          g[s] = IF s = {} THEN 0 ELSE v[CHOOSE x \in s : TRUE] + g[rest(s)]
    <3>1. \A s \in Small(A, m) :
            g[s] = IF s = {} THEN 0 ELSE v[CHOOSE x \in s : TRUE] + f[rest(s)]
      OBVIOUS
    <3>2. \A s \in Small(A, m) : s # {} => g[rest(s)] = f[rest(s)]
      <4> HIDE DEF g, rest
      <4> QED BY <2>3, <2>5
    <3> HIDE DEF g, rest
    <3> QED BY <3>1, <3>2
  <2>7. Unfolded(g, v, Small(A, m))
    <3> HIDE DEF rest
    <3>1. g = [s \in Small(A, m) |-> g[s]]
      OBVIOUS
    <3>2. g = [s \in Small(A, m) |->
                IF s = {} THEN 0 ELSE v[CHOOSE x \in s : TRUE] + g[rest(s)]]
      <4> HIDE DEF g
      <4> QED BY <2>6, <3>1
    <3> QED BY <3>2 DEF Unfolded, rest
  <2> QED BY <1>2, <2>7
<1> QED BY <1>3, <1>4

LEMMA SumExists ==
  ASSUME NEW A, IsFiniteSet(A), NEW v
  PROVE  \E f : IsSum(f, v, A)
<1>1. Cardinality(A) \in Nat
  BY FS_CardinalityType
<1>2. Small(A, Cardinality(A)) = SUBSET A
  BY FS_Subset DEF Small
<1>3. PICK f : Unfolded(f, v, Small(A, Cardinality(A)))
  BY <1>1, SumUpTo
<1>4. Unfolded(f, v, SUBSET A)
  BY <1>2, <1>3
<1> QED BY <1>4 DEF IsSum

LEMMA Unfold ==
  ASSUME NEW A, NEW v, NEW f, IsSum(f, v, A), NEW s \in SUBSET A
  PROVE  /\ s = {} => f[s] = 0
         /\ s # {} => \E x \in s : f[s] = v[x] + f[s \ {x}]
<1>1. f[s] = IF s = {} THEN 0 ELSE v[CHOOSE x \in s : TRUE] + f[s \ {CHOOSE x \in s : TRUE}]
  BY DEF IsSum, Unfolded
<1> QED BY <1>1, Chosen

-----------------------------------------------------------------------------
(* Its value does not depend on the order of choice *)

LEMMA SumIsNumber ==
  ASSUME NEW A, NEW v, Amounts(v, A), NEW f, IsSum(f, v, A)
  PROVE  \A s \in SUBSET A : f[s] \in Int
<1> DEFINE Flawed == {s \in SUBSET A : f[s] \notin Int}
<1> SUFFICES ASSUME Flawed # {} PROVE FALSE
  OBVIOUS
<1>1. IsFiniteSet(A) /\ Flawed \in SUBSET SUBSET A
  BY DEF Amounts
<1>2. PICK s \in Flawed : \A t \in Flawed : Cardinality(s) <= Cardinality(t)
  <2> HIDE DEF Flawed
  <2> QED BY <1>1, LeastSubset
<1>3. s \in SUBSET A /\ f[s] \notin Int
  OBVIOUS
<1>4. PICK x \in s : f[s] = v[x] + f[s \ {x}]
  BY <1>3, Unfold
<1>5. s \ {x} \in SUBSET A /\ s \ {x} \notin Flawed
  <2> HIDE DEF Flawed
  <2> QED BY <1>1, <1>2, <1>3, Smaller
<1>6. v[x] \in Int /\ f[s \ {x}] \in Int
  BY <1>3, <1>5 DEF Amounts
<1> QED BY <1>3, <1>4, <1>6

LEMMA AnyOrder ==
  ASSUME NEW A, NEW v, Amounts(v, A), NEW f, IsSum(f, v, A)
  PROVE  \A s \in SUBSET A : \A x \in s : f[s] = v[x] + f[s \ {x}]
<1> DEFINE Flawed == {s \in SUBSET A : \E x \in s : f[s] # v[x] + f[s \ {x}]}
<1> SUFFICES ASSUME Flawed # {} PROVE FALSE
  OBVIOUS
<1>1. IsFiniteSet(A) /\ Flawed \in SUBSET SUBSET A
  BY DEF Amounts
<1>2. PICK s \in Flawed : \A t \in Flawed : Cardinality(s) <= Cardinality(t)
  <2> HIDE DEF Flawed
  <2> QED BY <1>1, LeastSubset
<1>3. s \in SUBSET A
  OBVIOUS
<1>4. PICK x \in s : f[s] # v[x] + f[s \ {x}]
  OBVIOUS
<1>5. PICK c \in s : f[s] = v[c] + f[s \ {c}]
  BY <1>3, Unfold
<1>6. c # x
  BY <1>4, <1>5
<1>7. /\ s \ {x} \in SUBSET A /\ s \ {x} \notin Flawed
      /\ s \ {c} \in SUBSET A /\ s \ {c} \notin Flawed
  <2> HIDE DEF Flawed
  <2> QED BY <1>1, <1>2, <1>3, Smaller
<1>8. f[s \ {x}] = v[c] + f[(s \ {x}) \ {c}]
  BY <1>6, <1>7
<1>9. f[s \ {c}] = v[x] + f[(s \ {c}) \ {x}]
  BY <1>6, <1>7
<1>10. (s \ {x}) \ {c} = (s \ {c}) \ {x} /\ (s \ {x}) \ {c} \in SUBSET A
  BY <1>3
<1>11. v[x] \in Int /\ v[c] \in Int /\ f[(s \ {x}) \ {c}] \in Int
  BY <1>3, <1>10, SumIsNumber DEF Amounts
<1>12. f[s] = v[c] + (v[x] + f[(s \ {x}) \ {c}]) /\ f[s \ {x}] = v[c] + f[(s \ {x}) \ {c}]
  BY <1>5, <1>8, <1>9, <1>10
<1> HIDE DEF Flawed
<1>13. f[s] = v[x] + f[s \ {x}]
  BY <1>11, <1>12
<1> QED BY <1>4, <1>13

\* Two folds agree wherever their amounts do, also if one is over a larger set.
LEMMA FoldsAgree ==
  ASSUME NEW A, IsFiniteSet(A), NEW v, NEW f, IsSum(f, v, A),
         NEW B, NEW w, NEW g, IsSum(g, w, B), Amounts(w, B),
         A \subseteq B, \A x \in A : v[x] = w[x]
  PROVE  \A s \in SUBSET A : f[s] = g[s]
<1> DEFINE Flawed == {s \in SUBSET A : f[s] # g[s]}
<1> SUFFICES ASSUME Flawed # {} PROVE FALSE
  OBVIOUS
<1>1. Flawed \in SUBSET SUBSET A
  OBVIOUS
<1>2. PICK s \in Flawed : \A t \in Flawed : Cardinality(s) <= Cardinality(t)
  <2> HIDE DEF Flawed
  <2> QED BY <1>1, LeastSubset
<1>3. s \in SUBSET A /\ s \in SUBSET B /\ f[s] # g[s]
  OBVIOUS
<1>4. s # {}
  BY <1>3, Unfold
<1>5. PICK x \in s : f[s] = v[x] + f[s \ {x}]
  BY <1>3, <1>4, Unfold
<1>6. s \ {x} \in SUBSET A /\ s \ {x} \notin Flawed
  <2> HIDE DEF Flawed
  <2> QED BY <1>2, <1>3, Smaller
<1>7. f[s \ {x}] = g[s \ {x}] /\ v[x] = w[x]
  BY <1>3, <1>6
<1>8. g[s] = w[x] + g[s \ {x}]
  BY <1>3, AnyOrder
<1> QED BY <1>3, <1>5, <1>7, <1>8

-----------------------------------------------------------------------------
(* Sums *)

LEMMA SumIsFold ==
  ASSUME NEW A, IsFiniteSet(A), NEW v
  PROVE  IsSum(CHOOSE f : IsSum(f, v, A), v, A)
BY SumExists

\* Nothing adds up to nothing.
LEMMA SumOfNone == ASSUME NEW v PROVE Sum(v, {}) = 0
<1>1. IsSum(CHOOSE f : IsSum(f, v, {}), v, {})
  BY SumIsFold, FS_EmptySet
<1> QED BY <1>1, Unfold DEF Sum

LEMMA SumIsInt == ASSUME NEW v, NEW A, Amounts(v, A) PROVE Sum(v, A) \in Int
<1>1. IsSum(CHOOSE f : IsSum(f, v, A), v, A)
  BY SumIsFold DEF Amounts
<1> QED BY <1>1, SumIsNumber DEF Sum

\* The sum depends only on the amounts of its elements.
LEMMA SumSame ==
  ASSUME NEW v, NEW w, NEW A, Amounts(w, A), \A x \in A : v[x] = w[x]
  PROVE  Sum(v, A) = Sum(w, A)
<1>1. /\ IsSum(CHOOSE f : IsSum(f, v, A), v, A)
      /\ IsSum(CHOOSE f : IsSum(f, w, A), w, A)
  BY SumIsFold DEF Amounts
<1> QED BY <1>1, FoldsAgree DEF Sum, Amounts

\* Taking one element out takes its amount out.
LEMMA SumWithout ==
  ASSUME NEW v, NEW A, Amounts(v, A), NEW x \in A
  PROVE  /\ Amounts(v, A \ {x})
         /\ Sum(v, A) = v[x] + Sum(v, A \ {x})
<1> DEFINE f == CHOOSE h : IsSum(h, v, A)
           g == CHOOSE h : IsSum(h, v, A \ {x})
<1>1. IsFiniteSet(A \ {x}) /\ Amounts(v, A \ {x})
  BY FS_RemoveElement DEF Amounts
<1>2. IsSum(f, v, A) /\ IsSum(g, v, A \ {x})
  BY <1>1, SumIsFold DEF Amounts
<1> HIDE DEF f, g
<1>3. f[A] = v[x] + f[A \ {x}]
  BY <1>2, AnyOrder
<1>4. g[A \ {x}] = f[A \ {x}]
  BY <1>1, <1>2, FoldsAgree
<1> QED BY <1>1, <1>3, <1>4 DEF Sum, f, g

\* Amounts of money add up to an amount of money.
LEMMA SumIsNat ==
  ASSUME NEW v, NEW A, Amounts(v, A), \A x \in A : v[x] \in Nat
  PROVE  Sum(v, A) \in Nat
<1> DEFINE Flawed == {s \in SUBSET A : Sum(v, s) \notin Nat}
<1> SUFFICES ASSUME Flawed # {} PROVE FALSE
  OBVIOUS
<1>1. IsFiniteSet(A) /\ Flawed \in SUBSET SUBSET A
  BY DEF Amounts
<1>2. PICK s \in Flawed : \A t \in Flawed : Cardinality(s) <= Cardinality(t)
  <2> HIDE DEF Flawed
  <2> QED BY <1>1, LeastSubset
<1>3. s \in SUBSET A /\ Sum(v, s) \notin Nat /\ Amounts(v, s)
  BY <1>1, FS_Subset DEF Amounts
<1>4. s # {}
  BY <1>3, SumOfNone
<1>5. PICK x \in s : TRUE
  BY <1>4
<1>6. s \ {x} \in SUBSET A /\ s \ {x} \notin Flawed
  <2> HIDE DEF Flawed
  <2> QED BY <1>1, <1>2, <1>3, Smaller
<1>7. v[x] \in Nat /\ Sum(v, s \ {x}) \in Nat
  BY <1>3, <1>6
<1>8. Sum(v, s) = v[x] + Sum(v, s \ {x})
  BY <1>3, SumWithout
<1> QED BY <1>3, <1>7, <1>8

=============================================================================
