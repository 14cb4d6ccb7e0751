----------------------------- MODULE SumsProofs -----------------------------
(***************************************************************************)
(* What `Total` returns, for functions over any finite set: it is whole,   *)
(* it follows a change of one value, it grows with the values, it is the   *)
(* same in every order and over every renaming, and a table can be summed  *)
(* by rows or by columns.                                                  *)
(*                                                                         *)
(* Induction over the subsets of a finite set is spelled out with          *)
(* SmallestSubset: of the subsets a claim fails for, take a smallest.      *)
(***************************************************************************)
EXTENDS Sums, FiniteSetTheorems, TLAPS

LEMMA SmallestSubset ==
    ASSUME NEW S, IsFiniteSet(S), NEW Bad, Bad \subseteq SUBSET S, Bad # {}
    PROVE  \E A \in Bad : \A B \in Bad : ~(B \subseteq A /\ B # A)
<1>1. Bad \subseteq FiniteSubsetsOf(S)
  BY FS_Subset DEF FiniteSubsetsOf
<1> DEFINE R == StrictSubsetOrdering(S)
<1>2. IsWellFoundedOn(R, FiniteSubsetsOf(S))
  BY FS_StrictSubsetOrderingWellFounded
<1> HIDE DEF R
<1>3. PICK A \in Bad : \A B \in Bad : ~(<<B, A>> \in R)
  BY <1>1, <1>2, WFMin
<1>4. ASSUME NEW B \in Bad, B \subseteq A, B # A
      PROVE  FALSE
  <2>1. <<B, A>> \in R
    BY <1>4 DEF R, StrictSubsetOrdering
  <2> QED
    BY <1>3, <2>1
<1> QED
  BY <1>4

\* The sums of `f` over the subsets of `S`: one more element, one more value.
Additive(g, f, S) ==
    /\ g \in [SUBSET S -> Int]
    /\ g[{}] = 0
    /\ \A A \in SUBSET S : \A x \in S \ A : g[A \cup {x}] = f[x] + g[A]

LEMMA AdditiveExists ==
    ASSUME NEW S, IsFiniteSet(S), NEW f \in [S -> Int]
    PROVE  \E g : Additive(g, f, S)
<1> DEFINE Bad == {A \in SUBSET S : ~\E g : Additive(g, f, A)}
<1>1. SUFFICES ASSUME Bad # {} PROVE FALSE
  BY <1>1
<1>2. Bad \subseteq SUBSET S
  OBVIOUS
<1> HIDE DEF Bad
<1>3. PICK A \in Bad : \A B \in Bad : ~(B \subseteq A /\ B # A)
  BY <1>1, <1>2, SmallestSubset
<1>4. A \in SUBSET S /\ ~\E g : Additive(g, f, A)
  BY DEF Bad
<1>5. CASE A = {}
  <2>1. Additive([B \in SUBSET {} |-> 0], f, {})
    BY DEF Additive
  <2> QED
    BY <1>4, <1>5, <2>1
<1>6. CASE A # {}
  <2>1. PICK x : x \in A
    BY <1>6
  <2>2. A \ {x} \notin Bad /\ A \ {x} \in SUBSET S
    BY <1>3, <1>4, <2>1
  <2>3. PICK g : Additive(g, f, A \ {x})
    BY <2>2 DEF Bad
  <2> DEFINE h == [B \in SUBSET A |-> IF x \in B THEN f[x] + g[B \ {x}] ELSE g[B]]
  <2>4. /\ g \in [SUBSET (A \ {x}) -> Int] /\ g[{}] = 0
        /\ \A B \in SUBSET (A \ {x}) : \A y \in (A \ {x}) \ B : g[B \cup {y}] = f[y] + g[B]
    BY <2>3 DEF Additive
  <2>5. \A y \in A : f[y] \in Int
    BY <1>4
  <2>6. h \in [SUBSET A -> Int]
    <3>1. \A B \in SUBSET A : x \notin B => B \in SUBSET (A \ {x})
      OBVIOUS
    <3>2. \A B \in SUBSET A : B \ {x} \in SUBSET (A \ {x})
      OBVIOUS
    <3> QED
      BY <2>1, <2>4, <2>5, <3>1, <3>2
  <2>7. h[{}] = 0
    BY <2>4
  <2>8. ASSUME NEW B \in SUBSET A, NEW y \in A \ B
        PROVE  h[B \cup {y}] = f[y] + h[B]
    <3>1. B \cup {y} \in SUBSET A
      OBVIOUS
    <3>2. CASE y = x
      <4>1. (B \cup {y}) \ {x} = B /\ x \notin B
        BY <2>8, <3>2
      <4> QED
        BY <3>1, <3>2, <4>1
    <3>3. CASE y # x /\ x \in B
      <4>1. (B \cup {y}) \ {x} = (B \ {x}) \cup {y} /\ B \ {x} \in SUBSET (A \ {x})
        BY <3>3
      <4>2. g[(B \ {x}) \cup {y}] = f[y] + g[B \ {x}]
        BY <2>4, <3>3, <4>1
      <4>3. g[B \ {x}] \in Int
        BY <2>4, <4>1
      <4>4. h[B \cup {y}] = f[x] + (f[y] + g[B \ {x}]) /\ h[B] = f[x] + g[B \ {x}]
        BY <3>1, <3>3, <4>1, <4>2
      <4> HIDE DEF h
      <4> QED
        BY <2>1, <2>5, <4>3, <4>4
    <3>4. CASE y # x /\ x \notin B
      <4>1. B \in SUBSET (A \ {x}) /\ y \in (A \ {x}) \ B
        BY <3>4
      <4> QED
        BY <2>4, <3>1, <3>4, <4>1
    <3> QED
      BY <3>2, <3>3, <3>4
  <2>9. Additive(h, f, A)
    BY <2>6, <2>7, <2>8 DEF Additive
  <2> QED
    BY <1>4, <2>9
<1> QED
  BY <1>5, <1>6

\* The recursion behind `Total`, which takes the elements in an order of its own.
Unfolds(iter, f, S) ==
    iter = [A \in SUBSET S |-> IF A = {} THEN 0
                               ELSE f[CHOOSE x \in A : TRUE] + iter[A \ {CHOOSE x \in A : TRUE}]]

LEMMA TotalUnfolds ==
    ASSUME NEW f
    PROVE  Total(f) = (CHOOSE iter : Unfolds(iter, f, DOMAIN f))[DOMAIN f]
BY DEF Total, MapThenSumSet, MapThenFoldSet, Unfolds

LEMMA UnfoldsOnce ==
    ASSUME NEW S, IsFiniteSet(S), NEW f \in [S -> Int], NEW g, Additive(g, f, S),
           NEW iter, Unfolds(iter, f, S), NEW C \in SUBSET S
    PROVE  iter[C] = g[C]
<1> DEFINE Bad == {A \in SUBSET S : iter[A] # g[A]}
<1>1. SUFFICES ASSUME Bad # {} PROVE FALSE
  BY <1>1
<1>2. Bad \subseteq SUBSET S
  OBVIOUS
<1> HIDE DEF Bad
<1>3. PICK A \in Bad : \A B \in Bad : ~(B \subseteq A /\ B # A)
  BY <1>1, <1>2, SmallestSubset
<1>4. A \in SUBSET S /\ iter[A] # g[A]
  BY DEF Bad
<1>5. CASE A = {}
  BY <1>4, <1>5 DEF Unfolds, Additive
<1>6. CASE A # {}
  <2> DEFINE x == CHOOSE y \in A : TRUE
  <2>1. x \in A
    BY <1>6
  <2> HIDE DEF x
  <2>2. A \ {x} \in SUBSET S /\ iter[A \ {x}] = g[A \ {x}]
    BY <1>3, <1>4, <2>1 DEF Bad
  <2>3. iter[A] = f[x] + iter[A \ {x}]
    BY <1>4, <1>6 DEF Unfolds, x
  <2>4. (A \ {x}) \cup {x} = A /\ x \in S \ (A \ {x})
    BY <1>4, <2>1
  <2>5. g[A] = f[x] + g[A \ {x}]
    BY <2>2, <2>4 DEF Additive
  <2> QED
    BY <1>4, <2>2, <2>3, <2>5
<1> QED
  BY <1>5, <1>6

\* Whatever the order the elements are taken in, the total is the sum.
LEMMA TotalIsSum ==
    ASSUME NEW S, IsFiniteSet(S), NEW f \in [S -> Int], NEW g, Additive(g, f, S)
    PROVE  Total(f) = g[S]
<1>1. Unfolds(g, f, S)
  <2>1. ASSUME NEW A \in SUBSET S, A # {}
        PROVE  g[A] = f[CHOOSE x \in A : TRUE] + g[A \ {CHOOSE x \in A : TRUE}]
    <3> DEFINE x == CHOOSE y \in A : TRUE
    <3>1. x \in A
      BY <2>1
    <3> HIDE DEF x
    <3>2. A \ {x} \in SUBSET S /\ (A \ {x}) \cup {x} = A /\ x \in S \ (A \ {x})
      BY <3>1
    <3>3. g[A] = f[x] + g[A \ {x}]
      BY <3>2 DEF Additive
    <3> QED
      BY <3>3 DEF x
  <2>2. g = [A \in SUBSET S |-> g[A]] /\ g[{}] = 0
    BY DEF Additive
  <2> QED
    BY <2>1, <2>2 DEF Unfolds
<1> DEFINE iter == CHOOSE i : Unfolds(i, f, S)
<1>2. Unfolds(iter, f, S)
  BY <1>1
<1> HIDE DEF iter
<1>3. iter[S] = g[S]
  BY <1>2, UnfoldsOnce
<1>4. DOMAIN f = S
  OBVIOUS
<1> QED
  BY <1>3, <1>4, TotalUnfolds DEF iter

\* Induction over the subsets of a finite set, with a set for the claim.
LEMMA SubsetInduction ==
    ASSUME NEW S, IsFiniteSet(S), NEW Good, {} \in Good,
           \A A \in SUBSET S : A \in Good => \A x \in S \ A : A \cup {x} \in Good
    PROVE  SUBSET S \subseteq Good
<1> DEFINE Bad == (SUBSET S) \ Good
<1>1. SUFFICES ASSUME Bad # {} PROVE FALSE
  BY <1>1
<1>2. Bad \subseteq SUBSET S
  OBVIOUS
<1> HIDE DEF Bad
<1>3. PICK A \in Bad : \A B \in Bad : ~(B \subseteq A /\ B # A)
  BY <1>1, <1>2, SmallestSubset
<1>4. A \in SUBSET S /\ A \notin Good
  BY DEF Bad
<1>5. PICK x : x \in A
  BY <1>4
<1>6. /\ A \ {x} \in SUBSET S /\ (A \ {x}) \cup {x} = A /\ x \in S \ (A \ {x})
      /\ A \ {x} \subseteq A /\ A \ {x} # A
  BY <1>4, <1>5
<1>7. A \ {x} \in Good
  BY <1>3, <1>6 DEF Bad
<1> QED
  BY <1>4, <1>6, <1>7

-----------------------------------------------------------------------------
(* What follows for totals.                                                *)

LEMMA TotalOfNone ==
    ASSUME NEW S, IsFiniteSet(S), NEW f \in [S -> Int], \A x \in S : f[x] = 0
    PROVE  Total(f) = 0
<1>1. PICK g : Additive(g, f, S)
  BY AdditiveExists
<1> DEFINE Good == {A \in SUBSET S : g[A] = 0}
<1>2. {} \in Good
  BY <1>1 DEF Additive
<1>3. ASSUME NEW A \in SUBSET S, A \in Good, NEW x \in S \ A
      PROVE  A \cup {x} \in Good
  BY <1>1, <1>3 DEF Additive
<1> HIDE DEF Good
<1>4. S \in Good
  BY <1>2, <1>3, SubsetInduction
<1> QED
  BY <1>1, <1>4, TotalIsSum DEF Good

\* A total is whole, and grows with the values.
LEMMA TotalType ==
    ASSUME NEW S, IsFiniteSet(S), NEW f \in [S -> Int]
    PROVE  Total(f) \in Int
<1>1. PICK g : Additive(g, f, S)
  BY AdditiveExists
<1>2. S \in SUBSET S
  OBVIOUS
<1>3. g[S] \in Int
  BY <1>1, <1>2 DEF Additive
<1> QED
  BY <1>1, <1>3, TotalIsSum

LEMMA TotalGrows ==
    ASSUME NEW S, IsFiniteSet(S), NEW f \in [S -> Int], NEW h \in [S -> Int],
           \A x \in S : f[x] <= h[x]
    PROVE  Total(f) <= Total(h)
<1>1. PICK g : Additive(g, f, S)
  BY AdditiveExists
<1>2. PICK k : Additive(k, h, S)
  BY AdditiveExists
<1> DEFINE Good == {A \in SUBSET S : g[A] <= k[A]}
<1>3. {} \in Good
  BY <1>1, <1>2 DEF Additive
<1>4. ASSUME NEW A \in SUBSET S, A \in Good, NEW x \in S \ A
      PROVE  A \cup {x} \in Good
  <2>1. /\ g[A \cup {x}] = f[x] + g[A] /\ k[A \cup {x}] = h[x] + k[A]
        /\ g[A] \in Int /\ k[A] \in Int /\ f[x] \in Int /\ h[x] \in Int
        /\ f[x] <= h[x] /\ g[A] <= k[A]
    BY <1>1, <1>2, <1>4 DEF Additive
  <2> QED
    BY <2>1
<1> HIDE DEF Good
<1>5. S \in Good
  BY <1>3, <1>4, SubsetInduction
<1> QED
  BY <1>1, <1>2, <1>5, TotalIsSum DEF Good

LEMMA TotalIsNat ==
    ASSUME NEW S, IsFiniteSet(S), NEW f \in [S -> Nat]
    PROVE  Total(f) \in Nat /\ \A x \in S : f[x] <= Total(f)
<1> DEFINE none == [x \in S |-> 0]
<1>1. f \in [S -> Int] /\ none \in [S -> Int]
  OBVIOUS
<1>2. Total(none) = 0
  BY <1>1, TotalOfNone
<1>3. Total(f) \in Int
  BY <1>1, TotalType
<1>4. Total(none) <= Total(f)
  BY <1>1, TotalGrows
<1>5. PICK g : Additive(g, f, S)
  BY <1>1, AdditiveExists
<1>6. ASSUME NEW x \in S
      PROVE  f[x] <= Total(f)
  <2> DEFINE one == [y \in S |-> IF y = x THEN f[x] ELSE 0]
  <2>1. one \in [S -> Int] /\ \A y \in S : one[y] <= f[y]
    OBVIOUS
  <2>2. PICK k : Additive(k, one, S)
    BY <2>1, AdditiveExists
  <2> DEFINE Good == {A \in SUBSET S : k[A] = IF x \in A THEN f[x] ELSE 0}
  <2>3. {} \in Good
    BY <2>2 DEF Additive
  <2>4. ASSUME NEW A \in SUBSET S, A \in Good, NEW y \in S \ A
        PROVE  A \cup {y} \in Good
    <3>1. k[A \cup {y}] = one[y] + k[A]
      BY <2>2 DEF Additive
    <3>2. k[A] = IF x \in A THEN f[x] ELSE 0
      BY <2>4
    <3>3. one[y] = IF y = x THEN f[x] ELSE 0
      OBVIOUS
    <3> HIDE DEF one
    <3> QED
      BY <3>1, <3>2, <3>3
  <2> HIDE DEF Good
  <2>5. S \in Good
    BY <2>3, <2>4, SubsetInduction
  <2> HIDE DEF one
  <2>6. Total(one) = f[x]
    BY <2>1, <2>2, <2>5, TotalIsSum DEF Good
  <2>7. Total(one) <= Total(f)
    BY <1>1, <2>1, TotalGrows
  <2> QED
    BY <2>6, <2>7
<1> QED
  BY <1>2, <1>3, <1>4, <1>6

\* The total of values added one by one.
LEMMA TotalOfSums ==
    ASSUME NEW S, IsFiniteSet(S), NEW f \in [S -> Int], NEW h \in [S -> Int],
           NEW e \in [S -> Int], \A x \in S : e[x] = f[x] + h[x]
    PROVE  Total(e) = Total(f) + Total(h)
<1>1. PICK g : Additive(g, f, S)
  BY AdditiveExists
<1>2. PICK k : Additive(k, h, S)
  BY AdditiveExists
<1>3. PICK m : Additive(m, e, S)
  BY AdditiveExists
<1> DEFINE Good == {A \in SUBSET S : m[A] = g[A] + k[A]}
<1>4. {} \in Good
  BY <1>1, <1>2, <1>3 DEF Additive
<1>5. ASSUME NEW A \in SUBSET S, A \in Good, NEW x \in S \ A
      PROVE  A \cup {x} \in Good
  <2>1. /\ g[A \cup {x}] = f[x] + g[A] /\ k[A \cup {x}] = h[x] + k[A]
        /\ m[A \cup {x}] = e[x] + m[A]
        /\ g[A] \in Int /\ k[A] \in Int /\ f[x] \in Int /\ h[x] \in Int
        /\ e[x] = f[x] + h[x] /\ m[A] = g[A] + k[A]
    BY <1>1, <1>2, <1>3, <1>5 DEF Additive
  <2> QED
    BY <2>1
<1> HIDE DEF Good
<1>6. S \in Good
  BY <1>4, <1>5, SubsetInduction
<1> QED
  BY <1>1, <1>2, <1>3, <1>6, TotalIsSum DEF Good

\* A total follows the change of one value.
LEMMA TotalChanged ==
    ASSUME NEW S, IsFiniteSet(S), NEW f \in [S -> Int], NEW x \in S, NEW v \in Int
    PROVE  Total([f EXCEPT ![x] = v]) = Total(f) - f[x] + v
<1> DEFINE h == [f EXCEPT ![x] = v]
<1>1. h \in [S -> Int] /\ h[x] = v /\ \A y \in S \ {x} : h[y] = f[y]
  OBVIOUS
<1> HIDE DEF h
<1>2. PICK g : Additive(g, f, S)
  BY AdditiveExists
<1>3. PICK k : Additive(k, h, S)
  BY <1>1, AdditiveExists
<1> DEFINE Good == {A \in SUBSET S : k[A] = IF x \in A THEN g[A] - f[x] + v ELSE g[A]}
<1>4. {} \in Good
  BY <1>2, <1>3 DEF Additive
<1>5. ASSUME NEW A \in SUBSET S, A \in Good, NEW y \in S \ A
      PROVE  A \cup {y} \in Good
  <2>1. /\ g[A \cup {y}] = f[y] + g[A] /\ k[A \cup {y}] = h[y] + k[A]
        /\ g[A] \in Int /\ k[A] \in Int /\ f[x] \in Int /\ f[y] \in Int /\ h[y] \in Int
        /\ k[A] = IF x \in A THEN g[A] - f[x] + v ELSE g[A]
    BY <1>1, <1>2, <1>3, <1>5 DEF Additive
  <2>2. h[y] = IF y = x THEN v ELSE f[y]
    BY <1>1
  <2>3. k[A \cup {y}] = IF x \in A \cup {y} THEN g[A \cup {y}] - f[x] + v ELSE g[A \cup {y}]
    BY <2>1, <2>2
  <2> QED
    BY <2>3
<1> HIDE DEF Good
<1>6. S \in Good
  BY <1>4, <1>5, SubsetInduction
<1> QED
  BY <1>1, <1>2, <1>3, <1>6, TotalIsSum DEF Good, h

\* Ones at the members of a set count it.
LEMMA TotalOfMembers ==
    ASSUME NEW S, IsFiniteSet(S), NEW A \in SUBSET S
    PROVE  Total([x \in S |-> IF x \in A THEN 1 ELSE 0]) = Cardinality(A)
<1> DEFINE ones == [x \in S |-> IF x \in A THEN 1 ELSE 0]
<1>1. ones \in [S -> Int] /\ \A x \in S : ones[x] = IF x \in A THEN 1 ELSE 0
  OBVIOUS
<1> HIDE DEF ones
<1>2. PICK g : Additive(g, ones, S)
  BY <1>1, AdditiveExists
<1> DEFINE Good == {B \in SUBSET S : g[B] = Cardinality(A \cap B)}
<1>3. {} \in Good
  <2>1. A \cap {} = {} /\ Cardinality({}) = 0
    BY FS_EmptySet
  <2> QED
    BY <1>2, <2>1 DEF Additive
<1>4. ASSUME NEW B \in SUBSET S, B \in Good, NEW x \in S \ B
      PROVE  B \cup {x} \in Good
  <2>1. IsFiniteSet(A \cap B) /\ Cardinality(A \cap B) \in Nat
    BY FS_Subset, FS_CardinalityType
  <2>2. g[B \cup {x}] = ones[x] + Cardinality(A \cap B)
    BY <1>2, <1>4 DEF Additive
  <2>3. CASE x \in A
    <3>1. A \cap (B \cup {x}) = (A \cap B) \cup {x} /\ x \notin A \cap B
      BY <2>3
    <3>2. Cardinality(A \cap (B \cup {x})) = Cardinality(A \cap B) + 1
      BY <2>1, <3>1, FS_AddElement
    <3>3. g[B \cup {x}] = Cardinality(A \cap (B \cup {x}))
      BY <1>1, <2>1, <2>2, <2>3, <3>2
    <3> QED
      BY <3>3
  <2>4. CASE x \notin A
    <3>1. A \cap (B \cup {x}) = A \cap B
      BY <2>4
    <3>2. ones[x] = 0
      BY <1>1, <2>4
    <3>3. g[B \cup {x}] = Cardinality(A \cap B)
      BY <2>1, <2>2, <3>2
    <3> QED
      BY <3>1, <3>3
  <2> QED
    BY <2>3, <2>4
<1> HIDE DEF Good
<1>5. S \in Good
  BY <1>3, <1>4, SubsetInduction
<1>6. g[S] = Cardinality(A) /\ Total(ones) = g[S]
  <2>1. A \cap S = A
    OBVIOUS
  <2> QED
    BY <1>1, <1>2, <1>5, <2>1, TotalIsSum DEF Good
<1> QED
  BY <1>6 DEF ones

\* Values under other names have the same total.
LEMMA TotalRenamed ==
    ASSUME NEW S, IsFiniteSet(S), NEW T, NEW b \in [S -> T],
           \A x, y \in S : b[x] = b[y] => x = y,
           \A z \in T : \E x \in S : b[x] = z,
           NEW f \in [S -> Int], NEW h \in [T -> Int], \A x \in S : f[x] = h[b[x]]
    PROVE  Total(f) = Total(h)
<1>1. IsFiniteSet(T)
  <2>1. b \in Surjection(S, T)
    BY DEF Surjection
  <2> QED
    BY <2>1, FS_Surjection
<1>2. PICK g : Additive(g, f, S)
  BY AdditiveExists
<1>3. PICK k : Additive(k, h, T)
  BY <1>1, AdditiveExists
<1> DEFINE Good == {A \in SUBSET S : g[A] = k[{b[x] : x \in A}]}
<1>4. {} \in Good
  <2>1. {b[x] : x \in {}} = {}
    OBVIOUS
  <2> QED
    BY <1>2, <1>3, <2>1 DEF Additive
<1>5. ASSUME NEW A \in SUBSET S, A \in Good, NEW y \in S \ A
      PROVE  A \cup {y} \in Good
  <2> DEFINE B == {b[x] : x \in A}
  <2>1. /\ B \in SUBSET T /\ b[y] \in T \ B
        /\ {b[x] : x \in A \cup {y}} = B \cup {b[y]}
    OBVIOUS
  <2>2. g[A] = k[B]
    BY <1>5
  <2> HIDE DEF B
  <2>3. k[B \cup {b[y]}] = h[b[y]] + k[B] /\ g[A \cup {y}] = f[y] + g[A] /\ f[y] = h[b[y]]
    BY <1>2, <1>3, <2>1 DEF Additive
  <2> QED
    BY <2>1, <2>2, <2>3
<1> HIDE DEF Good
<1>6. S \in Good
  BY <1>4, <1>5, SubsetInduction
<1>7. {b[x] : x \in S} = T
  OBVIOUS
<1>8. g[S] = k[T]
  BY <1>6, <1>7 DEF Good
<1>9. Total(f) = g[S]
  BY <1>2, TotalIsSum
<1>10. Total(h) = k[T]
  BY <1>1, <1>3, TotalIsSum
<1> QED
  BY <1>8, <1>9, <1>10

\* The total of a table by its rows is that by its columns.
LEMMA TotalByColumns ==
    ASSUME NEW S, IsFiniteSet(S), NEW T, IsFiniteSet(T), NEW m \in [S -> [T -> Int]]
    PROVE  Total([x \in S |-> Total(m[x])]) = Total([y \in T |-> Total([x \in S |-> m[x][y]])])
<1> DEFINE rows == [x \in S |-> Total(m[x])]
           col(y) == [x \in S |-> m[x][y]]
<1>1. \A x \in S : m[x] \in [T -> Int] /\ Total(m[x]) \in Int
  BY TotalType
<1>2. rows \in [S -> Int]
  BY <1>1
<1> HIDE DEF rows
<1>3. PICK g : Additive(g, rows, S)
  BY <1>2, AdditiveExists
<1> DEFINE cols == [y \in T |-> CHOOSE k : Additive(k, col(y), S)]
<1>4. \A y \in T : Additive(cols[y], col(y), S) /\ Total(col(y)) = cols[y][S]
  <2> SUFFICES ASSUME NEW y \in T
               PROVE  Additive(cols[y], col(y), S) /\ Total(col(y)) = cols[y][S]
    OBVIOUS
  <2>1. col(y) \in [S -> Int]
    OBVIOUS
  <2>2. \E k : Additive(k, col(y), S)
    BY <2>1, AdditiveExists
  <2>3. cols[y] = CHOOSE k : Additive(k, col(y), S)
    OBVIOUS
  <2> HIDE DEF cols, col
  <2>4. Additive(cols[y], col(y), S)
    BY <2>2, <2>3
  <2> QED
    BY <2>1, <2>4, TotalIsSum
<1>5. \A y \in T : \A x \in S : col(y)[x] = m[x][y]
  OBVIOUS
<1> HIDE DEF cols, col
\* The columns, over a part of the rows.
<1> DEFINE Part(A) == [y \in T |-> cols[y][A]]
           Good == {A \in SUBSET S : g[A] = Total(Part(A))}
<1>6. \A A \in SUBSET S : Part(A) \in [T -> Int]
  BY <1>4 DEF Additive
<1>7. {} \in Good
  <2>1. \A y \in T : Part({})[y] = 0
    BY <1>4 DEF Additive
  <2>2. Part({}) \in [T -> Int]
    BY <1>6
  <2> HIDE DEF Part
  <2>3. Total(Part({})) = 0
    BY <2>1, <2>2, TotalOfNone
  <2> QED
    BY <1>3, <2>3 DEF Additive
<1>8. ASSUME NEW A \in SUBSET S, A \in Good, NEW x \in S \ A
      PROVE  A \cup {x} \in Good
  <2> DEFINE e == Part(A \cup {x})
             r == m[x]
             p == Part(A)
  <2>1. \A y \in T : e[y] = r[y] + p[y]
    BY <1>4, <1>5 DEF Additive
  <2>2. p \in [T -> Int] /\ e \in [T -> Int] /\ r \in [T -> Int]
    BY <1>6
  <2> HIDE DEF Part, e, r, p
  <2>3. Total(e) = Total(r) + Total(p)
    BY <2>1, <2>2, TotalOfSums
  <2>4. g[A \cup {x}] = Total(m[x]) + g[A]
    BY <1>3 DEF Additive, rows
  <2>5. g[A] = Total(p)
    BY <1>8 DEF p
  <2> HIDE DEF Good
  <2>6. g[A \cup {x}] = Total(e)
    <3>1. Total(r) \in Int /\ Total(p) \in Int
      BY <2>2, TotalType
    <3> QED
      BY <2>3, <2>4, <2>5, <3>1 DEF r
  <2> QED
    BY <2>6 DEF Good, e
<1> HIDE DEF Good
<1>9. S \in Good
  BY <1>7, <1>8, SubsetInduction
<1>10. g[S] = Total(Part(S))
  BY <1>9 DEF Good
<1>11. Total(rows) = g[S]
  BY <1>2, <1>3, TotalIsSum
<1>12. Part(S) = [y \in T |-> Total(col(y))]
  BY <1>4
<1> HIDE DEF Part
<1> QED
  BY <1>10, <1>11, <1>12 DEF rows, col
=============================================================================
