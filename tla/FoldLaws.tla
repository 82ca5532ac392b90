------------------------------- MODULE FoldLaws -------------------------------
(***************************************************************************)
(* What the folds of the models compute, one element at a time.  The       *)
(* library folds with a recursive function on the subsets of what is left, *)
(* an element of which is picked and combined with the fold of the others. *)
(* That there is such a function, and only one, is proved from a smallest  *)
(* set without it.                                                         *)
(***************************************************************************)
EXTENDS Integers, FiniteSetTheorems, WellFoundedInduction, TLAPS

CONSTANTS
  Pick(_),        \* the element of a set whose turn is last
  Step(_, _, _),  \* from a context and what the others gave, by an element
  Holds(_, _, _)  \* a claim about a context, how many elements there were, and
                  \* what they gave

\* The function the library's recursive definition stands for.
IsFold(h, c, base, S) ==
  h = [s \in SUBSET S |-> IF s = {} THEN base ELSE Step(c, h[s \ {Pick(s)}], Pick(s))]

Fold(c, base, S) == (CHOOSE h : IsFold(h, c, base, S))[S]

Picks(S) == IsFiniteSet(S) /\ \A T \in SUBSET S : T # {} => Pick(T) \in T

\* A set of numbers that is not empty has a least one.
LEMMA LeastExists ==
  ASSUME NEW B \in SUBSET Nat, B # {}
  PROVE  \E b \in B : \A c \in B : ~(c < b)
<1>1. IsWellFoundedOn(OpToRel(<, Nat), Nat)
  BY NatLessThanWellFounded
<1>2. \E b \in B : \A c \in B : ~(<<c, b>> \in OpToRel(<, Nat))
  BY <1>1, WFMin
<1> QED BY <1>2 DEF OpToRel

\* Taking the picked element away leaves a smaller set.
LEMMA WithoutPicked ==
  ASSUME NEW S, Picks(S), S # {}
  PROVE  /\ Pick(S) \in S /\ Picks(S \ {Pick(S)})
         /\ Cardinality(S) \in Nat /\ Cardinality(S \ {Pick(S)}) \in Nat
         /\ Cardinality(S \ {Pick(S)}) < Cardinality(S)
<1>1. Pick(S) \in S /\ IsFiniteSet(S)
  BY DEF Picks
<1>2. Cardinality(S) \in Nat
  BY <1>1, FS_CardinalityType
<1>3. IsFiniteSet(S \ {Pick(S)}) /\ Cardinality(S \ {Pick(S)}) = Cardinality(S) - 1
  BY <1>1, FS_RemoveElement
<1>4. Cardinality(S \ {Pick(S)}) \in Nat
  BY <1>3, FS_CardinalityType
<1>5. Picks(S \ {Pick(S)})
  BY <1>3 DEF Picks
<1> QED BY <1>1, <1>2, <1>3, <1>4, <1>5

LEMMA PartsPicked ==
  ASSUME NEW S, Picks(S), NEW T \in SUBSET S
  PROVE  Picks(T) /\ Cardinality(T) \in Nat
         /\ Cardinality(T) <= Cardinality(S) /\ (Cardinality(T) = Cardinality(S) => T = S)
<1>1. IsFiniteSet(S)
  BY DEF Picks
<1>2. IsFiniteSet(T) /\ Cardinality(T) <= Cardinality(S) /\ (Cardinality(T) = Cardinality(S) => T = S)
  BY <1>1, FS_Subset
<1>3. Cardinality(T) \in Nat
  BY <1>2, FS_CardinalityType
<1>4. Picks(T)
  BY <1>2 DEF Picks
<1> QED BY <1>2, <1>3, <1>4

\* Where two such functions are defined, they are the same.
LEMMA FoldUnique ==
  ASSUME NEW c, NEW base, NEW S, Picks(S), NEW T, Picks(T),
         NEW h, NEW k, IsFold(h, c, base, S), IsFold(k, c, base, T), NEW u \in SUBSET (S \cap T)
  PROVE  h[u] = k[u]
<1> DEFINE Bad == {v \in SUBSET (S \cap T) : h[v] # k[v]}
<1> DEFINE B == {Cardinality(v) : v \in Bad}
<1>1. \A v \in SUBSET (S \cap T) : v \in SUBSET S /\ Picks(v) /\ Cardinality(v) \in Nat
  <2> SUFFICES ASSUME NEW v \in SUBSET (S \cap T)
               PROVE  v \in SUBSET S /\ Picks(v) /\ Cardinality(v) \in Nat
    OBVIOUS
  <2>1. v \in SUBSET S
    OBVIOUS
  <2> QED BY <2>1, PartsPicked
<1>2. SUFFICES ASSUME Bad # {} PROVE FALSE
  OBVIOUS
<1>3. B \in SUBSET Nat /\ B # {}
  BY <1>1, <1>2
<1>4. PICK b \in B : \A d \in B : ~(d < b)
  <2> HIDE DEF B
  <2> QED BY <1>3, LeastExists
<1>5. PICK v \in Bad : b = Cardinality(v)
  OBVIOUS
<1>6. /\ h[v] = IF v = {} THEN base ELSE Step(c, h[v \ {Pick(v)}], Pick(v))
      /\ k[v] = IF v = {} THEN base ELSE Step(c, k[v \ {Pick(v)}], Pick(v))
  BY DEF IsFold
<1>7. v # {}
  BY <1>6
<1>8. v \ {Pick(v)} \in SUBSET (S \cap T) /\ Cardinality(v \ {Pick(v)}) < Cardinality(v)
  BY <1>1, <1>7, WithoutPicked
<1>9. v \ {Pick(v)} \notin Bad
  BY <1>4, <1>5, <1>8
<1>10. h[v \ {Pick(v)}] = k[v \ {Pick(v)}]
  BY <1>8, <1>9
<1> QED BY <1>6, <1>10

\* There is such a function for every finite set.
LEMMA FoldExists ==
  ASSUME NEW c, NEW base, NEW S, Picks(S)
  PROVE  \E h : IsFold(h, c, base, S)
<1> DEFINE Bad == {T \in SUBSET S : ~ \E h : IsFold(h, c, base, T)}
<1> DEFINE B == {Cardinality(T) : T \in Bad}
<1>1. \A T \in SUBSET S : Picks(T) /\ Cardinality(T) \in Nat
  BY PartsPicked
<1>2. SUFFICES ASSUME Bad # {} PROVE FALSE
  <2>1. S \in SUBSET S
    OBVIOUS
  <2> QED BY <2>1
<1>3. B \in SUBSET Nat /\ B # {}
  BY <1>1, <1>2
<1>4. PICK b \in B : \A d \in B : ~(d < b)
  <2> HIDE DEF B
  <2> QED BY <1>3, LeastExists
<1>5. PICK T \in Bad : b = Cardinality(T)
  OBVIOUS
<1>6. ASSUME NEW U \in SUBSET T, U # T
      PROVE  LET j == CHOOSE j : IsFold(j, c, base, U)
             IN  IsFold(j, c, base, U) /\ Fold(c, base, U) = j[U] /\ Picks(U)
  <2>1. U \in SUBSET S /\ Picks(U) /\ Cardinality(U) < Cardinality(T)
    <3>1. Picks(T)
      BY <1>1
    <3>2. Picks(U) /\ Cardinality(U) \in Nat
          /\ Cardinality(U) <= Cardinality(T) /\ Cardinality(U) # Cardinality(T)
      BY <1>6, <3>1, PartsPicked
    <3> QED BY <1>1, <3>2
  <2>2. U \notin Bad
    BY <1>4, <1>5, <2>1
  <2>3. \E j : IsFold(j, c, base, U)
    BY <2>1, <2>2
  <2> QED BY <2>1, <2>3 DEF Fold
<1> DEFINE h == [s \in SUBSET T |-> IF s = {} THEN base
                                    ELSE Step(c, Fold(c, base, s \ {Pick(s)}), Pick(s))]
<1>7. ASSUME NEW v \in SUBSET T, v # T
      PROVE  h[v] = Fold(c, base, v)
  <2> DEFINE j == CHOOSE j : IsFold(j, c, base, v)
  <2>1. IsFold(j, c, base, v) /\ Fold(c, base, v) = j[v] /\ Picks(v)
    BY <1>6, <1>7
  <2> HIDE DEF j
  <2>2. j[v] = IF v = {} THEN base ELSE Step(c, j[v \ {Pick(v)}], Pick(v))
    BY <2>1 DEF IsFold
  <2>3. CASE v = {}
    BY <2>1, <2>2, <2>3
  <2>4. CASE v # {}
    <3> DEFINE w == v \ {Pick(v)}
    <3>1. w \in SUBSET T /\ w # T /\ w \in SUBSET v
      <4>1. Pick(v) \in v
        BY <2>1, <2>4, WithoutPicked
      <4> QED BY <4>1
    <3> DEFINE i == CHOOSE i : IsFold(i, c, base, w)
    <3>2. IsFold(i, c, base, w) /\ Fold(c, base, w) = i[w] /\ Picks(w)
      <4> HIDE DEF w
      <4> QED BY <1>6, <3>1
    <3> HIDE DEF i, w
    <3>3. w \in SUBSET (v \cap w)
      BY <3>1
    <3>4. j[w] = i[w]
      BY <2>1, <3>2, <3>3, FoldUnique
    <3>5. h[v] = Step(c, Fold(c, base, w), Pick(v))
      BY <2>4 DEF w
    <3> QED BY <2>1, <2>2, <2>4, <3>2, <3>4, <3>5 DEF w
  <2> QED BY <2>3, <2>4
<1>8. ASSUME NEW s \in SUBSET T, s # {}
      PROVE  h[s \ {Pick(s)}] = Fold(c, base, s \ {Pick(s)})
  <2>1. Pick(s) \in s
    <3>1. Picks(T)
      BY <1>1
    <3>2. Picks(s)
      BY <3>1, PartsPicked
    <3> QED BY <1>8, <3>2, WithoutPicked
  <2>2. s \ {Pick(s)} \in SUBSET T /\ s \ {Pick(s)} # T
    BY <2>1
  <2> HIDE DEF h
  <2> QED BY <1>7, <2>2
<1>9. \A s \in SUBSET T :
        h[s] = IF s = {} THEN base ELSE Step(c, h[s \ {Pick(s)}], Pick(s))
  <2>1. \A s \in SUBSET T :
          h[s] = IF s = {} THEN base ELSE Step(c, Fold(c, base, s \ {Pick(s)}), Pick(s))
    OBVIOUS
  <2> HIDE DEF h
  <2> QED BY <1>8, <2>1
<1>10. DOMAIN h = SUBSET T /\ h = [s \in SUBSET T |-> h[s]]
  OBVIOUS
<1> HIDE DEF h
<1>11. IsFold(h, c, base, T)
  BY <1>9, <1>10 DEF IsFold
<1> QED BY <1>11

\* A fold is the picked element's step from the fold of the others.
LEMMA FoldUnfolds ==
  ASSUME NEW c, NEW base, NEW S, Picks(S)
  PROVE  Fold(c, base, S) = IF S = {} THEN base ELSE Step(c, Fold(c, base, S \ {Pick(S)}), Pick(S))
<1> DEFINE h == CHOOSE h : IsFold(h, c, base, S)
<1>1. IsFold(h, c, base, S) /\ Fold(c, base, S) = h[S]
  BY FoldExists DEF Fold
<1> HIDE DEF h
<1>2. h[S] = IF S = {} THEN base ELSE Step(c, h[S \ {Pick(S)}], Pick(S))
  BY <1>1 DEF IsFold
<1>3. CASE S = {}
  BY <1>1, <1>2, <1>3
<1>4. CASE S # {}
  <2> DEFINE T == S \ {Pick(S)}
             k == CHOOSE k : IsFold(k, c, base, T)
  <2>1. Picks(T) /\ T \in SUBSET (S \cap T)
    BY <1>4, WithoutPicked
  <2> HIDE DEF T
  <2>2. IsFold(k, c, base, T) /\ Fold(c, base, T) = k[T]
    BY <2>1, FoldExists DEF Fold
  <2> HIDE DEF k
  <2>3. h[T] = k[T]
    BY <1>1, <2>1, <2>2, FoldUnique
  <2> QED BY <1>1, <1>2, <1>4, <2>2, <2>3 DEF T
<1> QED BY <1>3, <1>4

-----------------------------------------------------------------------------
(* Sequences: the greatest index is picked. *)

PicksLast == \A T : Pick(T) = CHOOSE x \in T : \A y \in T : x >= y

LEMMA LastPicked ==
  ASSUME PicksLast, NEW n \in Nat
  PROVE  Picks(1 .. n) /\ Pick(1 .. n + 1) = n + 1
<1>1. IsFiniteSet(1 .. n)
  BY FS_Interval
<1>2. ASSUME NEW T \in SUBSET (1 .. n), T # {} PROVE Pick(T) \in T
  <2> DEFINE B == {n - x : x \in T}
  <2> \A y \in T : y \in Nat /\ y <= n /\ n - y \in Nat
    OBVIOUS
  <2>1. B \in SUBSET Nat /\ B # {}
    BY <1>2
  <2>2. PICK b \in B : \A d \in B : ~(d < b)
    <3> HIDE DEF B
    <3> QED BY <2>1, LeastExists
  <2>3. PICK x \in T : b = n - x
    OBVIOUS
  <2>4. \A y \in T : x >= y
    <3> SUFFICES ASSUME NEW y \in T PROVE x >= y
      OBVIOUS
    <3>1. ~(n - y < n - x)
      BY <2>2, <2>3
    <3>2. x \in Nat /\ y \in Nat
      OBVIOUS
    <3> QED BY <3>1, <3>2
  <2> QED BY <2>4 DEF PicksLast
<1>3. Pick(1 .. n + 1) = n + 1
  <2>1. n + 1 \in 1 .. n + 1 /\ \A y \in 1 .. n + 1 : n + 1 >= y
    OBVIOUS
  <2>2. \A x \in 1 .. n + 1 : (\A y \in 1 .. n + 1 : x >= y) => x = n + 1
    BY <2>1
  <2> QED BY <2>1, <2>2 DEF PicksLast
<1> QED BY <1>1, <1>2, <1>3 DEF Picks

\* A sequence is folded from its first element to its last.
LEMMA FoldInOrder ==
  ASSUME NEW c, NEW base, PicksLast
  PROVE  /\ Fold(c, base, 1 .. 0) = base
         /\ \A n \in Nat : Fold(c, base, 1 .. n + 1) = Step(c, Fold(c, base, 1 .. n), n + 1)
<1>1. 1 .. 0 = {} /\ Picks(1 .. 0)
  BY LastPicked
<1>2. Fold(c, base, 1 .. 0) = base
  BY <1>1, FoldUnfolds
<1>3. ASSUME NEW n \in Nat
      PROVE  Fold(c, base, 1 .. n + 1) = Step(c, Fold(c, base, 1 .. n), n + 1)
  <2>1. n + 1 \in 1 .. n + 1
    OBVIOUS
  <2>2. (1 .. n + 1) \ {n + 1} = 1 .. n
    OBVIOUS
  <2>3. Picks(1 .. n + 1) /\ Pick(1 .. n + 1) = n + 1
    <3>1. n + 1 \in Nat
      OBVIOUS
    <3> QED BY <3>1, LastPicked
  <2> QED BY <2>1, <2>2, <2>3, FoldUnfolds
<1> QED BY <1>2, <1>3

\* A claim that every step keeps holds of the result.
LEMMA FoldKeeps ==
  ASSUME NEW c, NEW base, NEW n \in Nat, PicksLast,
         Holds(c, 0, base),
         \A m \in 0 .. n - 1 : \A x : Holds(c, m, x) => Holds(c, m + 1, Step(c, x, m + 1))
  PROVE  \A m \in 0 .. n : Holds(c, m, Fold(c, base, 1 .. m))
<1> DEFINE B == {m \in 0 .. n : ~ Holds(c, m, Fold(c, base, 1 .. m))}
<1> SUFFICES ASSUME B # {} PROVE FALSE
  OBVIOUS
<1>1. PICK b \in B : \A d \in B : ~(d < b)
  <2>1. B \in SUBSET Nat
    OBVIOUS
  <2> HIDE DEF B
  <2> QED BY <2>1, LeastExists
<1>2. b # 0
  BY FoldInOrder
<1>3. b - 1 \in 0 .. n - 1 /\ b - 1 \in Nat /\ (b - 1) + 1 = b /\ b - 1 \notin B
  BY <1>1, <1>2
<1>4. Holds(c, b - 1, Fold(c, base, 1 .. b - 1))
  BY <1>3
<1>5. Fold(c, base, 1 .. b) = Step(c, Fold(c, base, 1 .. b - 1), b)
  <2> DEFINE a == b - 1
  <2>1. a \in Nat /\ a + 1 = b
    BY <1>3
  <2> HIDE DEF a
  <2>2. Fold(c, base, 1 .. a + 1) = Step(c, Fold(c, base, 1 .. a), a + 1)
    BY <2>1, FoldInOrder
  <2> QED BY <2>1, <2>2 DEF a
<1> QED BY <1>3, <1>4, <1>5
=============================================================================
