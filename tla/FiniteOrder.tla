---------------------------- MODULE FiniteOrder ----------------------------
(***************************************************************************)
(* Finite sets in a total order: their first, last and n-th elements.      *)
(*                                                                         *)
(* An order is given by the function that maps each element to the set of  *)
(* the elements up to it.                                                  *)
(***************************************************************************)
EXTENDS Integers, FiniteSets, FiniteSetTheorems, TLAPS

\* upto is a total order of S.
Orders(upto, S) ==
    /\ upto \in [S -> SUBSET S]
    /\ \A x \in S : x \in upto[x]
    /\ \A x, y \in S : x \in upto[y] \/ y \in upto[x]
    /\ \A x, y \in S : x \in upto[y] => upto[x] \subseteq upto[y]
    /\ \A x, y \in S : x \in upto[y] /\ y \in upto[x] => x = y

\* T has a first element, a last one, one with n elements up to it.
HasFirst(upto, T) == \E m \in T : \A x \in T : m \in upto[x]
HasLast(upto, T)  == \E m \in T : \A x \in T : x \in upto[m]
HasNth(upto, T, n) == \E x \in T : Cardinality(upto[x]) = n

\* Of finite sets some are minimal.
LEMMA MinimalSubset ==
    ASSUME NEW F, F # {}, \A S \in F : IsFiniteSet(S)
    PROVE  \E S \in F : \A T \in F : T \subseteq S => T = S
<1> DEFINE U == UNION F
<1>1. F \subseteq FiniteSubsetsOf(U)
  BY DEF FiniteSubsetsOf
<1>2. IsWellFoundedOn(StrictSubsetOrdering(U), FiniteSubsetsOf(U))
  BY FS_StrictSubsetOrderingWellFounded
<1>3. \E S \in F : \A T \in F : ~ (<<T, S>> \in StrictSubsetOrdering(U))
  BY <1>1, <1>2, WFMin
<1> QED BY <1>1, <1>3 DEF StrictSubsetOrdering, FiniteSubsetsOf

\* A set that is not empty has a first element ...
LEMMA FirstOf ==
    ASSUME NEW S, IsFiniteSet(S), NEW upto, Orders(upto, S), NEW T \in SUBSET S, T # {}
    PROVE  HasFirst(upto, T)
<1> DEFINE F == {upto[x] : x \in T}
<1>1. F # {}
  OBVIOUS
<1>2. \A Q \in F : IsFiniteSet(Q)
  <2>1. \A x \in T : upto[x] \in SUBSET S
    BY DEF Orders
  <2> QED BY <2>1, FS_Subset
<1>3. PICK P \in F : \A Q \in F : Q \subseteq P => Q = P
  <2> HIDE DEF F
  <2> QED BY <1>1, <1>2, MinimalSubset
<1>4. PICK m \in T : P = upto[m]
  OBVIOUS
<1>5. ASSUME NEW x \in T PROVE m \in upto[x]
  <2>1. CASE x \in upto[m]
    <3>1. upto[x] \subseteq P
      BY <1>4, <2>1 DEF Orders
    <3>2. upto[x] = P
      BY <1>3, <3>1
    <3> QED BY <1>4, <3>2 DEF Orders
  <2>2. CASE x \notin upto[m]
    BY <2>2 DEF Orders
  <2> QED BY <2>1, <2>2
<1> QED BY <1>5 DEF HasFirst

\* ... and a last one.
LEMMA LastOf ==
    ASSUME NEW S, IsFiniteSet(S), NEW upto, Orders(upto, S), NEW T \in SUBSET S, T # {}
    PROVE  HasLast(upto, T)
<1> DEFINE from == [x \in S |-> {y \in S : x \in upto[y]}]
<1>1. \A x, y \in S : y \in from[x] <=> x \in upto[y]
  OBVIOUS
<1>2. \A x, y \in S : x \in from[y] => from[x] \subseteq from[y]
  <2> SUFFICES ASSUME NEW x \in S, NEW y \in S, x \in from[y], NEW z \in from[x]
               PROVE z \in from[y]
      OBVIOUS
  <2>1. z \in S /\ x \in upto[z] /\ y \in upto[x]
    OBVIOUS
  <2> QED BY <2>1 DEF Orders
<1>3. Orders(from, S)
  <2>1. from \in [S -> SUBSET S]
    OBVIOUS
  <2> HIDE DEF from
  <2> QED BY <1>1, <1>2, <2>1 DEF Orders
<1> HIDE DEF from
<1>4. PICK m \in T : \A x \in T : m \in from[x]
  BY <1>3, FirstOf DEF HasFirst
<1> QED BY <1>1, <1>4 DEF HasLast

\* The first n elements: nothing is left out before them, and there are n of
\* them unless they are all.
LEMMA Prefix ==
    ASSUME NEW S, IsFiniteSet(S), NEW upto, Orders(upto, S), NEW n \in Nat,
           NEW P, P = {x \in S : Cardinality(upto[x]) <= n}
    PROVE  /\ \A x \in P : upto[x] \subseteq P
           /\ \A x \in P, y \in S \ P : x \in upto[y]
           /\ IsFiniteSet(P) /\ Cardinality(P) <= n
           /\ Cardinality(P) < n => P = S
<1>0. \A x \in S : /\ upto[x] \in SUBSET S /\ IsFiniteSet(upto[x])
                   /\ Cardinality(upto[x]) \in Nat
  <2>1. \A x \in S : upto[x] \in SUBSET S
    BY DEF Orders
  <2> QED BY <2>1, FS_Subset, FS_CardinalityType
<1>1. ASSUME NEW x \in P, NEW y \in upto[x] PROVE y \in P
  <2>1. y \in S /\ upto[y] \in SUBSET upto[x]
    BY <1>0 DEF Orders
  <2>2. Cardinality(upto[y]) <= Cardinality(upto[x])
    BY <1>0, <2>1, FS_Subset
  <2> QED BY <1>0, <2>1, <2>2
<1>2. ASSUME NEW x \in P, NEW y \in S \ P PROVE x \in upto[y]
  BY <1>1 DEF Orders
<1>3. P \in SUBSET S /\ IsFiniteSet(P) /\ Cardinality(P) \in Nat
  <2>1. P \in SUBSET S
    OBVIOUS
  <2> QED BY <2>1, FS_Subset, FS_CardinalityType
<1>4. Cardinality(P) <= n
  <2>1. CASE P = {}
    BY <2>1, FS_EmptySet
  <2>2. CASE P # {}
    <3>1. PICK m \in P : \A x \in P : x \in upto[m]
      BY <1>3, <2>2, LastOf DEF HasLast
    <3>2. P \in SUBSET upto[m]
      BY <3>1
    <3>3. Cardinality(P) <= Cardinality(upto[m])
      BY <1>0, <3>2, FS_Subset
    <3> QED BY <1>0, <1>3, <3>3
  <2> QED BY <2>1, <2>2
<1>5. ASSUME Cardinality(P) < n, P # S PROVE FALSE
  <2>1. PICK m \in S \ P : \A x \in S \ P : m \in upto[x]
    <3>1. S \ P \in SUBSET S /\ S \ P # {}
      BY <1>3, <1>5
    <3> QED BY <3>1, FirstOf DEF HasFirst
  <2>2. upto[m] \in SUBSET (P \cup {m})
    BY <1>0, <2>1 DEF Orders
  <2>3. IsFiniteSet(P \cup {m}) /\ Cardinality(P \cup {m}) = Cardinality(P) + 1
    BY <1>3, <2>1, FS_AddElement
  <2>4. Cardinality(upto[m]) <= Cardinality(P) + 1
    BY <2>2, <2>3, FS_Subset
  <2>5. Cardinality(upto[m]) <= n
    BY <1>0, <1>3, <1>5, <2>1, <2>4
  <2> QED BY <2>1, <2>5
<1> QED BY <1>1, <1>2, <1>3, <1>4, <1>5

\* There is an n-th element.
LEMMA Ranked ==
    ASSUME NEW S, IsFiniteSet(S), NEW upto, Orders(upto, S), NEW n \in 1 .. Cardinality(S)
    PROVE  HasNth(upto, S, n)
<1> DEFINE P == {x \in S : Cardinality(upto[x]) <= n}
<1>0. Cardinality(S) \in Nat /\ n \in Nat
  BY FS_CardinalityType
<1>1. /\ \A x \in P : upto[x] \subseteq P
      /\ IsFiniteSet(P) /\ Cardinality(P) <= n
      /\ Cardinality(P) < n => P = S
  <2>1. n \in Nat
    BY <1>0
  <2> HIDE DEF P
  <2>2. \A Q : Q = {x \in S : Cardinality(upto[x]) <= n} =>
          /\ \A x \in Q : upto[x] \subseteq Q
          /\ IsFiniteSet(Q) /\ Cardinality(Q) <= n
          /\ Cardinality(Q) < n => Q = S
    BY <2>1, Prefix
  <2> QED BY <2>2 DEF P
<1>2. P \in SUBSET S
  OBVIOUS
<1> HIDE DEF P
<1>3. Cardinality(P) = n
  BY <1>0, <1>1, FS_CardinalityType
<1>4. P # {}
  BY <1>3, FS_EmptySet
<1>5. PICK m \in P : \A x \in P : x \in upto[m]
  BY <1>2, <1>4, LastOf DEF HasLast
<1>6. upto[m] = P
  BY <1>1, <1>5
<1> QED BY <1>2, <1>3, <1>6 DEF HasNth

\* No two elements have the same rank.
LEMMA RanksDiffer ==
    ASSUME NEW S, IsFiniteSet(S), NEW upto, Orders(upto, S), NEW x \in S, NEW y \in S,
           Cardinality(upto[x]) = Cardinality(upto[y])
    PROVE  x = y
<1>1. \A z \in S : upto[z] \in SUBSET S /\ IsFiniteSet(upto[z])
  <2>1. \A z \in S : upto[z] \in SUBSET S
    BY DEF Orders
  <2> QED BY <2>1, FS_Subset
<1>2. upto[x] \subseteq upto[y] \/ upto[y] \subseteq upto[x]
  BY DEF Orders
<1>3. upto[x] = upto[y]
  <2>1. CASE upto[x] \in SUBSET upto[y]
    BY <1>1, <2>1, FS_Subset
  <2>2. CASE upto[y] \in SUBSET upto[x]
    BY <1>1, <2>2, FS_Subset
  <2> QED BY <1>2, <2>1, <2>2
<1>4. x \in upto[y] /\ y \in upto[x]
  BY <1>3 DEF Orders
<1> QED BY <1>4 DEF Orders

(***************************************************************************)
(* Numbers.                                                                *)
(***************************************************************************)

\* Numbers are in a total order.
LEMMA NumbersOrdered ==
    ASSUME NEW S \in SUBSET Int
    PROVE  Orders([x \in S |-> {y \in S : y <= x}], S)
<1> DEFINE upto == [x \in S |-> {y \in S : y <= x}]
<1>1. upto \in [S -> SUBSET S]
  OBVIOUS
<1>2. \A x, y \in S : y \in upto[x] <=> y <= x
  OBVIOUS
<1>3. \A x, y \in S : x \in upto[y] => upto[x] \subseteq upto[y]
  <2> SUFFICES ASSUME NEW x \in S, NEW y \in S, x \in upto[y], NEW z \in upto[x]
               PROVE z \in upto[y]
      OBVIOUS
  <2>1. z \in S /\ x \in Int /\ y \in Int /\ z \in Int
    OBVIOUS
  <2>2. z <= x /\ x <= y
    OBVIOUS
  <2> QED BY <2>1, <2>2
<1> HIDE DEF upto
<1>4. Orders(upto, S)
  BY <1>1, <1>2, <1>3 DEF Orders
<1> QED BY <1>4 DEF upto

\* A finite set of numbers has a greatest one ...
LEMMA GreatestNumber ==
    ASSUME NEW S \in SUBSET Int, IsFiniteSet(S), S # {}
    PROVE  \E m \in S : \A x \in S : x <= m
<1>1. PICK upto : upto = [x \in S |-> {y \in S : y <= x}]
  OBVIOUS
<1>2. Orders(upto, S) /\ S \in SUBSET S
  BY <1>1, NumbersOrdered
<1>3. HasLast(upto, S)
  BY <1>2, LastOf
<1> QED BY <1>1, <1>3 DEF HasLast

\* ... and a least one.
LEMMA LeastNumber ==
    ASSUME NEW S \in SUBSET Int, IsFiniteSet(S), S # {}
    PROVE  \E m \in S : \A x \in S : m <= x
<1>1. PICK upto : upto = [x \in S |-> {y \in S : y <= x}]
  OBVIOUS
<1>2. Orders(upto, S) /\ S \in SUBSET S
  BY <1>1, NumbersOrdered
<1>3. HasFirst(upto, S)
  BY <1>2, FirstOf
<1> QED BY <1>1, <1>3 DEF HasFirst

\* There is a number with exactly n numbers up to it.
LEMMA NthNumber ==
    ASSUME NEW S \in SUBSET Int, IsFiniteSet(S), NEW n \in 1 .. Cardinality(S)
    PROVE  \E x \in S : Cardinality({y \in S : y <= x}) = n
<1>1. PICK upto : upto = [x \in S |-> {y \in S : y <= x}]
  OBVIOUS
<1>2. Orders(upto, S)
  BY <1>1, NumbersOrdered
<1>3. HasNth(upto, S, n)
  BY <1>2, Ranked
<1> QED BY <1>1, <1>3 DEF HasNth

\* The number of smaller numbers tells the numbers of a set apart, and takes
\* every value below their count.
LEMMA CountedBelow ==
    ASSUME NEW S \in SUBSET Int, IsFiniteSet(S), NEW c,
           \A x \in S : c[x] = Cardinality({y \in S : y < x})
    PROVE  /\ Cardinality(S) \in Nat
           /\ \A x \in S : c[x] \in 0 .. Cardinality(S) - 1
           /\ \A x, y \in S : c[x] = c[y] => x = y
           /\ \A n \in 0 .. Cardinality(S) - 1 : \E x \in S : c[x] = n
<1>0. PICK upto : upto = [x \in S |-> {y \in S : y <= x}]
  OBVIOUS
<1>1. Orders(upto, S)
  BY <1>0, NumbersOrdered
<1>2. Cardinality(S) \in Nat
  BY FS_CardinalityType
<1>3. ASSUME NEW x \in S
      PROVE  /\ Cardinality(upto[x]) = c[x] + 1
             /\ c[x] \in Nat /\ c[x] < Cardinality(S)
  <2>0. PICK below : below = {y \in S : y < x}
    OBVIOUS
  <2>1. below \in SUBSET S /\ x \notin below
    BY <2>0
  <2>2. upto[x] = below \cup {x}
    <3>1. upto[x] = {y \in S : y <= x}
      BY <1>0
    <3>2. ASSUME NEW y PROVE y \in {z \in S : z <= x} <=> y \in {z \in S : z < x} \cup {x}
      <4>1. CASE y \in S
        BY <4>1
      <4>2. CASE y \notin S
        BY <4>2
      <4> QED BY <4>1, <4>2
    <3>3. {z \in S : z <= x} = {z \in S : z < x} \cup {x}
      BY <3>2
    <3> QED BY <2>0, <3>1, <3>3
  <2>3. IsFiniteSet(below) /\ Cardinality(below) \in Nat
    BY <2>1, FS_Subset, FS_CardinalityType
  <2>4. Cardinality(upto[x]) = Cardinality(below) + 1
    BY <2>1, <2>2, <2>3, FS_AddElement
  <2>5. upto[x] \in SUBSET S
    BY <1>1 DEF Orders
  <2>6. Cardinality(upto[x]) <= Cardinality(S)
    BY <2>5, FS_Subset
  <2> QED BY <1>2, <2>0, <2>3, <2>4, <2>6
<1>4. ASSUME NEW n \in 0 .. Cardinality(S) - 1 PROVE \E x \in S : c[x] = n
  <2>1. n + 1 \in 1 .. Cardinality(S)
    BY <1>2
  <2>2. HasNth(upto, S, n + 1)
    BY <1>1, <2>1, Ranked
  <2> QED BY <1>2, <1>3, <2>2 DEF HasNth
<1>5. ASSUME NEW x \in S, NEW y \in S, c[x] = c[y] PROVE x = y
  <2>1. Cardinality(upto[x]) = Cardinality(upto[y])
    BY <1>3, <1>5
  <2> QED BY <1>1, <2>1, RanksDiffer
<1> QED BY <1>2, <1>3, <1>4, <1>5
=============================================================================
