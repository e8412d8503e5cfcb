------------------------------ MODULE SumLemmas ------------------------------
(****************************************************************************)
(* What SumOf computes, for every function and every finite set: the sums   *)
(* behind the ledger of the stock, the totals of an order and the counts in *)
(* a cart.  The facts are shown by induction on the size of the set, in the *)
(* form that a set of numbers with 0 and with n + 1 for every n in it holds *)
(* every number.                                                            *)
(****************************************************************************)
EXTENDS Redis, FiniteSetTheorems, WellFoundedInduction, TLAPS

\* Induction: a set with 0, and with n + 1 whenever it has n, has every
\* natural number, as the others would have a least one.
LEMMA NatSetInduction ==
  ASSUME NEW T, 0 \in T, \A n \in Nat : n \in T => n + 1 \in T
  PROVE  \A n \in Nat : n \in T
<1> DEFINE R == OpToRel(<, Nat)
           B == Nat \ T
<1>1. IsWellFoundedOn(R, Nat)
  BY NatLessThanWellFounded, Zenon
<1>2. \A x, y \in Nat : x < y => <<x, y>> \in R
  BY DEF OpToRel
<1>3. SUFFICES ASSUME B # {} PROVE FALSE
  OBVIOUS
<1>4. B \subseteq Nat
  OBVIOUS
<1> HIDE DEF R
<1>5. PICK x \in B : \A y \in B : ~ (<<y, x>> \in R)
  <2> HIDE DEF B
  <2> QED BY <1>1, <1>3, <1>4, WFMin
<1>6. x - 1 \in Nat /\ x - 1 \notin T /\ x - 1 < x
  BY <1>5
<1> QED BY <1>2, <1>5, <1>6

\* The element that the sum takes out of s first, and what it computes on
\* the family F of sets.
Chosen(s) == CHOOSE x \in s : TRUE

IsSum(f, F, g) ==
    g = [s \in F |-> IF s = {} THEN 0 ELSE f[Chosen(s)] + g[s \ {Chosen(s)}]]

\* The same, on the subsets of S.
IsSumBelow(f, S, g) == IsSum(f, SUBSET S, g)

\* The element is one of the set, and the rest is smaller by one.
LEMMA ChosenIn ==
  ASSUME NEW S, IsFiniteSet(S), S # {}
  PROVE  /\ Chosen(S) \in S /\ IsFiniteSet(S \ {Chosen(S)})
         /\ Cardinality(S) \in Nat \ {0}
         /\ Cardinality(S \ {Chosen(S)}) = Cardinality(S) - 1
<1>1. Chosen(S) \in S
  BY DEF Chosen
<1>2. Cardinality(S) \in Nat /\ Cardinality(S) # 0
  BY FS_CardinalityType, FS_EmptySet
<1> QED BY <1>1, <1>2, FS_RemoveElement

\* The recursion that defines the sum has a solution on the subsets of a
\* finite set.
LEMMA SumExists ==
  ASSUME NEW f, NEW S, IsFiniteSet(S)
  PROVE  \E g : IsSum(f, SUBSET S, g)
<1> DEFINE Sub(n) == {s \in SUBSET S : Cardinality(s) =< n}
           T == {n \in Nat : \E g : IsSum(f, Sub(n), g)}
<1>0. \A s \in SUBSET S : IsFiniteSet(s) /\ Cardinality(s) \in Nat
                            /\ Cardinality(s) =< Cardinality(S)
  BY FS_Subset, FS_CardinalityType
<1>1. 0 \in T
  <2> DEFINE g == [s \in Sub(0) |-> 0]
  <2>1. \A s \in Sub(0) : s = {}
    BY <1>0, FS_EmptySet
  <2>2. IsSum(f, Sub(0), g)
    BY <2>1 DEF IsSum
  <2> QED BY <2>2
<1>2. ASSUME NEW n \in Nat, n \in T PROVE n + 1 \in T
  <2>1. PICK g : IsSum(f, Sub(n), g)
    BY <1>2
  <2> DEFINE h == [s \in Sub(n + 1) |->
                     IF s = {} THEN 0 ELSE f[Chosen(s)] + g[s \ {Chosen(s)}]]
  <2>2. \A s \in Sub(n) : s \in Sub(n + 1)
    BY <1>0
  <2>3. \A s \in Sub(n) : h[s] = g[s]
    BY <2>1, <2>2 DEF IsSum
  <2>4. \A s \in Sub(n + 1) : s # {} => s \ {Chosen(s)} \in Sub(n)
    BY <1>0, ChosenIn
  <2>5. IsSum(f, Sub(n + 1), h)
    <3> HIDE DEF Sub
    <3> QED BY <2>3, <2>4 DEF IsSum
  <2>6. \E g1 : IsSum(f, Sub(n + 1), g1)
    <3> HIDE DEF h, Sub
    <3> QED BY <2>5
  <2> QED BY <2>6
<1>3. Cardinality(S) \in Nat
  BY FS_CardinalityType
<1>4. Cardinality(S) \in T
  <2> HIDE DEF T
  <2> QED BY <1>1, <1>2, <1>3, NatSetInduction
<1>5. Sub(Cardinality(S)) = SUBSET S
  BY <1>0
<1> QED BY <1>4, <1>5

\* SumOf takes its value from a solution.
LEMMA SumIsSum ==
  ASSUME NEW f, NEW S, IsFiniteSet(S)
  PROVE  \E g : IsSumBelow(f, S, g) /\ SumOf(f, S) = g[S]
<1> DEFINE P(g) == g = [s \in SUBSET S |->
                          IF s = {} THEN 0
                          ELSE f[CHOOSE x \in s : TRUE] + g[s \ {CHOOSE x \in s : TRUE}]]
<1>1. SumOf(f, S) = (CHOOSE g : P(g))[S]
  BY DEF SumOf, MapThenSumSet, MapThenFoldSet
<1>2. \A g : IsSum(f, SUBSET S, g) <=> P(g)
  BY DEF IsSum, Chosen
<1> HIDE DEF P
<1>3. \E g : P(g)
  BY <1>2, SumExists
<1>4. P(CHOOSE g : P(g))
  BY <1>3
<1> QED BY <1>1, <1>2, <1>4 DEF IsSumBelow

\* There is only one solution, also when it is looked at on fewer sets.
LEMMA SumUnique ==
  ASSUME NEW f, NEW S, IsFiniteSet(S), NEW U \in SUBSET S,
         NEW g, IsSumBelow(f, S, g), NEW h, IsSumBelow(f, U, h)
  PROVE  \A s \in SUBSET U : g[s] = h[s]
<1> DEFINE T == {n \in Nat : \A s \in SUBSET U : Cardinality(s) = n => g[s] = h[s]}
<1>0. \A s \in SUBSET U : IsFiniteSet(s) /\ Cardinality(s) \in Nat /\ s \in SUBSET S
  BY FS_Subset, FS_CardinalityType
<1>1. 0 \in T
  <2>1. ASSUME NEW s \in SUBSET U, Cardinality(s) = 0 PROVE g[s] = h[s]
    <3>1. s = {}
      BY <1>0, <2>1, FS_EmptySet
    <3> QED BY <3>1 DEF IsSumBelow, IsSum
  <2> QED BY <2>1
<1>2. ASSUME NEW n \in Nat, n \in T PROVE n + 1 \in T
  <2>1. ASSUME NEW s \in SUBSET U, Cardinality(s) = n + 1 PROVE g[s] = h[s]
    <3>1. s # {}
      <4>1. IsFiniteSet(s) /\ Cardinality(s) # 0
        BY <1>0, <2>1
      <4> QED BY <4>1, FS_EmptySet
    <3> DEFINE c == s \ {Chosen(s)}
    <3>2. c \in SUBSET U /\ c \in SUBSET S /\ Cardinality(c) = n
      BY <1>0, <2>1, <3>1, ChosenIn
    <3>3. g[c] = h[c]
      BY <1>2, <3>2
    <3>4. g[s] = f[Chosen(s)] + g[c] /\ h[s] = f[Chosen(s)] + h[c]
      BY <1>0, <3>1 DEF IsSumBelow, IsSum
    <3> QED BY <3>3, <3>4
  <2> QED BY <2>1
<1> HIDE DEF T
<1>3. \A n \in Nat : n \in T
  BY <1>1, <1>2, NatSetInduction
<1> USE DEF T
<1> QED BY <1>0, <1>3

\* The sum over nothing is zero, and a sum is the chosen element's value and
\* the sum over the rest.
LEMMA SumStep ==
  ASSUME NEW f, NEW S, IsFiniteSet(S)
  PROVE  /\ S = {} => SumOf(f, S) = 0
         /\ S # {} => SumOf(f, S) = f[Chosen(S)] + SumOf(f, S \ {Chosen(S)})
<1>1. PICK g : IsSumBelow(f, S, g) /\ SumOf(f, S) = g[S]
  BY SumIsSum
<1>2. CASE S = {}
  BY <1>1, <1>2 DEF IsSumBelow, IsSum
<1>3. CASE S # {}
  <2> DEFINE c == S \ {Chosen(S)}
  <2>1. IsFiniteSet(c) /\ c \in SUBSET S
    BY <1>3, ChosenIn
  <2> HIDE DEF c
  <2>2. PICK h : IsSumBelow(f, c, h) /\ SumOf(f, c) = h[c]
    BY <2>1, SumIsSum
  <2>3. \A s \in SUBSET c : g[s] = h[s]
    BY <1>1, <2>1, <2>2, SumUnique
  <2>4. g[S] = f[Chosen(S)] + g[c]
    BY <1>1, <1>3 DEF IsSumBelow, IsSum, c
  <2>5. g[c] = h[c]
    BY <2>3
  <2> QED BY <1>1, <1>3, <2>2, <2>4, <2>5 DEF c
<1> QED BY <1>2, <1>3

\* A sum of integers is an integer, and every element can be taken out of it.
LEMMA SumRemove ==
  ASSUME NEW f, NEW S, IsFiniteSet(S), \A x \in S : f[x] \in Int
  PROVE  /\ SumOf(f, S) \in Int
         /\ \A x \in S : SumOf(f, S) = f[x] + SumOf(f, S \ {x})
<1> DEFINE Q(s) == /\ SumOf(f, s) \in Int
                   /\ \A x \in s : SumOf(f, s) = f[x] + SumOf(f, s \ {x})
           T == {n \in Nat : \A s \in SUBSET S : Cardinality(s) =< n => Q(s)}
<1>0. \A s \in SUBSET S : IsFiniteSet(s) /\ Cardinality(s) \in Nat
  BY FS_Subset, FS_CardinalityType
<1>1. 0 \in T
  <2>1. ASSUME NEW s \in SUBSET S, Cardinality(s) =< 0 PROVE Q(s)
    <3>1. s = {}
      BY <1>0, <2>1, FS_EmptySet
    <3>2. SumOf(f, s) = 0
      BY <1>0, <3>1, SumStep
    <3> QED BY <3>1, <3>2
  <2> HIDE DEF Q
  <2> QED BY <2>1
<1>2. ASSUME NEW n \in Nat, n \in T PROVE n + 1 \in T
  <2>1. ASSUME NEW s \in SUBSET S, Cardinality(s) =< n + 1 PROVE Q(s)
    <3>1. CASE s = {}
      <4>1. SumOf(f, s) = 0
        BY <1>0, <3>1, SumStep
      <4> QED BY <3>1, <4>1
    <3>2. CASE s # {}
      <4> DEFINE c == Chosen(s)
      <4>1. c \in s /\ Cardinality(s) \in Nat \ {0} /\ IsFiniteSet(s)
            /\ SumOf(f, s) = f[c] + SumOf(f, s \ {c})
        BY <1>0, <3>2, ChosenIn, SumStep
      <4>2. \A x \in s : s \ {x} \in SUBSET S /\ Cardinality(s \ {x}) =< n
        <5>1. ASSUME NEW x \in s PROVE Cardinality(s \ {x}) = Cardinality(s) - 1
          BY <4>1, FS_RemoveElement
        <5> QED BY <4>1, <2>1, <5>1
      <4>3. \A x \in s : Q(s \ {x})
        <5> HIDE DEF Q
        <5> QED BY <1>2, <4>2
      <4> HIDE DEF c
      <4>4. SumOf(f, s) \in Int
        BY <4>1, <4>3
      <4>5. ASSUME NEW x \in s, x # c
            PROVE  SumOf(f, s) = f[x] + SumOf(f, s \ {x})
        <5> DEFINE d == (s \ {c}) \ {x}
        <5>1. SumOf(f, s \ {c}) = f[x] + SumOf(f, d)
          BY <4>1, <4>3, <4>5
        <5>2. SumOf(f, s \ {x}) = f[c] + SumOf(f, (s \ {x}) \ {c})
          BY <4>1, <4>3, <4>5
        <5>3. d = (s \ {x}) \ {c}
          OBVIOUS
        <5>4. d = (s \ {c}) \ {x} /\ d \in SUBSET S
          OBVIOUS
        <5>5. Cardinality(d) =< n
          <6>1. Cardinality(d) =< Cardinality(s \ {c})
            BY <1>0, <4>1, <4>2, FS_Subset
          <6>2. Cardinality(d) \in Nat /\ Cardinality(s \ {c}) \in Nat
            BY <1>0, <4>1, <4>2, <5>4
          <6> HIDE DEF d
          <6> QED BY <4>1, <4>2, <6>1, <6>2
        <5>6. SumOf(f, d) \in Int
          <6>1. Q(d)
            <7> HIDE DEF Q, d
            <7> QED BY <1>2, <5>4, <5>5
          <6> QED BY <6>1
        <5>7. f[x] \in Int /\ f[c] \in Int
          BY <4>1
        <5> HIDE DEF d
        <5> QED BY <4>1, <5>1, <5>2, <5>3, <5>6, <5>7
      <4> QED BY <4>1, <4>4, <4>5
    <3> QED BY <3>1, <3>2
  <2> HIDE DEF Q
  <2> QED BY <2>1
<1> HIDE DEF T, Q
<1>3. \A n \in Nat : n \in T
  BY <1>1, <1>2, NatSetInduction
<1>4. Cardinality(S) \in T
  BY <1>0, <1>3
<1>5. Q(S)
  BY <1>0, <1>4 DEF T
<1> QED BY <1>5 DEF Q

\* A sum depends only on the values on its set.
LEMMA SumSame ==
  ASSUME NEW f, NEW g, NEW S, IsFiniteSet(S), \A x \in S : f[x] = g[x]
  PROVE  SumOf(f, S) = SumOf(g, S)
<1> DEFINE T == {n \in Nat : \A s \in SUBSET S : Cardinality(s) = n =>
                                SumOf(f, s) = SumOf(g, s)}
<1>0. \A s \in SUBSET S : IsFiniteSet(s) /\ Cardinality(s) \in Nat
  BY FS_Subset, FS_CardinalityType
<1>1. 0 \in T
  <2>1. ASSUME NEW s \in SUBSET S, Cardinality(s) = 0 PROVE SumOf(f, s) = SumOf(g, s)
    BY <1>0, <2>1, FS_EmptySet, SumStep
  <2> QED BY <2>1
<1>2. ASSUME NEW n \in Nat, n \in T PROVE n + 1 \in T
  <2>1. ASSUME NEW s \in SUBSET S, Cardinality(s) = n + 1 PROVE SumOf(f, s) = SumOf(g, s)
    <3>1. IsFiniteSet(s) /\ s # {}
      BY <1>0, <2>1, FS_EmptySet
    <3>2. Chosen(s) \in s /\ Cardinality(s \ {Chosen(s)}) = n
      BY <2>1, <3>1, ChosenIn
    <3>3. SumOf(f, s \ {Chosen(s)}) = SumOf(g, s \ {Chosen(s)})
      BY <1>2, <3>2
    <3> QED BY <3>1, <3>2, <3>3, SumStep
  <2> QED BY <2>1
<1> HIDE DEF T
<1>3. Cardinality(S) \in T
  BY <1>0, <1>1, <1>2, NatSetInduction
<1> QED BY <1>0, <1>3 DEF T

\* A new element adds its value.
LEMMA SumAdd ==
  ASSUME NEW f, NEW S, IsFiniteSet(S), NEW e, e \notin S,
         \A x \in S \cup {e} : f[x] \in Int
  PROVE  SumOf(f, S \cup {e}) = f[e] + SumOf(f, S)
<1>1. IsFiniteSet(S \cup {e})
  BY FS_AddElement
<1>2. (S \cup {e}) \ {e} = S
  OBVIOUS
<1>3. SumOf(f, S \cup {e}) = f[e] + SumOf(f, (S \cup {e}) \ {e})
  BY <1>1, SumRemove
<1> QED BY <1>2, <1>3

\* A sum of zeros is zero.
LEMMA SumZero ==
  ASSUME NEW f, NEW S, IsFiniteSet(S), \A x \in S : f[x] = 0
  PROVE  SumOf(f, S) = 0
<1> DEFINE T == {n \in Nat : \A s \in SUBSET S : Cardinality(s) = n => SumOf(f, s) = 0}
<1>0. \A s \in SUBSET S : IsFiniteSet(s) /\ Cardinality(s) \in Nat
  BY FS_Subset, FS_CardinalityType
<1>1. 0 \in T
  <2>1. ASSUME NEW s \in SUBSET S, Cardinality(s) = 0 PROVE SumOf(f, s) = 0
    BY <1>0, <2>1, FS_EmptySet, SumStep
  <2> QED BY <2>1
<1>2. ASSUME NEW n \in Nat, n \in T PROVE n + 1 \in T
  <2>1. ASSUME NEW s \in SUBSET S, Cardinality(s) = n + 1 PROVE SumOf(f, s) = 0
    <3>1. IsFiniteSet(s) /\ s # {}
      BY <1>0, <2>1, FS_EmptySet
    <3>2. Chosen(s) \in s /\ Cardinality(s \ {Chosen(s)}) = n
      BY <2>1, <3>1, ChosenIn
    <3>3. SumOf(f, s \ {Chosen(s)}) = 0
      BY <1>2, <3>2
    <3> QED BY <3>1, <3>2, <3>3, SumStep
  <2> QED BY <2>1
<1> HIDE DEF T
<1>3. Cardinality(S) \in T
  BY <1>0, <1>1, <1>2, NatSetInduction
<1> QED BY <1>0, <1>3 DEF T

\* A sum with one value that is not zero is that value.
LEMMA SumOne ==
  ASSUME NEW f, NEW S, IsFiniteSet(S), NEW e \in S, f[e] \in Int,
         \A x \in S \ {e} : f[x] = 0
  PROVE  SumOf(f, S) = f[e]
<1>1. SumOf(f, S) = f[e] + SumOf(f, S \ {e})
  BY SumRemove
<1>2. SumOf(f, S \ {e}) = 0
  BY FS_RemoveElement, SumZero
<1> QED BY <1>1, <1>2
=============================================================================
