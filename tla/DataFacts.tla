------------------------------ MODULE DataFacts ------------------------------
(***************************************************************************)
(* Facts about data that the proofs share: the elements of a sequence      *)
(* after Append and Tail, induction over numbers and finite sets, and what *)
(* induction shows of sums.                                                *)
(***************************************************************************)
EXTENDS Integers, Sequences, FiniteSetsExt, FiniteSetTheorems, TLAPS

\* Appending to a sequence adds one element to its elements.
LEMMA AppendElements ==
    ASSUME NEW S, NEW s \in Seq(S), NEW e \in S
    PROVE  Range(Append(s, e)) = Range(s) \cup {e}
<1> DEFINE a == Append(s, e)
<1>1. a \in Seq(S) /\ Len(a) = Len(s) + 1 /\ a[Len(s) + 1] = e
  OBVIOUS
<1>2. \A k \in 1 .. Len(s) : a[k] = s[k]
  OBVIOUS
<1>3. DOMAIN a = 1 .. Len(s) + 1 /\ DOMAIN s = 1 .. Len(s)
  BY <1>1
<1> HIDE DEF a
<1>4. Range(a) \subseteq Range(s) \cup {e}
  BY <1>1, <1>2, <1>3 DEF Range
<1>5. Range(s) \subseteq Range(a)
  BY <1>2, <1>3 DEF Range
<1>6. e \in Range(a)
  BY <1>1, <1>3 DEF Range
<1> QED
  BY <1>4, <1>5, <1>6 DEF a

\* A non-empty sequence has the elements of its tail and its head.
LEMMA TailElements ==
    ASSUME NEW S, NEW s \in Seq(S), s # << >>
    PROVE  Range(s) = Range(Tail(s)) \cup {Head(s)}
<1> DEFINE t == Tail(s)
<1>1. Len(s) \in Nat \ {0} /\ DOMAIN s = 1 .. Len(s) /\ Head(s) = s[1]
  OBVIOUS
<1>2. DOMAIN t = 1 .. Len(s) - 1 /\ \A k \in 1 .. Len(s) - 1 : t[k] = s[k + 1]
  OBVIOUS
<1> HIDE DEF t
<1>3. Range(t) \subseteq Range(s)
  BY <1>1, <1>2 DEF Range
<1>4. ASSUME NEW k \in DOMAIN s PROVE s[k] \in Range(t) \cup {Head(s)}
  <2>1. CASE k = 1
    BY <2>1, <1>1
  <2>2. CASE k # 1
    <3>1. k - 1 \in DOMAIN t /\ t[k - 1] = s[k]
      BY <2>2, <1>1, <1>2
    <3> QED
      BY <3>1 DEF Range
  <2> QED
    BY <2>1, <2>2
<1>5. Head(s) \in Range(s)
  BY <1>1 DEF Range
<1> QED
  BY <1>3, <1>4, <1>5 DEF Range, t

-----------------------------------------------------------------------------
(***************************************************************************)
(* Sets of positions.                                                      *)
(***************************************************************************)
LEMMA PartOfInterval ==
    ASSUME NEW n \in Nat, NEW S \in SUBSET (1 .. n)
    PROVE  IsFiniteSet(S) /\ Cardinality(S) \in Nat
<1>1. IsFiniteSet(1 .. n)
  BY FS_Interval
<1>2. IsFiniteSet(S)
  BY <1>1, FS_Subset
<1> QED
  BY <1>2, FS_CardinalityType

LEMMA FewerElements ==
    ASSUME NEW n \in Nat, NEW S \in SUBSET (1 .. n), NEW R \in SUBSET S
    PROVE  Cardinality(R) <= Cardinality(S) /\ Cardinality(R) \in Nat /\ Cardinality(S) \in Nat
BY PartOfInterval, FS_Subset

LEMMA TwoParts ==
    ASSUME NEW n \in Nat, NEW P \in SUBSET (1 .. n), NEW Q \in SUBSET (1 .. n),
           NEW R \in SUBSET (P \cup Q)
    PROVE  Cardinality(R) <= Cardinality(P) + Cardinality(Q)
<1>1. IsFiniteSet(P) /\ IsFiniteSet(Q) /\ Cardinality(P) \in Nat /\ Cardinality(Q) \in Nat
  BY PartOfInterval
<1>2. /\ IsFiniteSet(P \cup Q)
      /\ Cardinality(P \cup Q) = Cardinality(P) + Cardinality(Q) - Cardinality(P \cap Q)
  BY <1>1, FS_Union
<1>3. Cardinality(P \cap Q) \in Nat
  BY <1>1, FS_Intersection, FS_CardinalityType
<1>4. Cardinality(R) <= Cardinality(P \cup Q) /\ Cardinality(R) \in Nat
  BY <1>2, FS_Subset, FS_CardinalityType
<1> QED
  BY <1>1, <1>2, <1>3, <1>4

LEMMA NextElement ==
    ASSUME NEW n \in Nat, NEW S \in SUBSET (1 .. n)
    PROVE  Cardinality(S \cup {n + 1}) = Cardinality(S) + 1 /\ Cardinality(S) \in Nat
<1>1. IsFiniteSet(S) /\ Cardinality(S) \in Nat
  BY PartOfInterval
<1>2. n + 1 \notin S
  OBVIOUS
<1> QED
  BY <1>1, <1>2, FS_AddElement

-----------------------------------------------------------------------------
(***************************************************************************)
(* Induction, stated for a set of values instead of a predicate: it is the *)
(* set of values that have the property.                                   *)
(***************************************************************************)
\* What holds of 0 and, with a number, of the next one holds of all numbers.
LEMMA NatInductive ==
    ASSUME NEW Q \in SUBSET Nat, 0 \in Q, \A n \in Q : n + 1 \in Q
    PROVE  Q = Nat
<1> SUFFICES ASSUME Nat \ Q # {} PROVE FALSE
  OBVIOUS
<1> DEFINE R == OpToRel(<, Nat)
<1>1. IsWellFoundedOn(R, Nat)
  BY NatLessThanWellFounded
<1>2. PICK m \in Nat \ Q : \A k \in Nat \ Q : ~ (<< k, m >> \in R)
  <2> DEFINE T == Nat \ Q
  <2>1. T \subseteq Nat /\ T # {}
    OBVIOUS
  <2> HIDE DEF R, T
  <2>2. \E x \in T : \A y \in T : ~ (<< y, x >> \in R)
    BY <1>1, <2>1, WFMin
  <2> QED
    BY <2>2 DEF T
<1>3. m # 0 /\ m - 1 \in Nat
  OBVIOUS
<1>4. << m - 1, m >> \in R
  BY <1>3 DEF OpToRel
<1>5. m - 1 \in Q
  BY <1>2, <1>3, <1>4
<1> QED
  BY <1>3, <1>5

\* A set of numbers that has an element has a least one.
LEMMA LeastElement ==
    ASSUME NEW S \in SUBSET Nat, S # {}
    PROVE  Min(S) \in S /\ \A y \in S : Min(S) <= y
<1> DEFINE R == OpToRel(<, Nat)
<1>1. IsWellFoundedOn(R, Nat)
  BY NatLessThanWellFounded
<1>2. PICK m \in S : \A k \in S : ~ (<< k, m >> \in R)
  <2> HIDE DEF R
  <2> QED
    BY <1>1, WFMin
<1>3. \A k \in S : m <= k
  <2> SUFFICES ASSUME NEW k \in S, ~ m <= k PROVE FALSE
    OBVIOUS
  <2>1. << k, m >> \in R
    BY DEF OpToRel
  <2> QED
    BY <1>2, <2>1
<1>4. \E x \in S : \A y \in S : x <= y
  BY <1>3
<1> QED
  BY <1>4 DEF Min

\* What holds of the empty set and of a set when it holds of the set less any
\* one element holds of every finite set.
LEMMA FiniteInductive ==
    ASSUME NEW S, IsFiniteSet(S), NEW Q, {} \in Q,
           \A T \in SUBSET S : T # {} /\ (\A x \in T : T \ {x} \in Q) => T \in Q
    PROVE  S \in Q
<1> SUFFICES ASSUME S \notin Q PROVE FALSE
  OBVIOUS
<1> DEFINE R == StrictSubsetOrdering(S)
           B == (SUBSET S) \ Q
<1>1. IsWellFoundedOn(R, SUBSET S)
  <2>1. IsWellFoundedOn(R, FiniteSubsetsOf(S))
    BY FS_StrictSubsetOrderingWellFounded
  <2>2. FiniteSubsetsOf(S) = SUBSET S
    BY FS_FiniteSubsetsOfFinite
  <2> QED
    BY <2>1, <2>2
<1>2. B \subseteq SUBSET S /\ B # {}
  OBVIOUS
<1>3. \E T \in B : \A U \in B : ~ (<< U, T >> \in R)
  <2> HIDE DEF R, B
  <2> QED
    BY <1>1, <1>2, WFMin
<1>4. PICK T \in B : \A U \in B : ~ (<< U, T >> \in R)
  BY <1>3
<1>5. ASSUME NEW x \in T PROVE T \ {x} \in Q
  <2>1. << T \ {x}, T >> \in R
    BY DEF StrictSubsetOrdering
  <2> QED
    BY <1>4, <2>1
<1> QED
  BY <1>4, <1>5

-----------------------------------------------------------------------------
(***************************************************************************)
(* SumFunctionOnSet(F, S) is defined as the value at S of a function that  *)
(* equals its own unfolding on the subsets of S.                           *)
(***************************************************************************)
First(s) == CHOOSE x \in s : TRUE

Unfold(F, g, s) == IF s = {} THEN 0 ELSE F[First(s)] + g[s \ {First(s)}]

Sums(F, g, S) == g = [s \in SUBSET S |-> Unfold(F, g, s)]

\* The definition, with names for its parts.
LEMMA SumChosen ==
    ASSUME NEW F, NEW S
    PROVE  SumFunctionOnSet(F, S) = (CHOOSE g : Sums(F, g, S))[S]
BY DEF SumFunctionOnSet, FoldFunctionOnSet, MapThenFoldSet, Sums, Unfold, First

\* The element taken first is one of the set.
LEMMA FirstIn ==
    ASSUME NEW s, s # {}
    PROVE  First(s) \in s
BY DEF First

\* There is such a function: one for the subsets of at most n elements, for any n.
LEMMA SumsExist ==
    ASSUME NEW F, NEW S, IsFiniteSet(S)
    PROVE  \E g : Sums(F, g, S)
<1> DEFINE Small(n) == {s \in SUBSET S : Cardinality(s) <= n}
           Q == {n \in Nat : \E g : g = [s \in Small(n) |-> Unfold(F, g, s)]}
<1>1. \A s \in SUBSET S : IsFiniteSet(s) /\ Cardinality(s) \in Nat
  BY FS_Subset, FS_CardinalityType
<1>2. 0 \in Q
  <2> DEFINE g == [s \in Small(0) |-> 0]
  <2>1. \A s \in Small(0) : s = {}
    BY <1>1, FS_EmptySet
  <2>2. g = [s \in Small(0) |-> Unfold(F, g, s)]
    BY <2>1 DEF Unfold
  <2> QED
    BY <2>2
<1>3. ASSUME NEW n \in Q
      PROVE  n + 1 \in Q
  <2>1. PICK g : g = [s \in Small(n) |-> Unfold(F, g, s)]
    OBVIOUS
  <2> DEFINE h == [s \in Small(n + 1) |-> Unfold(F, g, s)]
  <2>2. ASSUME NEW s \in Small(n + 1), s # {}
        PROVE  s \ {First(s)} \in Small(n) /\ s \ {First(s)} \in Small(n + 1)
    <3>1. First(s) \in s
      BY <2>2, FirstIn
    <3>2. Cardinality(s \ {First(s)}) = Cardinality(s) - 1
      BY <1>1, <3>1, FS_RemoveElement
    <3> QED
      BY <1>1, <3>2
  <2>3. ASSUME NEW s \in Small(n + 1)
        PROVE  Unfold(F, h, s) = Unfold(F, g, s)
    <3>1. CASE s = {}
      BY <3>1 DEF Unfold
    <3>2. CASE s # {}
      <4> DEFINE r == s \ {First(s)}
      <4>1. r \in Small(n) /\ r \in Small(n + 1)
        BY <2>2, <3>2
      <4> HIDE DEF r
      <4>2. h[r] = g[r]
        BY <2>1, <4>1
      <4> HIDE DEF h, Small
      <4> QED
        BY <3>2, <4>2 DEF Unfold, r
    <3> QED
      BY <3>1, <3>2
  <2>4. h = [s \in Small(n + 1) |-> Unfold(F, h, s)]
    BY <2>3
  <2> HIDE DEF h, Small
  <2>5. \E k : k = [s \in Small(n + 1) |-> Unfold(F, k, s)]
    BY <2>4
  <2>6. n + 1 \in Nat
    OBVIOUS
  <2> QED
    BY <2>5, <2>6
<1>4. Q = Nat
  <2> HIDE DEF Q
  <2>1. Q \subseteq Nat
    BY DEF Q
  <2> QED
    BY <1>2, <1>3, <2>1, NatInductive
<1>5. Cardinality(S) \in Q
  BY <1>1, <1>4
<1>6. PICK g : g = [s \in Small(Cardinality(S)) |-> Unfold(F, g, s)]
  BY <1>5
<1>7. Small(Cardinality(S)) = SUBSET S
  BY <1>1, FS_Subset
<1> QED
  BY <1>6, <1>7 DEF Sums

\* It has no choice.
LEMMA SumsUnique ==
    ASSUME NEW F, NEW S, NEW T \in SUBSET S, IsFiniteSet(S),
           NEW g, Sums(F, g, S), NEW h, Sums(F, h, T)
    PROVE  g[T] = h[T]
<1> DEFINE Q == {s \in SUBSET T : g[s] = h[s]}
<1>1. \A s \in SUBSET T : g[s] = Unfold(F, g, s) /\ h[s] = Unfold(F, h, s)
  BY DEF Sums
<1>2. {} \in Q
  BY <1>1 DEF Unfold
<1>3. ASSUME NEW s \in SUBSET T, s # {}, \A x \in s : s \ {x} \in Q
      PROVE  s \in Q
  <2>1. First(s) \in s
    BY <1>3, FirstIn
  <2>2. g[s \ {First(s)}] = h[s \ {First(s)}]
    BY <1>3, <2>1
  <2> QED
    BY <1>1, <1>3, <2>2 DEF Unfold
<1>4. IsFiniteSet(T)
  BY FS_Subset
<1> HIDE DEF Q
<1>5. T \in Q
  BY <1>2, <1>3, <1>4, FiniteInductive
<1> QED
  BY <1>5 DEF Q

\* The sum over S, one element taken out.
LEMMA SumFirst ==
    ASSUME NEW F, NEW S, IsFiniteSet(S)
    PROVE  SumFunctionOnSet(F, S) =
             IF S = {} THEN 0
             ELSE F[First(S)] + SumFunctionOnSet(F, S \ {First(S)})
<1> DEFINE T == S \ {First(S)}
<1>1. IsFiniteSet(T) /\ T \in SUBSET S
  BY FS_Subset
<1>2. Sums(F, CHOOSE g : Sums(F, g, S), S)
  BY SumsExist
<1>3. Sums(F, CHOOSE g : Sums(F, g, T), T)
  BY <1>1, SumsExist
<1>4. (CHOOSE g : Sums(F, g, S))[T] = SumFunctionOnSet(F, T)
  BY <1>1, <1>2, <1>3, SumsUnique, SumChosen
<1>5. (CHOOSE g : Sums(F, g, S))[S] = Unfold(F, CHOOSE g : Sums(F, g, S), S)
  BY <1>2 DEF Sums
<1> QED
  BY <1>4, <1>5, SumChosen DEF Unfold

-----------------------------------------------------------------------------
(***************************************************************************)
(* Sums of natural numbers.                                                *)
(***************************************************************************)
\* Nothing adds up to 0.
LEMMA SumEmpty ==
    ASSUME NEW F
    PROVE  SumFunctionOnSet(F, {}) = 0
BY SumFirst, FS_EmptySet

\* A sum of natural numbers is one.
LEMMA SumType ==
    ASSUME NEW F, NEW S, IsFiniteSet(S), \A x \in S : F[x] \in Nat
    PROVE  SumFunctionOnSet(F, S) \in Nat
<1> DEFINE Q == {T \in SUBSET S : SumFunctionOnSet(F, T) \in Nat}
<1>1. {} \in Q
  BY SumEmpty
<1>2. ASSUME NEW T \in SUBSET S, T # {}, \A x \in T : T \ {x} \in Q
      PROVE  T \in Q
  <2>1. First(T) \in T /\ IsFiniteSet(T)
    BY <1>2, FirstIn, FS_Subset
  <2>2. SumFunctionOnSet(F, T) = F[First(T)] + SumFunctionOnSet(F, T \ {First(T)})
    BY <1>2, <2>1, SumFirst
  <2> QED
    BY <1>2, <2>1, <2>2
<1> HIDE DEF Q
<1>3. S \in Q
  BY <1>1, <1>2, FiniteInductive
<1> QED
  BY <1>3 DEF Q

\* Any element may be taken out.
LEMMA SumRemove ==
    ASSUME NEW F, NEW S, IsFiniteSet(S), \A x \in S : F[x] \in Nat, NEW y \in S
    PROVE  SumFunctionOnSet(F, S) = F[y] + SumFunctionOnSet(F, S \ {y})
<1> DEFINE Sum(T) == SumFunctionOnSet(F, T)
           Q == {T \in SUBSET S : \A x \in T : Sum(T) = F[x] + Sum(T \ {x})}
<1>1. {} \in Q
  OBVIOUS
<1>2. ASSUME NEW T \in SUBSET S, T # {}, \A x \in T : T \ {x} \in Q
      PROVE  T \in Q
  <2> DEFINE c == First(T)
  <2>1. c \in T /\ IsFiniteSet(T)
    BY <1>2, FirstIn, FS_Subset
  <2>2. Sum(T) = F[c] + Sum(T \ {c})
    BY <1>2, <2>1, SumFirst
  <2> HIDE DEF c
  <2>3. ASSUME NEW x \in T, x # c
        PROVE  Sum(T) = F[x] + Sum(T \ {x})
    <3>1. Sum(T \ {c}) = F[x] + Sum((T \ {c}) \ {x})
      BY <1>2, <2>1, <2>3
    <3>2. Sum(T \ {x}) = F[c] + Sum((T \ {x}) \ {c})
      BY <1>2, <2>1, <2>3
    <3>3. (T \ {x}) \ {c} = (T \ {c}) \ {x}
      OBVIOUS
    <3>4. IsFiniteSet((T \ {c}) \ {x})
      BY <2>1, FS_Subset
    <3>5. Sum((T \ {c}) \ {x}) \in Nat /\ F[x] \in Nat /\ F[c] \in Nat
      BY <2>1, <3>4, SumType
    <3> HIDE DEF Sum
    <3> QED
      BY <2>2, <3>1, <3>2, <3>3, <3>5
  <2> QED
    BY <2>2, <2>3
<1> HIDE DEF Q
<1>3. S \in Q
  BY <1>1, <1>2, FiniteInductive
<1> QED
  BY <1>3 DEF Q

\* Any element may be added.
LEMMA SumAdd ==
    ASSUME NEW F, NEW S, IsFiniteSet(S), \A x \in S : F[x] \in Nat,
           NEW y, y \notin S, F[y] \in Nat
    PROVE  SumFunctionOnSet(F, S \cup {y}) = SumFunctionOnSet(F, S) + F[y]
<1> DEFINE T == S \cup {y}
<1>1. IsFiniteSet(T) /\ y \in T /\ \A x \in T : F[x] \in Nat
  BY FS_AddElement
<1>2. T \ {y} = S
  OBVIOUS
<1>3. SumFunctionOnSet(F, S) \in Nat
  BY SumType
<1> HIDE DEF T
<1>4. SumFunctionOnSet(F, T) = F[y] + SumFunctionOnSet(F, T \ {y})
  BY <1>1, SumRemove
<1>5. SumFunctionOnSet(F, T) = F[y] + SumFunctionOnSet(F, S)
  BY <1>2, <1>4
<1>6. SumFunctionOnSet(F, T) = SumFunctionOnSet(F, S) + F[y]
  BY <1>3, <1>5
<1> QED
  BY <1>6 DEF T

\* A sum over more elements is no smaller.
LEMMA SumMonotone ==
    ASSUME NEW F, NEW S, IsFiniteSet(S), \A x \in S : F[x] \in Nat, NEW R \in SUBSET S
    PROVE  SumFunctionOnSet(F, R) <= SumFunctionOnSet(F, S)
<1> DEFINE Sum(T) == SumFunctionOnSet(F, T)
           Q == {T \in SUBSET S : R \subseteq T => Sum(R) <= Sum(T)}
<1>1. \A T \in SUBSET S : Sum(T) \in Nat
  BY SumType, FS_Subset
<1>2. {} \in Q
  <2>1. R \subseteq {} => R = {}
    OBVIOUS
  <2> QED
    BY <1>1, <2>1
<1>3. ASSUME NEW T \in SUBSET S, T # {}, \A x \in T : T \ {x} \in Q
      PROVE  T \in Q
  <2>1. CASE R = T
    BY <1>1, <2>1
  <2>2. CASE R \subseteq T /\ R # T
    <3>1. PICK x \in T : x \notin R
      BY <2>2
    <3>2. Sum(R) <= Sum(T \ {x})
      BY <1>3, <2>2, <3>1
    <3>3. Sum(T) = F[x] + Sum(T \ {x})
      BY FS_Subset, SumRemove
    <3>4. Sum(R) \in Nat /\ Sum(T) \in Nat /\ Sum(T \ {x}) \in Nat /\ F[x] \in Nat
      BY <1>1
    <3>5. Sum(R) <= Sum(T)
      BY <3>2, <3>3, <3>4
    <3> QED
      BY <3>5
  <2>3. CASE ~ (R \subseteq T)
    BY <2>3
  <2> QED
    BY <2>1, <2>2, <2>3
<1> HIDE DEF Q
<1>4. S \in Q
  BY <1>2, <1>3, FiniteInductive
<1> QED
  BY <1>4 DEF Q

\* A sum depends on the summands only.
LEMMA SumCongruent ==
    ASSUME NEW F, NEW G, NEW S, IsFiniteSet(S), \A x \in S : F[x] = G[x]
    PROVE  SumFunctionOnSet(F, S) = SumFunctionOnSet(G, S)
<1> DEFINE Q == {T \in SUBSET S : SumFunctionOnSet(F, T) = SumFunctionOnSet(G, T)}
<1>1. {} \in Q
  BY SumEmpty
<1>2. ASSUME NEW T \in SUBSET S, T # {}, \A x \in T : T \ {x} \in Q
      PROVE  T \in Q
  <2>1. First(T) \in T /\ IsFiniteSet(T)
    BY <1>2, FirstIn, FS_Subset
  <2>2. SumFunctionOnSet(F, T) = F[First(T)] + SumFunctionOnSet(F, T \ {First(T)})
    BY <1>2, <2>1, SumFirst
  <2>3. SumFunctionOnSet(G, T) = G[First(T)] + SumFunctionOnSet(G, T \ {First(T)})
    BY <1>2, <2>1, SumFirst
  <2> QED
    BY <1>2, <2>1, <2>2, <2>3
<1> HIDE DEF Q
<1>3. S \in Q
  BY <1>1, <1>2, FiniteInductive
<1> QED
  BY <1>3 DEF Q
=============================================================================
