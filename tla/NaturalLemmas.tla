--------------------------- MODULE NaturalLemmas ---------------------------
(***************************************************************************)
(* Sets of natural numbers: least elements, induction in the first-order   *)
(* form the provers can use (about a set of numbers, not a predicate), the *)
(* places that the elements of a finite set come to, and multiples.        *)
(***************************************************************************)
EXTENDS Filtering, WellFoundedInduction, NaturalsInduction, FiniteSetTheorems, TLAPS

\* A set of naturals that has an element has a least one.
LEMMA LeastNatural ==
    ASSUME NEW T \in SUBSET Nat, T # {}
    PROVE  \E x \in T : \A y \in T : x <= y
<1> DEFINE Less == {p \in Nat \X Nat : p[1] < p[2]}
<1>1. IsWellFoundedOn(Less, Nat)
    BY NatLessThanWellFounded DEF OpToRel
<1>2. \A a, b \in Nat : <<a, b>> \in Less <=> a < b
    OBVIOUS
<1> HIDE DEF Less
<1>3. PICK x \in T : \A y \in T : ~(<<y, x>> \in Less)
    BY <1>1, WFMin
<1>4. ASSUME NEW y \in T PROVE x <= y
  <2>1. x \in Nat /\ y \in Nat /\ ~(y < x)
      BY <1>2, <1>3
  <2> QED
      BY <2>1
<1> QED
    BY <1>4

\* Induction: a set of naturals with 0 and, with each number, the next one.
LEMMA AllNaturals ==
    ASSUME NEW T, 0 \in T, \A n \in Nat : n \in T => n + 1 \in T
    PROVE  \A n \in Nat : n \in T
<1> SUFFICES ASSUME Nat \ T # {}
             PROVE  FALSE
    OBVIOUS
<1>1. PICK x \in Nat \ T : \A y \in Nat \ T : x <= y
    BY LeastNatural
<1>2. x \in Nat /\ x # 0 /\ x - 1 \in Nat /\ ~(x <= x - 1)
    OBVIOUS
<1>3. x - 1 \in T
    BY <1>1, <1>2
<1> QED
    BY <1>2, <1>3

----------------------------------------------------------------------------
\* The elements of a finite set in their order.

LEMMA PlaceType ==
    ASSUME NEW kept \in SUBSET Nat, IsFiniteSet(kept), NEW i \in kept
    PROVE  Place(kept, i) \in 1..Cardinality(kept)
<1> DEFINE before == {j \in kept : j <= i}
<1>1. before \in SUBSET kept /\ i \in before
    OBVIOUS
<1>2. IsFiniteSet(before) /\ Cardinality(before) <= Cardinality(kept)
    BY <1>1, FS_Subset
<1>3. Cardinality(before) \in Nat /\ Cardinality(before) # 0 /\ Cardinality(kept) \in Nat
    BY <1>1, <1>2, FS_CardinalityType, FS_EmptySet
<1>4. QED
    BY <1>2, <1>3 DEF Place

LEMMA PlaceIncreases ==
    ASSUME NEW kept \in SUBSET Nat, IsFiniteSet(kept), NEW i \in kept, NEW k \in kept, i < k
    PROVE  Place(kept, i) < Place(kept, k)
<1> DEFINE lower == {j \in kept : j <= i}
           upper == {j \in kept : j <= k}
<1>1. lower \in SUBSET upper /\ upper \in SUBSET kept /\ k \in upper \ lower
    <2>1. i \in Nat /\ k \in Nat /\ \A j \in kept : j \in Nat
        OBVIOUS
    <2>2. ASSUME NEW j \in lower PROVE j \in upper
        BY <2>1
    <2>3. k \in upper /\ ~(k <= i)
        BY <2>1
    <2> QED
        BY <2>2, <2>3
<1>2. IsFiniteSet(upper) /\ IsFiniteSet(lower)
    BY <1>1, FS_Subset
<1> HIDE DEF lower, upper
<1>3. Cardinality(lower) <= Cardinality(upper) /\ Cardinality(lower) # Cardinality(upper)
    BY <1>1, <1>2, FS_Subset
<1>4. Cardinality(lower) \in Nat /\ Cardinality(upper) \in Nat
    BY <1>2, FS_CardinalityType
<1>5. QED
    BY <1>3, <1>4 DEF Place, lower, upper

\* Each place is that of one element.
LEMMA PlacesTaken ==
    ASSUME NEW kept \in SUBSET Nat, IsFiniteSet(kept)
    PROVE  /\ \A i, k \in kept : Place(kept, i) = Place(kept, k) => i = k
           /\ \A n \in 1..Cardinality(kept) : \E i \in kept : Place(kept, i) = n
<1> DEFINE f == [i \in kept |-> Place(kept, i)]
           places == 1..Cardinality(kept)
<1>1. ASSUME NEW i \in kept, NEW k \in kept, Place(kept, i) = Place(kept, k) PROVE i = k
    <2>1. Place(kept, i) \in Int
        BY PlaceType
    <2>2. ~(i < k) /\ ~(k < i)
        BY <1>1, <2>1, PlaceIncreases
    <2> QED
        BY <2>2
<1>2. Cardinality(kept) \in Nat
    BY FS_CardinalityType
<1>3. f \in [kept -> places]
    BY PlaceType
<1>4. f \in Injection(kept, places)
    BY <1>1, <1>3 DEF Injection, IsInjective
<1>5. IsFiniteSet(places) /\ Cardinality(places) = Cardinality(kept)
    BY <1>2, FS_Interval
<1>6. f \in Surjection(kept, places)
    BY <1>4, <1>5, FS_Injection
<1>7. QED
    BY <1>1, <1>6 DEF Surjection

\* What a filter keeps, and where.
LEMMA KeptPlaces ==
    ASSUME NEW seq, NEW kept \in SUBSET Nat, IsFiniteSet(kept)
    PROVE  /\ Cardinality(kept) \in Nat
           /\ DOMAIN KeptAt(seq, kept) = 1..Cardinality(kept)
           /\ Len(KeptAt(seq, kept)) = Cardinality(kept)
           /\ \A i \in kept : /\ Place(kept, i) \in 1..Cardinality(kept)
                              /\ KeptAt(seq, kept)[Place(kept, i)] = seq[i]
           /\ \A n \in 1..Cardinality(kept) : \E i \in kept :
                  Place(kept, i) = n /\ KeptAt(seq, kept)[n] = seq[i]
<1> DEFINE at(n) == CHOOSE i \in kept : Place(kept, i) = n
<1>1. Cardinality(kept) \in Nat
    BY FS_CardinalityType
<1>2. \A i \in kept : Place(kept, i) \in 1..Cardinality(kept)
    BY PlaceType
<1>3. ASSUME NEW n \in 1..Cardinality(kept) PROVE at(n) \in kept /\ Place(kept, at(n)) = n
    BY PlacesTaken
<1>4. ASSUME NEW i \in kept PROVE at(Place(kept, i)) = i
    BY <1>2, <1>3, PlacesTaken
<1>5. KeptAt(seq, kept) = [n \in 1..Cardinality(kept) |-> seq[at(n)]]
    BY DEF KeptAt
<1> HIDE DEF at
<1>6. Len(KeptAt(seq, kept)) = Cardinality(kept)
    BY <1>1, <1>5
<1>7. QED
    BY <1>1, <1>2, <1>3, <1>4, <1>5, <1>6

----------------------------------------------------------------------------
\* Multiples and remainders.

LEMMA TimesMonotone ==
    ASSUME NEW a \in Nat, NEW b \in Nat, NEW s \in Nat, a <= b
    PROVE  a * s \in Nat /\ b * s \in Nat /\ a * s <= b * s
OBVIOUS

LEMMA TimesNext ==
    ASSUME NEW a \in Nat, NEW s \in Nat
    PROVE  (a + 1) * s = a * s + s /\ 0 * s = 0
OBVIOUS

LEMMA Quotient ==
    ASSUME NEW x \in Nat, NEW s \in Nat \ {0}
    PROVE  /\ x \div s \in Nat /\ (x \div s) * s <= x /\ x < (x \div s) * s + s
OBVIOUS

LEMMA Remainder ==
    ASSUME NEW a \in Nat, NEW s \in Nat \ {0}, NEW t \in Nat, t < s
    PROVE  (a * s + t) % s = t
OBVIOUS

\* The greatest of the first naturals.
Greatest(s) == CHOOSE i \in s : \A j \in s : i >= j

LEMMA GreatestNatural ==
    ASSUME NEW n \in Nat, NEW S \in SUBSET (1..n), S # {}
    PROVE  Greatest(S) \in S /\ \A j \in S : Greatest(S) >= j
<1> DEFINE T == {k \in Nat : \A j \in S : j <= k}
<1>1. n \in T
    OBVIOUS
<1>2. PICK k \in T : \A l \in T : k <= l
    BY <1>1, LeastNatural
<1>3. k \in S
    <2> SUFFICES ASSUME k \notin S PROVE FALSE
        OBVIOUS
    <2>0. \A j \in S : j \in 1..n
        OBVIOUS
    <2>1. \A j \in S : j <= k /\ j # k /\ j \in Nat /\ j >= 1
        BY <1>2, <2>0
    <2>2. k \in Nat /\ k >= 1
        <3>1. PICK j \in S : TRUE
            OBVIOUS
        <3> QED
            BY <2>1, <3>1
    <2>3. k - 1 \in T
        BY <2>1, <2>2
    <2> QED
        BY <1>2, <2>2, <2>3
<1>4. \E i \in S : \A j \in S : i >= j
    BY <1>3
<1> HIDE DEF T
<1>5. QED
    BY <1>4 DEF Greatest

LEMMA LastOfInterval ==
    ASSUME NEW n \in Nat
    PROVE  /\ Greatest(1..(n + 1)) = n + 1
           /\ (1..(n + 1)) \ {n + 1} = 1..n /\ 1..(n + 1) # {}
<1>1. n + 1 \in Nat /\ n + 1 \in 1..(n + 1) /\ 1..(n + 1) # {}
    OBVIOUS
<1>2. Greatest(1..(n + 1)) \in 1..(n + 1) /\ \A j \in 1..(n + 1) : Greatest(1..(n + 1)) >= j
    BY <1>1, GreatestNatural
<1>3. QED
    BY <1>1, <1>2
=============================================================================
