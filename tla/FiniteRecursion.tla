-------------------------- MODULE FiniteRecursion --------------------------
(***************************************************************************)
(* The recursion behind the folds of the community modules: over a finite  *)
(* set, taking one chosen element away at a time.  The folds define it as  *)
(* a recursive function; here it is shown that such a function exists and  *)
(* that its value unfolds.  Base, Choice and Step are parameters of the    *)
(* module, to be instantiated: the provers cannot instantiate the operator *)
(* parameters of a theorem.  d is what the recursion is about: a function, *)
(* a sequence.                                                             *)
(***************************************************************************)
EXTENDS Integers, FiniteSets, FiniteSetTheorems, NaturalLemmas

CONSTANTS Base(_), Choice(_), Step(_, _, _)

\* One unfolding over the subsets of I, with g for the recursive calls.
Unfolded(d, I, g) ==
    [s \in SUBSET I |-> IF s = {} THEN Base(d) ELSE Step(d, s, g[s \ {Choice(s)}])]

Recursion(d, I) == CHOOSE g : g = Unfolded(d, I, g)

Folded(d, I) == Recursion(d, I)[I]

Chooses(I) == \A s \in SUBSET I : s # {} => Choice(s) \in s

LEMMA SmallerRest ==
    ASSUME NEW I, IsFiniteSet(I), Chooses(I), NEW s \in SUBSET I, s # {}
    PROVE  /\ s \ {Choice(s)} \in SUBSET I /\ IsFiniteSet(s)
           /\ Cardinality(s) \in Nat /\ Cardinality(s) >= 1
           /\ Cardinality(s \ {Choice(s)}) = Cardinality(s) - 1
<1>1. Choice(s) \in s
    BY DEF Chooses
<1>2. IsFiniteSet(s)
    BY FS_Subset
<1>3. Cardinality(s) \in Nat /\ Cardinality(s) # 0
    BY <1>2, FS_CardinalityType, FS_EmptySet
<1>4. Cardinality(s \ {Choice(s)}) = Cardinality(s) - 1
    BY <1>1, <1>2, FS_RemoveElement
<1>5. QED
    BY <1>2, <1>3, <1>4

LEMMA NoneLeft ==
    ASSUME NEW I, IsFiniteSet(I), NEW s \in SUBSET I, Cardinality(s) <= 0
    PROVE  s = {}
<1>1. IsFiniteSet(s) /\ Cardinality(s) \in Nat
    BY FS_Subset, FS_CardinalityType
<1>2. Cardinality(s) = 0
    BY <1>1
<1>3. QED
    BY <1>1, <1>2, FS_EmptySet

\* A function that unfolds on all subsets of at most n elements.
UnfoldsUpTo(d, I, h, n) ==
    \A s \in SUBSET I : Cardinality(s) <= n => h[s] = Unfolded(d, I, h)[s]

LEMMA UnfoldsFurther ==
    ASSUME NEW d, NEW I, IsFiniteSet(I), Chooses(I), NEW n \in Nat, NEW h, UnfoldsUpTo(d, I, h, n)
    PROVE  UnfoldsUpTo(d, I, Unfolded(d, I, h), n + 1)
<1> DEFINE g == Unfolded(d, I, h)
<1> SUFFICES ASSUME NEW s \in SUBSET I, Cardinality(s) <= n + 1
             PROVE  g[s] = Unfolded(d, I, g)[s]
    BY DEF UnfoldsUpTo
<1>1. CASE s = {}
    BY <1>1 DEF Unfolded
<1>2. CASE s # {}
    <2> DEFINE rest == s \ {Choice(s)}
    <2>1. rest \in SUBSET I /\ Cardinality(rest) <= n
        BY <1>2, SmallerRest
    <2>2. g[rest] = h[rest]
        BY <2>1 DEF UnfoldsUpTo
    <2>3. g[s] = Step(d, s, h[rest]) /\ Unfolded(d, I, g)[s] = Step(d, s, g[rest])
        BY <1>2, Zenon DEF Unfolded
    <2> QED
        BY <2>2, <2>3
<1>3. QED
    BY <1>1, <1>2

\* The recursive function over the subsets of a finite set exists.
LEMMA RecursionUnfolds ==
    ASSUME NEW d, NEW I, IsFiniteSet(I), Chooses(I)
    PROVE  Recursion(d, I) = Unfolded(d, I, Recursion(d, I))
<1> DEFINE T == {n \in Nat : \E h : UnfoldsUpTo(d, I, h, n)}
<1>1. 0 \in T
    <2> DEFINE h == [s \in SUBSET I |-> Base(d)]
    <2>1. ASSUME NEW s \in SUBSET I, Cardinality(s) <= 0 PROVE s = {}
        BY <2>1, NoneLeft
    <2>2. UnfoldsUpTo(d, I, h, 0)
        BY <2>1 DEF UnfoldsUpTo, Unfolded
    <2> QED
        BY <2>2
<1>2. ASSUME NEW n \in Nat, n \in T PROVE n + 1 \in T
    BY <1>2, UnfoldsFurther
<1> HIDE DEF T
<1>3. Cardinality(I) \in T
    BY <1>1, <1>2, AllNaturals, FS_CardinalityType
<1>4. PICK h : UnfoldsUpTo(d, I, h, Cardinality(I))
    BY <1>3 DEF T
<1> DEFINE g == Unfolded(d, I, h)
<1>5. \A s \in SUBSET I : g[s] = h[s]
    BY <1>4, FS_Subset DEF UnfoldsUpTo
<1>6. \A s \in SUBSET I : g[s] = Unfolded(d, I, g)[s]
    <2> SUFFICES ASSUME NEW s \in SUBSET I PROVE g[s] = Unfolded(d, I, g)[s]
        OBVIOUS
    <2>1. s \ {Choice(s)} \in SUBSET I
        OBVIOUS
    <2>2. g[s \ {Choice(s)}] = h[s \ {Choice(s)}]
        BY <1>5, <2>1
    <2> QED
        BY <2>2 DEF Unfolded
<1>7. g = Unfolded(d, I, g)
    BY <1>6 DEF Unfolded
<1>8. QED
    BY <1>7, Zenon DEF Recursion

\* Two such functions, over sets one of which contains the other, agree.
LEMMA UnfoldedAgree ==
    ASSUME NEW d, NEW I, IsFiniteSet(I), Chooses(I), NEW J \in SUBSET I,
           NEW g, g = Unfolded(d, I, g), NEW h, h = Unfolded(d, J, h)
    PROVE  g[J] = h[J]
<1> DEFINE T == {n \in Nat : \A s \in SUBSET J : Cardinality(s) <= n => g[s] = h[s]}
<1>1. ASSUME NEW s \in SUBSET J
      PROVE  /\ s = {} => g[s] = h[s]
             /\ s # {} => /\ g[s] = Step(d, s, g[s \ {Choice(s)}])
                          /\ h[s] = Step(d, s, h[s \ {Choice(s)}])
    <2>1. s \in SUBSET I
        OBVIOUS
    <2> QED
        BY <2>1, Zenon DEF Unfolded
<1>2. 0 \in T
    <2>1. ASSUME NEW s \in SUBSET J, Cardinality(s) <= 0 PROVE g[s] = h[s]
        BY <1>1, <2>1, NoneLeft
    <2> QED
        BY <2>1
<1>3. ASSUME NEW n \in Nat, n \in T PROVE n + 1 \in T
    <2> SUFFICES ASSUME NEW s \in SUBSET J, Cardinality(s) <= n + 1
                 PROVE  g[s] = h[s]
        OBVIOUS
    <2>1. CASE s = {}
        BY <1>1, <2>1
    <2>2. CASE s # {}
        <3> DEFINE rest == s \ {Choice(s)}
        <3>1. rest \in SUBSET J /\ Cardinality(rest) <= n
            BY <2>2, SmallerRest
        <3>2. g[rest] = h[rest]
            BY <1>3, <3>1
        <3> QED
            BY <1>1, <2>2, <3>2
    <2> QED
        BY <2>1, <2>2
<1> HIDE DEF T
<1>4. Cardinality(J) \in T
    BY <1>2, <1>3, AllNaturals, FS_CardinalityType, FS_Subset
<1>5. QED
    <2>1. Cardinality(J) \in Nat
        BY <1>4 DEF T
    <2> QED
        BY <1>4, <2>1 DEF T

\* What a fold over a finite set is.
LEMMA FoldedUnfolds ==
    ASSUME NEW d, NEW I, IsFiniteSet(I), Chooses(I)
    PROVE  Folded(d, I) = IF I = {} THEN Base(d)
                          ELSE Step(d, I, Folded(d, I \ {Choice(I)}))
<1> DEFINE g == Recursion(d, I)
           J == I \ {Choice(I)}
<1>1. g = Unfolded(d, I, g)
    BY RecursionUnfolds
<1>2. IsFiniteSet(J) /\ Chooses(J) /\ J \in SUBSET I
    BY FS_Subset DEF Chooses
<1>3. Recursion(d, J) = Unfolded(d, J, Recursion(d, J))
    BY <1>2, RecursionUnfolds
<1>4. g[J] = Recursion(d, J)[J]
    BY <1>1, <1>2, <1>3, UnfoldedAgree
<1>5. g[I] = IF I = {} THEN Base(d) ELSE Step(d, I, g[J])
    BY <1>1, Zenon DEF Unfolded
<1>6. QED
    BY <1>4, <1>5 DEF Folded
=============================================================================
