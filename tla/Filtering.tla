----------------------------- MODULE Filtering -----------------------------
(***************************************************************************)
(* What is left of a sequence when some of its elements are dropped, by    *)
(* the place each kept element comes to.  It is SelectSeq of the standard  *)
(* module, which is recursive and about which the provers know nothing.    *)
(***************************************************************************)
EXTENDS Integers, Sequences, FiniteSets

\* How many of the kept positions are not after i: where the one at i comes to.
Place(kept, i) == Cardinality({j \in kept : j <= i})

KeptAt(seq, kept) ==
    [k \in 1..Cardinality(kept) |-> seq[CHOOSE i \in kept : Place(kept, i) = k]]

Filter(seq, Keep(_)) == KeptAt(seq, {i \in DOMAIN seq : Keep(seq[i])})
=============================================================================
