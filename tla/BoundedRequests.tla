-------------------------- MODULE BoundedRequests --------------------------
(* Requests to the CRM that carry at most a number of records: a query with  *)
(* a fetch count, and the batches that mark records.                         *)
EXTENDS Integers, FiniteSets

\* Mutant of FillsUpTo: an answer may be empty although there is something.
FillsUpToAtMost(S, U, n) == Cardinality(S) <= n /\ (U = {} => S = {})

\* S is what a bounded request takes of U: all of it, or as much as fits.
FillsUpTo(S, U, n) ==
    /\ Cardinality(S) <= n
    /\ S # U => Cardinality(S) = n
=============================================================================
