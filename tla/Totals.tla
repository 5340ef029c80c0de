------------------------------- MODULE Totals -------------------------------
(***************************************************************************)
(* Sums over a finite set, as the program's aggregates and counters take   *)
(* them (`reduce((sum, lot) => ...)`, `_sum: { delta: true }`).            *)
(*                                                                         *)
(* The sum of f over S is the number of elements of a set with f[x] tokens *)
(* for each x of S.  It is the sum the community modules fold, for         *)
(* functions with no negative value; written as a cardinality, every fact  *)
(* a proof needs about it follows from the theorems on finite sets, with   *)
(* no induction.                                                           *)
(***************************************************************************)
EXTENDS Integers, FiniteSets

Units(S, f) == UNION {{x} \X (1 .. f[x]) : x \in S}

Total(S, f) == Cardinality(Units(S, f))

=============================================================================
