---------------------------- MODULE Enumerations ----------------------------
(***************************************************************************)
(* The elements of a finite set of numbers in ascending order: what ORDER  *)
(* BY gives for the rows of a table, and in which order the places of an   *)
(* array or of a pattern come that satisfy some condition.                 *)
(***************************************************************************)
EXTENDS Naturals, FiniteSets

Increasing(s) == \A i, j \in DOMAIN s : i < j => s[i] < s[j]

Ascending(S) == CHOOSE s \in [1 .. Cardinality(S) -> S] : Increasing(s)
=============================================================================
