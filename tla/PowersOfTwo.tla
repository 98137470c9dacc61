----------------------------- MODULE PowersOfTwo -----------------------------
(***************************************************************************)
(* 1 << n, doubled as often as it says: the number of leaves of a tree of  *)
(* depth n, and the number of values of an n-bit integer.                  *)
(***************************************************************************)
EXTENDS Integers

Pow2[n \in Nat] == IF n = 0 THEN 1 ELSE 2 * Pow2[n - 1]
=============================================================================
