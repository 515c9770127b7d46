----------------------------- MODULE MCHouseholds -----------------------------
(* Small instances of Households for TLC. *)
EXTENDS Households, TLC

\* People are interchangeable.
Symmetry == Permutations(People)
=============================================================================
