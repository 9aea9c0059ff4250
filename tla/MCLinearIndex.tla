--------------------------- MODULE MCLinearIndex ---------------------------
(***************************************************************************)
(* Instances of LinearIndex for TLC.                                       *)
(***************************************************************************)
EXTENDS LinearIndex, TLC

CONSTANTS a, b

MCValues == {a, b}
Symmetry == Permutations(MCValues)

=============================================================================
