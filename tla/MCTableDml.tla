---------------------------- MODULE MCTableDml ----------------------------
(***************************************************************************)
(* Instance of TableDml for TLC.                                           *)
(***************************************************************************)
EXTENDS TableDml, TLC

CONSTANTS v1, v2

MCValues == {v1, v2}
MCNotNull == {2}
MCTextColumns == {1}
Symmetry == Permutations(MCValues)

=============================================================================
