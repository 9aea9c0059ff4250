--------------------------- MODULE MCTextColumn ---------------------------
(***************************************************************************)
(* Instances of TextColumn for TLC.                                        *)
(***************************************************************************)
EXTENDS TextColumn

MCLengths == {0, 1, 3, 7}

=============================================================================
