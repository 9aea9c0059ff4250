---------------------------- MODULE MCVariants ----------------------------
(***************************************************************************)
(* Instances of Variants for TLC.                                          *)
(***************************************************************************)
EXTENDS Variants

MCColumnType == [p |-> "Int8", q |-> "UInt32", r |-> "Int64"]
MCNotNull == {"q"}
MCLiterals == {0, 1, 3, 6, 12, 31}

=============================================================================
