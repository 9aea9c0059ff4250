---------------------------- MODULE MCColumnStore ----------------------------
(***************************************************************************)
(* Instances of ColumnStore for TLC.  The constants are given in the .cfg  *)
(* files.                                                                  *)
(***************************************************************************)
EXTENDS ColumnStore

\* Three record sizes: one byte, two bytes and a whole block of three.
MCLengths == {1, 2, 3}
\* Half a block and a whole block.
MCEvict == {1, 2}
\* Records of a two byte type in a block of four bytes.
MCFixed == {2}

=============================================================================
