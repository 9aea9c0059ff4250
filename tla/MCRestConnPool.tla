---------------------------- MODULE MCRestConnPool -----------------------------
(***************************************************************************)
(* Small instances of RestConnPool.  No symmetry: liveness is checked too. *)
(***************************************************************************)
EXTENDS RestConnPool

CONSTANTS r1, r2, r3

MCThreeRequests == {r1, r2, r3}
================================================================================
