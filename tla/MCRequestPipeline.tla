--------------------------- MODULE MCRequestPipeline ---------------------------
(***************************************************************************)
(* Small instances of RequestPipeline: one SQL and one REST connection.    *)
(***************************************************************************)
EXTENDS RequestPipeline

MCTwo == {"sql1", "rest1"}
MCRest == {"rest1"}
================================================================================
