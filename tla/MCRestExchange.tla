---------------------------- MODULE MCRestExchange -----------------------------
(***************************************************************************)
(* Small instances of RestExchange: what clients send in each of them.     *)
(***************************************************************************)
EXTENDS RestExchange

\* Good bodies and bodies that fill the buffers of the REST server.
MCExactBody == {"post", "postExact"}
================================================================================
