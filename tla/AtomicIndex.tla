---------------------------- MODULE AtomicIndex ----------------------------
(***************************************************************************)
(* What an index that keeps one value per key promises (Index.h): one      *)
(* request at a time; a request takes effect on the stored contents in a   *)
(* single step or not at all, also when the process dies.  The one thing   *)
(* that weakens the promise is a write that the operating system refuses:  *)
(* the key it was for is Unknown until it is written again or the index is *)
(* read again from its files.                                              *)
(***************************************************************************)
CONSTANTS Keys, Values, Contents, Absent, Unknown, NoRequest

VARIABLES
  map,   \* the value stored for each key
  req    \* the request being served

vars == <<map, req>>

Kinds == {"insert", "update", "erase"}

Request == [kind : Kinds, key : Keys, val : Values]

(* A request has an effect on an absent key when it inserts and on a        *)
(* present one otherwise; of an Unknown key nothing is promised.            *)
Applies(r) ==
  \/ map[r.key] = Unknown
  \/ (r.kind = "insert") <=> (map[r.key] = Absent)

Result(r) == IF r.kind = "erase" THEN Absent ELSE r.val

Init ==
  /\ map = [k \in Keys |-> Absent]
  /\ req = NoRequest

Begin ==
  /\ req = NoRequest
  /\ req' \in Request
  /\ UNCHANGED map

Apply ==
  /\ req # NoRequest
  /\ Applies(req)
  /\ map' = [map EXCEPT ![req.key] = Result(req)]
  /\ req' = NoRequest

(* The request is refused, has nothing to do, fails, or dies with the      *)
(* process.                                                                *)
Abandon ==
  /\ req # NoRequest
  /\ req' = NoRequest
  /\ UNCHANGED map

(* A refused write leaves the key of the request unknown.                  *)
Spoil ==
  /\ req # NoRequest
  /\ map' = [map EXCEPT ![req.key] = Unknown]
  /\ req' = NoRequest

(* Reading the files again gives the unknown keys some contents; a request *)
(* may die on the way.                                                     *)
Settle ==
  /\ map' \in [Keys -> Contents \cup {Absent, Unknown}]
  /\ \A k \in Keys : map[k] # Unknown => map'[k] = map[k]
  /\ req' \in {req, NoRequest}

Next == Begin \/ Apply \/ Abandon \/ Spoil \/ Settle

Spec == Init /\ [][Next]_vars
=============================================================================
