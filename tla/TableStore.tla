------------------------------ MODULE TableStore ----------------------------
(***************************************************************************)
(* What the DynamoDB service promises about its items: a durable store in  *)
(* which every request takes effect whole and at one moment, or not at     *)
(* all.  There is no copy, no file and no process here, so nothing that a  *)
(* process loses may show.  The service is the module DynamoTables.        *)
(***************************************************************************)
CONSTANTS
  Store,            (* what the store may hold                             *)
  Requests,         (* what clients ask for                                *)
  Accepted(_, _),   (* of a store and a request: all its conditions hold   *)
  Outcome(_, _)     (* and what the whole request makes of the store       *)

VARIABLE store

Init == store \in Store

Perform(r) ==
  /\ Accepted(store, r)
  /\ store' = Outcome(store, r)

Next == \E r \in Requests : Perform(r)

Spec == Init /\ [][Next]_store
=============================================================================
