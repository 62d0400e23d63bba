------------------------------- MODULE MCDynamo -----------------------------
(***************************************************************************)
(* Small instances of DynamoRequests, and of the modules it extends.       *)
(***************************************************************************)
EXTENDS DynamoRequests, TLC

CONSTANTS t, a, b, b2

(* b and b2 are different keys with one text ("x|y" with "z", and "x" with *)
(* "y|z"); by their attributes b comes before a.                           *)
OneText == (a :> 1) @@ (b :> 2) @@ (b2 :> 2)
OnePartition == (a :> 1) @@ (b :> 1) @@ (b2 :> 2)
ByAttributes == (a :> 2) @@ (b :> 1) @@ (b2 :> 3)

KeyAbsent == [kind |-> "not_exists", path |-> "key", value |-> 0]
ValueIs(v) == [kind |-> "is", path |-> "val", value |-> v]

Op(kind, key, val, op, cond) ==
  [kind |-> kind, table |-> t, key |-> key, val |-> val, op |-> op, cond |-> cond]
Put(key, val, cond) == Op("put", key, val, "SET", cond)
Delete(key) == Op("delete", key, 0, "SET", NoCondition)
Update(key, op, val, cond) == Op("update", key, val, op, cond)
Check(key, cond) == Op("check", key, 0, "SET", cond)

Request(kind, w) == [kind |-> kind, w |-> w]
TableRequest(kind, sets, clears) == [kind |-> kind, table |-> t, sets |-> sets, clears |-> clears]
-----------------------------------------------------------------------------
(* The transactions and batches of a single call: one is larger than a     *)
(* batch may be, one names an item twice.                                  *)
SmallRequests ==
  {<<w>> : w \in {Put(a, 1, NoCondition), Put(a, 2, NoCondition), Delete(a),
                  Update(a, "ADD", 1, NoCondition), Update(b, "SET", 2, ValueIs(1)),
                  Put(b, 1, NoCondition), Put(b2, 1, NoCondition), Delete(b), Update(b, "REMOVE", 0, NoCondition)}}
  \cup {<<Check(a, ValueIs(1)), Update(a, "ADD", 1, NoCondition), Put(b, 1, NoCondition)>>,
        <<Put(b, 1, NoCondition), Update(b, "SET", 2, NoCondition)>>,
        <<Put(b, 1, NoCondition), Check(b, ValueIs(1)), Put(b, 2, NoCondition)>>}

SmallBatches == {<<Put(a, 2, NoCondition), Delete(b), Put(b2, 2, NoCondition)>>, <<Delete(a), Put(a, 1, NoCondition)>>}

(* Writes by the adapter, of one item. *)
SmallOffers ==
  {Request("put", Put(a, 1, KeyAbsent)), Request("insert", Put(a, 2, NoCondition)),
   Request("transact_put", Put(a, 1, ValueIs(2))), Request("delete", Delete(a)),
   Request("update", Update(a, "ADD", 1, NoCondition)),
   TableRequest("create_table", {"protection"}, {}), TableRequest("update_table", {"ttl"}, {"protection"}),
   TableRequest("delete_table", {}, {})}

(* A table that is created with protection, and deleted. *)
ProtectedTable ==
  {TableRequest("create_table", {"protection"}, {}), TableRequest("delete_table", {}, {})}

SmallQueries ==
  {[kind |-> kind, table |-> t, by |-> 1, forward |-> forward, filter |-> filter] :
     kind \in {"scan", "query", "index"}, forward \in {TRUE, FALSE}, filter \in {0..MaxVal, {1}}}

(* The items a read meets are there, or come and go, one by one. *)
Loaded ==
  [tables |-> [Empty.tables EXCEPT ![t].status = "ACTIVE"],
   items |-> [Empty.items EXCEPT ![t][1] = [present |-> TRUE, key |-> a, val |-> 1],
                                 ![t][2] = [present |-> TRUE, key |-> b, val |-> 1]]]

(* A behaviour is about requests of the adapter that interleave, about a   *)
(* read among single calls, or about single calls and a stopped service.   *)
VARIABLE about

MCInit ==
  \/ /\ RequestsInit
     /\ about \in {"adapter", "calls"}
  \/ /\ request = [c \in Client |-> Idle] /\ meta = [x \in Table |-> {}] /\ promised = {}
     /\ now = 0 /\ memory = Loaded /\ disk = Loaded /\ open = TRUE
     /\ ReadsInit
     /\ about = "reads"

MCNext ==
  /\ \/ /\ about = "adapter"
        /\ ReadsUntouched
        /\ \/ \E c \in Client : Handler(c)
           \/ ProcessRestart
           \/ (Tick \/ DescribeTable(t)) /\ UNCHANGED adapterVars
     \/ /\ about = "reads"
        /\ \/ ReadsNext /\ UNCHANGED adapterVars
           \/ (SingleCall \/ ProcessRestart) /\ ReadsUntouched
     \/ /\ about = "calls"
        /\ ReadsUntouched
        /\ TablesNext /\ UNCHANGED adapterVars
  /\ UNCHANGED about

MCSpec == MCInit /\ [][MCNext]_<<dynamoVars, about>>

(* Requests of the adapter alone, with every other step of the system. *)
AdapterSpec == RequestsInit /\ about = "adapter" /\ [][DynamoNext /\ UNCHANGED about]_<<dynamoVars, about>>

Clients == Permutations(Client)
=============================================================================
