----------------------------- MODULE DynamoRequests -------------------------
(***************************************************************************)
(* The DynamoDB adapter of the HTTP server: each request is a handler that *)
(* calls the service several times, and other requests are served between  *)
(* two of its calls.  A first call describes the table; a handler that     *)
(* writes an item then reads it, and decides with what it read.            *)
(*                                                                         *)
(* Deletion protection, time to live, tags and backups are kept by the     *)
(* adapter itself, in maps the process loses when it ends.                 *)
(***************************************************************************)
EXTENDS DynamoReads

CONSTANTS
  Client,   (* requests that may be under way at once                      *)
  Offers,   (* the requests clients make                                   *)
  Setting   (* deletion protection, time to live, tags, backups            *)

ItemRequests == {"put", "insert", "transact_put", "delete", "update"}
TableRequests == {"create_table", "update_table", "delete_table"}

(* An item request has its write, a table request its table and the        *)
(* settings that it sets and clears.                                       *)
Offer ==
  [kind : ItemRequests, w : WriteOp]
  \cup [kind : TableRequests, table : Table, sets : SUBSET Setting, clears : SUBSET Setting]

(* What the service is asked to write.  Only an update hands its condition *)
(* over.                                                                   *)
ServiceWrite(r) == IF r.kind = "update" THEN r.w ELSE [r.w EXCEPT !.cond = NoCondition]

ASSUME RequestsAssumption ==
  /\ "protection" \in Setting
  /\ Offers \subseteq Offer
  /\ \A r \in Offers : r.kind \in ItemRequests => <<ServiceWrite(r)>> \in Requests

VARIABLES
  request,   \* what each client waits for, and how far its handler is
  meta,      \* dynamoDBNativeHandler.meta and .ttl
  promised   \* History: the tables a client was told are protected

adapterVars == <<request, meta, promised>>
dynamoVars == <<tableVars, readVars, adapterVars>>

Idle == [stage |-> "idle"]

RequestsInit ==
  /\ TablesInit
  /\ ReadsInit
  /\ request = [c \in Client |-> Idle]
  /\ meta = [t \in Table |-> {}]
  /\ promised = {}
-----------------------------------------------------------------------------
At(c, stage) == request[c].stage = stage
Goto(c, stage) == request' = [request EXCEPT ![c] = [stage |-> stage, r |-> request[c].r]]
Answer(c) == request' = [request EXCEPT ![c] = Idle]

(* The description refuses a table that is missing or deleted, and         *)
(* activates one that is due.                                              *)
Describe(t) ==
  /\ memory.tables[t].status \in {"CREATING", "ACTIVE"}
  /\ \/ DescribeTable(t)
     \/ ~Due(memory.tables[t]) /\ UNCHANGED tableVars

(* A request that is refused at once is not a step. *)
Begin(c, r) ==
  /\ At(c, "idle")
  /\ request' = [request EXCEPT ![c] = [stage |-> "described", r |-> r]]

BeginItemRequest(c, r) ==
  /\ r.kind \in ItemRequests
  /\ Begin(c, r)
  /\ Describe(r.w.table)
  /\ UNCHANGED <<meta, promised>>

(* evaluateNativeCondition, on the item as it was read; the conditional    *)
(* put of a transaction tests only an item that is there.                  *)
ConditionMet(r, item) ==
  CASE r.kind = "put"          -> Holds(r.w.cond, item)
    [] r.kind = "insert"       -> ~item.present
    [] r.kind = "transact_put" -> item.present => Holds(r.w.cond, item)
    [] OTHER                   -> TRUE

(* GetItem, before the write: handlePutItem, handleDeleteItem and so on.   *)
ReadItem(c) ==
  /\ At(c, "described")
  /\ request[c].r.kind \in ItemRequests
  /\ IF ConditionMet(request[c].r, ItemAt(memory.items, request[c].r.w))
     THEN Goto(c, "read") ELSE Answer(c)
  /\ UNCHANGED <<tableVars, meta, promised>>

(* The write: whatever the item has become since it was read. *)
WriteItem(c) ==
  LET r == request[c].r
      w == ServiceWrite(r)
  IN  /\ At(c, "read")
      /\ \/ r.kind \in {"put", "insert"} /\ PutItem(w)
         \/ r.kind = "transact_put" /\ TransactWriteItems(<<w>>)
         \/ r.kind = "delete" /\ DeleteItem(w)
         \/ r.kind = "update" /\ UpdateItem(w)
      /\ Answer(c)
      /\ UNCHANGED <<meta, promised>>

(* The service refuses the write, or cannot save it. *)
WriteRefused(c) ==
  /\ At(c, "read") \/ At(c, "described")
  /\ Answer(c)
  /\ UNCHANGED <<tableVars, meta, promised>>

BeginCreateTable(c, r) ==
  /\ r.kind = "create_table"
  /\ Begin(c, r)
  /\ CreateTable(r.table, {})
  /\ UNCHANGED <<meta, promised>>

(* UpdateTable, UpdateTimeToLive, TagResource, UpdateContinuousBackups.    *)
(* The service's part comes first, the adapter's maps second.              *)
BeginUpdateTable(c, r) ==
  /\ r.kind = "update_table"
  /\ Begin(c, r)
  /\ \/ Describe(r.table)
     \/ \E indexes \in SUBSET Index : UpdateTableSchema(r.table, indexes)
  /\ promised' = IF "protection" \in r.clears THEN promised \ {r.table} ELSE promised
  /\ UNCHANGED meta

StoreMeta(c) ==
  LET r == request[c].r
  IN  /\ At(c, "described")
      /\ r.kind \in {"create_table", "update_table"}
      /\ meta' = [meta EXCEPT ![r.table] = (@ \ r.clears) \cup r.sets]
      /\ promised' = IF "protection" \in r.sets THEN promised \cup {r.table} ELSE promised
      /\ Answer(c)
      /\ UNCHANGED tableVars

BeginDeleteTable(c, r) ==
  /\ r.kind = "delete_table"
  /\ "protection" \notin meta[r.table]
  /\ Begin(c, r)
  /\ UNCHANGED <<tableVars, meta, promised>>

(* A table that was deleted before is deleted with success once more. *)
FinishDeleteTable(c) ==
  LET r == request[c].r
  IN  /\ At(c, "described")
      /\ r.kind = "delete_table"
      /\ \/ DeleteTable(r.table)
         \/ memory.tables[r.table].status = "DELETING" /\ UNCHANGED tableVars
      /\ meta' = [meta EXCEPT ![r.table] = {}]
      /\ Answer(c)
      /\ UNCHANGED promised

(* One call of the service: the batches, the transactions without a        *)
(* conditional put, and a description.                                     *)
SingleCall ==
  /\ \/ \E writes \in Requests : TransactWriteItems(writes)
     \/ \E batch \in Batches : BatchWriteItem(batch)
     \/ \E t \in Table : DescribeTable(t)
  /\ UNCHANGED adapterVars

(* The requests under way and the adapter's maps end with the process. *)
ProcessRestart ==
  /\ Restart
  /\ request' = [c \in Client |-> Idle]
  /\ meta' = [t \in Table |-> {}]
  /\ UNCHANGED promised

Handler(c) ==
  \/ \E r \in Offers :
       BeginItemRequest(c, r) \/ BeginCreateTable(c, r) \/ BeginUpdateTable(c, r) \/ BeginDeleteTable(c, r)
  \/ ReadItem(c) \/ WriteItem(c) \/ WriteRefused(c) \/ StoreMeta(c) \/ FinishDeleteTable(c)

DynamoNext ==
  \/ (\E c \in Client : Handler(c)) /\ ReadsUntouched
  \/ (SingleCall \/ ProcessRestart) /\ ReadsUntouched
  \/ (Stop \/ Tick) /\ UNCHANGED adapterVars /\ ReadsUntouched
  \/ ReadsNext /\ UNCHANGED adapterVars

DynamoSpec == RequestsInit /\ [][DynamoNext]_dynamoVars
-----------------------------------------------------------------------------
(* "Delivery layers should transform, not own, persistent state" and       *)
(* "Service repositories are authoritative for durable state"              *)
(* (data-models-core.md): once a client was told that a table is protected *)
(* from deletion, the table is not deleted before a client lifts that.     *)
ProtectionKept == \A t \in promised : memory.tables[t].status # "DELETING"
=============================================================================
