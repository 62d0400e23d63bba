----------------------------- MODULE DynamoTables ---------------------------
(***************************************************************************)
(* The DynamoDB service: its tables, its items and every operation that    *)
(* changes them, with the SQLite file they are saved in.  An operation     *)
(* holds the service's mutex throughout, works on a copy of the state,     *)
(* saves the copy and only then makes it the state, so each is one action, *)
(* and one whose Save fails changes nothing.                               *)
(*                                                                         *)
(* An item is what its table and the text of its key say it is; the key    *)
(* attributes it carries are part of its contents.                         *)
(***************************************************************************)
EXTENDS Naturals, Sequences, FiniteSets

CONSTANTS
  Table,            (* table names                                         *)
  DocKey,           (* the values of the key attributes                    *)
  NoKey,            (* and an item without them                            *)
  KeyText,          (* the text that joins them; the order of items        *)
  Index,            (* names of global secondary indexes                   *)
  MaxVal,           (* the values of one more attribute; 0: it is absent   *)
  Requests,         (* the writes and transactions clients ask for         *)
  Batches,          (* and their batches of puts and deletes               *)
  BatchLimit,       (* batchWriteItemLimit                                 *)
  TransactLimit,    (* transactItemLimit                                   *)
  ActivationDelay,  (* defaultActivationDelay                              *)
  MaxNow            (* bound of the model: the last clock reading          *)

Item == [present : BOOLEAN, key : DocKey \cup {NoKey}, val : 0..MaxVal]

(* The attributes of a missing item are those of an empty map. *)
Missing == [present |-> FALSE, key |-> NoKey, val |-> 0]

(* attribute_exists, attribute_not_exists and equality, of the key         *)
(* attribute or of the other one; or no condition.                         *)
Condition ==
  [kind : {"none", "exists", "not_exists", "is"}, path : {"key", "val"}, value : 0..MaxVal]

NoCondition == [kind |-> "none", path |-> "val", value |-> 0]

(* One write of a request.  A check writes nothing; an update names its    *)
(* operation, SET and ADD with the operand val.  The service knows no      *)
(* conditional put or delete.                                              *)
WriteOp ==
  [kind : {"put", "delete", "update", "check"}, table : Table, key : DocKey,
   val : 0..MaxVal, op : {"SET", "REMOVE", "ADD"}, cond : Condition]

Key == {KeyText[d] : d \in DocKey}

Items == [Table -> [Key -> Item]]

TableRecord ==
  [status : {"none", "CREATING", "ACTIVE", "DELETING"}, activation : Nat,
   indexes : SUBSET Index]

State == [tables : [Table -> TableRecord], items : Items]

ASSUME TablesAssumption ==
  /\ KeyText \in [DocKey -> Nat]
  /\ NoKey \notin DocKey
  /\ MaxVal \in Nat
  /\ BatchLimit \in Nat
  /\ TransactLimit \in Nat
  /\ ActivationDelay \in Nat
  /\ MaxNow \in Nat
  /\ Requests \subseteq Seq(WriteOp)
  /\ Batches \subseteq Seq(WriteOp)
  /\ \A writes \in Requests \cup Batches : \A n \in DOMAIN writes :
        writes[n].kind \in {"put", "delete"} => writes[n].cond = NoCondition
  /\ \A batch \in Batches : \A n \in DOMAIN batch : batch[n].kind \in {"put", "delete"}

VARIABLES
  now,     \* the clock the service reads
  memory,  \* Service.state
  disk,    \* what the file holds
  open     \* the service has its repository (s.repo # nil)

tableVars == <<now, memory, disk, open>>

NoTable == [status |-> "none", activation |-> 0, indexes |-> {}]

Empty == [tables |-> [t \in Table |-> NoTable],
          items |-> [t \in Table |-> [k \in Key |-> Missing]]]

TablesInit ==
  /\ now = 0
  /\ memory = Empty
  /\ disk = Empty
  /\ open = TRUE
-----------------------------------------------------------------------------
HasTable(state, t) == state.tables[t].status # "none"

ItemAt(items, w) == items[w.table][KeyText[w.key]]

(* Equality is of the other attribute: an item's key names it already. *)
Holds(cond, item) ==
  LET exists == IF cond.path = "key" THEN item.key # NoKey ELSE item.val # 0
  IN  CASE cond.kind = "none"       -> TRUE
        [] cond.kind = "exists"     -> exists
        [] cond.kind = "not_exists" -> ~exists
        [] cond.kind = "is"         -> item.val # 0 /\ item.val = cond.value

(* ADD starts from "0" when there is nothing to add to. *)
Operated(w, val) ==
  CASE w.op = "SET"    -> w.val
    [] w.op = "REMOVE" -> 0
    [] w.op = "ADD"    -> val + w.val

(* What a write makes of the item it names.  An update of a missing item   *)
(* creates it, with the attributes it sets and not those of its key.       *)
Effect(w, item) ==
  CASE w.kind = "put"    -> [present |-> TRUE, key |-> w.key, val |-> w.val]
    [] w.kind = "delete" -> Missing
    [] w.kind = "update" -> [item EXCEPT !.present = TRUE, !.val = Operated(w, @)]
    [] w.kind = "check"  -> item

Written(items, w) ==
  [items EXCEPT ![w.table][KeyText[w.key]] = Effect(w, @)]

(* The copy after the first n of the writes, in their order. *)
CopyAfter(items, writes, n) ==
  LET copy[i \in 0..Len(writes)] ==
        IF i = 0 THEN items ELSE Written(copy[i - 1], writes[i])
  IN  copy[n]

Result(items, writes) == CopyAfter(items, writes, Len(writes))

SameTarget(v, w) == v.table = w.table /\ KeyText[v.key] = KeyText[w.key]

(* seen keeps, for each target, the last position that named it: a check   *)
(* between two writes of one item hides the first from the second.         *)
Conflict(writes) ==
  \E m, n \in DOMAIN writes :
    /\ m < n
    /\ SameTarget(writes[m], writes[n])
    /\ writes[m].kind # "check" /\ writes[n].kind # "check"
    /\ \A i \in (m + 1)..(n - 1) : ~SameTarget(writes[i], writes[n])

(* Every condition holds of the copy the earlier writes have made. *)
ConditionsHold(items, writes) ==
  \A n \in DOMAIN writes :
    Holds(writes[n].cond, ItemAt(CopyAfter(items, writes, n - 1), writes[n]))

(* Mistaken variant of Accepts: the conditions are not evaluated. *)
AcceptsUnchecked(items, writes) == ~Conflict(writes)

Accepts(items, writes) == ~Conflict(writes) /\ ConditionsHold(items, writes)
-----------------------------------------------------------------------------
(* Mistaken variant of Commit: the state first, then its Save, which may   *)
(* fail.                                                                   *)
CommitBeforeSave(next) ==
  /\ memory' = next
  /\ disk' \in {disk, next}
  /\ UNCHANGED <<now, open>>

(* commitStateLocked: saved first, then the state.  A service that was     *)
(* stopped has no repository and keeps the change in memory only.          *)
Commit(next) ==
  /\ memory' = next
  /\ disk' = IF open THEN next ELSE disk
  /\ UNCHANGED <<now, open>>

(* MaxVal bounds the values that ADD reaches. *)
CommitItems(items) == items \in Items /\ Commit([memory EXCEPT !.items = items])

CommitTable(t, record) == Commit([memory EXCEPT !.tables[t] = record])

CreateTable(t, indexes) ==
  /\ ~HasTable(memory, t)
  /\ CommitTable(t, [status |-> "CREATING", activation |-> now + ActivationDelay,
                     indexes |-> indexes])

UpdateTableSchema(t, indexes) ==
  /\ memory.tables[t].status \in {"CREATING", "ACTIVE"}
  /\ indexes # {}
  /\ indexes \cap memory.tables[t].indexes = {}
  /\ CommitTable(t, [memory.tables[t] EXCEPT !.indexes = @ \cup indexes])

Due(record) == record.status = "CREATING" /\ record.activation <= now

(* materializeTableLocked. *)
Materialized(record) ==
  IF Due(record) THEN [record EXCEPT !.status = "ACTIVE", !.activation = 0] ELSE record

(* A description of a table whose activation is due activates it.  The     *)
(* second test of the activation, after the first commit, finds nothing.   *)
DescribeTable(t) ==
  /\ Due(memory.tables[t])
  /\ CommitTable(t, Materialized(memory.tables[t]))

(* A deleted table keeps its record, its name and its items.  A table that *)
(* is due is first activated and saved: when only the second Save fails,   *)
(* what is left is DescribeTable.                                          *)
DeleteTable(t) ==
  /\ memory.tables[t].status \in {"CREATING", "ACTIVE"}
  /\ CommitTable(t, [memory.tables[t] EXCEPT !.status = "DELETING", !.activation = 0])

(* A write by itself is a request of one write. *)
PutItem(w) ==
  /\ w.kind = "put"
  /\ HasTable(memory, w.table)
  /\ CommitItems(Result(memory.items, <<w>>))

DeleteItem(w) ==
  /\ w.kind = "delete"
  /\ HasTable(memory, w.table)
  /\ ItemAt(memory.items, w).present
  /\ CommitItems(Result(memory.items, <<w>>))

UpdateItem(w) ==
  /\ w.kind = "update"
  /\ HasTable(memory, w.table)
  /\ ConditionsHold(memory.items, <<w>>)
  /\ CommitItems(Result(memory.items, <<w>>))

Processed(batch) == IF Len(batch) <= BatchLimit THEN batch ELSE SubSeq(batch, 1, BatchLimit)

(* What is beyond the limit is handed back unprocessed, with its table     *)
(* unread; the rest is committed at once, even when it is nothing.         *)
BatchWriteItem(batch) ==
  LET met == IF Len(batch) <= BatchLimit THEN batch ELSE SubSeq(batch, 1, BatchLimit + 1)
  IN  /\ \A n \in DOMAIN met : HasTable(memory, met[n].table)
      /\ CommitItems(Result(memory.items, Processed(batch)))

TransactWriteItems(writes) ==
  /\ Len(writes) \in 1..TransactLimit
  /\ \A n \in DOMAIN writes : HasTable(memory, writes[n].table)
  /\ Accepts(memory.items, writes)
  /\ CommitItems(Result(memory.items, writes))
-----------------------------------------------------------------------------
(* Stop closes the repository and forgets it; the service answers on. *)
Stop ==
  /\ open
  /\ open' = FALSE
  /\ UNCHANGED <<now, memory, disk>>

(* The process ends at any moment between two operations, and a new one    *)
(* loads the file.                                                         *)
Restart ==
  /\ memory' = disk
  /\ open' = TRUE
  /\ UNCHANGED <<now, disk>>

Tick ==
  /\ now < MaxNow
  /\ now' = now + 1
  /\ UNCHANGED <<memory, disk, open>>

TablesNext ==
  \/ \E t \in Table :
       \/ \E indexes \in SUBSET Index : CreateTable(t, indexes) \/ UpdateTableSchema(t, indexes)
       \/ DescribeTable(t) \/ DeleteTable(t)
  \/ \E writes \in Requests :
       \/ Len(writes) = 1 /\ (PutItem(writes[1]) \/ DeleteItem(writes[1]) \/ UpdateItem(writes[1]))
       \/ TransactWriteItems(writes)
  \/ \E batch \in Batches : BatchWriteItem(batch)
  \/ Stop \/ Restart \/ Tick

TablesSpec == TablesInit /\ [][TablesNext]_tableVars
-----------------------------------------------------------------------------
TablesTypeOK ==
  /\ now \in 0..MaxNow
  /\ memory \in State
  /\ disk \in State
  /\ open \in BOOLEAN

(* Until it is stopped, the service never knows more than its file: what a *)
(* client reads, and any answer built on it, survives the process.         *)
MemoryIsDurable == open => memory = disk

(* The service implements the durable store of whole requests (TableStore) *)
(* with the items of its file as the store.                                *)
Durable ==
  INSTANCE TableStore WITH
    Store <- Items,
    Requests <- Requests \cup {Processed(batch) : batch \in Batches},
    Accepted <- ConditionsHold,
    Outcome <- Result,
    store <- disk.items

DurableSpec == Durable!Spec
=============================================================================
