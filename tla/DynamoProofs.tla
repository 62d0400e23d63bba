----------------------------- MODULE DynamoProofs ---------------------------
(***************************************************************************)
(* The DynamoDB service implements the durable store of TableStore, for    *)
(* all tables, keys and requests: the inductive invariant is that memory   *)
(* and file have their types and that, until the service is stopped, they  *)
(* agree.  The adapter does nothing to it but the service's operations,    *)
(* and a read page by page is complete: items are kept under the text of   *)
(* their key attributes, so a cursor is a place in the order of a read.    *)
(***************************************************************************)
EXTENDS DynamoRequests, NaturalsInduction, WellFoundedInduction, TLAPS

TablesInv == TablesTypeOK /\ MemoryIsDurable

(* What every operation of the service does: it commits one next state. *)
LEMMA CommitKeeps ==
  ASSUME NEW next \in State, TablesInv, Commit(next)
  PROVE  TablesInv'
<1>1. disk' \in State
  BY DEF Commit, TablesInv, TablesTypeOK
<1>2. TablesTypeOK'
  BY <1>1 DEF Commit, TablesInv, TablesTypeOK
<1>3. MemoryIsDurable'
  BY DEF Commit, TablesInv, MemoryIsDurable
<1> QED BY <1>2, <1>3 DEF TablesInv

LEMMA CommitItemsKeeps ==
  ASSUME NEW items, TablesInv, CommitItems(items)
  PROVE  TablesInv' /\ disk'.items \in {disk.items, items} /\ (open => disk'.items = items)
<1> DEFINE next == [memory EXCEPT !.items = items]
<1>1. next \in State /\ next.items = items
  BY DEF TablesInv, TablesTypeOK, CommitItems, State
<1>2. Commit(next)
  BY DEF CommitItems
<1>3. disk' = IF open THEN next ELSE disk
  BY <1>2 DEF Commit
<1> QED BY <1>1, <1>2, <1>3, CommitKeeps

LEMMA CommitTableKeeps ==
  ASSUME NEW t \in Table, NEW record \in TableRecord, TablesInv, CommitTable(t, record)
  PROVE  TablesInv' /\ disk'.items = disk.items
<1> DEFINE next == [memory EXCEPT !.tables[t] = record]
<1>1. next \in State /\ next.items = memory.items
  BY DEF TablesInv, TablesTypeOK, State
<1>2. Commit(next)
  BY DEF CommitTable
<1>3. disk' = IF open THEN next ELSE disk
  BY <1>2 DEF Commit
<1>4. open => memory = disk
  BY DEF TablesInv, MemoryIsDurable
<1> QED BY <1>1, <1>2, <1>3, <1>4, CommitKeeps

(* The operations on tables leave the items of the file alone. *)
LEMMA TableStep ==
  ASSUME NEW t \in Table, NEW indexes \in SUBSET Index, TablesInv,
         CreateTable(t, indexes) \/ UpdateTableSchema(t, indexes) \/ DescribeTable(t) \/ DeleteTable(t)
  PROVE  TablesInv' /\ disk'.items = disk.items
<1>1. memory.tables[t] \in TableRecord /\ now \in Nat
  BY DEF TablesInv, TablesTypeOK, State
<1>2. CASE CreateTable(t, indexes)
  <2>1. [status |-> "CREATING", activation |-> now + ActivationDelay, indexes |-> indexes] \in TableRecord
    BY <1>1, TablesAssumption DEF TableRecord
  <2> QED BY <1>2, <2>1, CommitTableKeeps DEF CreateTable
<1>3. CASE UpdateTableSchema(t, indexes)
  <2>1. [memory.tables[t] EXCEPT !.indexes = @ \cup indexes] \in TableRecord
    BY <1>1 DEF TableRecord
  <2> QED BY <1>3, <2>1, CommitTableKeeps DEF UpdateTableSchema
<1>4. CASE DescribeTable(t)
  <2>1. Materialized(memory.tables[t]) \in TableRecord
    BY <1>1 DEF TableRecord, Materialized
  <2> QED BY <1>4, <2>1, CommitTableKeeps DEF DescribeTable
<1>5. CASE DeleteTable(t)
  <2>1. [memory.tables[t] EXCEPT !.status = "DELETING", !.activation = 0] \in TableRecord
    BY <1>1 DEF TableRecord
  <2> QED BY <1>5, <2>1, CommitTableKeeps DEF DeleteTable
<1> QED BY <1>2, <1>3, <1>4, <1>5

(* A put or a delete carries no condition, so it accepts every store. *)
LEMMA SingleAccepted ==
  ASSUME NEW w, <<w>> \in Requests, w.kind \in {"put", "delete"}, NEW items
  PROVE  ConditionsHold(items, <<w>>)
<1>1. \A n \in DOMAIN <<w>> : n = 1 /\ <<w>>[n] = w
  OBVIOUS
<1>2. w.cond = NoCondition
  BY <1>1, TablesAssumption, DOMAIN <<w>> = 1..1
<1>3. \A item : Holds(w.cond, item)
  BY <1>2 DEF Holds, NoCondition
<1> QED BY <1>1, <1>3 DEF ConditionsHold

(* A request changes the items of the file whole, or not at all. *)
LEMMA RequestStep ==
  ASSUME NEW writes \in Requests, TablesInv,
         \/ Len(writes) = 1 /\ (PutItem(writes[1]) \/ DeleteItem(writes[1]) \/ UpdateItem(writes[1]))
         \/ TransactWriteItems(writes)
  PROVE  TablesInv' /\ (Durable!Next \/ disk'.items = disk.items)
<1>1. writes \in Seq(WriteOp)
  BY TablesAssumption
<1>2. ASSUME ConditionsHold(memory.items, writes), CommitItems(Result(memory.items, writes))
      PROVE  TablesInv' /\ (Durable!Next \/ disk'.items = disk.items)
  <2>1. TablesInv' /\ disk'.items \in {disk.items, Result(memory.items, writes)}
           /\ (open => disk'.items = Result(memory.items, writes))
    BY <1>2, CommitItemsKeeps
  <2>2. CASE open
    <3>1. memory = disk
      BY <2>2 DEF TablesInv, MemoryIsDurable
    <3>2. Durable!Perform(writes)
      BY <1>2, <2>1, <2>2, <3>1 DEF Durable!Perform
    <3> QED BY <2>1, <3>2 DEF Durable!Next
  <2>3. CASE ~open
    <3>1. disk'.items = disk.items
      BY <1>2, <2>3 DEF CommitItems, Commit
    <3> QED BY <2>1, <3>1
  <2> QED BY <2>2, <2>3
<1>3. CASE Len(writes) = 1 /\ (PutItem(writes[1]) \/ DeleteItem(writes[1]) \/ UpdateItem(writes[1]))
  <2>1. writes = <<writes[1]>>
    BY <1>1, <1>3
  <2>2. CommitItems(Result(memory.items, writes))
    BY <1>3, <2>1 DEF PutItem, DeleteItem, UpdateItem
  <2>3. ConditionsHold(memory.items, writes)
    <3>1. CASE UpdateItem(writes[1])
      BY <3>1, <2>1 DEF UpdateItem
    <3>2. CASE PutItem(writes[1]) \/ DeleteItem(writes[1])
      BY <3>2, <2>1, SingleAccepted DEF PutItem, DeleteItem
    <3> QED BY <1>3, <3>1, <3>2
  <2> QED BY <1>2, <2>2, <2>3
<1>4. CASE TransactWriteItems(writes)
  BY <1>2, <1>4 DEF TransactWriteItems, Accepts
<1> QED BY <1>3, <1>4

(* What a batch processes are puts and deletes. *)
LEMMA BatchAccepted ==
  ASSUME NEW batch \in Batches, NEW items
  PROVE  ConditionsHold(items, Processed(batch))
<1>1. batch \in Seq(WriteOp) /\ BatchLimit \in Nat
  BY TablesAssumption
<1>2. ASSUME NEW n \in DOMAIN Processed(batch)
      PROVE  Holds(Processed(batch)[n].cond, ItemAt(CopyAfter(items, Processed(batch), n - 1), Processed(batch)[n]))
  <2>1. n \in DOMAIN batch /\ Processed(batch)[n] = batch[n]
    <3>1. CASE Len(batch) <= BatchLimit
      BY <1>2, <3>1 DEF Processed
    <3>2. CASE ~(Len(batch) <= BatchLimit)
      <4>1. Processed(batch) = SubSeq(batch, 1, BatchLimit) /\ BatchLimit < Len(batch) /\ Len(batch) \in Nat
        BY <1>1, <3>2 DEF Processed
      <4>2. Processed(batch) = [i \in 1..BatchLimit |-> batch[i]]
        BY <1>1, <4>1
      <4>3. n \in 1..BatchLimit
        BY <1>2, <4>2
      <4> QED BY <1>1, <4>1, <4>2, <4>3
    <3> QED BY <3>1, <3>2
  <2>2. batch[n].cond = NoCondition
    BY <2>1, TablesAssumption
  <2> QED BY <2>1, <2>2 DEF Holds, NoCondition
<1> QED BY <1>2 DEF ConditionsHold

LEMMA BatchStep ==
  ASSUME NEW batch \in Batches, TablesInv, BatchWriteItem(batch)
  PROVE  TablesInv' /\ (Durable!Next \/ disk'.items = disk.items)
<1>1. CommitItems(Result(memory.items, Processed(batch)))
  BY DEF BatchWriteItem
<1>2. TablesInv' /\ (open => disk'.items = Result(memory.items, Processed(batch)))
  BY <1>1, CommitItemsKeeps
<1>3. CASE open
  <2>1. memory = disk
    BY <1>3 DEF TablesInv, MemoryIsDurable
  <2>2. Durable!Perform(Processed(batch))
    BY <1>2, <1>3, <2>1, BatchAccepted DEF Durable!Perform
  <2> QED BY <1>2, <2>2 DEF Durable!Next
<1>4. CASE ~open
  <2>1. disk'.items = disk.items
    BY <1>1, <1>4 DEF CommitItems, Commit
  <2> QED BY <1>2, <2>1
<1> QED BY <1>3, <1>4

LEMMA EmptyIsState == Empty \in State
<1>1. NoTable \in TableRecord
  BY DEF NoTable, TableRecord
<1>2. Missing \in Item
  BY TablesAssumption DEF Missing, Item
<1> QED BY <1>1, <1>2 DEF Empty, State, Items

(* The invariant is inductive, and under it every step is a request of the *)
(* durable store or leaves the items of the file as they are.              *)
LEMMA TablesStep ==
  ASSUME TablesInv, [TablesNext]_tableVars
  PROVE  TablesInv' /\ [Durable!Next]_(disk.items)
<1>1. ASSUME NEW t \in Table, NEW indexes \in SUBSET Index,
             CreateTable(t, indexes) \/ UpdateTableSchema(t, indexes)
      PROVE  TablesInv' /\ disk'.items = disk.items
  BY <1>1, TableStep
<1>2. ASSUME NEW t \in Table, DescribeTable(t) \/ DeleteTable(t)
      PROVE  TablesInv' /\ disk'.items = disk.items
  <2>1. {} \in SUBSET Index
    OBVIOUS
  <2> QED BY <1>2, <2>1, TableStep
<1>3. ASSUME NEW writes \in Requests,
             \/ Len(writes) = 1 /\ (PutItem(writes[1]) \/ DeleteItem(writes[1]) \/ UpdateItem(writes[1]))
             \/ TransactWriteItems(writes)
      PROVE  TablesInv' /\ (Durable!Next \/ disk'.items = disk.items)
  BY <1>3, RequestStep
<1>4. ASSUME NEW batch \in Batches, BatchWriteItem(batch)
      PROVE  TablesInv' /\ (Durable!Next \/ disk'.items = disk.items)
  BY <1>4, BatchStep
<1>5. CASE Stop
  BY <1>5 DEF Stop, TablesInv, TablesTypeOK, MemoryIsDurable
<1>6. CASE Restart
  BY <1>6 DEF Restart, TablesInv, TablesTypeOK, MemoryIsDurable
<1>7. CASE Tick
  BY <1>7, TablesAssumption DEF Tick, TablesInv, TablesTypeOK, MemoryIsDurable
<1>8. CASE UNCHANGED tableVars
  BY <1>8 DEF tableVars, TablesInv, TablesTypeOK, MemoryIsDurable
<1> QED BY <1>1, <1>2, <1>3, <1>4, <1>5, <1>6, <1>7, <1>8 DEF TablesNext

(* The invariant holds of every behaviour of the service. *)
THEOREM Inductive == TablesSpec => []TablesInv
<1>1. TablesInit => TablesInv
  BY EmptyIsState, TablesAssumption DEF TablesInit, TablesInv, TablesTypeOK, MemoryIsDurable
<1>2. TablesInv /\ [TablesNext]_tableVars => TablesInv'
  BY TablesStep
<1> QED BY <1>1, <1>2, PTL DEF TablesSpec

(* Memory and file always hold well formed tables and items. *)
THEOREM TypesKept == TablesSpec => []TablesTypeOK
<1>1. TablesInv => TablesTypeOK
  BY DEF TablesInv
<1> QED BY <1>1, Inductive, PTL

(* Until it is stopped, the service has saved all that it knows: no answer *)
(* of it is lost with the process.                                         *)
THEOREM Durability == TablesSpec => []MemoryIsDurable
<1>1. TablesInv => MemoryIsDurable
  BY DEF TablesInv
<1> QED BY <1>1, Inductive, PTL

(* The service implements the durable store: through failed saves, Stop    *)
(* and restarts, the file moves by whole requests whose conditions hold.   *)
THEOREM Implements == TablesSpec => DurableSpec
<1>1. TablesInit => Durable!Init
  BY EmptyIsState DEF TablesInit, Durable!Init, State
<1>2. TablesInv /\ [TablesNext]_tableVars => [Durable!Next]_(disk.items)
  BY TablesStep
<1> QED BY <1>1, <1>2, Inductive, PTL DEF TablesSpec, DurableSpec, Durable!Spec
-----------------------------------------------------------------------------
(* What a read relies on: an item is kept under the text of the key        *)
(* attributes it carries, if it carries them.                              *)
Contents == [present : BOOLEAN, key : DocKey \cup {NoKey}, val : Nat]

KeysMatch(items) ==
  /\ items \in [Table -> [Key -> Contents]]
  /\ \A t \in Table, k \in Key : items[t][k].key # NoKey => KeyText[items[t][k].key] = k

(* A set of numbers has a smallest one. *)
LEMMA NatMinimum ==
  ASSUME NEW T \in SUBSET Nat, T # {}
  PROVE  \E x \in T : \A y \in T : x <= y
<1>1. PICK x \in T : \A y \in T : ~ (<<y, x>> \in OpToRel(<, Nat))
  BY NatLessThanWellFounded, WFMin
<1>2. \A y \in T : ~(y < x)
  BY <1>1 DEF OpToRel
<1> QED BY <1>2

(* The copies of the items up to the one after the nth write.              *)
Copies(items, writes, g, n) ==
  g = [i \in 0..n |-> IF i = 0 THEN items ELSE Written(g[i - 1], writes[i])]

(* CopyAfter is defined by what each copy is made of: there are such       *)
(* copies, or there would be a first that is lacking.                      *)
LEMMA CopiesExist ==
  ASSUME NEW items, NEW writes, NEW N \in Nat
  PROVE  \E g : Copies(items, writes, g, N)
<1> DEFINE lacking == {n \in Nat : ~\E g : Copies(items, writes, g, n)}
<1>1. SUFFICES ASSUME lacking # {} PROVE FALSE
  OBVIOUS
<1>2. PICK n \in lacking : \A m \in lacking : n <= m
  BY <1>1, NatMinimum
<1>3. n # 0
  <2>1. Copies(items, writes, [i \in 0..0 |-> items], 0)
    BY DEF Copies
  <2> QED BY <1>2, <2>1
<1>4. PICK g : Copies(items, writes, g, n - 1)
  BY <1>2, <1>3
<1> DEFINE h == [i \in 0..n |-> IF i = n THEN Written(g[n - 1], writes[n]) ELSE g[i]]
<1>5. \A i \in 0..n - 1 : h[i] = g[i] /\ g[i] = IF i = 0 THEN items ELSE Written(g[i - 1], writes[i])
  BY <1>3, <1>4 DEF Copies
<1>6. \A i \in 0..n : h[i] = IF i = 0 THEN items ELSE Written(h[i - 1], writes[i])
  <2>1. h[n] = Written(g[n - 1], writes[n]) /\ h[n - 1] = g[n - 1]
    BY <1>2, <1>3
  <2>2. \A i \in 1..n - 1 : i - 1 \in 0..n - 1
    BY <1>2, <1>3
  <2> HIDE DEF h
  <2>3. \A i \in 0..n : i = n \/ i = 0 \/ i \in 1..n - 1
    BY <1>2
  <2> QED BY <1>2, <1>3, <1>5, <2>1, <2>2, <2>3
<1>7. Copies(items, writes, h, n)
  BY <1>6 DEF Copies
<1> QED BY <1>2, <1>7

LEMMA CopyIsCopies ==
  ASSUME NEW items, NEW writes \in Seq(WriteOp)
  PROVE  \E g : Copies(items, writes, g, Len(writes)) /\ \A n : CopyAfter(items, writes, n) = g[n]
<1> DEFINE g == CHOOSE g : Copies(items, writes, g, Len(writes))
<1>1. Len(writes) \in Nat
  OBVIOUS
<1>2. Copies(items, writes, g, Len(writes))
  BY <1>1, CopiesExist
<1>3. \A n : CopyAfter(items, writes, n) = g[n]
  BY Zenon DEF CopyAfter, Copies
<1> QED BY <1>2, <1>3

LEMMA WrittenKeepsKeys ==
  ASSUME NEW items, KeysMatch(items), NEW w \in WriteOp
  PROVE  KeysMatch(Written(items, w))
<1> DEFINE k == KeyText[w.key]
           item == items[w.table][k]
<1>1. w.table \in Table /\ w.key \in DocKey /\ w.val \in Nat /\ k \in Key
  BY TablesAssumption DEF WriteOp, Key
<1>2. item \in Contents /\ (item.key # NoKey => KeyText[item.key] = k)
  BY <1>1 DEF KeysMatch
<1>3. Effect(w, item) \in Contents /\ (Effect(w, item).key # NoKey => KeyText[Effect(w, item).key] = k)
  <2>1. CASE w.kind = "put"
    BY <1>1, <2>1 DEF Effect, Contents
  <2>2. CASE w.kind = "delete"
    BY <2>2 DEF Effect, Contents, Missing
  <2>3. CASE w.kind = "update"
    <3>1. item.val \in Nat /\ w.op \in {"SET", "REMOVE", "ADD"}
      BY <1>2 DEF Contents, WriteOp
    <3>2. Operated(w, item.val) \in Nat
      BY <1>1, <3>1 DEF Operated
    <3>3. Effect(w, item) = [item EXCEPT !.present = TRUE, !.val = Operated(w, item.val)]
      BY <2>3 DEF Effect
    <3> HIDE DEF item
    <3> QED BY <1>2, <3>2, <3>3 DEF Contents
  <2>4. CASE w.kind = "check"
    BY <1>2, <2>4 DEF Effect
  <2> QED BY <2>1, <2>2, <2>3, <2>4 DEF WriteOp
<1> QED BY <1>1, <1>3 DEF KeysMatch, Written

LEMMA ResultKeepsKeys ==
  ASSUME NEW items, KeysMatch(items), NEW writes \in Seq(WriteOp)
  PROVE  KeysMatch(Result(items, writes))
<1>1. PICK g : Copies(items, writes, g, Len(writes)) /\ \A n : CopyAfter(items, writes, n) = g[n]
  BY CopyIsCopies
<1>2. Len(writes) \in Nat /\ \A i \in 1..Len(writes) : writes[i] \in WriteOp
  OBVIOUS
<1> DEFINE wrong == {n \in 0..Len(writes) : ~KeysMatch(g[n])}
<1>3. wrong = {}
  <2>1. SUFFICES ASSUME wrong # {} PROVE FALSE
    OBVIOUS
  <2>2. wrong \in SUBSET Nat
    BY <1>2
  <2>3. PICK n \in wrong : \A m \in wrong : n <= m
    BY <2>1, <2>2, NatMinimum
  <2>4. g[n] = IF n = 0 THEN items ELSE Written(g[n - 1], writes[n])
    BY <1>1, <2>3 DEF Copies
  <2>5. n # 0 /\ n \in 1..Len(writes)
    BY <1>2, <2>3, <2>4
  <2>6. KeysMatch(g[n - 1])
    BY <1>2, <2>3, <2>5
  <2> QED BY <1>2, <2>3, <2>4, <2>5, <2>6, WrittenKeepsKeys
<1> QED BY <1>1, <1>2, <1>3 DEF Result

(* Any step of the service leaves the items, writes them or loads them.    *)
ItemsMove ==
  /\ \/ memory'.items \in {memory.items, disk.items}
     \/ \E writes \in Seq(WriteOp) : memory'.items = Result(memory.items, writes)
  /\ disk'.items \in {disk.items, memory'.items}

LEMMA ItemsCommitted ==
  ASSUME TablesInv, NEW writes \in Seq(WriteOp), CommitItems(Result(memory.items, writes))
  PROVE  ItemsMove
<1> DEFINE next == [memory EXCEPT !.items = Result(memory.items, writes)]
<1>1. next.items = Result(memory.items, writes)
  BY DEF TablesInv, TablesTypeOK, State
<1>2. memory' = next /\ disk' \in {disk, next}
  BY DEF CommitItems, Commit
<1> QED BY <1>1, <1>2 DEF ItemsMove

LEMMA TableCommitted ==
  ASSUME TablesInv, NEW t \in Table, NEW record, CommitTable(t, record)
  PROVE  ItemsMove
<1> DEFINE next == [memory EXCEPT !.tables[t] = record]
<1>1. next.items = memory.items
  BY DEF TablesInv, TablesTypeOK, State
<1>2. memory' = next /\ disk' \in {disk, next}
  BY DEF CommitTable, Commit
<1> QED BY <1>1, <1>2 DEF ItemsMove

LEMMA TablesMoveItems ==
  ASSUME TablesInv, [TablesNext]_tableVars
  PROVE  ItemsMove
<1>1. ASSUME NEW t \in Table, NEW indexes \in SUBSET Index,
             CreateTable(t, indexes) \/ UpdateTableSchema(t, indexes)
      PROVE  ItemsMove
  BY <1>1, TableCommitted DEF CreateTable, UpdateTableSchema
<1>2. ASSUME NEW t \in Table, DescribeTable(t) \/ DeleteTable(t)
      PROVE  ItemsMove
  BY <1>2, TableCommitted DEF DescribeTable, DeleteTable
<1>3. ASSUME NEW writes \in Requests,
             \/ Len(writes) = 1 /\ (PutItem(writes[1]) \/ DeleteItem(writes[1]) \/ UpdateItem(writes[1]))
             \/ TransactWriteItems(writes)
      PROVE  ItemsMove
  <2>1. writes \in Seq(WriteOp)
    BY TablesAssumption
  <2>2. Len(writes) = 1 => <<writes[1]>> = writes
    BY <2>1
  <2>3. CommitItems(Result(memory.items, writes))
    BY <1>3, <2>2 DEF PutItem, DeleteItem, UpdateItem, TransactWriteItems
  <2> QED BY <2>1, <2>3, ItemsCommitted
<1>4. ASSUME NEW batch \in Batches, BatchWriteItem(batch)
      PROVE  ItemsMove
  <2>1. batch \in Seq(WriteOp) /\ BatchLimit \in Nat
    BY TablesAssumption
  <2>2. Processed(batch) \in Seq(WriteOp)
    BY <2>1 DEF Processed
  <2> QED BY <1>4, <2>2, ItemsCommitted DEF BatchWriteItem
<1>5. CASE Stop \/ Tick \/ UNCHANGED tableVars
  BY <1>5 DEF Stop, Tick, tableVars, ItemsMove
<1>6. CASE Restart
  BY <1>6 DEF Restart, ItemsMove
<1> QED BY <1>1, <1>2, <1>3, <1>4, <1>5, <1>6 DEF TablesNext

KeysInv == KeysMatch(memory.items) /\ KeysMatch(disk.items)

LEMMA TablesKeepKeys ==
  ASSUME TablesInv, KeysInv, [TablesNext]_tableVars
  PROVE  KeysInv'
<1>1. ItemsMove
  BY TablesMoveItems
<1>2. KeysMatch(memory'.items)
  BY <1>1, ResultKeepsKeys DEF ItemsMove, KeysInv
<1>3. KeysMatch(disk'.items)
  BY <1>1, <1>2 DEF ItemsMove, KeysInv
<1> QED BY <1>2, <1>3 DEF KeysInv, KeysMatch
-----------------------------------------------------------------------------
(* The order of a read, by the key attributes and the text of two items.   *)
Earlier(q, left, j, right, k) ==
  IF q.kind = "scan" \/ left = right
  THEN j < k
  ELSE IF left = NoKey \/ right = NoKey
       THEN right = NoKey
       ELSE KeyRank[left] < KeyRank[right] \/ (KeyRank[left] = KeyRank[right] /\ j < k)

Follows(q, left, j, right, k) ==
  IF q.kind = "scan" \/ q.forward THEN Earlier(q, left, j, right, k) ELSE Earlier(q, right, k, left, j)

LEMMA ComesFollows ==
  ASSUME NEW q, NEW items, NEW j, NEW k
  PROVE  Comes(q, items, j, k) <=> Follows(q, items[q.table][j].key, j, items[q.table][k].key, k)
BY DEF Comes, Precedes, Follows, Earlier

(* It is a strict order, total on items of different texts, whichever key  *)
(* attributes have one text or one rank.                                   *)
LEMMA EarlierIsOrder ==
  ASSUME NEW q, NEW x \in DocKey \cup {NoKey}, NEW y \in DocKey \cup {NoKey}, NEW z \in DocKey \cup {NoKey},
         NEW i \in Nat, NEW j \in Nat, NEW k \in Nat
  PROVE  /\ Earlier(q, x, i, y, j) /\ Earlier(q, y, j, z, k) => Earlier(q, x, i, z, k)
         /\ ~(Earlier(q, x, i, y, j) /\ Earlier(q, y, j, x, i))
         /\ i # j => Earlier(q, x, i, y, j) \/ Earlier(q, y, j, x, i)
<1>1. \A d \in DocKey : KeyRank[d] \in Nat
  BY ReadsAssumption
<1>2. Earlier(q, x, i, y, j) /\ Earlier(q, y, j, z, k) => Earlier(q, x, i, z, k)
  BY <1>1 DEF Earlier
<1>3. ~(Earlier(q, x, i, y, j) /\ Earlier(q, y, j, x, i))
  BY <1>1 DEF Earlier
<1>4. i # j => Earlier(q, x, i, y, j) \/ Earlier(q, y, j, x, i)
  BY <1>1 DEF Earlier
<1> QED BY <1>2, <1>3, <1>4

LEMMA FollowsIsOrder ==
  ASSUME NEW q, NEW x \in DocKey \cup {NoKey}, NEW y \in DocKey \cup {NoKey}, NEW z \in DocKey \cup {NoKey},
         NEW i \in Nat, NEW j \in Nat, NEW k \in Nat
  PROVE  /\ Follows(q, x, i, y, j) /\ Follows(q, y, j, z, k) => Follows(q, x, i, z, k)
         /\ ~(Follows(q, x, i, y, j) /\ Follows(q, y, j, x, i))
         /\ i # j => Follows(q, x, i, y, j) \/ Follows(q, y, j, x, i)
BY EarlierIsOrder DEF Follows

(* What a page may still read is what follows the cursor, found by its key *)
(* attributes: only one item of the table can carry them.                  *)
Ahead(q, items, from, k) == from = NoKey \/ Follows(q, from, KeyText[from], items[q.table][k].key, k)

LEMMA LeftIsAhead ==
  ASSUME NEW q \in Query, NEW items, KeysMatch(items), NEW from \in DocKey \cup {NoKey},
         NEW left \in LocateExclusiveStartKey(q, items, from)
  PROVE  left = {k \in Candidates(q, items) : Ahead(q, items, from, k)}
<1>1. CASE from = NoKey
  BY <1>1 DEF LocateExclusiveStartKey, Ahead
<1>2. CASE from # NoKey
  <2>1. PICK start \in Candidates(q, items) : items[q.table][start].key = from /\ left = Behind(q, items, start)
    BY <1>2 DEF LocateExclusiveStartKey
  <2>2. q.table \in Table /\ start \in Key
    BY <2>1 DEF Query, Candidates
  <2>3. KeyText[from] = start
    BY <1>2, <2>1, <2>2 DEF KeysMatch
  <2>4. \A k : Comes(q, items, start, k) <=> Ahead(q, items, from, k)
    BY <1>2, <2>1, <2>3, ComesFollows DEF Ahead
  <2> QED BY <2>1, <2>4 DEF Behind
<1> QED BY <1>1, <1>2

Underway == reading.kind \in {"scan", "query", "index"}

(* A read has returned, once, the items it must return and that the cursor *)
(* has passed.                                                             *)
ReadingInv ==
  /\ cursor \in DocKey \cup {NoKey}
  /\ returned \in [Key -> Nat]
  /\ Underway => /\ reading \in Query
                 /\ \A k \in steady :
                      /\ k \in Candidates(reading, memory.items)
                      /\ memory.items[reading.table][k].val \in reading.filter
                      /\ returned[k] = IF Ahead(reading, memory.items, cursor, k) THEN 0 ELSE 1
  /\ ReadIsComplete

LEMMA ReadStarts ==
  ASSUME NEW q \in Queries, StartReading(q)
  PROVE  ReadingInv'
<1>1. q \in Query /\ q.kind # "finished" /\ NoKey \in DocKey \cup {NoKey}
  BY ReadsAssumption DEF Query
<1>2. memory' = memory /\ reading' = q /\ cursor' = NoKey /\ returned' = [k \in Key |-> 0]
  BY DEF StartReading, tableVars
<1>3. \A k \in steady' : /\ k \in Candidates(q, memory.items)
                         /\ memory.items[q.table][k].val \in q.filter
  BY DEF StartReading
<1>4. \A k \in Candidates(q, memory.items) : k \in Key
  BY DEF Candidates
<1>5. \A k : Ahead(q, memory.items, NoKey, k)
  BY DEF Ahead
<1>6. \A k \in steady' : returned'[k] = 0
  BY <1>2, <1>3, <1>4
<1>7. returned' \in [Key -> Nat]
  BY <1>2
<1>8. ReadIsComplete'
  BY <1>1, <1>2 DEF ReadIsComplete
<1> QED BY <1>1, <1>2, <1>3, <1>5, <1>6, <1>7, <1>8 DEF ReadingInv, Underway, Ahead, Candidates, Matches

LEMMA ReadEnds ==
  ASSUME StopReading
  PROVE  ReadingInv'
BY DEF StopReading, ReadingInv, Underway, ReadIsComplete, NotReading

(* What a page does to what was returned. *)
LEMMA PageReturns ==
  ASSUME NEW page, Returns(page), returned \in [Key -> Nat]
  PROVE  /\ returned' \in [Key -> Nat]
         /\ \A k \in Key : memory.items[reading.table][k].val \in reading.filter
              => returned'[k] = IF k \in page THEN returned[k] + 1 ELSE returned[k]
BY DEF Returns

LEMMA PageKeeps ==
  ASSUME KeysInv, ReadingInv, NEW limit, ReadPage(limit)
  PROVE  ReadingInv'
<1> DEFINE items == memory.items
           key(k) == items[reading.table][k].key
<1>1. /\ reading \in Query /\ Underway
      /\ cursor \in DocKey \cup {NoKey}
      /\ returned \in [Key -> Nat]
      /\ \A k \in steady : /\ k \in Candidates(reading, items)
                           /\ items[reading.table][k].val \in reading.filter
                           /\ returned[k] = IF Ahead(reading, items, cursor, k) THEN 0 ELSE 1
  BY DEF ReadPage, Underway, ReadingInv
<1>2. KeysMatch(items) /\ memory' = memory /\ steady' = steady
  BY DEF KeysInv, ReadPage, tableVars
<1>3. \A k \in Candidates(reading, items) : k \in Key /\ k \in Nat /\ key(k) \in DocKey \cup {NoKey}
  <2>1. reading.table \in Table /\ \A k \in Key : items[reading.table][k] \in Contents
    BY <1>1, <1>2 DEF KeysMatch, Query
  <2>2. \A k \in Key : k \in Nat
    BY TablesAssumption DEF Key
  <2> QED BY <2>1, <2>2 DEF Candidates, Contents
<1>4. PICK left \in LocateExclusiveStartKey(reading, items, cursor) :
        \/ Returns(left) /\ reading' = Finished(reading) /\ UNCHANGED cursor
        \/ /\ \E last \in left :
                /\ Returns(PageUpTo(reading, items, left, last))
                /\ key(last) # NoKey
                /\ cursor' = key(last)
           /\ UNCHANGED reading
  BY DEF ReadPage
<1>5. left = {k \in Candidates(reading, items) : Ahead(reading, items, cursor, k)}
  BY <1>1, <1>2, LeftIsAhead
<1>6. CASE Returns(left) /\ reading' = Finished(reading) /\ UNCHANGED cursor
  <2>1. reading'.kind = "finished"
    BY <1>1, <1>6 DEF Finished, Query
  <2>2. returned' \in [Key -> Nat]
    BY <1>1, <1>6, PageReturns
  <2>3. \A k \in steady : returned'[k] = IF k \in left THEN returned[k] + 1 ELSE returned[k]
    BY <1>1, <1>3, <1>6, PageReturns
  <2>4. \A k \in steady : returned'[k] = 1
    BY <1>1, <1>5, <2>3
  <2> QED BY <1>1, <1>2, <1>6, <2>1, <2>2, <2>4 DEF ReadingInv, Underway, ReadIsComplete
<1>7. CASE /\ \E last \in left :
                /\ Returns(PageUpTo(reading, items, left, last))
                /\ key(last) # NoKey
                /\ cursor' = key(last)
           /\ UNCHANGED reading
  <2>1. PICK last \in left :
          /\ Returns(PageUpTo(reading, items, left, last))
          /\ key(last) # NoKey
          /\ cursor' = key(last)
    BY <1>7
  <2>2. last \in Candidates(reading, items) /\ Ahead(reading, items, cursor, last) /\ reading' = reading
    BY <1>5, <1>7, <2>1
  <2>3. last \in Nat /\ key(last) \in DocKey /\ KeyText[key(last)] = last
    BY <1>1, <1>2, <1>3, <2>1, <2>2 DEF KeysMatch, Query
  <2>4. returned' \in [Key -> Nat]
    BY <1>1, <2>1, PageReturns
  <2>5. ASSUME NEW k \in steady
        PROVE  returned'[k] = IF Ahead(reading, items, cursor', k) THEN 0 ELSE 1
    <3> DEFINE after == Follows(reading, key(last), last, key(k), k)
               before == Follows(reading, key(k), k, key(last), last)
    <3>1. k \in Candidates(reading, items) /\ k \in Key /\ k \in Nat /\ key(k) \in DocKey \cup {NoKey}
      BY <1>1, <1>3
    <3>2. Ahead(reading, items, cursor', k) <=> after
      BY <2>1, <2>3 DEF Ahead
    <3>3. returned'[k] = IF k \in left /\ (k = last \/ before) THEN returned[k] + 1 ELSE returned[k]
      BY <1>1, <2>1, <3>1, PageReturns, ComesFollows DEF PageUpTo
    <3>4. after <=> ~(k = last \/ before)
      BY <2>3, <3>1, FollowsIsOrder
    <3>5. CASE k \in left
      BY <1>1, <1>5, <3>2, <3>3, <3>4, <3>5
    <3>6. CASE k \notin left
      <4>1. cursor # NoKey /\ ~Follows(reading, cursor, KeyText[cursor], key(k), k) /\ returned[k] = 1
        BY <1>1, <1>5, <3>1, <3>6 DEF Ahead
      <4>2. Follows(reading, cursor, KeyText[cursor], key(last), last)
        BY <2>2, <4>1 DEF Ahead
      <4>3. cursor \in DocKey /\ KeyText[cursor] \in Nat
        BY <1>1, <4>1, TablesAssumption
      <4>4. ~after
        BY <2>3, <3>1, <4>1, <4>2, <4>3, FollowsIsOrder
      <4> QED BY <3>2, <3>3, <3>6, <4>1, <4>4
    <3> QED BY <3>5, <3>6
  <2>6. ReadIsComplete'
    BY <1>1, <2>2 DEF ReadIsComplete, Underway
  <2> QED BY <1>1, <1>2, <2>1, <2>2, <2>3, <2>4, <2>5, <2>6 DEF ReadingInv, Underway, Ahead
<1> QED BY <1>4, <1>6, <1>7

LEMMA UntouchedKeeps ==
  ASSUME ReadingInv, ReadsUntouched
  PROVE  ReadingInv'
<1>1. \A k \in steady' : k \in steady
  BY DEF ReadsUntouched
<1>2. ASSUME Underway
      PROVE  \A k \in steady' : memory.items[reading.table][k] = memory'.items[reading.table][k]
  BY <1>2 DEF ReadsUntouched, Underway, NotReading
<1>3. reading' = reading /\ cursor' = cursor /\ returned' = returned
  BY DEF ReadsUntouched
<1>4. ReadIsComplete'
  BY <1>1, <1>3 DEF ReadingInv, ReadIsComplete
<1>5. ASSUME Underway, NEW k \in steady'
      PROVE  /\ k \in Candidates(reading, memory'.items)
             /\ memory'.items[reading.table][k].val \in reading.filter
             /\ returned[k] = IF Ahead(reading, memory'.items, cursor, k) THEN 0 ELSE 1
  <2>1. memory.items[reading.table][k] = memory'.items[reading.table][k] /\ k \in steady
    BY <1>1, <1>2, <1>5
  <2> QED BY <1>5, <2>1 DEF ReadingInv, Candidates, Matches, Ahead
<1> QED BY <1>3, <1>4, <1>5 DEF ReadingInv, Underway, Candidates, Matches, Ahead
-----------------------------------------------------------------------------
(* The requests the adapter has under way are offered ones, so its calls   *)
(* are operations of the service.                                          *)
RequestsTyped ==
  request \in [Client -> {Idle} \cup [stage : {"described", "read"}, r : Offers]]

LEMMA OffersTyped ==
  ASSUME NEW r \in Offers
  PROVE  /\ r.kind \in ItemRequests => r.w.table \in Table /\ <<ServiceWrite(r)>> \in Requests
         /\ r.kind \in TableRequests => r.table \in Table
<1>1. r \in Offer
  BY RequestsAssumption
<1>2. CASE r \in [kind : ItemRequests, w : WriteOp]
  BY <1>2, RequestsAssumption DEF ItemRequests, TableRequests, WriteOp
<1>3. CASE r \in [kind : TableRequests, table : Table, sets : SUBSET Setting, clears : SUBSET Setting]
  BY <1>3 DEF ItemRequests, TableRequests
<1> QED BY <1>1, <1>2, <1>3 DEF Offer

LEMMA StagesKept ==
  ASSUME RequestsTyped, NEW c \in Client
  PROVE  /\ ~At(c, "idle") => request[c].r \in Offers
         /\ \A r \in Offers : Begin(c, r) => RequestsTyped'
         /\ ~At(c, "idle") /\ Goto(c, "read") => RequestsTyped'
         /\ Answer(c) => RequestsTyped'
<1> DEFINE Stages == [stage : {"described", "read"}, r : Offers]
<1>1. request[c] \in {Idle} \cup Stages
  BY DEF RequestsTyped
<1>2. ~At(c, "idle") => request[c] \in Stages /\ request[c].r \in Offers
  BY <1>1 DEF At, Idle
<1>3. \A x \in {Idle} \cup Stages : request' = [request EXCEPT ![c] = x] => RequestsTyped'
  BY DEF RequestsTyped
<1>4. \A r \in Offers : [stage |-> "described", r |-> r] \in Stages
  OBVIOUS
<1>5. ~At(c, "idle") => [stage |-> "read", r |-> request[c].r] \in Stages
  BY <1>2
<1> QED BY <1>2, <1>3, <1>4, <1>5 DEF Begin, Goto, Answer

LEMMA DescribeIsStep ==
  ASSUME NEW t \in Table, Describe(t)
  PROVE  [TablesNext]_tableVars
BY DEF Describe, TablesNext

LEMMA WriteIsStep ==
  ASSUME NEW w, <<w>> \in Requests, PutItem(w) \/ DeleteItem(w) \/ UpdateItem(w) \/ TransactWriteItems(<<w>>)
  PROVE  TablesNext
<1>1. Len(<<w>>) = 1 /\ <<w>>[1] = w
  OBVIOUS
<1> QED BY <1>1 DEF TablesNext

LEMMA HandlerStep ==
  ASSUME RequestsTyped, NEW c \in Client, Handler(c)
  PROVE  RequestsTyped' /\ [TablesNext]_tableVars
<1>1. ASSUME NEW r \in Offers, BeginItemRequest(c, r)
      PROVE  RequestsTyped' /\ [TablesNext]_tableVars
  BY <1>1, OffersTyped, StagesKept, DescribeIsStep DEF BeginItemRequest
<1>2. ASSUME NEW r \in Offers, BeginCreateTable(c, r)
      PROVE  RequestsTyped' /\ [TablesNext]_tableVars
  <2>1. r.table \in Table /\ {} \in SUBSET Index
    BY <1>2, OffersTyped DEF BeginCreateTable, TableRequests
  <2> QED BY <1>2, <2>1, StagesKept DEF BeginCreateTable, TablesNext
<1>3. ASSUME NEW r \in Offers, BeginUpdateTable(c, r)
      PROVE  RequestsTyped' /\ [TablesNext]_tableVars
  <2>1. r.table \in Table
    BY <1>3, OffersTyped DEF BeginUpdateTable, TableRequests
  <2>2. CASE Describe(r.table)
    BY <1>3, <2>1, <2>2, StagesKept, DescribeIsStep DEF BeginUpdateTable
  <2>3. CASE \E indexes \in SUBSET Index : UpdateTableSchema(r.table, indexes)
    BY <1>3, <2>1, <2>3, StagesKept DEF BeginUpdateTable, TablesNext
  <2> QED BY <1>3, <2>2, <2>3 DEF BeginUpdateTable
<1>4. ASSUME NEW r \in Offers, BeginDeleteTable(c, r)
      PROVE  RequestsTyped' /\ [TablesNext]_tableVars
  BY <1>4, StagesKept DEF BeginDeleteTable
<1>5. CASE ReadItem(c)
  <2>1. ~At(c, "idle")
    BY <1>5 DEF ReadItem, At
  <2> QED BY <1>5, <2>1, StagesKept DEF ReadItem
<1>6. CASE WriteItem(c)
  <2> DEFINE r == request[c].r
  <2>1. r \in Offers
    BY <1>6, StagesKept DEF WriteItem, At
  <2>2. r.kind \in ItemRequests
    BY <1>6 DEF WriteItem, ItemRequests
  <2>3. <<ServiceWrite(r)>> \in Requests
    BY <2>1, <2>2, OffersTyped
  <2>4. \/ PutItem(ServiceWrite(r)) \/ DeleteItem(ServiceWrite(r)) \/ UpdateItem(ServiceWrite(r))
        \/ TransactWriteItems(<<ServiceWrite(r)>>)
    BY <1>6 DEF WriteItem
  <2>5. TablesNext
    BY <2>3, <2>4, WriteIsStep
  <2> QED BY <1>6, <2>5, StagesKept DEF WriteItem
<1>7. CASE WriteRefused(c)
  BY <1>7, StagesKept DEF WriteRefused
<1>8. CASE StoreMeta(c)
  BY <1>8, StagesKept DEF StoreMeta
<1>9. CASE FinishDeleteTable(c)
  <2>1. request[c].r \in Offers /\ request[c].r.kind \in TableRequests
    BY <1>9, StagesKept DEF FinishDeleteTable, At, TableRequests
  <2>2. request[c].r.table \in Table
    BY <2>1, OffersTyped
  <2> QED BY <1>9, <2>2, StagesKept DEF FinishDeleteTable, TablesNext
<1> QED BY <1>1, <1>2, <1>3, <1>4, <1>5, <1>6, <1>7, <1>8, <1>9 DEF Handler

(* Every step of the adapter is a step of the service, or leaves it alone. *)
LEMMA AdapterStep ==
  ASSUME RequestsTyped, [DynamoNext]_dynamoVars
  PROVE  /\ RequestsTyped'
         /\ [TablesNext]_tableVars
         /\ ReadsUntouched \/ (ReadsNext /\ UNCHANGED tableVars) \/ UNCHANGED <<tableVars, readVars>>
<1>1. ASSUME NEW c \in Client, Handler(c), ReadsUntouched
      PROVE  RequestsTyped' /\ [TablesNext]_tableVars
  BY <1>1, HandlerStep
<1>2. CASE SingleCall /\ ReadsUntouched
  BY <1>2 DEF SingleCall, adapterVars, RequestsTyped, TablesNext
<1>3. CASE ProcessRestart /\ ReadsUntouched
  BY <1>3 DEF ProcessRestart, RequestsTyped, TablesNext
<1>4. CASE (Stop \/ Tick) /\ UNCHANGED adapterVars /\ ReadsUntouched
  BY <1>4 DEF adapterVars, RequestsTyped, TablesNext
<1>5. CASE ReadsNext /\ UNCHANGED adapterVars
  <2>1. UNCHANGED tableVars
    BY <1>5 DEF ReadsNext, StartReading, ReadPage, StopReading
  <2> QED BY <1>5, <2>1 DEF adapterVars, RequestsTyped
<1>6. CASE UNCHANGED dynamoVars
  BY <1>6 DEF dynamoVars, adapterVars, RequestsTyped
<1> QED BY <1>1, <1>2, <1>3, <1>4, <1>5, <1>6 DEF DynamoNext

DynamoInv == TablesInv /\ KeysInv /\ RequestsTyped /\ ReadingInv

LEMMA DynamoStarts ==
  ASSUME RequestsInit
  PROVE  DynamoInv
<1>1. TablesInv
  BY EmptyIsState, TablesAssumption DEF RequestsInit, TablesInit, TablesInv, TablesTypeOK, MemoryIsDurable
<1>2. KeysMatch(Empty.items)
  BY TablesAssumption DEF KeysMatch, Empty, Missing, Contents
<1>3. KeysInv
  BY <1>2 DEF RequestsInit, TablesInit, KeysInv
<1>4. RequestsTyped
  BY DEF RequestsInit, RequestsTyped
<1>5. ReadingInv
  BY DEF RequestsInit, ReadsInit, ReadingInv, Underway, ReadIsComplete, NotReading
<1> QED BY <1>1, <1>3, <1>4, <1>5 DEF DynamoInv

LEMMA DynamoStep ==
  ASSUME DynamoInv, [DynamoNext]_dynamoVars
  PROVE  DynamoInv' /\ [TablesNext]_tableVars
<1>1. /\ RequestsTyped'
      /\ [TablesNext]_tableVars
      /\ ReadsUntouched \/ (ReadsNext /\ UNCHANGED tableVars) \/ UNCHANGED <<tableVars, readVars>>
  BY AdapterStep DEF DynamoInv
<1>2. TablesInv' /\ KeysInv'
  BY <1>1, TablesStep, TablesKeepKeys DEF DynamoInv
<1>3. ReadingInv'
  <2>1. CASE ReadsUntouched
    BY <2>1, UntouchedKeeps DEF DynamoInv
  <2>2. CASE ReadsNext
    BY <2>2, ReadStarts, PageKeeps, ReadEnds DEF DynamoInv, ReadsNext
  <2>3. CASE UNCHANGED <<tableVars, readVars>>
    BY <2>3 DEF DynamoInv, ReadingInv, Underway, ReadIsComplete, Candidates, Matches, Ahead, tableVars, readVars
  <2> QED BY <1>1, <2>1, <2>2, <2>3
<1> QED BY <1>1, <1>2, <1>3 DEF DynamoInv

THEOREM DynamoInductive == DynamoSpec => []DynamoInv
<1>1. RequestsInit => DynamoInv
  BY DynamoStarts
<1>2. DynamoInv /\ [DynamoNext]_dynamoVars => DynamoInv'
  BY DynamoStep
<1> QED BY <1>1, <1>2, PTL DEF DynamoSpec

(* Through the adapter, too, the service does nothing but its operations:  *)
(* what is proved of it holds whatever requests are under way.             *)
THEOREM AdapterRefines == DynamoSpec => TablesSpec
<1>1. RequestsInit => TablesInit
  BY DEF RequestsInit
<1>2. DynamoInv /\ [DynamoNext]_dynamoVars => [TablesNext]_tableVars
  BY DynamoStep
<1> QED BY <1>1, <1>2, DynamoInductive, PTL DEF DynamoSpec, TablesSpec

(* A Query or Scan that a client completes page by page has returned once  *)
(* every item that it matched from its start to its end, whatever the      *)
(* other requests and restarts did between its pages.                      *)
THEOREM CompleteReads == DynamoSpec => []ReadIsComplete
<1>1. DynamoInv => ReadIsComplete
  BY DEF DynamoInv, ReadingInv
<1> QED BY <1>1, DynamoInductive, PTL
-----------------------------------------------------------------------------
(* What deletion protection needs (dynamo_protection shows that it is lost *)
(* with the process, and why ProtectionKept cannot be proved as such).     *)

ChangesTable(c) == At(c, "described") /\ request[c].r.kind \in TableRequests

(* The handlers of two requests that change one table do not overlap.      *)
OneByOne ==
  \A c, d \in Client :
    c # d /\ ChangesTable(c) /\ ChangesTable(d) => request[c].r.table # request[d].r.table

Lives(t) == memory.tables[t].status \in {"CREATING", "ACTIVE"}

(* The adapter remembers what it promised, a table lives on while a        *)
(* request is about to store its settings, and a request that is about to  *)
(* delete a table or to lift its protection may do so.                     *)
ProtectionInv ==
  /\ meta = [t \in Table |-> meta[t]]
  /\ \A t \in promised : t \in Table /\ Lives(t) /\ "protection" \in meta[t]
  /\ \A c \in Client : ChangesTable(c) =>
       LET r == request[c].r
       IN  /\ r.kind # "delete_table" => Lives(r.table)
           /\ r.kind # "delete_table" /\ "protection" \in r.clears => r.table \notin promised
           /\ r.kind = "delete_table" => "protection" \notin meta[r.table]

(* What the service may do and leave the table alive. *)
Spares(t) ==
  \/ UNCHANGED memory
  \/ \E items : CommitItems(items)
  \/ \E o \in Table, indexes \in SUBSET Index : CreateTable(o, indexes) \/ UpdateTableSchema(o, indexes)
  \/ \E o \in Table : DescribeTable(o)
  \/ \E o \in Table \ {t} : DeleteTable(o)

LEMMA LivesOn ==
  ASSUME TablesInv, NEW t \in Table, Lives(t), Spares(t)
  PROVE  Lives(t)'
<1>1. /\ memory = [tables |-> memory.tables, items |-> memory.items]
      /\ memory.tables \in [Table -> TableRecord]
  BY DEF TablesInv, TablesTypeOK, State
<1>2. ASSUME NEW o \in Table, NEW record, CommitTable(o, record)
      PROVE  memory'.tables[t] = IF t = o THEN record ELSE memory.tables[t]
  BY <1>1, <1>2 DEF CommitTable, Commit
<1>3. CASE UNCHANGED memory
  BY <1>3 DEF Lives
<1>4. ASSUME NEW items, CommitItems(items) PROVE Lives(t)'
  <2>1. memory'.tables = memory.tables
    BY <1>1, <1>4 DEF CommitItems, Commit
  <2> QED BY <2>1 DEF Lives
<1>5. ASSUME NEW o \in Table, NEW indexes \in SUBSET Index, CreateTable(o, indexes)
      PROVE  Lives(t)'
  BY <1>2, <1>5 DEF CreateTable, HasTable, Lives
<1>6. ASSUME NEW o \in Table, NEW indexes \in SUBSET Index, UpdateTableSchema(o, indexes)
      PROVE  Lives(t)'
  <2>1. memory.tables[o] \in TableRecord
    BY <1>1
  <2> DEFINE record == [memory.tables[o] EXCEPT !.indexes = @ \cup indexes]
  <2>2. record.status = memory.tables[o].status /\ CommitTable(o, record)
    BY <1>6, <2>1 DEF UpdateTableSchema, TableRecord
  <2> HIDE DEF record
  <2> QED BY <1>2, <2>2 DEF Lives
<1>7. ASSUME NEW o \in Table, DescribeTable(o) PROVE Lives(t)'
  <2>1. memory.tables[o] \in TableRecord
    BY <1>1
  <2>2. Materialized(memory.tables[o]).status \in {"ACTIVE", memory.tables[o].status}
    BY <2>1 DEF Materialized, TableRecord
  <2> QED BY <1>2, <1>7, <2>2 DEF DescribeTable, Lives
<1>8. ASSUME NEW o \in Table \ {t}, DeleteTable(o) PROVE Lives(t)'
  BY <1>2, <1>8 DEF DeleteTable, Lives
<1> QED BY <1>3, <1>4, <1>5, <1>6, <1>7, <1>8 DEF Spares

LEMMA WritesSpare ==
  ASSUME NEW t
  PROVE  /\ \A w : PutItem(w) \/ DeleteItem(w) \/ UpdateItem(w) => Spares(t)
         /\ \A writes : TransactWriteItems(writes) => Spares(t)
         /\ \A batch : BatchWriteItem(batch) => Spares(t)
         /\ \A o \in Table : Describe(o) => Spares(t)
BY DEF PutItem, DeleteItem, UpdateItem, TransactWriteItems, BatchWriteItem, Describe, Spares, tableVars

(* A step that begins no request on a table and tells nobody anything.     *)
LEMMA ProtectionStays ==
  ASSUME DynamoInv, ProtectionInv, UNCHANGED <<meta, promised>>,
         \A t \in Table : Spares(t),
         \A c \in Client : ChangesTable(c)' => ChangesTable(c) /\ request'[c] = request[c]
  PROVE  ProtectionInv'
<1>1. \A t \in Table : Lives(t) => Lives(t)'
  BY LivesOn DEF DynamoInv
<1>2. \A c \in Client : ChangesTable(c) => request[c].r.table \in Table
  BY OffersTyped, StagesKept DEF DynamoInv, ChangesTable, At
<1>3. \A t \in promised' : t \in Table /\ Lives(t)' /\ "protection" \in meta'[t]
  BY <1>1 DEF ProtectionInv
<1>4. ASSUME NEW c \in Client, ChangesTable(c)'
      PROVE  /\ request'[c].r.kind # "delete_table" => Lives(request[c].r.table)'
             /\ request'[c].r.kind # "delete_table" /\ "protection" \in request'[c].r.clears =>
                  request'[c].r.table \notin promised'
             /\ request'[c].r.kind = "delete_table" => "protection" \notin meta'[request'[c].r.table]
  <2>1. ChangesTable(c) /\ request'[c] = request[c]
    BY <1>4
  <2> QED BY <1>1, <1>2, <2>1 DEF ProtectionInv
<1> QED BY <1>3, <1>4 DEF ProtectionInv, Lives

(* The requests of a handler that does one step.                           *)
LEMMA OthersKept ==
  ASSUME RequestsTyped, NEW c \in Client, NEW d \in Client \ {c}
  PROVE  /\ \A r \in Offers : Begin(c, r) => request'[d] = request[d] /\ request'[c] = [stage |-> "described", r |-> r]
         /\ Goto(c, "read") => request'[d] = request[d] /\ ~At(c, "described")'
         /\ Answer(c) => request'[d] = request[d] /\ ~At(c, "described")'
BY DEF RequestsTyped, Begin, Goto, Answer, At, Idle

LEMMA OwnKept ==
  ASSUME RequestsTyped, NEW c \in Client
  PROVE  /\ \A r \in Offers : Begin(c, r) => request'[c] = [stage |-> "described", r |-> r]
         /\ Goto(c, "read") \/ Answer(c) => ~At(c, "described")'
BY DEF RequestsTyped, Begin, Goto, Answer, At, Idle

(* A step that is not about protection. *)
LEMMA PlainStepProtects ==
  ASSUME DynamoInv, ProtectionInv, NEW c \in Client,
         \/ \E r \in Offers : BeginItemRequest(c, r)
         \/ ReadItem(c) \/ WriteItem(c) \/ WriteRefused(c)
  PROVE  ProtectionInv'
<1>1. UNCHANGED <<meta, promised>> /\ RequestsTyped
  BY DEF DynamoInv, BeginItemRequest, ReadItem, WriteItem, WriteRefused
<1>2. ASSUME NEW t \in Table PROVE Spares(t)
  <2>1. ASSUME NEW r \in Offers, BeginItemRequest(c, r) PROVE Spares(t)
    BY <2>1, OffersTyped, WritesSpare DEF BeginItemRequest
  <2>2. CASE ReadItem(c) \/ WriteRefused(c)
    BY <2>2 DEF ReadItem, WriteRefused, Spares, tableVars
  <2>3. CASE WriteItem(c)
    BY <2>3, WritesSpare DEF WriteItem
  <2> QED BY <2>1, <2>2, <2>3
<1>3. ASSUME NEW d \in Client, ChangesTable(d)' PROVE ChangesTable(d) /\ request'[d] = request[d]
  <2>1. ASSUME NEW r \in Offers, BeginItemRequest(c, r) PROVE request'[d] = request[d]
    <3>1. Begin(c, r) /\ r.kind \in ItemRequests
      BY <2>1 DEF BeginItemRequest
    <3>2. request'[c] = [stage |-> "described", r |-> r]
      BY <1>1, <3>1, OwnKept
    <3>3. d # c
      BY <1>3, <3>1, <3>2 DEF ChangesTable, ItemRequests, TableRequests
    <3> QED BY <1>1, <3>1, <3>3, OthersKept
  <2>2. ASSUME ReadItem(c) \/ WriteItem(c) \/ WriteRefused(c) PROVE request'[d] = request[d]
    <3>1. Goto(c, "read") \/ Answer(c)
      BY <2>2 DEF ReadItem, WriteItem, WriteRefused
    <3>2. d # c
      BY <1>1, <1>3, <3>1, OwnKept DEF ChangesTable
    <3> QED BY <1>1, <3>1, <3>2, OthersKept
  <2>3. request'[d] = request[d]
    BY <2>1, <2>2
  <2> QED BY <1>3, <2>3 DEF ChangesTable, At
<1> QED BY <1>1, <1>2, <1>3, ProtectionStays

LEMMA BeginProtects ==
  ASSUME DynamoInv, ProtectionInv, OneByOne', NEW c \in Client, NEW r \in Offers,
         BeginCreateTable(c, r) \/ BeginUpdateTable(c, r) \/ BeginDeleteTable(c, r)
  PROVE  ProtectionInv'
<1>1. /\ RequestsTyped /\ TablesInv /\ r.table \in Table /\ r.kind \in TableRequests
      /\ request'[c] = [stage |-> "described", r |-> r]
      /\ \A d \in Client \ {c} : request'[d] = request[d]
      /\ meta' = meta /\ promised' \subseteq promised
  BY OffersTyped, OwnKept, OthersKept
  DEF DynamoInv, BeginCreateTable, BeginUpdateTable, BeginDeleteTable, TableRequests
<1>2. \A t \in Table : Spares(t)
  <2>1. CASE BeginCreateTable(c, r)
    BY <1>1, <2>1 DEF BeginCreateTable, Spares
  <2>2. CASE BeginUpdateTable(c, r)
    BY <1>1, <2>2, WritesSpare DEF BeginUpdateTable, Spares
  <2>3. CASE BeginDeleteTable(c, r)
    BY <2>3 DEF BeginDeleteTable, Spares, tableVars
  <2> QED BY <2>1, <2>2, <2>3
<1>3. \A t \in Table : Lives(t) => Lives(t)'
  BY <1>1, <1>2, LivesOn
<1>4. \A t \in promised' : t \in Table /\ Lives(t)' /\ "protection" \in meta'[t]
  BY <1>1, <1>3 DEF ProtectionInv
<1>5. ASSUME NEW d \in Client \ {c}, ChangesTable(d)'
      PROVE  /\ ChangesTable(d) /\ request'[d] = request[d]
             /\ request[d].r.table \in Table
  BY <1>1, <1>5, OffersTyped, StagesKept DEF ChangesTable, At
<1>6. \/ r.kind = "delete_table" /\ "protection" \notin meta[r.table]
      \/ /\ r.kind # "delete_table" /\ Lives(r.table)'
         /\ "protection" \in r.clears => r.table \notin promised'
  <2>1. CASE BeginCreateTable(c, r)
    <3>1. ~HasTable(memory, r.table) /\ Lives(r.table)' /\ promised' = promised
      BY <1>1, <2>1 DEF BeginCreateTable, CreateTable, CommitTable, Commit, Lives,
         TablesInv, TablesTypeOK, State
    <3> QED BY <2>1, <3>1 DEF BeginCreateTable, ProtectionInv, Lives, HasTable
  <2>2. CASE BeginUpdateTable(c, r)
    <3>1. Lives(r.table)
      BY <2>2 DEF BeginUpdateTable, Describe, UpdateTableSchema, Lives
    <3> QED BY <1>1, <1>3, <2>2, <3>1 DEF BeginUpdateTable
  <2>3. CASE BeginDeleteTable(c, r)
    BY <2>3 DEF BeginDeleteTable
  <2> QED BY <2>1, <2>2, <2>3
<1>7. ASSUME NEW d \in Client, ChangesTable(d)'
      PROVE  /\ request'[d].r.kind # "delete_table" => Lives(request[d].r.table)'
             /\ request'[d].r.kind # "delete_table" /\ "protection" \in request'[d].r.clears =>
                  request'[d].r.table \notin promised'
             /\ request'[d].r.kind = "delete_table" => "protection" \notin meta'[request'[d].r.table]
  <2>1. CASE d = c
    BY <1>1, <1>6, <2>1 DEF Lives
  <2>2. CASE d # c
    BY <1>1, <1>3, <1>5, <1>7, <2>2 DEF ProtectionInv
  <2> QED BY <2>1, <2>2
<1>8. meta' = [t \in Table |-> meta'[t]]
  BY <1>1 DEF ProtectionInv
<1> QED BY <1>4, <1>7, <1>8 DEF ProtectionInv, Lives

LEMMA StoreMetaProtects ==
  ASSUME DynamoInv, ProtectionInv, OneByOne, NEW c \in Client, StoreMeta(c)
  PROVE  ProtectionInv'
<1> DEFINE r == request[c].r
<1>1. /\ r \in Offers /\ r.kind \in {"create_table", "update_table"} /\ r.table \in Table
      /\ ChangesTable(c) /\ memory' = memory
      /\ meta' = [meta EXCEPT ![r.table] = (@ \ r.clears) \cup r.sets]
      /\ promised' = IF "protection" \in r.sets THEN promised \cup {r.table} ELSE promised
  BY OffersTyped, StagesKept DEF DynamoInv, StoreMeta, At, ChangesTable, TableRequests, tableVars
<1>2. ~ChangesTable(c)' /\ \A d \in Client \ {c} : request'[d] = request[d]
  BY OwnKept, OthersKept DEF DynamoInv, StoreMeta, ChangesTable
<1>3. Lives(r.table) /\ ("protection" \in r.clears => r.table \notin promised)
  BY <1>1 DEF ProtectionInv
<1>4. ASSUME NEW d \in Client, ChangesTable(d)'
      PROVE  ChangesTable(d) /\ request'[d] = request[d] /\ request[d].r.table # r.table
  BY <1>1, <1>2, <1>4 DEF ChangesTable, At, OneByOne
<1> HIDE DEF r
<1>5. ASSUME NEW t \in promised'
      PROVE  t \in Table /\ Lives(t)' /\ "protection" \in meta'[t]
  BY <1>1, <1>3, <1>5 DEF ProtectionInv, Lives
<1>6. ASSUME NEW d \in Client, ChangesTable(d)'
      PROVE  /\ request'[d].r.kind # "delete_table" => Lives(request[d].r.table)'
             /\ request'[d].r.kind # "delete_table" /\ "protection" \in request'[d].r.clears =>
                  request'[d].r.table \notin promised'
             /\ request'[d].r.kind = "delete_table" => "protection" \notin meta'[request'[d].r.table]
  BY <1>1, <1>4, <1>6 DEF ProtectionInv, Lives
<1>7. meta' = [t \in Table |-> meta'[t]]
  BY <1>1 DEF ProtectionInv
<1> QED BY <1>5, <1>6, <1>7 DEF ProtectionInv, Lives

LEMMA DeleteProtects ==
  ASSUME DynamoInv, ProtectionInv, OneByOne, NEW c \in Client, FinishDeleteTable(c)
  PROVE  ProtectionInv'
<1> DEFINE r == request[c].r
<1>1. /\ r \in Offers /\ r.kind = "delete_table" /\ r.table \in Table
      /\ ChangesTable(c) /\ (DeleteTable(r.table) \/ UNCHANGED tableVars)
      /\ meta' = [meta EXCEPT ![r.table] = {}] /\ promised' = promised
  BY OffersTyped, StagesKept DEF DynamoInv, FinishDeleteTable, At, ChangesTable, TableRequests
<1>2. ~ChangesTable(c)' /\ \A d \in Client \ {c} : request'[d] = request[d]
  BY OwnKept, OthersKept DEF DynamoInv, FinishDeleteTable, ChangesTable
<1>3. r.table \notin promised
  BY <1>1 DEF ProtectionInv
<1>4. ASSUME NEW d \in Client, ChangesTable(d)'
      PROVE  /\ ChangesTable(d) /\ request'[d] = request[d] /\ request[d].r.table # r.table
             /\ request[d].r.table \in Table
  BY <1>1, <1>2, <1>4, OffersTyped, StagesKept DEF DynamoInv, ChangesTable, At, OneByOne
<1> HIDE DEF r
<1>5. \A t \in Table \ {r.table} : Lives(t) => Lives(t)'
  BY <1>1, LivesOn DEF DynamoInv, Spares, tableVars
<1>6. \A t \in promised' : t \in Table /\ Lives(t)' /\ "protection" \in meta'[t]
  BY <1>1, <1>3, <1>5 DEF ProtectionInv
<1>7. ASSUME NEW d \in Client, ChangesTable(d)'
      PROVE  /\ request'[d].r.kind # "delete_table" => Lives(request[d].r.table)'
             /\ request'[d].r.kind # "delete_table" /\ "protection" \in request'[d].r.clears =>
                  request'[d].r.table \notin promised'
             /\ request'[d].r.kind = "delete_table" => "protection" \notin meta'[request'[d].r.table]
  BY <1>1, <1>4, <1>5, <1>7 DEF ProtectionInv
<1>8. meta' = [t \in Table |-> meta'[t]]
  BY <1>1 DEF ProtectionInv
<1> QED BY <1>6, <1>7, <1>8 DEF ProtectionInv, Lives

LEMMA ProtectionStep ==
  ASSUME DynamoInv, ProtectionInv, OneByOne, OneByOne', [DynamoNext]_dynamoVars, ~ProcessRestart
  PROVE  ProtectionInv'
<1>1. ASSUME NEW c \in Client, Handler(c) PROVE ProtectionInv'
  BY <1>1, PlainStepProtects, BeginProtects, StoreMetaProtects, DeleteProtects DEF Handler
<1>2. ASSUME UNCHANGED adapterVars, \A t \in Table : Spares(t) PROVE ProtectionInv'
  <2>1. UNCHANGED <<meta, promised, request>>
    BY <1>2 DEF adapterVars
  <2> QED BY <1>2, <2>1, ProtectionStays DEF ChangesTable, At
<1>3. CASE SingleCall
  BY <1>2, <1>3, WritesSpare DEF SingleCall, Spares
<1>4. CASE (Stop \/ Tick) /\ UNCHANGED adapterVars
  BY <1>2, <1>4 DEF Stop, Tick, Spares
<1>5. CASE (ReadsNext /\ UNCHANGED adapterVars) \/ UNCHANGED dynamoVars
  <2>1. UNCHANGED <<adapterVars, memory>>
    BY <1>5 DEF ReadsNext, StartReading, ReadPage, StopReading, dynamoVars, tableVars
  <2> QED BY <1>2, <2>1 DEF Spares
<1> QED BY <1>1, <1>3, <1>4, <1>5 DEF DynamoNext

(* As long as the process lives and no two requests that change one table  *)
(* overlap, a table that a client was told is protected is not deleted     *)
(* before a client lifts that, whatever the other requests do, a stopped   *)
(* service included: a restart (dynamo_protection) or an overlap is what   *)
(* it takes to lose the protection.                                        *)
THEOREM ProtectionWithoutRestart ==
  DynamoSpec /\ [][~ProcessRestart]_dynamoVars /\ []OneByOne => []ProtectionKept
<1>1. RequestsInit => ProtectionInv
  BY DEF RequestsInit, ProtectionInv, ChangesTable, At, Idle
<1>2. /\ DynamoInv /\ ProtectionInv /\ OneByOne /\ OneByOne'
      /\ [DynamoNext]_dynamoVars /\ [~ProcessRestart]_dynamoVars
      => ProtectionInv'
  <2>1. ASSUME DynamoInv, ProtectionInv, UNCHANGED dynamoVars PROVE ProtectionInv'
    BY <2>1 DEF dynamoVars, tableVars, adapterVars, ProtectionInv, Lives, ChangesTable, At
  <2> QED BY <2>1, ProtectionStep
<1>3. ProtectionInv => ProtectionKept
  BY DEF ProtectionInv, ProtectionKept, Lives
<1> QED BY <1>1, <1>2, <1>3, DynamoInductive, PTL DEF DynamoSpec
=============================================================================
