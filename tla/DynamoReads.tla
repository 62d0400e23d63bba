------------------------------ MODULE DynamoReads ---------------------------
(***************************************************************************)
(* Query and Scan of the DynamoDB service, page by page.  Every page is    *)
(* one request: it orders the items anew, finds the item the last page     *)
(* ended with by its key attributes, and goes on behind it.  Between two   *)
(* pages anything may happen to the items.                                 *)
(***************************************************************************)
EXTENDS DynamoTables

CONSTANTS
  Partition,  (* the partition of a key                                    *)
  KeyRank,    (* the order of keys by their attributes, numbers as numbers *)
  Queries,    (* the reads clients ask for                                 *)
  Limits      (* and the sizes of their pages                              *)

(* A scan of a table, a query of one partition, or of the items whose      *)
(* other attribute has a value (an index on it); a filter on that          *)
(* attribute is applied to what a page has read.                           *)
Query ==
  [kind : {"scan", "query", "index"}, table : Table, by : Nat,
   forward : BOOLEAN, filter : SUBSET (0..MaxVal)]

ASSUME ReadsAssumption ==
  /\ Partition \in [DocKey -> Nat]
  /\ KeyRank \in [DocKey -> Nat]
  /\ Queries \subseteq Query
  /\ Limits \subseteq Nat \ {0}

VARIABLES
  reading,   \* the read in progress, or NotReading
  cursor,    \* LastEvaluatedKey of its last page, NoKey at its start
  returned,  \* how often it has returned each key
  steady     \* History: the items it matched at its start, unchanged since

readVars == <<reading, cursor, returned, steady>>

NotReading == [kind |-> "none"]
Finished(q) == [q EXCEPT !.kind = "finished"]

ReadsInit ==
  /\ reading = NotReading
  /\ cursor = NoKey
  /\ returned = [k \in Key |-> 0]
  /\ steady = {}
-----------------------------------------------------------------------------
Matches(q, item) ==
  /\ item.present
  /\ CASE q.kind = "scan"  -> TRUE
       [] q.kind = "query" -> item.key # NoKey /\ Partition[item.key] = q.by
       [] q.kind = "index" -> item.val = q.by

Candidates(q, items) == {k \in Key : Matches(q, items[q.table][k])}

(* A query compares the key attributes, an item that has them first, and   *)
(* then the texts; a scan compares the texts.                              *)
Precedes(q, items, j, k) ==
  LET left == items[q.table][j].key
      right == items[q.table][k].key
  IN  IF q.kind = "scan" \/ left = right
      THEN j < k
      ELSE IF left = NoKey \/ right = NoKey
           THEN right = NoKey
           ELSE \/ KeyRank[left] < KeyRank[right]
                \/ KeyRank[left] = KeyRank[right] /\ j < k

(* OrderQueryItems: the item j comes before the item k in the read's order. *)
Comes(q, items, j, k) ==
  IF q.kind = "scan" \/ q.forward THEN Precedes(q, items, j, k) ELSE Precedes(q, items, k, j)

Behind(q, items, start) == {k \in Candidates(q, items) : Comes(q, items, start, k)}

(* Mistaken variant of LocateExclusiveStartKey: a read whose last item is  *)
(* gone starts over.                                                       *)
LocateOrStartOver(q, items, from) ==
  LET found == {k \in Candidates(q, items) : items[q.table][k].key = from}
  IN  IF found = {} THEN {Candidates(q, items)} ELSE {Behind(q, items, k) : k \in found}

(* What a page may have left to read: what is behind the item with the     *)
(* cursor's attributes, unless an item met before it has none.             *)
LocateExclusiveStartKey(q, items, from) ==
  LET all == Candidates(q, items)
      found == {k \in all :
                  /\ items[q.table][k].key = from
                  /\ \A j \in all : Comes(q, items, j, k) => items[q.table][j].key \notin {from, NoKey}}
  IN  IF from = NoKey THEN {all} ELSE {Behind(q, items, k) : k \in found}

(* The page of what is left that ends with one of its items. *)
PageUpTo(q, items, left, last) == {k \in left : k = last \/ Comes(q, items, k, last)}
-----------------------------------------------------------------------------
StartReading(q) ==
  /\ HasTable(memory, q.table)
  /\ reading' = q
  /\ cursor' = NoKey
  /\ returned' = [k \in Key |-> 0]
  /\ steady' = {k \in Candidates(q, memory.items) : memory.items[q.table][k].val \in q.filter}
  /\ UNCHANGED tableVars

Returns(page) ==
  returned' = [k \in Key |->
    IF k \in page /\ memory.items[reading.table][k].val \in reading.filter
    THEN returned[k] + 1 ELSE returned[k]]

(* The page that reaches the end has no LastEvaluatedKey: the read is      *)
(* complete.  Any other ends with the last item it has room for.           *)
ReadPage(limit) ==
  /\ reading.kind \in {"scan", "query", "index"}
  /\ \E left \in LocateExclusiveStartKey(reading, memory.items, cursor) :
       \/ /\ Cardinality(left) <= limit
          /\ Returns(left)
          /\ reading' = Finished(reading)
          /\ UNCHANGED cursor
       \/ /\ Cardinality(left) > limit
          /\ \E last \in left :
               LET page == PageUpTo(reading, memory.items, left, last)
                   item == memory.items[reading.table][last]
               IN  /\ Cardinality(page) = limit
                   /\ Returns(page)
                   /\ item.key # NoKey
                   /\ cursor' = item.key
          /\ UNCHANGED reading
  /\ UNCHANGED <<tableVars, steady>>

(* After the last page, or after one that was refused, the client is done. *)
StopReading ==
  /\ reading # NotReading
  /\ reading' = NotReading
  /\ cursor' = NoKey
  /\ returned' = [k \in Key |-> 0]
  /\ steady' = {}
  /\ UNCHANGED tableVars

ReadsNext ==
  \/ \E q \in Queries : reading = NotReading /\ StartReading(q)
  \/ \E limit \in Limits : ReadPage(limit)
  \/ StopReading

(* What any other step leaves of a read. *)
ReadsUntouched ==
  /\ UNCHANGED <<reading, cursor, returned>>
  /\ steady' = IF reading = NotReading THEN {}
               ELSE {k \in steady : memory.items[reading.table][k] = memory'.items[reading.table][k]}
-----------------------------------------------------------------------------
(* A read that was completed page by page has returned every item that it  *)
(* matched from its start to its end, and returned it once, whatever was   *)
(* put, updated and deleted between its pages, its last item included, and *)
(* whenever the process restarted.                                         *)
ReadIsComplete ==
  reading.kind = "finished" => \A k \in steady : returned[k] = 1
=============================================================================
