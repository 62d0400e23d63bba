----------------------------- MODULE SqsDelivery -----------------------------
(***************************************************************************)
(* The pure rules of SQS delivery: when a message is delayed, leased,      *)
(* receivable, next in its FIFO group, or due for its dead-letter queue.   *)
(* They are functions of one message, the record of its queue and a clock  *)
(* reading, and change nothing: SqsQueue is the service that applies them. *)
(*                                                                         *)
(* Times are natural numbers and 0 is Go's zero time.Time.  A message id   *)
(* is a natural number, so that the lexical tie-break on the random UUID   *)
(* is the order of the ids; which id a message gets is left open.  Group   *)
(* ids are positive numbers for the same reason, and 0 is the empty one.   *)
(***************************************************************************)
EXTENDS Integers, FiniteSets

CONSTANTS
  QueueName,          (* names a client may give a queue                   *)
  MsgId,              (* message ids (uuid.NewString)                      *)
  Group,              (* message group ids                                 *)
  DedupId,            (* deduplication ids, and hashes of message bodies   *)
  NoQueue,            (* the empty queue name                              *)
  NoGroup,            (* the empty group id                                *)
  NoDedup,            (* the empty deduplication id                        *)
  DefaultVisibility   (* defaultVisibilityTimeoutSeconds                   *)

ASSUME DeliveryAssumption ==
  /\ NoQueue \notin QueueName
  /\ NoGroup = 0
  /\ Group \subseteq Nat \ {0}
  /\ NoDedup \notin DedupId
  /\ MsgId \subseteq Nat
  /\ DefaultVisibility \in Nat \ {0}
-----------------------------------------------------------------------------
(* What the service reads of a queue's attribute map.  0 stands for a      *)
(* missing, unparsable or zero number: the code treats the three alike.    *)
(* dlq and maxReceive are the two fields of RedrivePolicy.                 *)
Attributes ==
  [fifo : BOOLEAN, visibility : Nat, delay : Nat,
   dlq : QueueName \cup {NoQueue}, maxReceive : Nat,
   groupScope : BOOLEAN, contentDedup : BOOLEAN]

NoAttributes ==
  [fifo |-> FALSE, visibility |-> 0, delay |-> 0, dlq |-> NoQueue,
   maxReceive |-> 0, groupScope |-> FALSE, contentDedup |-> FALSE]

(* A queue record.  fifo is OrderingHint = "fifo", which subsumes          *)
(* attrs.fifo.  A name that was never created has createdAt = 0.           *)
Queue ==
  [attrs : Attributes, fifo : BOOLEAN,
   createdAt : Nat, deletedAt : Nat, purgedAt : Nat]

NoRecord ==
  [attrs |-> NoAttributes, fifo |-> FALSE,
   createdAt |-> 0, deletedAt |-> 0, purgedAt |-> 0]

(* A message.  lease is Metadata["visibility_timeout_seconds"] (0: absent  *)
(* or "0").  attempts is Recovery.Attempts and also the length of          *)
(* ReceiptKeys: one receive increments the one and appends to the other,   *)
(* and nothing else writes either.  The receipt handle of the k-th receive *)
(* of message m is the pair m, k.                                          *)
Message ==
  [queue : QueueName \cup {NoQueue}, group : Group \cup {NoGroup},
   dedup : DedupId \cup {NoDedup}, seq : Nat,
   sentAt : Nat, availableAt : Nat, receivedAt : Nat, lease : Nat,
   attempts : Nat, dlq : QueueName \cup {NoQueue},
   source : QueueName \cup {NoQueue}, deadLetteredAt : Nat]

(* The entry of an id that is not in State.Messages.                       *)
Absent ==
  [queue |-> NoQueue, group |-> NoGroup, dedup |-> NoDedup, seq |-> 0,
   sentAt |-> 0, availableAt |-> 0, receivedAt |-> 0, lease |-> 0,
   attempts |-> 0, dlq |-> NoQueue, source |-> NoQueue, deadLetteredAt |-> 0]
-----------------------------------------------------------------------------
(* The lease on a message: its own timeout if it has one, else the queue's *)
(* VisibilityTimeout, else the default.                                    *)
VisibilityTimeout(q, msg) ==
  IF msg.lease > 0 THEN msg.lease
  ELSE IF q.attrs.visibility > 0 THEN q.attrs.visibility
  ELSE DefaultVisibility

(* The lease deadline is an exclusive bound: at the deadline the message   *)
(* is visible again.                                                       *)
LeaseDeadline(q, msg) == msg.receivedAt + VisibilityTimeout(q, msg)

IsDelayed(msg, t) == t < msg.availableAt

IsVisible(q, msg, t) ==
  /\ ~IsDelayed(msg, t)
  /\ msg.receivedAt = 0 \/ t >= LeaseDeadline(q, msg)

IsInvisible(q, msg, t) == ~IsDelayed(msg, t) /\ ~IsVisible(q, msg, t)

CanRedeliver(q, msg, t) ==
  /\ ~IsDelayed(msg, t)
  /\ msg.receivedAt # 0
  /\ t >= LeaseDeadline(q, msg)

(* Mistaken variant of IsDeadLetterEligible: one receive too many.         *)
EligibleAfterLimit(q, msg, t) ==
  /\ msg.dlq = NoQueue
  /\ q.attrs.maxReceive > 0
  /\ msg.attempts > q.attrs.maxReceive
  /\ CanRedeliver(q, msg, t) \/ IsVisible(q, msg, t)

(* Used up its receives, was never redriven, and nobody holds it.          *)
IsDeadLetterEligible(q, msg, t) ==
  /\ msg.dlq = NoQueue
  /\ q.attrs.maxReceive > 0
  /\ msg.attempts >= q.attrs.maxReceive
  /\ CanRedeliver(q, msg, t) \/ IsVisible(q, msg, t)

(* A message redriven to a queue that was missing keeps the name of its    *)
(* source and is hidden from it.                                           *)
MessageVisibleInQueue(msg, name) ==
  /\ msg.queue = name
  /\ msg.source = name => msg.dlq = name
-----------------------------------------------------------------------------
(* The order of ids i and j whose messages are a and b.  By send time,     *)
(* then by availability time, then by id.                                  *)
OlderThan(a, i, b, j) ==
  \/ a.sentAt < b.sentAt
  \/ a.sentAt = b.sentAt /\ a.availableAt < b.availableAt
  \/ a.sentAt = b.sentAt /\ a.availableAt = b.availableAt /\ i < j

(* compareFIFOMessageOrder < 0: sequence numbers decide when both messages *)
(* have one.                                                               *)
FifoBefore(a, i, b, j) ==
  IF a.seq > 0 /\ b.seq > 0 /\ a.seq # b.seq
  THEN a.seq < b.seq
  ELSE OlderThan(a, i, b, j)

(* The order in which sortMessagesByDelivery puts deliverable messages.    *)
DeliveredBefore(q, a, i, b, j) ==
  IF q.fifo /\ a.group # b.group THEN a.group < b.group
  ELSE IF q.fifo THEN FifoBefore(a, i, b, j)
  ELSE OlderThan(a, i, b, j)

(* An earlier message of the same group holds this one back, whatever the  *)
(* state of the earlier one: ready, delayed or in flight.                  *)
FifoDeliveryBlocked(msgs, m, name) ==
  /\ msgs[m].group # NoGroup
  /\ \E o \in MsgId \ {m} :
        /\ MessageVisibleInQueue(msgs[o], name)
        /\ msgs[o].group = msgs[m].group
        /\ FifoBefore(msgs[o], o, msgs[m], m)
=============================================================================
