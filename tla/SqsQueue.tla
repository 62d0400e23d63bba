------------------------------ MODULE SqsQueue ------------------------------
(***************************************************************************)
(* The SQS service: its queues, its messages and every operation that      *)
(* changes them, from CreateQueue to the dead-letter sweep.  Each          *)
(* operation holds the service's one mutex from its first read to its last *)
(* write, so each is one action; a long poll releases the mutex between    *)
(* two polls, and each poll is one action.  A poll and the worker read the *)
(* clock before they wait for the mutex: they work with a time t that may  *)
(* be past.  Operations that fail or change nothing (a stale receipt       *)
(* handle, a cooldown, a duplicate send) are the stuttering steps of the   *)
(* specification.                                                          *)
(*                                                                         *)
(* The state is the one in memory.  What the service saves, and what a     *)
(* failed save or a restart does to it, is not part of this module.        *)
(***************************************************************************)
EXTENDS SqsDelivery

CONSTANTS
  DedupWindow,        (* fifoDeduplicationWindow                           *)
  Cooldown,           (* queueLifecycleCooldown                            *)
  MaxWait,            (* how long a poll or a sweep may wait for the mutex *)
  MaxBatch,           (* entries a batch request may have, 10 in the code  *)
  OfferedAttributes,  (* per queue, the attribute maps clients ask for     *)
  Requests,           (* per queue, the single sends clients ask for       *)
  Batches,            (* per queue, the batches of sends they ask for      *)
  ReceiveSizes,       (* the values of MaxNumberOfMessages                 *)
  Visibilities,       (* the timeouts given to ChangeMessageVisibility     *)
  MaxNow,             (* bound of the model: the last clock reading, which *)
                      (* no lease outlives                                 *)
  MaxAttempts,        (* bound of the model: receives of one message       *)
  MaxPhantoms         (* bound of the model: records with an empty id      *)

(* A send as a client words it.  body is the hash of the body, which a     *)
(* queue with content-based deduplication uses when dedup is empty.        *)
Request ==
  [group : Group \cup {NoGroup}, dedup : DedupId \cup {NoDedup},
   body : DedupId, delay : Nat]

ASSUME ServiceAssumption ==
  /\ DedupWindow \in Nat
  /\ Cooldown \in Nat \ {0}
  /\ MaxWait \in Nat
  /\ MaxWait < Cooldown
  /\ MaxBatch \in Nat
  /\ OfferedAttributes \in [QueueName -> SUBSET Attributes]
  /\ \A name \in QueueName :
        /\ Requests[name] \subseteq Request
        /\ \A b \in Batches[name] :
              \E n \in 1..MaxBatch : DOMAIN b = 1..n /\ \A i \in 1..n : b[i] \in Request
  /\ ReceiveSizes \subseteq Nat \ {0}
  /\ Visibilities \subseteq Nat
  /\ MaxNow \in Nat
  /\ MaxAttempts \in Nat
  /\ MaxPhantoms \in Nat

VARIABLES
  now,        \* the clock the service reads
  queues,     \* State.Queues, by name
  messages,   \* State.Messages, by id
  phantoms,   \* how many entries of State.Messages have an empty id
  recovery    \* State.RecoveryMetadata: source, message and dead-letter queue

(* History: read by properties, never by an action.                        *)
VARIABLES
  sends,      \* how many sends have been accepted
  ordinal,    \* which of them brought a message (0: its id is unused)
  due,        \* until when the last client to receive a message may keep it
  lastPurge,  \* when each name was last purged (0: never)
  lastDelete  \* when each name was last deleted (0: never)

serviceVars == <<now, queues, messages, phantoms, recovery>>
historyVars == <<sends, ordinal, due, lastPurge, lastDelete>>
vars == <<now, queues, messages, phantoms, recovery,
          sends, ordinal, due, lastPurge, lastDelete>>

RecoveryRecord == [source : QueueName, message : MsgId, dlq : QueueName]

(* A service that holds no message yet; the clock shows a non-zero time. *)
InitWith(records) ==
  /\ now = 1
  /\ queues = records
  /\ messages = [m \in MsgId |-> Absent]
  /\ phantoms = 0
  /\ recovery = {}
  /\ sends = 0
  /\ ordinal = [m \in MsgId |-> 0]
  /\ due = [m \in MsgId |-> 0]
  /\ lastPurge = [name \in QueueName |-> 0]
  /\ lastDelete = [name \in QueueName |-> 0]

(* NewState, before the first request. *)
Init == InitWith([name \in QueueName |-> NoRecord])

Exists(name) == queues[name].createdAt # 0

(* activeQueueByNameLocked finds it. *)
Active(name) == Exists(name) /\ queues[name].deletedAt = 0

Fresh == {m \in MsgId : ordinal[m] = 0}

(* The clock readings of operations that now get the mutex. *)
Readings == {t \in 1..now : now - t <= MaxWait}

(* Time passes between operations. *)
Tick ==
  /\ now < MaxNow
  /\ now' = now + 1
  /\ UNCHANGED <<queues, messages, phantoms, recovery, historyVars>>
-----------------------------------------------------------------------------
(* Queue lifecycle. *)

(* Mistaken variant of CreateQueue: a deleted name is free at once.        *)
CreateQueueAtOnce(name, attrs) ==
  /\ Exists(name) => queues[name].deletedAt # 0
  /\ queues' = [queues EXCEPT ![name] =
                  [attrs |-> attrs, fifo |-> attrs.fifo \/ queues[name].fifo,
                   createdAt |-> now, deletedAt |-> 0, purgedAt |-> 0]]
  /\ UNCHANGED <<now, messages, phantoms, recovery, historyVars>>

(* A revived queue takes the new attributes and starts a new life, but an  *)
(* OrderingHint of "fifo" stays.  A live queue is never changed here: the  *)
(* request succeeds without effect or is refused.                          *)
CreateQueue(name, attrs) ==
  /\ Exists(name) =>
        queues[name].deletedAt # 0 /\ now - queues[name].deletedAt >= Cooldown
  /\ queues' = [queues EXCEPT ![name] =
                  [attrs |-> attrs, fifo |-> attrs.fifo \/ queues[name].fifo,
                   createdAt |-> now, deletedAt |-> 0, purgedAt |-> 0]]
  /\ UNCHANGED <<now, messages, phantoms, recovery, historyVars>>

(* SetQueueAttributes merges into the old map; every map can be the        *)
(* result, so the merged map is the parameter.                             *)
SetQueueAttributes(name, attrs) ==
  /\ Active(name)
  /\ queues' = [queues EXCEPT ![name].attrs = attrs,
                              ![name].fifo = @ \/ attrs.fifo]
  /\ UNCHANGED <<now, messages, phantoms, recovery, historyVars>>

(* Mistaken variant of RemoveMessagesForQueue: hidden messages stay.       *)
RemoveVisibleMessages(name) ==
  /\ messages' = [m \in MsgId |->
                    IF MessageVisibleInQueue(messages[m], name) THEN Absent
                    ELSE messages[m]]
  /\ recovery' = {r \in recovery : r.dlq # name /\ r.source # name}

(* removeMessagesForQueueLocked: the messages under that name, hidden ones *)
(* too, and the recovery records that name the queue at either end.        *)
RemoveMessagesForQueue(name) ==
  /\ messages' = [m \in MsgId |->
                    IF messages[m].queue = name THEN Absent ELSE messages[m]]
  /\ recovery' = {r \in recovery : r.dlq # name /\ r.source # name}

DeleteQueue(name) ==
  /\ Active(name)
  /\ queues' = [queues EXCEPT ![name].deletedAt = now, ![name].purgedAt = 0]
  /\ RemoveMessagesForQueue(name)
  /\ lastDelete' = [lastDelete EXCEPT ![name] = now]
  /\ UNCHANGED <<now, phantoms, sends, ordinal, due, lastPurge>>

PurgeQueue(name) ==
  /\ Active(name)
  /\ queues[name].purgedAt # 0 => now - queues[name].purgedAt >= Cooldown
  /\ RemoveMessagesForQueue(name)
  /\ queues' = [queues EXCEPT ![name].purgedAt = now]
  /\ lastPurge' = [lastPurge EXCEPT ![name] = now]
  /\ UNCHANGED <<now, phantoms, sends, ordinal, due, lastDelete>>
-----------------------------------------------------------------------------
(* Sends. *)

DeduplicationId(name, r) ==
  IF r.dedup # NoDedup THEN r.dedup
  ELSE IF queues[name].fifo /\ queues[name].attrs.contentDedup THEN r.body
  ELSE NoDedup

(* Mistaken variant of Duplicates: messages in flight are not looked at.   *)
DuplicatesAtRest(name, r) ==
  {m \in MsgId :
     /\ MessageVisibleInQueue(messages[m], name)
     /\ ~IsInvisible(queues[name], messages[m], now)
     /\ messages[m].dedup = DeduplicationId(name, r)
     /\ queues[name].attrs.groupScope => messages[m].group = r.group
     /\ now - messages[m].sentAt <= DedupWindow}

(* findDuplicateFIFOMessageLocked: the window is looked for among the      *)
(* messages that are still in the queue.                                   *)
Duplicates(name, r) ==
  {m \in MsgId :
     /\ MessageVisibleInQueue(messages[m], name)
     /\ messages[m].dedup = DeduplicationId(name, r)
     /\ queues[name].attrs.groupScope => messages[m].group = r.group
     /\ now - messages[m].sentAt <= DedupWindow}

IsDuplicate(name, r) ==
  /\ queues[name].fifo
  /\ DeduplicationId(name, r) # NoDedup
  /\ Duplicates(name, r) # {}

HasGroup(name, r) == queues[name].fifo => r.group # NoGroup

(* Mistaken variant of IsNextSequence: the messages present are counted.   *)
IsNextCount(name, group, n) ==
  LET present == {m \in MsgId : messages[m].queue = name /\ messages[m].group = group}
  IN  IF queues[name].fifo THEN n = Cardinality(present) + 1 ELSE n = 0

(* nextSequenceNumberLocked: one more than the largest number present in   *)
(* the group.                                                              *)
IsNextSequence(name, group, n) ==
  LET present == {m \in MsgId : messages[m].queue = name /\ messages[m].group = group}
  IN  IF queues[name].fifo
      THEN /\ n > 0
           /\ \A m \in present : messages[m].seq < n
           /\ n > 1 => \E m \in present : messages[m].seq = n - 1
      ELSE n = 0

(* A DelaySeconds of 0 is no request: the queue's own delay applies.       *)
Delay(name, r) == IF r.delay > 0 THEN r.delay ELSE queues[name].attrs.delay

NewMessage(name, r, n) ==
  [Absent EXCEPT
     !.queue = name, !.group = r.group, !.seq = n,
     !.dedup = DeduplicationId(name, r), !.sentAt = now,
     !.availableAt = IF Delay(name, r) > 0 THEN now + Delay(name, r) ELSE 0]

SendMessage(name, r, m, n) ==
  /\ Active(name)
  /\ HasGroup(name, r)
  /\ ~IsDuplicate(name, r)
  /\ m \in Fresh
  /\ IsNextSequence(name, r.group, n)
  /\ messages' = [messages EXCEPT ![m] = NewMessage(name, r, n)]
  /\ sends' = sends + 1
  /\ ordinal' = [ordinal EXCEPT ![m] = sends']
  /\ UNCHANGED <<now, queues, phantoms, recovery, due, lastPurge, lastDelete>>

(* Every entry is looked at before the first is stored, so none sees       *)
(* another: they repeat sequence numbers and deduplication ids.  A         *)
(* duplicate of a stored message is appended all the same, as a record     *)
(* without queue or id.  ids and nums give the new entries their ids and   *)
(* sequence numbers.                                                       *)
SendMessageBatch(name, entries, ids, nums) ==
  LET accepted == {i \in DOMAIN entries : HasGroup(name, entries[i])}
      empty    == {i \in accepted : IsDuplicate(name, entries[i])}
  IN  /\ Active(name)
      /\ accepted # {}
      /\ DOMAIN ids = accepted \ empty
      /\ \A i, j \in DOMAIN ids : ids[i] = ids[j] => i = j
      /\ \A i \in DOMAIN ids : IsNextSequence(name, entries[i].group, nums[i])
      /\ phantoms + Cardinality(empty) <= MaxPhantoms
      /\ phantoms' = phantoms + Cardinality(empty)
      /\ messages' = [m \in MsgId |->
                        IF \E i \in DOMAIN ids : ids[i] = m
                        THEN LET i == CHOOSE i \in DOMAIN ids : ids[i] = m
                             IN  NewMessage(name, entries[i], nums[i])
                        ELSE messages[m]]
      /\ sends' = sends + 1
      /\ ordinal' = [m \in MsgId |->
                       IF \E i \in DOMAIN ids : ids[i] = m THEN sends' ELSE ordinal[m]]
      /\ UNCHANGED <<now, queues, recovery, due, lastPurge, lastDelete>>
-----------------------------------------------------------------------------
(* The dead-letter sweep, run by the worker and by every receive. *)

Exhausted(m, t) ==
  /\ messages[m].queue # NoQueue
  /\ Active(messages[m].queue)
  /\ IsDeadLetterEligible(queues[messages[m].queue], messages[m], t)
  /\ queues[messages[m].queue].attrs.dlq # NoQueue

(* Mistaken variant of Redriven: the receives are counted anew.            *)
RedrivenAfresh(m, t) ==
  LET from == messages[m].queue
      dlq  == queues[from].attrs.dlq
  IN  [messages[m] EXCEPT
         !.queue = IF Active(dlq) THEN dlq ELSE from,
         !.dlq = dlq, !.source = from, !.deadLetteredAt = t,
         !.receivedAt = 0, !.availableAt = t, !.attempts = 0]

(* A message keeps its group, sequence number, attempts and receipt        *)
(* handles; it changes queue only if its new queue is there to take it.    *)
Redriven(m, t) ==
  LET from == messages[m].queue
      dlq  == queues[from].attrs.dlq
  IN  [messages[m] EXCEPT
         !.queue = IF Active(dlq) THEN dlq ELSE from,
         !.dlq = dlq, !.source = from, !.deadLetteredAt = t,
         !.receivedAt = 0, !.availableAt = t]

(* Mistaken variant of Swept: only an expired lease counts, not a message  *)
(* that its client gave back.                                              *)
SweptExpired(t) ==
  [m \in MsgId |->
     IF Exhausted(m, t) /\ CanRedeliver(queues[messages[m].queue], messages[m], t)
     THEN Redriven(m, t) ELSE messages[m]]

Swept(t) ==
  [m \in MsgId |-> IF Exhausted(m, t) THEN Redriven(m, t) ELSE messages[m]]

RecoveryOf(m) ==
  [source |-> messages[m].queue, message |-> m,
   dlq |-> queues[messages[m].queue].attrs.dlq]

(* Mistaken variant of RecoverySwept: no record unless the message moves.  *)
RecoveryOfMoved(t) ==
  recovery \cup {RecoveryOf(m) : m \in {o \in MsgId :
     Exhausted(o, t) /\ Active(queues[messages[o].queue].attrs.dlq)}}

RecoverySwept(t) ==
  recovery \cup {RecoveryOf(m) : m \in {o \in MsgId : Exhausted(o, t)}}

(* sweepDeadLettersLocked when there is something to move. *)
Sweep(t) ==
  /\ \E m \in MsgId : Exhausted(m, t)
  /\ messages' = Swept(t)
  /\ recovery' = RecoverySwept(t)
  /\ UNCHANGED <<now, queues, phantoms, historyVars>>

(* The worker's timer fired. *)
WorkerAdvance == \E t \in Readings : Sweep(t)
-----------------------------------------------------------------------------
(* Receives. *)

Deliverable(msgs, name, t) ==
  {m \in MsgId :
     /\ MessageVisibleInQueue(msgs[m], name)
     /\ ~IsDelayed(msgs[m], t)
     /\ ~IsInvisible(queues[name], msgs[m], t)
     /\ queues[name].fifo => ~FifoDeliveryBlocked(msgs, m, name)}

(* sel is the first size messages, in delivery order, of the deliverable   *)
(* ones, or all of them when there are fewer.                              *)
IsBatchOf(sel, msgs, name, size, t) ==
  LET all == Deliverable(msgs, name, t)
  IN  /\ sel \subseteq all
      /\ Cardinality(sel) = size \/ (sel = all /\ Cardinality(all) < size)
      /\ \A i \in sel, j \in all \ sel :
            ~DeliveredBefore(queues[name], msgs[j], j, msgs[i], i)

(* The timeout a message was leased for last outlives that lease: it is    *)
(* written back, and preferred to the queue's from then on.                *)
Received(q, msg, t) ==
  [msg EXCEPT !.receivedAt = t, !.attempts = @ + 1,
              !.lease = VisibilityTimeout(q, msg)]

(* One poll of ReceiveMessage that selects at least one message. *)
ReceiveMessage(name, size, sel, t) ==
  /\ Active(name)
  /\ sel # {}
  /\ IsBatchOf(sel, Swept(t), name, size, t)
  /\ \A m \in sel :
        /\ Swept(t)[m].attempts < MaxAttempts
        /\ t + VisibilityTimeout(queues[name], Swept(t)[m]) <= MaxNow
  /\ messages' = [m \in MsgId |->
                    IF m \in sel THEN Received(queues[name], Swept(t)[m], t)
                    ELSE Swept(t)[m]]
  /\ recovery' = RecoverySwept(t)
  /\ due' = [m \in MsgId |->
               IF m \in sel THEN t + VisibilityTimeout(queues[name], Swept(t)[m])
               ELSE due[m]]
  /\ UNCHANGED <<now, queues, phantoms, sends, ordinal, lastPurge, lastDelete>>

(* One poll that finds nothing, or no queue: it has swept all the same. *)
ReceiveNothing(name, t) ==
  /\ Active(name) => Deliverable(Swept(t), name, t) = {}
  /\ Sweep(t)
-----------------------------------------------------------------------------
(* What a receipt handle allows. *)

(* Mistaken variant of HandleIsCurrent: every handle ever issued counts.   *)
HandleWasIssued(name, m, k) ==
  /\ Active(name)
  /\ MessageVisibleInQueue(messages[m], name)
  /\ k \in 1..messages[m].attempts

(* findMessageByReceiptLocked: only the last handle counts, and it counts  *)
(* for as long as no other is issued, whether or not its lease still runs. *)
HandleIsCurrent(name, m, k) ==
  /\ Active(name)
  /\ MessageVisibleInQueue(messages[m], name)
  /\ k > 0
  /\ k = messages[m].attempts

DeleteMessage(name, m, k) ==
  /\ HandleIsCurrent(name, m, k)
  /\ messages' = [messages EXCEPT ![m] = Absent]
  /\ UNCHANGED <<now, queues, phantoms, recovery, historyVars>>

(* A batch names its entries by handle; those whose handle is not current  *)
(* fail alone.  S is the messages of the others.                           *)
DeleteMessageBatch(name, S) ==
  /\ S # {} /\ Cardinality(S) <= MaxBatch
  /\ \A m \in S : HandleIsCurrent(name, m, messages[m].attempts)
  /\ messages' = [m \in MsgId |-> IF m \in S THEN Absent ELSE messages[m]]
  /\ UNCHANGED <<now, queues, phantoms, recovery, historyVars>>

(* Mistaken variant of Retimed: the end of the lease is stored as its      *)
(* start.                                                                  *)
RetimedToDeadline(msg, v) ==
  IF v = 0
  THEN [msg EXCEPT !.receivedAt = 0, !.availableAt = now, !.lease = 0]
  ELSE [msg EXCEPT !.receivedAt = now + v, !.lease = v]

(* A timeout of 0 gives the message back, any other starts a new lease.    *)
Retimed(msg, v) ==
  IF v = 0
  THEN [msg EXCEPT !.receivedAt = 0, !.availableAt = now, !.lease = 0]
  ELSE [msg EXCEPT !.receivedAt = now, !.lease = v]

(* Only the holder of the last handle can shorten what that handle holds. *)
ChangeMessageVisibility(name, m, k, v) ==
  /\ HandleIsCurrent(name, m, k)
  /\ now + v <= MaxNow
  /\ messages' = [messages EXCEPT ![m] = Retimed(@, v)]
  /\ due' = IF k = messages[m].attempts THEN [due EXCEPT ![m] = now + v] ELSE due
  /\ UNCHANGED <<now, queues, phantoms, recovery, sends, ordinal, lastPurge, lastDelete>>

(* f gives the messages whose entries succeed, and for each the timeout it *)
(* asks for; two entries for one message act as the later one.             *)
ChangeMessageVisibilityBatch(name, f) ==
  /\ DOMAIN f # {} /\ Cardinality(DOMAIN f) <= MaxBatch
  /\ \A m \in DOMAIN f :
        /\ HandleIsCurrent(name, m, messages[m].attempts)
        /\ now + f[m] <= MaxNow
  /\ messages' = [m \in MsgId |->
                    IF m \in DOMAIN f THEN Retimed(messages[m], f[m]) ELSE messages[m]]
  /\ due' = [m \in MsgId |-> IF m \in DOMAIN f THEN now + f[m] ELSE due[m]]
  /\ UNCHANGED <<now, queues, phantoms, recovery, sends, ordinal, lastPurge, lastDelete>>
-----------------------------------------------------------------------------
SomeSend ==
  \E name \in QueueName, m \in Fresh, n \in 0..(sends + 1) :
    \E r \in Requests[name] : SendMessage(name, r, m, n)

SomeBatchSend ==
  \E name \in QueueName : \E entries \in Batches[name] :
    \E new \in SUBSET DOMAIN entries :
      \E ids \in [new -> Fresh], nums \in [new -> 0..(sends + 1)] :
        SendMessageBatch(name, entries, ids, nums)

SomeReceive ==
  \E name \in QueueName, size \in ReceiveSizes, sel \in SUBSET MsgId, t \in Readings :
    ReceiveMessage(name, size, sel, t)

SomeEmptyReceive == \E name \in QueueName, t \in Readings : ReceiveNothing(name, t)

SomeDelete ==
  \E name \in QueueName, m \in MsgId, k \in 1..MaxAttempts : DeleteMessage(name, m, k)

SomeBatchDelete ==
  \E name \in QueueName, S \in SUBSET MsgId : DeleteMessageBatch(name, S)

SomeVisibilityChange ==
  \E name \in QueueName, m \in MsgId, k \in 1..MaxAttempts, v \in Visibilities :
    ChangeMessageVisibility(name, m, k, v)

SomeBatchVisibilityChange ==
  \E name \in QueueName, S \in SUBSET MsgId :
    \E f \in [S -> Visibilities] : ChangeMessageVisibilityBatch(name, f)

SomeCreate ==
  \E name \in QueueName : \E attrs \in OfferedAttributes[name] : CreateQueue(name, attrs)

SomeSetAttributes ==
  \E name \in QueueName : \E attrs \in OfferedAttributes[name] :
    SetQueueAttributes(name, attrs)

SomeQueueDelete == \E name \in QueueName : DeleteQueue(name)
SomePurge == \E name \in QueueName : PurgeQueue(name)

(* What clients do to messages, and to queues. *)
MessageNext ==
  \/ SomeSend \/ SomeBatchSend
  \/ SomeReceive \/ SomeEmptyReceive
  \/ SomeDelete \/ SomeBatchDelete
  \/ SomeVisibilityChange \/ SomeBatchVisibilityChange

QueueNext ==
  \/ SomeCreate \/ SomeSetAttributes
  \/ SomeQueueDelete \/ SomePurge

Next == Tick \/ WorkerAdvance \/ MessageNext \/ QueueNext

Spec == Init /\ [][Next]_vars
-----------------------------------------------------------------------------
(* Properties. *)

Present(m) == messages[m].queue # NoQueue

(* Every variable has its type, and no recorded time lies in the future:   *)
(* the service stamps a send, a receive, a redrive, a purge and a delete   *)
(* with the time of the step itself.                                       *)
TypeOK ==
  /\ now \in Nat
  /\ queues \in [QueueName -> Queue]
  /\ messages \in [MsgId -> Message]
  /\ phantoms \in Nat
  /\ recovery \subseteq RecoveryRecord
  /\ sends \in Nat
  /\ ordinal \in [MsgId -> Nat]
  /\ due \in [MsgId -> Nat]
  /\ lastPurge \in [QueueName -> Nat]
  /\ lastDelete \in [QueueName -> Nat]
  /\ \A m \in MsgId :
        /\ messages[m].sentAt <= now
        /\ messages[m].receivedAt <= now
        /\ messages[m].deadLetteredAt <= now
  /\ \A name \in QueueName :
        /\ queues[name].createdAt <= now
        /\ queues[name].deletedAt <= now
        /\ queues[name].purgedAt <= now

(* A lease is exclusive until it ends.  While the client that received a   *)
(* message last may still keep it, no receive from any queue returns it    *)
(* and no sweep takes it away, whatever happens to the attributes of its   *)
(* queue in the meantime and whoever presents an older receipt handle      *)
(* (IsInvisible, findMessageByReceiptLocked, IsDeadLetterEligible), and    *)
(* however late the receive or the sweep got the mutex.                    *)
LeaseHonoured ==
  \A m \in MsgId, t \in Readings :
    Present(m) /\ due[m] > now =>
      /\ ~Exhausted(m, t)
      /\ \A name \in QueueName : m \notin Deliverable(messages, name, t)

(* A queue with a complete redrive policy never hands a message out more   *)
(* often than maxReceiveCount, even when no worker swept in time: each     *)
(* receive sweeps before it selects (receiveReadyMessagesLocked).          *)
RedriveLimit ==
  [][\A m \in MsgId :
       LET q == queues[messages[m].queue].attrs
       IN  /\ messages'[m].attempts > messages[m].attempts
           /\ messages'[m].dlq = NoQueue
           /\ q.dlq # NoQueue /\ q.maxReceive > 0
           => messages'[m].attempts <= q.maxReceive]_vars

(* A redriven message has its recovery record for as long as it exists,    *)
(* unless the queue at either end was purged or deleted since: nothing     *)
(* else in the service drops such a record or redrives without one.        *)
RedriveRecorded ==
  \A m \in MsgId :
    Present(m) /\ messages[m].dlq # NoQueue =>
      \/ [source |-> messages[m].source, message |-> m, dlq |-> messages[m].dlq] \in recovery
      \/ \E name \in {messages[m].source, messages[m].dlq} :
            \/ lastPurge[name] >= messages[m].deadLetteredAt
            \/ lastDelete[name] >= messages[m].deadLetteredAt

(* Messages of one group that were sent to the same FIFO queue and are     *)
(* still in it, neither redriven nor sent before the queue became FIFO.    *)
Siblings(m, o) ==
  /\ Present(m)
  /\ messages[m].queue = messages[o].queue
  /\ messages[m].group = messages[o].group
  /\ messages[m].seq > 0 /\ messages[o].seq > 0
  /\ messages[m].dlq = NoQueue /\ messages[o].dlq = NoQueue

(* Order within a group: as long as a message is in the queue, leased,     *)
(* delayed or ready, no later send of its group is handed out.  Sequence   *)
(* numbers are reused once a group is empty and entries of one batch share *)
(* them; order must survive that (nextSequenceNumberLocked,                *)
(* fifoDeliveryBlocked).                                                   *)
FifoOrder ==
  \A m, o \in MsgId :
    Siblings(m, o) /\ ordinal[m] < ordinal[o] => messages[o].attempts = 0

(* Two sends of one group with one deduplication id are both in the queue  *)
(* only if they came more than the window apart (5 minutes), under every   *)
(* mix of explicit and content-based ids and of scopes.  Entries of one    *)
(* batch are exempt: SendMessageBatch compares each entry with the stored  *)
(* messages before it stores any.                                          *)
DedupHonoured ==
  \A m, o \in MsgId :
    /\ Siblings(m, o)
    /\ messages[m].dedup # NoDedup
    /\ messages[m].dedup = messages[o].dedup
    /\ ordinal[m] < ordinal[o]
    => messages[o].sentAt - messages[m].sentAt > DedupWindow

(* A queue that is created again starts empty.  Every message is filed     *)
(* under a live queue, and came to it, by a send or by a redrive, in that  *)
(* queue's present life, give or take the wait of a sweep for the mutex    *)
(* (DeleteQueue empties it, sends and redrives need it active).            *)
IncarnationIsolation ==
  \A m \in MsgId :
    Present(m) =>
      /\ Active(messages[m].queue)
      /\ queues[messages[m].queue].createdAt <=
            IF messages[m].dlq = messages[m].queue
            THEN messages[m].deadLetteredAt + MaxWait ELSE messages[m].sentAt

(* "Queue delete and purge flows use a cooldown window before repeating    *)
(* the same operation" (sqs.mdx): also across a delete and a re-creation,  *)
(* which forget the time of the last purge.                                *)
CooldownHonoured ==
  [][\A name \in QueueName :
       /\ lastPurge'[name] # lastPurge[name] /\ lastPurge[name] # 0
            => lastPurge'[name] - lastPurge[name] >= Cooldown
       /\ lastDelete'[name] # lastDelete[name] /\ lastDelete[name] # 0
            => lastDelete'[name] - lastDelete[name] >= Cooldown]_vars

(* A message that used up its receives and that nobody holds does not stay *)
(* in its queue, even if no client ever polls the queue again, whether its *)
(* lease ran out or it was given back (worker.run, advance).               *)
ExhaustedIsRedriven ==
  \A m \in MsgId : Exhausted(m, now) ~> ~Exhausted(m, now)
(* The service is a pool of messages (MessagePool) to whoever does not     *)
(* look at queues: no request, no sweep and no change of a queue loses or  *)
(* copies a message, lends one that is lent, forgets a loan or brings back *)
(* what was removed.                                                       *)
Pool ==
  INSTANCE MessagePool WITH
    Item <- MsgId,
    Wait <- MaxWait,
    unsent <- Fresh,
    pool <- {m \in MsgId : Present(m)},
    handed <- [m \in MsgId |-> IF Present(m) THEN messages[m].attempts ELSE 0],
    until <- due

PoolSpec == Pool!Spec
=============================================================================
