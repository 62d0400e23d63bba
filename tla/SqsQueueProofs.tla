---------------------------- MODULE SqsQueueProofs ---------------------------
(***************************************************************************)
(* Theorems about SqsQueue, for every set of names, messages and requests, *)
(* every bound of the model, every deduplication window and cooldown.      *)
(***************************************************************************)
EXTENDS SqsQueue, FiniteSetTheorems, TLAPS
-----------------------------------------------------------------------------
(* What an action writes has its type. *)

(* TypeOK, split into what each group of variables promises.               *)
LEMMA TypeParts ==
  ASSUME TypeOK
  PROVE  /\ now \in Nat
         /\ queues \in [QueueName -> Queue]
         /\ messages \in [MsgId -> Message]
         /\ \A m \in MsgId : /\ messages[m] \in Message
                             /\ messages[m].sentAt <= now
                             /\ messages[m].receivedAt <= now
                             /\ messages[m].deadLetteredAt <= now
         /\ \A name \in QueueName : queues[name].attrs \in Attributes
BY DEF TypeOK, Queue

(* The lease of a message is a positive number.                            *)
LEMMA TimeoutType ==
  ASSUME NEW q \in Queue, NEW msg \in Message
  PROVE  VisibilityTimeout(q, msg) \in Nat /\ VisibilityTimeout(q, msg) > 0
BY DeliveryAssumption DEF VisibilityTimeout, Queue, Message, Attributes

LEMMA AbsentType ==
  /\ Absent \in Message
  /\ Absent.sentAt = 0 /\ Absent.receivedAt = 0 /\ Absent.deadLetteredAt = 0
BY DEF Absent, Message

LEMMA NewMessageType ==
  ASSUME TypeOK, NEW name \in QueueName, NEW r \in Request, NEW n \in Nat
  PROVE  /\ NewMessage(name, r, n) \in Message
         /\ NewMessage(name, r, n).sentAt = now
         /\ NewMessage(name, r, n).receivedAt = 0
         /\ NewMessage(name, r, n).deadLetteredAt = 0
<1>1. now \in Nat /\ queues[name].attrs \in Attributes
  BY TypeParts
<1>2. Delay(name, r) \in Nat
  BY <1>1 DEF Delay, Attributes, Request
<1>3. DeduplicationId(name, r) \in DedupId \cup {NoDedup}
  BY DEF DeduplicationId, Request
<1>4. r.group \in Group \cup {NoGroup}
  BY DEF Request
<1> DEFINE available == IF Delay(name, r) > 0 THEN now + Delay(name, r) ELSE 0
<1>5. available \in Nat
  BY <1>1, <1>2
<1>6. Absent \in Message /\ Absent.receivedAt = 0 /\ Absent.deadLetteredAt = 0
  BY AbsentType
<1>7. NewMessage(name, r, n) =
        [Absent EXCEPT !.queue = name, !.group = r.group, !.seq = n,
                       !.dedup = DeduplicationId(name, r), !.sentAt = now,
                       !.availableAt = available]
  BY DEF NewMessage
<1> HIDE DEF available
<1> QED
  BY <1>1, <1>3, <1>4, <1>5, <1>6, <1>7 DEF Message

LEMMA RedrivenType ==
  ASSUME TypeOK, NEW m \in MsgId, NEW t \in Readings, Exhausted(m, t)
  PROVE  /\ Redriven(m, t) \in Message
         /\ Redriven(m, t).sentAt = messages[m].sentAt
         /\ Redriven(m, t).receivedAt = 0
         /\ Redriven(m, t).deadLetteredAt = t
<1>1. messages[m] \in Message /\ t \in Nat
  BY TypeParts DEF Readings
<1>2. messages[m].queue \in QueueName
  BY <1>1 DEF Exhausted, Message
<1>3. queues[messages[m].queue].attrs.dlq \in QueueName
  BY <1>2, TypeParts DEF Exhausted, Attributes
<1> QED
  BY <1>1, <1>2, <1>3 DEF Redriven, Message

(* A sweep keeps the type of every message and stamps no future time.      *)
LEMMA SweptType ==
  ASSUME TypeOK, NEW t \in Readings
  PROVE  /\ Swept(t) \in [MsgId -> Message]
         /\ \A m \in MsgId : /\ Swept(t)[m].sentAt <= now
                             /\ Swept(t)[m].receivedAt <= now
                             /\ Swept(t)[m].deadLetteredAt <= now
<1>1. t \in Nat /\ t <= now /\ now \in Nat
  BY TypeParts DEF Readings
<1>2. ASSUME NEW m \in MsgId
      PROVE  /\ Swept(t)[m] \in Message
             /\ Swept(t)[m].sentAt <= now
             /\ Swept(t)[m].receivedAt <= now
             /\ Swept(t)[m].deadLetteredAt <= now
  <2>1. CASE Exhausted(m, t)
    <3>1. Swept(t)[m] = Redriven(m, t)
      BY <2>1 DEF Swept
    <3> QED
      BY <1>1, <2>1, <3>1, RedrivenType, TypeParts
  <2>2. CASE ~Exhausted(m, t)
    <3>1. Swept(t)[m] = messages[m]
      BY <2>2 DEF Swept
    <3> QED
      BY <3>1, TypeParts
  <2> QED
    BY <2>1, <2>2
<1> QED
  BY <1>2 DEF Swept

LEMMA RecoverySweptType ==
  ASSUME TypeOK, NEW t \in Readings
  PROVE  RecoverySwept(t) \subseteq RecoveryRecord
<1>1. ASSUME NEW m \in MsgId, Exhausted(m, t)
      PROVE  RecoveryOf(m) \in RecoveryRecord
  <2>1. messages[m].queue \in QueueName
    BY <1>1, TypeParts DEF Exhausted, Message
  <2>2. queues[messages[m].queue].attrs.dlq \in QueueName
    BY <1>1, <2>1, TypeParts DEF Exhausted, Attributes
  <2> QED
    BY <2>1, <2>2 DEF RecoveryOf, RecoveryRecord
<1> QED
  BY <1>1 DEF RecoverySwept, TypeOK

LEMMA ReceivedType ==
  ASSUME NEW q \in Queue, NEW msg \in Message, NEW t \in Nat
  PROVE  /\ Received(q, msg, t) \in Message
         /\ Received(q, msg, t).sentAt = msg.sentAt
         /\ Received(q, msg, t).receivedAt = t
         /\ Received(q, msg, t).deadLetteredAt = msg.deadLetteredAt
<1>1. VisibilityTimeout(q, msg) \in Nat
  BY TimeoutType
<1>2. Received(q, msg, t) =
        [msg EXCEPT !.receivedAt = t, !.attempts = msg.attempts + 1,
                    !.lease = VisibilityTimeout(q, msg)]
  BY DEF Received, Message
<1>3. msg.attempts + 1 \in Nat
  BY DEF Message
<1> QED
  BY <1>1, <1>2, <1>3 DEF Message

LEMMA RetimedType ==
  ASSUME TypeOK, NEW msg \in Message, NEW v \in Nat
  PROVE  /\ Retimed(msg, v) \in Message
         /\ Retimed(msg, v).sentAt = msg.sentAt
         /\ Retimed(msg, v).receivedAt \in {0, now}
         /\ Retimed(msg, v).deadLetteredAt = msg.deadLetteredAt
<1>1. now \in Nat
  BY TypeParts
<1> QED
  BY <1>1 DEF Retimed, Message
-----------------------------------------------------------------------------
(* Type correctness. *)

(* What every step that keeps the queues and the clock owes to TypeOK.     *)
LEMMA MessageStep ==
  ASSUME TypeOK,
         UNCHANGED <<now, queues, lastPurge, lastDelete>>,
         messages' \in [MsgId -> Message],
         \A m \in MsgId : /\ messages'[m].sentAt <= now
                          /\ messages'[m].receivedAt <= now
                          /\ messages'[m].deadLetteredAt <= now,
         phantoms' \in Nat, recovery' \subseteq RecoveryRecord,
         sends' \in Nat, ordinal' \in [MsgId -> Nat], due' \in [MsgId -> Nat]
  PROVE  TypeOK'
BY DEF TypeOK

(* What every step that writes a queue record owes to TypeOK.              *)
LEMMA QueueStep ==
  ASSUME TypeOK,
         UNCHANGED <<now, phantoms, sends, ordinal, due>>,
         messages' = messages \/ \E name \in QueueName : RemoveMessagesForQueue(name),
         recovery' \subseteq recovery,
         NEW name \in QueueName, NEW q \in Queue,
         queues' = [queues EXCEPT ![name] = q],
         q.createdAt <= now, q.deletedAt <= now, q.purgedAt <= now,
         lastPurge' \in [QueueName -> Nat], lastDelete' \in [QueueName -> Nat]
  PROVE  TypeOK'
<1>1. /\ messages' \in [MsgId -> Message]
      /\ \A m \in MsgId : /\ messages'[m].sentAt <= now
                           /\ messages'[m].receivedAt <= now
                           /\ messages'[m].deadLetteredAt <= now
  <2>1. CASE messages' = messages
    BY <2>1, TypeParts
  <2>2. CASE \E nm \in QueueName : RemoveMessagesForQueue(nm)
    <3>1. now \in Nat
      BY TypeParts
    <3> QED
      BY <2>2, <3>1, TypeParts, AbsentType DEF RemoveMessagesForQueue
  <2> QED
    BY <2>1, <2>2
<1>2. /\ queues' \in [QueueName -> Queue]
      /\ \A nm \in QueueName : /\ queues'[nm].createdAt <= now
                                /\ queues'[nm].deletedAt <= now
                                /\ queues'[nm].purgedAt <= now
  BY DEF TypeOK
<1> QED
  BY <1>1, <1>2 DEF TypeOK

LEMMA TypeInit ==
  ASSUME Init
  PROVE  TypeOK
<1>1. NoRecord \in Queue /\ NoRecord.createdAt = 0
      /\ NoRecord.deletedAt = 0 /\ NoRecord.purgedAt = 0
  BY DEF NoRecord, NoAttributes, Queue, Attributes
<1> QED
  BY <1>1, AbsentType DEF Init, InitWith, TypeOK

LEMMA TypeStep ==
  ASSUME TypeOK, [Next]_vars
  PROVE  TypeOK'
<1>a. /\ now \in Nat
      /\ queues \in [QueueName -> Queue]
      /\ \A name \in QueueName : /\ queues[name].createdAt \in Nat
                                 /\ queues[name].deletedAt \in Nat
                                 /\ queues[name].purgedAt \in Nat
  BY DEF TypeOK, Queue
<1>b. \A m \in MsgId : /\ messages[m] \in Message
                       /\ messages[m].sentAt \in 0..now
                       /\ messages[m].receivedAt \in 0..now
                       /\ messages[m].deadLetteredAt \in 0..now
  BY <1>a DEF TypeOK, Message
<1>1. CASE Tick
  BY <1>1, <1>a, <1>b DEF Tick, TypeOK, historyVars
<1>2. ASSUME NEW t \in Readings, Sweep(t) PROVE TypeOK'
  <2>1. UNCHANGED <<now, queues, phantoms, historyVars>>
    BY <1>2 DEF Sweep
  <2>2. messages' = Swept(t) /\ recovery' = RecoverySwept(t)
    BY <1>2 DEF Sweep
  <2>3. /\ messages' \in [MsgId -> Message]
        /\ \A m \in MsgId : /\ messages'[m].sentAt <= now
                             /\ messages'[m].receivedAt <= now
                             /\ messages'[m].deadLetteredAt <= now
    BY <2>2, SweptType
  <2>4. recovery' \subseteq RecoveryRecord
    BY <2>2, RecoverySweptType
  <2>5. UNCHANGED <<now, queues, phantoms, sends, ordinal, due, lastPurge, lastDelete>>
    BY <2>1 DEF historyVars
  <2> QED
    BY <2>3, <2>4, <2>5, MessageStep DEF TypeOK
<1>3. CASE SomeSend
  <2>a. PICK name \in QueueName, m \in Fresh, n \in 0..(sends + 1) :
          \E r \in Requests[name] : SendMessage(name, r, m, n)
    BY <1>3 DEF SomeSend
  <2>1. PICK r \in Requests[name] : SendMessage(name, r, m, n)
    BY <2>a
  <2>2. r \in Request /\ m \in MsgId /\ n \in Nat
    BY ServiceAssumption DEF Fresh, TypeOK
  <2>3. messages' = [messages EXCEPT ![m] = NewMessage(name, r, n)]
    BY <2>1 DEF SendMessage
  <2>4. /\ messages' \in [MsgId -> Message]
        /\ \A o \in MsgId : /\ messages'[o].sentAt <= now
                             /\ messages'[o].receivedAt <= now
                             /\ messages'[o].deadLetteredAt <= now
    <3>1. /\ NewMessage(name, r, n) \in Message
          /\ NewMessage(name, r, n).sentAt = now
          /\ NewMessage(name, r, n).receivedAt = 0
          /\ NewMessage(name, r, n).deadLetteredAt = 0
      BY <2>2, NewMessageType
    <3> QED
      BY <1>a, <1>b, <2>2, <2>3, <3>1 DEF TypeOK
  <2>5. sends' \in Nat /\ ordinal' \in [MsgId -> Nat]
    BY <2>1, <2>2 DEF SendMessage, TypeOK
  <2>6. UNCHANGED <<now, queues, phantoms, recovery, due, lastPurge, lastDelete>>
    BY <2>1 DEF SendMessage
  <2> QED
    BY <2>4, <2>5, <2>6, MessageStep DEF TypeOK
<1>4. CASE SomeBatchSend
  <2>a. PICK name \in QueueName : \E entries \in Batches[name] :
          \E new \in SUBSET DOMAIN entries :
            \E ids \in [new -> Fresh], nums \in [new -> 0..(sends + 1)] :
              SendMessageBatch(name, entries, ids, nums)
    BY <1>4 DEF SomeBatchSend
  <2>b. PICK entries \in Batches[name] :
          \E new \in SUBSET DOMAIN entries :
            \E ids \in [new -> Fresh], nums \in [new -> 0..(sends + 1)] :
              SendMessageBatch(name, entries, ids, nums)
    BY <2>a
  <2>c. PICK new \in SUBSET DOMAIN entries :
          \E ids \in [new -> Fresh], nums \in [new -> 0..(sends + 1)] :
            SendMessageBatch(name, entries, ids, nums)
    BY <2>b
  <2>1. PICK ids \in [new -> Fresh], nums \in [new -> 0..(sends + 1)] :
          SendMessageBatch(name, entries, ids, nums)
    BY <2>c
  <2>2. \A i \in DOMAIN entries : entries[i] \in Request
    BY ServiceAssumption
  <2>3. ASSUME NEW m \in MsgId
        PROVE  /\ messages'[m] \in Message
               /\ messages'[m].sentAt <= now
               /\ messages'[m].receivedAt <= now
               /\ messages'[m].deadLetteredAt <= now
    <3>1. CASE \E i \in DOMAIN ids : ids[i] = m
      <4> DEFINE i == CHOOSE i \in DOMAIN ids : ids[i] = m
      <4>1. i \in new
        BY <3>1
      <4>2. messages'[m] = NewMessage(name, entries[i], nums[i])
        BY <2>1, <3>1 DEF SendMessageBatch
      <4>3. entries[i] \in Request /\ nums[i] \in Nat
        BY <2>2, <4>1 DEF TypeOK
      <4> HIDE DEF i
      <4>4. /\ NewMessage(name, entries[i], nums[i]) \in Message
            /\ NewMessage(name, entries[i], nums[i]).sentAt = now
            /\ NewMessage(name, entries[i], nums[i]).receivedAt = 0
            /\ NewMessage(name, entries[i], nums[i]).deadLetteredAt = 0
        BY <4>3, NewMessageType
      <4> QED
        BY <1>a, <4>2, <4>4
    <3>2. CASE ~ \E i \in DOMAIN ids : ids[i] = m
      <4>1. messages'[m] = messages[m]
        BY <2>1, <3>2 DEF SendMessageBatch
      <4> QED
        BY <1>a, <1>b, <4>1
    <3> QED
      BY <3>1, <3>2
  <2>4. messages' \in [MsgId -> Message]
    BY <2>1, <2>3 DEF SendMessageBatch
  <2>5. phantoms' \in Nat
    <3>1. PICK k \in 1..MaxBatch : DOMAIN entries = 1..k
      BY ServiceAssumption
    <3> DEFINE empty == {i \in {j \in DOMAIN entries : HasGroup(name, entries[j])} :
                           IsDuplicate(name, entries[i])}
    <3>2. IsFiniteSet(DOMAIN entries)
      BY <3>1, FS_Interval, ServiceAssumption
    <3>3. Cardinality(empty) \in Nat
      BY <3>2, FS_Subset, FS_CardinalityType
    <3>4. phantoms' = phantoms + Cardinality(empty)
      BY <2>1 DEF SendMessageBatch
    <3> HIDE DEF empty
    <3> QED
      BY <3>3, <3>4 DEF TypeOK
  <2>6. sends' \in Nat /\ ordinal' \in [MsgId -> Nat]
    BY <2>1 DEF SendMessageBatch, TypeOK
  <2>7. UNCHANGED <<now, queues, recovery, due, lastPurge, lastDelete>>
    BY <2>1 DEF SendMessageBatch
  <2> QED
    BY <2>3, <2>4, <2>5, <2>6, <2>7, MessageStep DEF TypeOK
<1>5. CASE SomeReceive
  <2>1. PICK name \in QueueName, size \in ReceiveSizes, sel \in SUBSET MsgId, t \in Readings :
          ReceiveMessage(name, size, sel, t)
    BY <1>5 DEF SomeReceive
  <2>2. t \in Nat /\ t <= now /\ queues[name] \in Queue
    BY DEF Readings, TypeOK
  <2>3. ASSUME NEW m \in MsgId
        PROVE  /\ messages'[m] \in Message
               /\ messages'[m].sentAt <= now
               /\ messages'[m].receivedAt <= now
               /\ messages'[m].deadLetteredAt <= now
               /\ due'[m] \in Nat
    <3>1. CASE m \in sel
      <4>1. /\ messages'[m] = Received(queues[name], Swept(t)[m], t)
            /\ due'[m] = t + VisibilityTimeout(queues[name], Swept(t)[m])
        BY <2>1, <3>1 DEF ReceiveMessage
      <4>2. Swept(t)[m] \in Message
        BY SweptType
      <4>3. Swept(t)[m].sentAt <= now /\ Swept(t)[m].deadLetteredAt <= now
        BY SweptType
      <4>4. /\ Received(queues[name], Swept(t)[m], t) \in Message
            /\ Received(queues[name], Swept(t)[m], t).sentAt = Swept(t)[m].sentAt
            /\ Received(queues[name], Swept(t)[m], t).receivedAt = t
            /\ Received(queues[name], Swept(t)[m], t).deadLetteredAt
                 = Swept(t)[m].deadLetteredAt
        BY <2>2, <4>2, ReceivedType
      <4>5. VisibilityTimeout(queues[name], Swept(t)[m]) \in Nat
        BY <2>2, <4>2, TimeoutType
      <4> QED
        BY <2>2, <4>1, <4>3, <4>4, <4>5
    <3>2. CASE m \notin sel
      <4>1. messages'[m] = Swept(t)[m] /\ due'[m] = due[m]
        BY <2>1, <3>2 DEF ReceiveMessage
      <4> QED
        BY <4>1, SweptType DEF TypeOK
    <3> QED
      BY <3>1, <3>2
  <2>4. messages' \in [MsgId -> Message] /\ due' \in [MsgId -> Nat]
    BY <2>1, <2>3 DEF ReceiveMessage
  <2>5. /\ recovery' = RecoverySwept(t)
        /\ UNCHANGED <<now, queues, phantoms, sends, ordinal, lastPurge, lastDelete>>
    BY <2>1 DEF ReceiveMessage
  <2> QED
    BY <2>3, <2>4, <2>5, RecoverySweptType, MessageStep DEF TypeOK
<1>6. CASE SomeDelete
  <2>1. PICK name \in QueueName, m \in MsgId, k \in 1..MaxAttempts : DeleteMessage(name, m, k)
    BY <1>6 DEF SomeDelete
  <2>2. /\ messages' = [messages EXCEPT ![m] = Absent]
        /\ UNCHANGED <<now, queues, phantoms, recovery, historyVars>>
    BY <2>1 DEF DeleteMessage
  <2> QED
    BY <2>2, AbsentType, MessageStep DEF TypeOK, historyVars
<1>7. CASE SomeBatchDelete
  <2>1. PICK name \in QueueName, S \in SUBSET MsgId : DeleteMessageBatch(name, S)
    BY <1>7 DEF SomeBatchDelete
  <2>2. /\ messages' = [m \in MsgId |-> IF m \in S THEN Absent ELSE messages[m]]
        /\ UNCHANGED <<now, queues, phantoms, recovery, historyVars>>
    BY <2>1 DEF DeleteMessageBatch
  <2> QED
    BY <2>2, AbsentType, MessageStep DEF TypeOK, historyVars
<1>8. CASE SomeVisibilityChange
  <2>1. PICK name \in QueueName, m \in MsgId, k \in 1..MaxAttempts, v \in Visibilities :
          ChangeMessageVisibility(name, m, k, v)
    BY <1>8 DEF SomeVisibilityChange
  <2>2. v \in Nat
    BY ServiceAssumption
  <2>3. messages' = [messages EXCEPT ![m] = Retimed(messages[m], v)]
    BY <2>1 DEF ChangeMessageVisibility, TypeOK
  <2>4. ASSUME NEW o \in MsgId, NEW w \in Nat
        PROVE  /\ Retimed(messages[o], w) \in Message
               /\ Retimed(messages[o], w).sentAt <= now
               /\ Retimed(messages[o], w).receivedAt <= now
               /\ Retimed(messages[o], w).deadLetteredAt <= now
    <3>1. messages[o] \in Message
      BY <1>b
    <3>2. /\ Retimed(messages[o], w) \in Message
          /\ Retimed(messages[o], w).sentAt = messages[o].sentAt
          /\ Retimed(messages[o], w).receivedAt \in {0, now}
          /\ Retimed(messages[o], w).deadLetteredAt = messages[o].deadLetteredAt
      BY <3>1, RetimedType
    <3> QED
      BY <1>a, <1>b, <3>2
  <2>r. /\ messages' \in [MsgId -> Message]
        /\ \A o \in MsgId : /\ messages'[o].sentAt <= now
                             /\ messages'[o].receivedAt <= now
                             /\ messages'[o].deadLetteredAt <= now
    BY <1>a, <1>b, <2>2, <2>3, <2>4 DEF TypeOK
  <2>5. due' \in [MsgId -> Nat]
    BY <2>1, <2>2 DEF ChangeMessageVisibility, TypeOK
  <2>6. UNCHANGED <<now, queues, phantoms, recovery, sends, ordinal, lastPurge, lastDelete>>
    BY <2>1 DEF ChangeMessageVisibility
  <2> QED
    BY <2>r, <2>5, <2>6, MessageStep DEF TypeOK
<1>9. CASE SomeBatchVisibilityChange
  <2>a. PICK name \in QueueName, S \in SUBSET MsgId :
          \E f \in [S -> Visibilities] : ChangeMessageVisibilityBatch(name, f)
    BY <1>9 DEF SomeBatchVisibilityChange
  <2>1. PICK f \in [S -> Visibilities] : ChangeMessageVisibilityBatch(name, f)
    BY <2>a
  <2>2. \A m \in S : f[m] \in Nat
    BY ServiceAssumption
  <2>3. /\ messages' = [m \in MsgId |->
                          IF m \in S THEN Retimed(messages[m], f[m]) ELSE messages[m]]
        /\ due' = [m \in MsgId |-> IF m \in S THEN now + f[m] ELSE due[m]]
        /\ UNCHANGED <<now, queues, phantoms, recovery, sends, ordinal, lastPurge, lastDelete>>
    BY <2>1 DEF ChangeMessageVisibilityBatch
  <2>4. ASSUME NEW o \in MsgId, NEW w \in Nat
        PROVE  /\ Retimed(messages[o], w) \in Message
               /\ Retimed(messages[o], w).sentAt <= now
               /\ Retimed(messages[o], w).receivedAt <= now
               /\ Retimed(messages[o], w).deadLetteredAt <= now
    <3>1. messages[o] \in Message
      BY <1>b
    <3>2. /\ Retimed(messages[o], w) \in Message
          /\ Retimed(messages[o], w).sentAt = messages[o].sentAt
          /\ Retimed(messages[o], w).receivedAt \in {0, now}
          /\ Retimed(messages[o], w).deadLetteredAt = messages[o].deadLetteredAt
      BY <3>1, RetimedType
    <3> QED
      BY <1>a, <1>b, <3>2
  <2>r. /\ messages' \in [MsgId -> Message]
        /\ \A o \in MsgId : /\ messages'[o].sentAt <= now
                             /\ messages'[o].receivedAt <= now
                             /\ messages'[o].deadLetteredAt <= now
    BY <1>a, <1>b, <2>2, <2>3, <2>4 DEF TypeOK
  <2>5. due' \in [MsgId -> Nat]
    BY <2>2, <2>3 DEF TypeOK
  <2> QED
    BY <2>3, <2>r, <2>5, MessageStep DEF TypeOK
<1>10. CASE SomeCreate
  <2>a. PICK name \in QueueName : \E attrs \in OfferedAttributes[name] : CreateQueue(name, attrs)
    BY <1>10 DEF SomeCreate
  <2>1. PICK attrs \in OfferedAttributes[name] : CreateQueue(name, attrs)
    BY <2>a
  <2>2. attrs \in Attributes
    BY ServiceAssumption
  <2> DEFINE hint == attrs.fifo \/ queues[name].fifo
             q == [attrs |-> attrs, fifo |-> hint,
                   createdAt |-> now, deletedAt |-> 0, purgedAt |-> 0]
  <2>b. hint \in BOOLEAN
    OBVIOUS
  <2>3. q \in Queue
    <3> HIDE DEF hint
    <3> QED
      BY <1>a, <2>2, <2>b DEF Queue
  <2>4. /\ queues' = [queues EXCEPT ![name] = q]
        /\ UNCHANGED <<now, messages, phantoms, recovery, historyVars>>
    BY <2>1 DEF CreateQueue
  <2> QED
    BY <2>3, <2>4, QueueStep DEF TypeOK, historyVars
<1>11. CASE SomeSetAttributes
  <2>a. PICK name \in QueueName : \E attrs \in OfferedAttributes[name] : SetQueueAttributes(name, attrs)
    BY <1>11 DEF SomeSetAttributes
  <2>1. PICK attrs \in OfferedAttributes[name] : SetQueueAttributes(name, attrs)
    BY <2>a
  <2>2. attrs \in Attributes /\ queues[name] \in Queue
    BY ServiceAssumption DEF TypeOK
  <2> DEFINE hint == queues[name].fifo \/ attrs.fifo
             q == [queues[name] EXCEPT !.attrs = attrs, !.fifo = hint]
  <2>b. hint \in BOOLEAN
    OBVIOUS
  <2>3. q \in Queue
    <3> HIDE DEF hint
    <3> QED
      BY <2>2, <2>b DEF Queue
  <2>4. /\ queues' = [queues EXCEPT ![name] = q]
        /\ UNCHANGED <<now, messages, phantoms, recovery, historyVars>>
    BY <2>1 DEF SetQueueAttributes, TypeOK
  <2>5. q.createdAt <= now /\ q.deletedAt <= now /\ q.purgedAt <= now
    BY <2>2 DEF TypeOK, Queue
  <2> HIDE DEF q
  <2> QED
    BY <2>3, <2>4, <2>5, QueueStep DEF TypeOK, historyVars
<1>12. CASE SomeQueueDelete
  <2>1. PICK name \in QueueName : DeleteQueue(name)
    BY <1>12 DEF SomeQueueDelete
  <2> DEFINE q == [queues[name] EXCEPT !.deletedAt = now, !.purgedAt = 0]
  <2>2. q \in Queue /\ q.createdAt <= now /\ q.deletedAt <= now /\ q.purgedAt <= now
    <3>1. queues[name] \in Queue /\ now \in Nat
      BY <1>a
    <3>2. q \in Queue
      BY <3>1 DEF Queue
    <3>3. q.createdAt = queues[name].createdAt
      BY <3>1 DEF Queue
    <3>4. q.deletedAt = now /\ q.purgedAt = 0
      BY <3>1 DEF Queue
    <3> HIDE DEF q
    <3> QED
      BY <3>1, <3>2, <3>3, <3>4 DEF TypeOK
  <2>3. /\ queues' = [queues EXCEPT ![name] = q]
        /\ RemoveMessagesForQueue(name)
        /\ lastDelete' = [lastDelete EXCEPT ![name] = now]
        /\ UNCHANGED <<now, phantoms, sends, ordinal, due, lastPurge>>
    BY <2>1 DEF DeleteQueue, TypeOK
  <2>4. recovery' \subseteq recovery
    BY <2>3 DEF RemoveMessagesForQueue
  <2>5. lastPurge' \in [QueueName -> Nat] /\ lastDelete' \in [QueueName -> Nat]
    BY <2>3 DEF TypeOK
  <2> HIDE DEF q
  <2> QED
    BY <2>2, <2>3, <2>4, <2>5, QueueStep
<1>13. CASE SomePurge
  <2>1. PICK name \in QueueName : PurgeQueue(name)
    BY <1>13 DEF SomePurge
  <2> DEFINE q == [queues[name] EXCEPT !.purgedAt = now]
  <2>2. q \in Queue /\ q.createdAt <= now /\ q.deletedAt <= now /\ q.purgedAt <= now
    <3>1. queues[name] \in Queue /\ now \in Nat
      BY <1>a
    <3>2. q \in Queue
      BY <3>1 DEF Queue
    <3>3. q.createdAt = queues[name].createdAt /\ q.deletedAt = queues[name].deletedAt
      BY <3>1 DEF Queue
    <3>4. q.purgedAt = now
      BY <3>1 DEF Queue
    <3> HIDE DEF q
    <3> QED
      BY <3>1, <3>2, <3>3, <3>4 DEF TypeOK
  <2>3. /\ queues' = [queues EXCEPT ![name] = q]
        /\ RemoveMessagesForQueue(name)
        /\ lastPurge' = [lastPurge EXCEPT ![name] = now]
        /\ UNCHANGED <<now, phantoms, sends, ordinal, due, lastDelete>>
    BY <2>1 DEF PurgeQueue, TypeOK
  <2>4. recovery' \subseteq recovery
    BY <2>3 DEF RemoveMessagesForQueue
  <2>5. lastPurge' \in [QueueName -> Nat] /\ lastDelete' \in [QueueName -> Nat]
    BY <2>3 DEF TypeOK
  <2> HIDE DEF q
  <2> QED
    BY <2>2, <2>3, <2>4, <2>5, QueueStep
<1>14. CASE SomeEmptyReceive
  BY <1>2, <1>14 DEF SomeEmptyReceive, ReceiveNothing
<1>15. CASE WorkerAdvance
  BY <1>2, <1>15 DEF WorkerAdvance
<1>16. CASE UNCHANGED vars
  BY <1>16 DEF vars, TypeOK
<1> QED
  BY <1>1, <1>3, <1>4, <1>5, <1>6, <1>7, <1>8, <1>9, <1>10, <1>11, <1>12, <1>13,
     <1>14, <1>15, <1>16 DEF Next, MessageNext, QueueNext

(* Every variable keeps its type, and no recorded time lies in the future. *)
THEOREM TypeCorrect == Spec => []TypeOK
<1>1. Init => TypeOK
  BY TypeInit
<1>2. TypeOK /\ [Next]_vars => TypeOK'
  BY TypeStep
<1> QED
  BY <1>1, <1>2, PTL DEF Spec
-----------------------------------------------------------------------------
(* The inductive invariant behind LeaseHonoured, FifoOrder and             *)
(* DedupHonoured: none of them is inductive alone.                         *)

(* An id in use came with a numbered send; nobody holds an unused one.     *)
IdsInv ==
  \A m \in MsgId :
    /\ Present(m) => ordinal[m] \in 1..sends
    /\ ordinal[m] = 0 => due[m] = 0

(* A running lease is on record in the message itself.                     *)
LeaseInv ==
  /\ now > 0
  /\ \A m \in MsgId :
        Present(m) /\ due[m] > now =>
          /\ messages[m].receivedAt > 0
          /\ messages[m].lease > 0
          /\ due[m] = messages[m].receivedAt + messages[m].lease

(* A numbered message that was not redriven is in a FIFO queue, has a      *)
(* group, and no later sibling has a smaller number.                       *)
SequenceInv ==
  /\ \A m \in MsgId :
        Present(m) /\ messages[m].dlq = NoQueue =>
          /\ messages[m].source = NoQueue
          /\ messages[m].seq > 0 =>
                queues[messages[m].queue].fifo /\ messages[m].group # NoGroup
  /\ \A m, o \in MsgId :
        Siblings(m, o) /\ ordinal[m] < ordinal[o] => messages[m].seq < messages[o].seq

IInv == TypeOK /\ IdsInv /\ LeaseInv /\ SequenceInv /\ FifoOrder /\ DedupHonoured
-----------------------------------------------------------------------------
(* What a step can do to a message: keep it, redrive it, remove it, or     *)
(* bring it.                                                               *)

Kept(m) ==
  /\ messages'[m].queue = messages[m].queue
  /\ messages'[m].group = messages[m].group
  /\ messages'[m].seq = messages[m].seq
  /\ messages'[m].dedup = messages[m].dedup
  /\ messages'[m].sentAt = messages[m].sentAt
  /\ messages'[m].dlq = messages[m].dlq
  /\ messages'[m].source = messages[m].source

(* Keeps its attempts, or is handed out by a receive that has swept.       *)
Counted(m) ==
  \/ messages'[m].attempts = messages[m].attempts
  \/ \E name \in QueueName, t \in Readings :
        /\ ~Exhausted(m, t) /\ m \in Deliverable(Swept(t), name, t)
        /\ \A o \in MsgId : messages'[o].dlq = Swept(t)[o].dlq

Leaves(m) ==
  \/ messages'[m].queue = NoQueue
  \/ Present(m) /\ messages'[m].dlq # NoQueue

Arrives(m) ==
  \E name \in QueueName, r \in Request, n \in Nat :
    /\ m \in Fresh
    /\ HasGroup(name, r)
    /\ ~IsDuplicate(name, r)
    /\ IsNextSequence(name, r.group, n)
    /\ messages'[m] = NewMessage(name, r, n)
    /\ ordinal'[m] = sends + 1

(* The parts of a new message that the invariants read.                    *)
LEMMA NewMessageFields ==
  ASSUME TypeOK, NEW name \in QueueName, NEW r \in Request, NEW n \in Nat
  PROVE  /\ NewMessage(name, r, n).queue = name
         /\ NewMessage(name, r, n).group = r.group
         /\ NewMessage(name, r, n).dedup = DeduplicationId(name, r)
         /\ NewMessage(name, r, n).seq = n
         /\ NewMessage(name, r, n).attempts = 0
         /\ NewMessage(name, r, n).dlq = NoQueue
         /\ NewMessage(name, r, n).source = NoQueue
BY DEF NewMessage, Absent

LEMMA AbsentLeaves == Absent.queue = NoQueue
BY DEF Absent

(* A sweep keeps a message as it is or gives it a dead-letter queue.       *)
LEMMA SweptFate ==
  ASSUME TypeOK, NEW t \in Readings, NEW m \in MsgId
  PROVE  \/ ~Exhausted(m, t) /\ Swept(t)[m] = messages[m]
         \/ Exhausted(m, t) /\ Swept(t)[m].dlq # NoQueue
<1>1. CASE Exhausted(m, t)
  <2>1. Swept(t)[m] = Redriven(m, t)
    BY <1>1 DEF Swept
  <2>2. messages[m] \in Message
    BY TypeParts
  <2> QED
    BY <1>1, <2>1, <2>2 DEF Redriven, Exhausted, Message
<1>2. CASE ~Exhausted(m, t)
  BY <1>2 DEF Swept
<1> QED
  BY <1>1, <1>2

(* Only a send numbers a message.                                          *)
LEMMA SendFate ==
  ASSUME TypeOK, [Next]_vars, NEW m \in MsgId
  PROVE  /\ sends' \in {sends, sends + 1}
         /\ ordinal'[m] = ordinal[m] \/ (Arrives(m) /\ sends' = sends + 1)
<1>1. CASE SomeSend
  <2>1. PICK name \in QueueName, o \in Fresh, n \in 0..(sends + 1) :
          \E r \in Requests[name] : SendMessage(name, r, o, n)
    BY <1>1 DEF SomeSend
  <2>2. PICK r \in Requests[name] : SendMessage(name, r, o, n)
    BY <2>1
  <2>3. r \in Request /\ o \in MsgId /\ n \in Nat
    BY ServiceAssumption DEF Fresh, TypeOK
  <2>4. /\ messages' = [messages EXCEPT ![o] = NewMessage(name, r, n)]
        /\ sends' = sends + 1
        /\ ordinal' = [ordinal EXCEPT ![o] = sends + 1]
        /\ HasGroup(name, r) /\ ~IsDuplicate(name, r) /\ IsNextSequence(name, r.group, n)
    BY <2>2 DEF SendMessage
  <2>5. CASE m = o
    <3>1. messages'[m] = NewMessage(name, r, n) /\ ordinal'[m] = sends + 1
      BY <2>3, <2>4, <2>5 DEF TypeOK
    <3> QED
      BY <2>3, <2>4, <2>5, <3>1 DEF Arrives
  <2>6. CASE m # o
    BY <2>4, <2>6 DEF TypeOK
  <2> QED
    BY <2>5, <2>6
<1>2. CASE SomeBatchSend
  <2>1. PICK name \in QueueName : \E entries \in Batches[name] :
          \E new \in SUBSET DOMAIN entries :
            \E ids \in [new -> Fresh], nums \in [new -> 0..(sends + 1)] :
              SendMessageBatch(name, entries, ids, nums)
    BY <1>2 DEF SomeBatchSend
  <2>2. PICK entries \in Batches[name] :
          \E new \in SUBSET DOMAIN entries :
            \E ids \in [new -> Fresh], nums \in [new -> 0..(sends + 1)] :
              SendMessageBatch(name, entries, ids, nums)
    BY <2>1
  <2>3. PICK new \in SUBSET DOMAIN entries :
          \E ids \in [new -> Fresh], nums \in [new -> 0..(sends + 1)] :
            SendMessageBatch(name, entries, ids, nums)
    BY <2>2
  <2>4. PICK ids \in [new -> Fresh], nums \in [new -> 0..(sends + 1)] :
          SendMessageBatch(name, entries, ids, nums)
    BY <2>3
  <2>5. sends' = sends + 1
    BY <2>4 DEF SendMessageBatch
  <2>6. CASE \E i \in DOMAIN ids : ids[i] = m
    <3> DEFINE i == CHOOSE i \in DOMAIN ids : ids[i] = m
    <3>1. i \in new /\ ids[i] = m
      BY <2>6
    <3>2. /\ messages'[m] = NewMessage(name, entries[i], nums[i])
          /\ ordinal'[m] = sends + 1
      BY <2>4, <2>5, <2>6 DEF SendMessageBatch
    <3>3. entries[i] \in Request /\ nums[i] \in Nat /\ m \in Fresh
      BY <3>1, ServiceAssumption DEF TypeOK
    <3>4. /\ HasGroup(name, entries[i]) /\ ~IsDuplicate(name, entries[i])
          /\ IsNextSequence(name, entries[i].group, nums[i])
      BY <2>4, <3>1 DEF SendMessageBatch
    <3> HIDE DEF i
    <3> QED
      BY <2>5, <3>2, <3>3, <3>4 DEF Arrives
  <2>7. CASE ~ \E i \in DOMAIN ids : ids[i] = m
    BY <2>4, <2>5, <2>7 DEF SendMessageBatch
  <2> QED
    BY <2>6, <2>7
<1>3. CASE ~SomeSend /\ ~SomeBatchSend
  <2>1. sends' = sends /\ ordinal' = ordinal
    BY <1>3 DEF Next, MessageNext, QueueNext, vars, historyVars, Tick, WorkerAdvance, Sweep,
       SomeReceive, ReceiveMessage, SomeEmptyReceive, ReceiveNothing,
       SomeDelete, DeleteMessage, SomeBatchDelete, DeleteMessageBatch,
       SomeVisibilityChange, ChangeMessageVisibility,
       SomeBatchVisibilityChange, ChangeMessageVisibilityBatch,
       SomeCreate, CreateQueue, SomeSetAttributes, SetQueueAttributes,
       SomeQueueDelete, DeleteQueue, SomePurge, PurgeQueue
  <2> QED
    BY <2>1
<1> QED
  BY <1>1, <1>2, <1>3

(* A sweep keeps what identifies a message, or gives it a dead-letter      *)
(* queue; so does a receive.                                               *)
LEMMA SweepStepFate ==
  ASSUME TypeOK, NEW t \in Readings, NEW m \in MsgId,
         \/ messages'[m] = Swept(t)[m]
         \/ \E name \in QueueName : messages'[m] = Received(queues[name], Swept(t)[m], t)
  PROVE  Leaves(m) \/ (~Exhausted(m, t) /\ Kept(m))
<1>1. Swept(t)[m] \in Message
  BY SweptType
<1>2. /\ messages'[m].queue = Swept(t)[m].queue
      /\ messages'[m].group = Swept(t)[m].group
      /\ messages'[m].seq = Swept(t)[m].seq
      /\ messages'[m].dedup = Swept(t)[m].dedup
      /\ messages'[m].sentAt = Swept(t)[m].sentAt
      /\ messages'[m].dlq = Swept(t)[m].dlq
      /\ messages'[m].source = Swept(t)[m].source
  BY <1>1 DEF Received, Message
<1> QED
  BY <1>2, SweptFate DEF Leaves, Kept, Present, Exhausted

(* Giving a message another lease keeps what identifies it.                *)
LEMMA RetimedKeeps ==
  ASSUME NEW m \in MsgId, messages[m] \in Message, NEW v \in Nat,
         messages'[m] = Retimed(messages[m], v)
  PROVE  Kept(m) /\ messages'[m].attempts = messages[m].attempts
BY DEF Kept, Retimed, Message

(* Every step keeps a message, takes it out of the sibling order, or       *)
(* brings it with a send.                                                  *)
LEMMA MessageFate ==
  ASSUME TypeOK, [Next]_vars, NEW m \in MsgId
  PROVE  (Kept(m) /\ Counted(m)) \/ Leaves(m) \/ Arrives(m)
<1> USE TypeParts
<1>1. CASE messages' = messages
  BY <1>1 DEF Kept, Counted
<1>2. ASSUME NEW t \in Readings, Sweep(t) PROVE (Kept(m) /\ Counted(m)) \/ Leaves(m)
  <2>1. messages'[m] = Swept(t)[m]
    BY <1>2 DEF Sweep
  <2> QED
    BY <2>1, SweepStepFate, SweptFate DEF Counted
<1>3. CASE SomeReceive
  <2>1. PICK name \in QueueName, size \in ReceiveSizes, sel \in SUBSET MsgId, t \in Readings :
          ReceiveMessage(name, size, sel, t)
    BY <1>3 DEF SomeReceive
  <2>2. \/ messages'[m] = Swept(t)[m]
        \/ messages'[m] = Received(queues[name], Swept(t)[m], t)
    BY <2>1 DEF ReceiveMessage
  <2>3. CASE m \in sel /\ ~Exhausted(m, t)
    <3>1. m \in Deliverable(Swept(t), name, t)
      BY <2>1, <2>3 DEF ReceiveMessage, IsBatchOf
    <3>2. ASSUME NEW o \in MsgId PROVE messages'[o].dlq = Swept(t)[o].dlq
      <4>1. \/ messages'[o] = Swept(t)[o]
            \/ messages'[o] = Received(queues[name], Swept(t)[o], t)
        BY <2>1 DEF ReceiveMessage
      <4>2. Swept(t)[o] \in Message
        BY SweptType
      <4> QED
        BY <4>1, <4>2 DEF Received, Message
    <3> QED
      BY <2>2, <2>3, <3>1, <3>2, SweepStepFate DEF Counted
  <2>4. CASE m \notin sel /\ ~Exhausted(m, t)
    <3>1. messages'[m] = Swept(t)[m]
      BY <2>1, <2>4 DEF ReceiveMessage
    <3> QED
      BY <2>4, <3>1, SweepStepFate, SweptFate DEF Counted
  <2> QED
    BY <2>2, <2>3, <2>4, SweepStepFate
<1>4. CASE SomeSend
  <2>1. PICK name \in QueueName, o \in Fresh, n \in 0..(sends + 1) :
          \E r \in Requests[name] : SendMessage(name, r, o, n)
    BY <1>4 DEF SomeSend
  <2>2. ordinal'[o] = sends + 1 /\ o \in MsgId
    BY <2>1 DEF SendMessage, Fresh, TypeOK
  <2>3. \A u \in MsgId \ {o} : messages'[u] = messages[u]
    BY <2>1 DEF SendMessage
  <2>4. ordinal[o] = 0 /\ sends + 1 # 0
    BY DEF Fresh, TypeOK
  <2> QED
    BY <2>2, <2>3, <2>4, SendFate DEF Kept, Counted
<1>5. CASE SomeBatchSend
  <2>1. PICK name \in QueueName : \E entries \in Batches[name] :
          \E new \in SUBSET DOMAIN entries :
            \E ids \in [new -> Fresh], nums \in [new -> 0..(sends + 1)] :
              SendMessageBatch(name, entries, ids, nums)
    BY <1>5 DEF SomeBatchSend
  <2>2. PICK entries \in Batches[name] :
          \E new \in SUBSET DOMAIN entries :
            \E ids \in [new -> Fresh], nums \in [new -> 0..(sends + 1)] :
              SendMessageBatch(name, entries, ids, nums)
    BY <2>1
  <2>3. PICK new \in SUBSET DOMAIN entries :
          \E ids \in [new -> Fresh], nums \in [new -> 0..(sends + 1)] :
            SendMessageBatch(name, entries, ids, nums)
    BY <2>2
  <2>4. PICK ids \in [new -> Fresh], nums \in [new -> 0..(sends + 1)] :
          SendMessageBatch(name, entries, ids, nums)
    BY <2>3
  <2>5. CASE \E i \in DOMAIN ids : ids[i] = m
    <3>1. ordinal'[m] = sends + 1
      BY <2>4, <2>5 DEF SendMessageBatch
    <3>2. ordinal[m] = 0 /\ sends + 1 # 0
      BY <2>5 DEF Fresh, TypeOK
    <3> QED
      BY <3>1, <3>2, SendFate
  <2>6. CASE ~ \E i \in DOMAIN ids : ids[i] = m
    <3>1. messages'[m] = messages[m]
      BY <2>4, <2>6 DEF SendMessageBatch
    <3> QED
      BY <3>1 DEF Kept, Counted
  <2> QED
    BY <2>5, <2>6
<1>6. CASE SomeDelete \/ SomeBatchDelete
  <2>1. messages'[m] = Absent \/ messages'[m] = messages[m]
    BY <1>6 DEF SomeDelete, DeleteMessage, SomeBatchDelete, DeleteMessageBatch
  <2> QED
    BY <2>1, AbsentLeaves DEF Leaves, Kept, Counted
<1>7. CASE SomeQueueDelete \/ SomePurge
  <2>1. messages'[m] = Absent \/ messages'[m] = messages[m]
    BY <1>7 DEF SomeQueueDelete, DeleteQueue, SomePurge, PurgeQueue, RemoveMessagesForQueue
  <2> QED
    BY <2>1, AbsentLeaves DEF Leaves, Kept, Counted
<1>8. CASE SomeVisibilityChange \/ SomeBatchVisibilityChange
  <2>1. messages'[m] = messages[m] \/ \E v \in Nat : messages'[m] = Retimed(messages[m], v)
    <3>1. CASE SomeVisibilityChange
      BY <3>1, ServiceAssumption DEF SomeVisibilityChange, ChangeMessageVisibility
    <3>2. CASE SomeBatchVisibilityChange
      BY <3>2, ServiceAssumption DEF SomeBatchVisibilityChange, ChangeMessageVisibilityBatch
    <3> QED
      BY <1>8, <3>1, <3>2
  <2> QED
    BY <2>1, RetimedKeeps DEF Kept, Counted
<1>9. CASE WorkerAdvance \/ SomeEmptyReceive
  BY <1>2, <1>9 DEF WorkerAdvance, SomeEmptyReceive, ReceiveNothing
<1>10. CASE Tick \/ SomeCreate \/ SomeSetAttributes \/ UNCHANGED vars
  BY <1>1, <1>10 DEF Tick, SomeCreate, CreateQueue, SomeSetAttributes, SetQueueAttributes, vars
<1> QED
  BY <1>3, <1>4, <1>5, <1>6, <1>7, <1>8, <1>9, <1>10 DEF Next, MessageNext, QueueNext
-----------------------------------------------------------------------------
(* Leases. *)

(* What the lease on record says to the rules of delivery.                 *)
LEMMA LeaseOnRecord ==
  ASSUME TypeOK, LeaseInv, NEW m \in MsgId, Present(m), due[m] > now, NEW t \in Readings
  PROVE  /\ messages[m].queue \in QueueName
         /\ \A q \in Queue : ~IsVisible(q, messages[m], t) /\ ~CanRedeliver(q, messages[m], t)
<1>1. messages[m] \in Message /\ now \in Nat /\ due[m] \in Nat /\ t \in Nat /\ t <= now
  BY TypeParts DEF TypeOK, Readings
<1>2. /\ messages[m].receivedAt > 0 /\ messages[m].lease > 0
      /\ due[m] = messages[m].receivedAt + messages[m].lease
  BY DEF LeaseInv
<1>3. messages[m].receivedAt \in Nat /\ messages[m].lease \in Nat
  BY <1>1 DEF Message
<1>4. ASSUME NEW q \in Queue PROVE ~(t >= LeaseDeadline(q, messages[m]))
  BY <1>1, <1>2, <1>3 DEF LeaseDeadline, VisibilityTimeout
<1>5. messages[m].queue \in QueueName
  BY <1>1 DEF Message, Present
<1> QED
  BY <1>2, <1>3, <1>4, <1>5 DEF IsVisible, CanRedeliver

(* No sweep takes a leased message away, and no receive returns it.        *)
LEMMA LeasedIsSafe ==
  ASSUME TypeOK, LeaseInv, NEW m \in MsgId, Present(m), due[m] > now, NEW t \in Readings
  PROVE  /\ ~Exhausted(m, t)
         /\ \A name \in QueueName : m \notin Deliverable(messages, name, t)
<1>1. messages[m].queue \in QueueName /\ queues[messages[m].queue] \in Queue
  BY LeaseOnRecord DEF TypeOK
<1>2. \A q \in Queue : ~IsVisible(q, messages[m], t) /\ ~CanRedeliver(q, messages[m], t)
  BY LeaseOnRecord
<1>3. ~Exhausted(m, t)
  BY <1>1, <1>2 DEF Exhausted, IsDeadLetterEligible
<1>4. ASSUME NEW name \in QueueName PROVE m \notin Deliverable(messages, name, t)
  <2>1. queues[name] \in Queue
    BY DEF TypeOK
  <2> QED
    BY <1>2, <2>1 DEF Deliverable, IsInvisible
<1> QED
  BY <1>3, <1>4

LEMMA LeaseStep ==
  ASSUME TypeOK, TypeOK', IdsInv, LeaseInv, [Next]_vars
  PROVE  LeaseInv'
<1>1. now' > 0 /\ now' >= now /\ now \in Nat /\ now' \in Nat
  <2>1. now' = now \/ now' = now + 1
    <3>1. CASE Tick \/ UNCHANGED vars
      BY <3>1 DEF Tick, vars
    <3>2. CASE WorkerAdvance \/ SomeReceive \/ SomeEmptyReceive
      BY <3>2 DEF WorkerAdvance, Sweep, SomeReceive, ReceiveMessage,
         SomeEmptyReceive, ReceiveNothing
    <3>3. CASE SomeSend
      BY <3>3 DEF SomeSend, SendMessage
    <3>4. CASE SomeBatchSend
      BY <3>4 DEF SomeBatchSend, SendMessageBatch
    <3>5. CASE SomeDelete \/ SomeBatchDelete \/ SomeVisibilityChange \/ SomeBatchVisibilityChange
      BY <3>5 DEF SomeDelete, DeleteMessage, SomeBatchDelete, DeleteMessageBatch,
         SomeVisibilityChange, ChangeMessageVisibility,
         SomeBatchVisibilityChange, ChangeMessageVisibilityBatch
    <3>6. CASE QueueNext
      BY <3>6 DEF QueueNext, SomeCreate, CreateQueue, SomeSetAttributes, SetQueueAttributes,
         SomeQueueDelete, DeleteQueue, SomePurge, PurgeQueue
    <3> QED
      BY <3>1, <3>2, <3>3, <3>4, <3>5, <3>6 DEF Next, MessageNext
  <2> QED
    BY <2>1 DEF LeaseInv, TypeOK
<1> SUFFICES ASSUME NEW m \in MsgId, Present(m)', due'[m] > now'
             PROVE  /\ messages'[m].receivedAt > 0
                    /\ messages'[m].lease > 0
                    /\ due'[m] = messages'[m].receivedAt + messages'[m].lease
  BY <1>1 DEF LeaseInv
<1> DEFINE Leased == /\ messages'[m].receivedAt > 0
                     /\ messages'[m].lease > 0
                     /\ due'[m] = messages'[m].receivedAt + messages'[m].lease
<1>2. messages[m] \in Message /\ due[m] \in Nat /\ due'[m] \in Nat
  BY TypeParts DEF TypeOK
<1>3. CASE messages'[m] = messages[m] /\ due'[m] = due[m]
  <2>1. Present(m) /\ due[m] > now
    BY <1>1, <1>2, <1>3 DEF Present
  <2> QED
    BY <1>3, <2>1 DEF LeaseInv
<1>4. ASSUME NEW t \in Readings, messages'[m] = Swept(t)[m], due'[m] = due[m]
      PROVE  Leased
  <2>1. CASE Exhausted(m, t)
    <3>1. Present(m) /\ due[m] > now
      BY <1>1, <1>2, <1>4, <2>1 DEF Present, Exhausted
    <3> QED
      BY <2>1, <3>1, LeasedIsSafe
  <2>2. CASE ~Exhausted(m, t)
    BY <1>3, <1>4, <2>2, SweptFate
  <2> QED
    BY <2>1, <2>2
<1>5. CASE SomeReceive
  <2>1. PICK name \in QueueName, size \in ReceiveSizes, sel \in SUBSET MsgId, t \in Readings :
          ReceiveMessage(name, size, sel, t)
    BY <1>5 DEF SomeReceive
  <2>2. CASE m \in sel
    <3>1. /\ messages'[m] = Received(queues[name], Swept(t)[m], t)
          /\ due'[m] = t + VisibilityTimeout(queues[name], Swept(t)[m])
      BY <2>1, <2>2 DEF ReceiveMessage
    <3>2. Swept(t)[m] \in Message /\ queues[name] \in Queue /\ t \in Nat /\ t > 0
      BY SweptType DEF TypeOK, Readings
    <3>3. /\ Received(queues[name], Swept(t)[m], t).receivedAt = t
          /\ Received(queues[name], Swept(t)[m], t).lease
               = VisibilityTimeout(queues[name], Swept(t)[m])
      BY <3>2 DEF Received, Message
    <3>4. VisibilityTimeout(queues[name], Swept(t)[m]) > 0
      BY <3>2, TimeoutType
    <3> QED
      BY <3>1, <3>2, <3>3, <3>4
  <2>3. CASE m \notin sel
    <3>1. messages'[m] = Swept(t)[m] /\ due'[m] = due[m]
      BY <2>1, <2>3 DEF ReceiveMessage
    <3> QED
      BY <1>4, <3>1
  <2> QED
    BY <2>2, <2>3
<1>6. CASE WorkerAdvance \/ SomeEmptyReceive
  <2>1. PICK t \in Readings : Sweep(t)
    BY <1>6 DEF WorkerAdvance, SomeEmptyReceive, ReceiveNothing
  <2>2. messages'[m] = Swept(t)[m] /\ due'[m] = due[m]
    BY <2>1 DEF Sweep, historyVars
  <2> QED
    BY <1>4, <2>2
<1>7. CASE SomeSend \/ SomeBatchSend
  <2>1. due' = due /\ now' = now
    <3>1. CASE SomeSend
      BY <3>1 DEF SomeSend, SendMessage
    <3>2. CASE SomeBatchSend
      BY <3>2 DEF SomeBatchSend, SendMessageBatch
    <3> QED
      BY <1>7, <3>1, <3>2
  <2>2. ordinal[m] # 0
    BY <1>1, <1>2, <2>1 DEF IdsInv
  <2>3. messages'[m] = messages[m]
    <3>1. \A o \in Fresh : o # m
      BY <2>2 DEF Fresh
    <3>2. CASE SomeSend
      BY <3>1, <3>2 DEF SomeSend, SendMessage, TypeOK
    <3>3. CASE SomeBatchSend
      <4>1. PICK name \in QueueName : \E entries \in Batches[name] : \E new \in SUBSET DOMAIN entries :
              \E ids \in [new -> Fresh], nums \in [new -> 0..(sends + 1)] :
                SendMessageBatch(name, entries, ids, nums)
        BY <3>3 DEF SomeBatchSend
      <4>2. PICK entries \in Batches[name] : \E new \in SUBSET DOMAIN entries :
              \E ids \in [new -> Fresh], nums \in [new -> 0..(sends + 1)] :
                SendMessageBatch(name, entries, ids, nums)
        BY <4>1
      <4>3. PICK new \in SUBSET DOMAIN entries : \E ids \in [new -> Fresh], nums \in [new -> 0..(sends + 1)] :
              SendMessageBatch(name, entries, ids, nums)
        BY <4>2
      <4>4. PICK ids \in [new -> Fresh], nums \in [new -> 0..(sends + 1)] :
              SendMessageBatch(name, entries, ids, nums)
        BY <4>3
      <4>5. ~\E i \in DOMAIN ids : ids[i] = m
        BY <3>1, <4>4
      <4> QED
        BY <4>4, <4>5 DEF SendMessageBatch
    <3> QED
      BY <1>7, <3>2, <3>3
  <2> QED
    BY <1>3, <2>1, <2>3
<1>8. CASE SomeDelete \/ SomeBatchDelete \/ SomeQueueDelete \/ SomePurge
  <2>1. /\ messages'[m] = Absent \/ messages'[m] = messages[m]
        /\ due' = due
    <3>1. CASE SomeDelete
      BY <3>1 DEF SomeDelete, DeleteMessage, historyVars
    <3>2. CASE SomeBatchDelete
      BY <3>2 DEF SomeBatchDelete, DeleteMessageBatch, historyVars
    <3>3. CASE SomeQueueDelete \/ SomePurge
      BY <3>3 DEF SomeQueueDelete, DeleteQueue, SomePurge, PurgeQueue, RemoveMessagesForQueue
    <3> QED
      BY <1>8, <3>1, <3>2, <3>3
  <2> QED
    BY <1>3, <2>1, AbsentLeaves DEF Present
<1>9. ASSUME NEW v \in Nat, messages'[m] = Retimed(messages[m], v),
             due'[m] = now + v, now' = now
      PROVE  Leased
  <2>1. v > 0
    BY <1>1, <1>9
  <2>2. messages'[m].receivedAt = now /\ messages'[m].lease = v
    BY <1>2, <1>9, <2>1 DEF Retimed, Message
  <2> QED
    BY <1>1, <1>9, <2>1, <2>2
<1>10. CASE SomeVisibilityChange
  <2>1. PICK name \in QueueName, o \in MsgId, k \in 1..MaxAttempts, v \in Visibilities :
          ChangeMessageVisibility(name, o, k, v)
    BY <1>10 DEF SomeVisibilityChange
  <2>2. k = messages[o].attempts /\ now' = now /\ v \in Nat
    BY <2>1, ServiceAssumption DEF ChangeMessageVisibility, HandleIsCurrent
  <2>3. /\ messages' = [messages EXCEPT ![o] = Retimed(messages[o], v)]
        /\ due' = [due EXCEPT ![o] = now + v]
    BY <2>1, <2>2 DEF ChangeMessageVisibility, TypeOK
  <2>4. CASE m = o
    <3>1. messages'[m] = Retimed(messages[m], v) /\ due'[m] = now + v
      BY <2>3, <2>4 DEF TypeOK
    <3> QED
      BY <1>9, <2>2, <3>1
  <2>5. CASE m # o
    BY <1>3, <2>3, <2>5
  <2> QED
    BY <2>4, <2>5
<1>11. CASE SomeBatchVisibilityChange
  <2>1. PICK name \in QueueName, S \in SUBSET MsgId :
          \E f \in [S -> Visibilities] : ChangeMessageVisibilityBatch(name, f)
    BY <1>11 DEF SomeBatchVisibilityChange
  <2>2. PICK f \in [S -> Visibilities] : ChangeMessageVisibilityBatch(name, f)
    BY <2>1
  <2>3. CASE m \in S
    <3>1. /\ messages'[m] = Retimed(messages[m], f[m])
          /\ due'[m] = now + f[m] /\ now' = now
      BY <2>2, <2>3 DEF ChangeMessageVisibilityBatch
    <3>2. f[m] \in Nat
      BY <2>3, ServiceAssumption
    <3> QED
      BY <1>9, <3>1, <3>2
  <2>4. CASE m \notin S
    BY <1>3, <2>2, <2>4 DEF ChangeMessageVisibilityBatch
  <2> QED
    BY <2>3, <2>4
<1>12. CASE Tick \/ SomeCreate \/ SomeSetAttributes \/ UNCHANGED vars
  BY <1>3, <1>12 DEF Tick, SomeCreate, CreateQueue, SomeSetAttributes, SetQueueAttributes,
     vars, historyVars
<1> QED
  BY <1>5, <1>6, <1>7, <1>8, <1>10, <1>11, <1>12 DEF Next, MessageNext, QueueNext
-----------------------------------------------------------------------------
(* Order and deduplication. *)

LEMMA IdsStep ==
  ASSUME TypeOK, TypeOK', IdsInv, [Next]_vars
  PROVE  IdsInv'
<1> SUFFICES ASSUME NEW m \in MsgId
             PROVE  /\ Present(m)' => ordinal'[m] \in 1..sends'
                    /\ ordinal'[m] = 0 => due'[m] = 0
  BY DEF IdsInv
<1>1. sends \in Nat /\ ordinal[m] \in Nat /\ ordinal'[m] \in Nat /\ sends' \in {sends, sends + 1}
  BY SendFate DEF TypeOK
<1>2. CASE Arrives(m)
  <2>1. ordinal'[m] = sends + 1 /\ ordinal[m] = 0
    BY <1>2 DEF Arrives, Fresh
  <2> QED
    BY <1>1, <2>1, SendFate
<1>3. CASE ~Arrives(m)
  <2>1. ordinal'[m] = ordinal[m]
    BY <1>3, SendFate
  <2>2. Present(m)' => Present(m)
    BY <1>3, MessageFate DEF Kept, Leaves, Present
  <2>3. due'[m] = due[m] \/ ordinal[m] # 0
    <3>1. CASE SomeReceive
      <4>1. PICK name \in QueueName, size \in ReceiveSizes, sel \in SUBSET MsgId, t \in Readings :
              ReceiveMessage(name, size, sel, t)
        BY <3>1 DEF SomeReceive
      <4>2. CASE m \in sel
        <5>1. Swept(t)[m].queue = name
          BY <4>1, <4>2 DEF ReceiveMessage, IsBatchOf, Deliverable, MessageVisibleInQueue
        <5>2. Present(m)
          BY <5>1, SweptFate, DeliveryAssumption DEF Present, Exhausted
        <5> QED
          BY <1>1, <5>2 DEF IdsInv
      <4>3. CASE m \notin sel
        BY <4>1, <4>3 DEF ReceiveMessage
      <4> QED
        BY <4>2, <4>3
    <3>2. CASE SomeVisibilityChange
      <4>1. PICK name \in QueueName, o \in MsgId, k \in 1..MaxAttempts, v \in Visibilities :
              ChangeMessageVisibility(name, o, k, v)
        BY <3>2 DEF SomeVisibilityChange
      <4>2. CASE m = o
        <5>1. Present(m)
          BY <4>1, <4>2, DeliveryAssumption
          DEF ChangeMessageVisibility, HandleIsCurrent, MessageVisibleInQueue, Present
        <5> QED
          BY <1>1, <5>1 DEF IdsInv
      <4>3. CASE m # o
        BY <4>1, <4>3 DEF ChangeMessageVisibility
      <4> QED
        BY <4>2, <4>3
    <3>3. CASE SomeBatchVisibilityChange
      <4>1. PICK name \in QueueName, S \in SUBSET MsgId :
              \E f \in [S -> Visibilities] : ChangeMessageVisibilityBatch(name, f)
        BY <3>3 DEF SomeBatchVisibilityChange
      <4>2. PICK f \in [S -> Visibilities] : ChangeMessageVisibilityBatch(name, f)
        BY <4>1
      <4>3. CASE m \in S
        <5>1. Present(m)
          BY <4>2, <4>3, DeliveryAssumption
          DEF ChangeMessageVisibilityBatch, HandleIsCurrent, MessageVisibleInQueue, Present
        <5> QED
          BY <1>1, <5>1 DEF IdsInv
      <4>4. CASE m \notin S
        BY <4>2, <4>4 DEF ChangeMessageVisibilityBatch
      <4> QED
        BY <4>3, <4>4
    <3>4. CASE SomeSend
      BY <3>4 DEF SomeSend, SendMessage
    <3>5. CASE SomeBatchSend
      BY <3>5 DEF SomeBatchSend, SendMessageBatch
    <3>6. CASE WorkerAdvance \/ SomeEmptyReceive
      BY <3>6 DEF WorkerAdvance, SomeEmptyReceive, ReceiveNothing, Sweep, historyVars
    <3>7. CASE SomeDelete \/ SomeBatchDelete
      BY <3>7 DEF SomeDelete, DeleteMessage, SomeBatchDelete, DeleteMessageBatch, historyVars
    <3>8. CASE QueueNext
      BY <3>8 DEF QueueNext, SomeCreate, CreateQueue, SomeSetAttributes, SetQueueAttributes,
         SomeQueueDelete, DeleteQueue, SomePurge, PurgeQueue, historyVars
    <3>9. CASE Tick \/ UNCHANGED vars
      BY <3>9 DEF Tick, vars, historyVars
    <3> QED
      BY <3>1, <3>2, <3>3, <3>4, <3>5, <3>6, <3>7, <3>8, <3>9 DEF Next, MessageNext
  <2> QED
    BY <1>1, <2>1, <2>2, <2>3 DEF IdsInv
<1> QED
  BY <1>2, <1>3

(* A queue that delivers in order never stops doing so.                    *)
LEMMA FifoStays ==
  ASSUME TypeOK, [Next]_vars, NEW name \in QueueName, queues[name].fifo
  PROVE  queues'[name].fifo
<1>1. queues \in [QueueName -> Queue] /\ \A nm \in QueueName : queues[nm] \in Queue
  BY DEF TypeOK
<1>2. CASE SomeCreate
  <2>1. PICK nm \in QueueName : \E attrs \in OfferedAttributes[nm] : CreateQueue(nm, attrs)
    BY <1>2 DEF SomeCreate
  <2>2. PICK attrs \in OfferedAttributes[nm] : CreateQueue(nm, attrs)
    BY <2>1
  <2> DEFINE hint == attrs.fifo \/ queues[nm].fifo
             q == [attrs |-> attrs, fifo |-> hint,
                   createdAt |-> now, deletedAt |-> 0, purgedAt |-> 0]
  <2>3. queues' = [queues EXCEPT ![nm] = q]
    BY <2>2 DEF CreateQueue
  <2>4. q.fifo = hint
    OBVIOUS
  <2>5. CASE name = nm
    <3>1. queues'[name] = q /\ hint
      BY <1>1, <2>3, <2>5
    <3> QED
      BY <2>4, <3>1
  <2>6. CASE name # nm
    BY <2>3, <2>6
  <2> QED
    BY <2>5, <2>6
<1>3. CASE SomeSetAttributes
  BY <1>1, <1>3 DEF SomeSetAttributes, SetQueueAttributes, Queue
<1>4. CASE SomeQueueDelete
  BY <1>1, <1>4 DEF SomeQueueDelete, DeleteQueue, Queue
<1>5. CASE SomePurge
  BY <1>1, <1>5 DEF SomePurge, PurgeQueue, Queue
<1>6. CASE SomeSend
  BY <1>6 DEF SomeSend, SendMessage
<1>7. CASE SomeBatchSend
  BY <1>7 DEF SomeBatchSend, SendMessageBatch
<1>8. CASE WorkerAdvance \/ SomeReceive \/ SomeEmptyReceive
  BY <1>8 DEF WorkerAdvance, Sweep, SomeReceive, ReceiveMessage, SomeEmptyReceive, ReceiveNothing
<1>9. CASE SomeDelete \/ SomeBatchDelete \/ SomeVisibilityChange \/ SomeBatchVisibilityChange
  BY <1>9 DEF SomeDelete, DeleteMessage, SomeBatchDelete, DeleteMessageBatch,
     SomeVisibilityChange, ChangeMessageVisibility,
     SomeBatchVisibilityChange, ChangeMessageVisibilityBatch
<1>10. CASE Tick \/ UNCHANGED vars
  BY <1>10 DEF Tick, vars
<1> QED
  BY <1>2, <1>3, <1>4, <1>5, <1>6, <1>7, <1>8, <1>9, <1>10 DEF Next, MessageNext, QueueNext

(* The later of two siblings is a message that stayed or one that came;    *)
(* the earlier one was there before.                                       *)
LEMMA SiblingsBefore ==
  ASSUME TypeOK, TypeOK', IdsInv', [Next]_vars, NEW m \in MsgId, NEW o \in MsgId,
         Siblings(m, o)', ordinal'[m] < ordinal'[o]
  PROVE  /\ Kept(m) /\ Counted(m) /\ Present(m) /\ ordinal'[m] = ordinal[m]
         /\ \/ Arrives(o)
            \/ /\ Kept(o) /\ Counted(o) /\ ordinal'[o] = ordinal[o]
               /\ Siblings(m, o)
<1>1. ~Leaves(m) /\ ~Leaves(o)
  BY DEF Siblings, Leaves, Present
<1>2. ordinal'[o] \in 1..sends' /\ sends' \in {sends, sends + 1} /\ sends \in Nat
  BY SendFate DEF IdsInv, Siblings, Present, TypeOK
<1>3. ~Arrives(m)
  BY <1>2 DEF Arrives, TypeOK
<1>4. Kept(m) /\ Counted(m) /\ ordinal'[m] = ordinal[m]
  BY <1>1, <1>3, MessageFate, SendFate
<1>5. Present(m)
  BY <1>4 DEF Kept, Siblings, Present
<1>6. CASE ~Arrives(o)
  <2>1. Kept(o) /\ Counted(o) /\ ordinal'[o] = ordinal[o]
    BY <1>1, <1>6, MessageFate, SendFate
  <2> QED
    BY <1>4, <1>5, <2>1 DEF Kept, Siblings, Present
<1> QED
  BY <1>4, <1>5, <1>6

LEMMA SequenceStep ==
  ASSUME TypeOK, TypeOK', IdsInv', SequenceInv, [Next]_vars
  PROVE  SequenceInv'
<1>1. ASSUME NEW m \in MsgId, Present(m)', messages'[m].dlq = NoQueue
      PROVE  /\ messages'[m].source = NoQueue
             /\ messages'[m].seq > 0 =>
                   queues'[messages'[m].queue].fifo /\ messages'[m].group # NoGroup
  <2>1. ~Leaves(m)
    BY <1>1 DEF Leaves, Present
  <2>2. CASE Arrives(m)
    <3>1. PICK name \in QueueName, r \in Request, n \in Nat :
            /\ HasGroup(name, r)
            /\ IsNextSequence(name, r.group, n)
            /\ messages'[m] = NewMessage(name, r, n)
      BY <2>2 DEF Arrives
    <3>2. /\ messages'[m].queue = name /\ messages'[m].group = r.group
          /\ messages'[m].seq = n /\ messages'[m].source = NoQueue
      BY <3>1, NewMessageFields
    <3>3. n > 0 => queues[name].fifo
      BY <3>1 DEF IsNextSequence
    <3> QED
      BY <3>1, <3>2, <3>3, FifoStays DEF HasGroup
  <2>3. CASE ~Arrives(m)
    <3>1. Kept(m)
      BY <2>1, <2>3, MessageFate
    <3>2. Present(m) /\ messages[m].dlq = NoQueue /\ messages[m].queue \in QueueName
      BY <1>1, <3>1, TypeParts DEF Kept, Present, Message
    <3> QED
      BY <3>1, <3>2, FifoStays DEF Kept, SequenceInv
  <2> QED
    BY <2>2, <2>3
<1>2. ASSUME NEW m \in MsgId, NEW o \in MsgId, Siblings(m, o)', ordinal'[m] < ordinal'[o]
      PROVE  messages'[m].seq < messages'[o].seq
  <2>1. Kept(m) /\ Present(m) /\ ordinal'[m] = ordinal[m]
    BY <1>2, SiblingsBefore
  <2>2. CASE Arrives(o)
    <3>1. PICK name \in QueueName, r \in Request, n \in Nat :
            /\ IsNextSequence(name, r.group, n)
            /\ messages'[o] = NewMessage(name, r, n)
      BY <2>2 DEF Arrives
    <3>2. /\ messages'[o].queue = name /\ messages'[o].group = r.group
          /\ messages'[o].seq = n
      BY <3>1, NewMessageFields
    <3>3. /\ messages[m].queue = name /\ messages[m].group = r.group
          /\ messages'[m].seq = messages[m].seq /\ n > 0
      BY <1>2, <2>1, <3>2 DEF Siblings, Kept
    <3> QED
      BY <3>1, <3>2, <3>3 DEF IsNextSequence
  <2>3. CASE ~Arrives(o)
    <3>1. Kept(o) /\ Siblings(m, o) /\ ordinal[m] < ordinal[o]
      BY <1>2, <2>1, <2>3, SiblingsBefore
    <3> QED
      BY <2>1, <3>1 DEF SequenceInv, Kept
  <2> QED
    BY <2>2, <2>3
<1> QED
  BY <1>1, <1>2 DEF SequenceInv

LEMMA FifoStep ==
  ASSUME TypeOK, TypeOK', IdsInv', SequenceInv, FifoOrder, [Next]_vars
  PROVE  FifoOrder'
<1> SUFFICES ASSUME NEW m \in MsgId, NEW o \in MsgId,
                    Siblings(m, o)', ordinal'[m] < ordinal'[o]
             PROVE  messages'[o].attempts = 0
  BY DEF FifoOrder
<1>1. CASE Arrives(o)
  BY <1>1, NewMessageFields DEF Arrives
<1>2. CASE ~Arrives(o)
  <2>1. /\ Kept(m) /\ Present(m) /\ Kept(o) /\ Counted(o)
        /\ Siblings(m, o) /\ ordinal[m] < ordinal[o]
    BY <1>2, SiblingsBefore
  <2>2. messages[o].attempts = 0
    BY <2>1 DEF FifoOrder
  <2>3. ASSUME NEW name \in QueueName, NEW t \in Readings,
               ~Exhausted(o, t), o \in Deliverable(Swept(t), name, t),
               \A u \in MsgId : messages'[u].dlq = Swept(t)[u].dlq
        PROVE  FALSE
    <3>1. Swept(t)[o] = messages[o]
      BY <2>3, SweptFate
    <3>2. Swept(t)[m] = messages[m]
      BY <2>3, SweptFate DEF Siblings
    <3>3. /\ messages[o].queue = name /\ messages[m].queue = name
          /\ messages[m].group = messages[o].group /\ m # o
      BY <2>1, <2>3, <3>1 DEF Deliverable, MessageVisibleInQueue, Siblings, TypeOK
    <3>4. messages[m].source = NoQueue /\ queues[name].fifo /\ messages[o].group # NoGroup
      BY <2>1, <3>3 DEF SequenceInv, Siblings
    <3>5. MessageVisibleInQueue(Swept(t)[m], name)
      BY <3>2, <3>3, <3>4, DeliveryAssumption DEF MessageVisibleInQueue
    <3>6. messages[m].seq < messages[o].seq /\ messages[m].seq > 0 /\ messages[o].seq > 0
      BY <2>1 DEF SequenceInv, Siblings
    <3>7. messages[m].seq \in Nat /\ messages[o].seq \in Nat
      BY TypeParts DEF Message
    <3>8. FifoBefore(Swept(t)[m], m, Swept(t)[o], o)
      BY <3>1, <3>2, <3>6, <3>7 DEF FifoBefore
    <3>9. FifoDeliveryBlocked(Swept(t), o, name)
      BY <3>1, <3>2, <3>3, <3>4, <3>5, <3>8 DEF FifoDeliveryBlocked
    <3> QED
      BY <2>3, <3>4, <3>9 DEF Deliverable
  <2> QED
    BY <2>1, <2>2, <2>3 DEF Counted
<1> QED
  BY <1>1, <1>2

LEMMA DedupStep ==
  ASSUME TypeOK, TypeOK', IdsInv', SequenceInv, DedupHonoured, [Next]_vars
  PROVE  DedupHonoured'
<1> SUFFICES ASSUME NEW m \in MsgId, NEW o \in MsgId,
                    Siblings(m, o)', ordinal'[m] < ordinal'[o],
                    messages'[m].dedup # NoDedup,
                    messages'[m].dedup = messages'[o].dedup
             PROVE  messages'[o].sentAt - messages'[m].sentAt > DedupWindow
  BY DEF DedupHonoured
<1>1. Kept(m) /\ Present(m)
  BY SiblingsBefore
<1>2. CASE Arrives(o)
  <2>1. PICK name \in QueueName, r \in Request, n \in Nat :
          /\ ~IsDuplicate(name, r)
          /\ IsNextSequence(name, r.group, n)
          /\ messages'[o] = NewMessage(name, r, n)
    BY <1>2 DEF Arrives
  <2>2. /\ messages'[o].queue = name /\ messages'[o].group = r.group
        /\ messages'[o].dedup = DeduplicationId(name, r)
        /\ messages'[o].seq = n /\ messages'[o].sentAt = now
    BY <2>1, NewMessageFields, NewMessageType
  <2>3. /\ messages[m].queue = name /\ messages[m].group = r.group
        /\ messages[m].dedup = DeduplicationId(name, r)
        /\ messages[m].dlq = NoQueue /\ n > 0
    BY <1>1, <2>2 DEF Siblings, Kept
  <2>4. messages[m].source = NoQueue
    BY <1>1, <2>3 DEF SequenceInv
  <2>5. queues[name].fifo
    BY <2>1, <2>3 DEF IsNextSequence
  <2>6. m \notin Duplicates(name, r)
    BY <1>1, <2>1, <2>3, <2>5 DEF IsDuplicate, Kept
  <2>7. ~(now - messages[m].sentAt <= DedupWindow)
    BY <2>3, <2>4, <2>6, DeliveryAssumption DEF Duplicates, MessageVisibleInQueue
  <2>8. now \in Nat /\ messages[m].sentAt \in Nat /\ DedupWindow \in Nat
    BY TypeParts, ServiceAssumption DEF Message
  <2> QED
    BY <1>1, <2>2, <2>7, <2>8 DEF Kept
<1>3. CASE ~Arrives(o)
  <2>1. Kept(o) /\ Siblings(m, o) /\ ordinal[m] < ordinal[o]
    BY <1>3, SiblingsBefore
  <2> QED
    BY <1>1, <2>1 DEF DedupHonoured, Kept
<1> QED
  BY <1>2, <1>3
-----------------------------------------------------------------------------
(* The invariant holds, and with it the three properties.                  *)
LEMMA Invariance == Spec => []IInv
<1>1. Init => IInv
  <2> SUFFICES ASSUME Init PROVE IInv
    OBVIOUS
  <2>1. TypeOK
    BY TypeInit
  <2>2. \A m \in MsgId : ~Present(m) /\ due[m] = 0
    BY AbsentLeaves DEF Init, InitWith, Present
  <2>3. now = 1
    BY DEF Init, InitWith
  <2> QED
    BY <2>1, <2>2, <2>3 DEF IInv, IdsInv, LeaseInv, SequenceInv, FifoOrder, DedupHonoured, Siblings
<1>2. IInv /\ [Next]_vars => IInv'
  <2> SUFFICES ASSUME IInv, [Next]_vars PROVE IInv'
    OBVIOUS
  <2>1. TypeOK'
    BY TypeStep DEF IInv
  <2>2. IdsInv'
    BY <2>1, IdsStep DEF IInv
  <2>3. LeaseInv'
    BY <2>1, LeaseStep DEF IInv
  <2> QED
    BY <2>1, <2>2, <2>3, SequenceStep, FifoStep, DedupStep DEF IInv
<1> QED
  BY <1>1, <1>2, PTL DEF Spec

(* A lease is exclusive until it ends: no receive and no sweep touches the *)
(* message, for every history of attributes, handles and clock readings.   *)
THEOREM LeaseExclusive == Spec => []LeaseHonoured
<1>1. IInv => LeaseHonoured
  BY LeasedIsSafe DEF IInv, LeaseHonoured
<1> QED
  BY <1>1, Invariance, PTL

(* In a FIFO group nothing is handed out while an earlier send is there.   *)
THEOREM OrderKept == Spec => []FifoOrder
<1>1. IInv => FifoOrder
  BY DEF IInv
<1> QED
  BY <1>1, Invariance, PTL

(* Two sends with one deduplication id are a window apart, batches aside.  *)
THEOREM Deduplicated == Spec => []DedupHonoured
<1>1. IInv => DedupHonoured
  BY DEF IInv
<1> QED
  BY <1>1, Invariance, PTL
=============================================================================
