---------------------------- MODULE SqsLifeProofs ----------------------------
(***************************************************************************)
(* More theorems about SqsQueue: the lives of a queue name, the records of *)
(* redriven messages, the limit on receives, and that the service is a     *)
(* MessagePool; and theorems about SqsPersistence: what failed writes and  *)
(* restarts cannot undo.                                                   *)
(***************************************************************************)
EXTENDS SqsQueueProofs, SqsPersistence
-----------------------------------------------------------------------------
(* Cooldowns. *)

(* What the queue record tells of the last purge and the last delete.  It  *)
(* forgets a purge when the queue is deleted, and a delete when it is      *)
(* created again, which takes a cooldown after the delete.                 *)
Remembered(name) ==
  /\ lastPurge[name] <= now
  /\ ~Exists(name) => lastPurge[name] = 0 /\ lastDelete[name] = 0
  /\ queues[name].deletedAt # 0 =>
        /\ lastDelete[name] = queues[name].deletedAt
        /\ lastPurge[name] <= queues[name].deletedAt
  /\ Active(name) =>
        /\ queues[name].purgedAt # 0 => lastPurge[name] = queues[name].purgedAt
        /\ queues[name].purgedAt = 0 =>
              lastPurge[name] = 0 \/ queues[name].createdAt - lastPurge[name] >= Cooldown
        /\ lastDelete[name] = 0 \/ queues[name].createdAt - lastDelete[name] >= Cooldown

CooldownInv == \A name \in QueueName : Remembered(name)

(* Everything but the operations on queues leaves the queues alone.        *)
LEMMA QueuesKept ==
  ASSUME [Next]_vars, ~QueueNext
  PROVE  UNCHANGED <<queues, lastPurge, lastDelete>>
<1>1. CASE Tick \/ UNCHANGED vars
  BY <1>1 DEF Tick, vars, historyVars
<1>2. CASE WorkerAdvance \/ SomeReceive \/ SomeEmptyReceive
  BY <1>2 DEF WorkerAdvance, Sweep, SomeReceive, ReceiveMessage,
     SomeEmptyReceive, ReceiveNothing, historyVars
<1>3. CASE SomeSend
  BY <1>3 DEF SomeSend, SendMessage
<1>4. CASE SomeBatchSend
  BY <1>4 DEF SomeBatchSend, SendMessageBatch
<1>5. CASE SomeDelete \/ SomeBatchDelete
  BY <1>5 DEF SomeDelete, DeleteMessage, SomeBatchDelete, DeleteMessageBatch, historyVars
<1>6. CASE SomeVisibilityChange \/ SomeBatchVisibilityChange
  BY <1>6 DEF SomeVisibilityChange, ChangeMessageVisibility,
     SomeBatchVisibilityChange, ChangeMessageVisibilityBatch
<1> QED
  BY <1>1, <1>2, <1>3, <1>4, <1>5, <1>6 DEF Next, MessageNext

LEMMA QueueTypes ==
  ASSUME TypeOK, NEW name \in QueueName
  PROVE  /\ now \in Nat
         /\ queues[name].createdAt \in Nat /\ queues[name].createdAt <= now
         /\ queues[name].deletedAt \in Nat /\ queues[name].deletedAt <= now
         /\ queues[name].purgedAt \in Nat /\ queues[name].purgedAt <= now
         /\ lastPurge[name] \in Nat /\ lastDelete[name] \in Nat
BY DEF TypeOK, Queue

(* Time never runs backwards. *)
LEMMA ClockStep ==
  ASSUME TypeOK, [Next]_vars
  PROVE  /\ now \in Nat /\ now' \in Nat /\ now <= now'
         /\ ~Tick => now' = now
<1>1. now \in Nat
  BY DEF TypeOK
<1>2. CASE Tick
  BY <1>1, <1>2 DEF Tick
<1>3. CASE ~Tick
  <2> SUFFICES now' = now
    BY <1>1
  <2>1. CASE QueueNext \/ UNCHANGED vars
    BY <2>1 DEF vars, QueueNext, SomeCreate, CreateQueue, SomeSetAttributes, SetQueueAttributes,
       SomeQueueDelete, DeleteQueue, SomePurge, PurgeQueue
  <2>2. CASE WorkerAdvance \/ SomeReceive \/ SomeEmptyReceive
    BY <2>2 DEF WorkerAdvance, Sweep, SomeReceive, ReceiveMessage,
       SomeEmptyReceive, ReceiveNothing
  <2>3. CASE SomeSend
    BY <2>3 DEF SomeSend, SendMessage
  <2>4. CASE SomeBatchSend
    BY <2>4 DEF SomeBatchSend, SendMessageBatch
  <2>5. CASE SomeDelete \/ SomeBatchDelete
    BY <2>5 DEF SomeDelete, DeleteMessage, SomeBatchDelete, DeleteMessageBatch
  <2>6. CASE SomeVisibilityChange \/ SomeBatchVisibilityChange
    BY <2>6 DEF SomeVisibilityChange, ChangeMessageVisibility,
       SomeBatchVisibilityChange, ChangeMessageVisibilityBatch
  <2> QED
    BY <1>1, <1>3, <2>1, <2>2, <2>3, <2>4, <2>5, <2>6 DEF Next, MessageNext
<1> QED
  BY <1>1, <1>2, <1>3

LEMMA CooldownStep ==
  ASSUME TypeOK, CooldownInv, [Next]_vars
  PROVE  CooldownInv'
<1> SUFFICES ASSUME NEW name \in QueueName PROVE Remembered(name)'
  BY DEF CooldownInv
<1>1. now \in Nat /\ now' \in Nat /\ now <= now'
  BY ClockStep
<1>2. Remembered(name)
  BY DEF CooldownInv
<1>3. /\ queues \in [QueueName -> Queue] /\ queues[name] \in Queue
      /\ lastPurge \in [QueueName -> Nat] /\ lastDelete \in [QueueName -> Nat]
      /\ Cooldown \in Nat
  BY ServiceAssumption DEF TypeOK
<1>4. ASSUME queues'[name] = queues[name],
             lastPurge'[name] = lastPurge[name], lastDelete'[name] = lastDelete[name]
      PROVE  Remembered(name)'
  BY <1>1, <1>2, <1>3, <1>4 DEF Remembered, Exists, Active
<1>5. CASE ~QueueNext
  BY <1>4, <1>5, QueuesKept
<1>6. CASE SomeCreate
  <2>1. PICK nm \in QueueName : \E attrs \in OfferedAttributes[nm] : CreateQueue(nm, attrs)
    BY <1>6 DEF SomeCreate
  <2>2. lastPurge' = lastPurge /\ lastDelete' = lastDelete /\ now' = now
    BY <2>1 DEF CreateQueue, historyVars
  <2>3. CASE nm = name
    <3>1. /\ queues'[name].createdAt = now /\ queues'[name].deletedAt = 0
          /\ queues'[name].purgedAt = 0
          /\ Exists(name) => queues[name].deletedAt # 0 /\ now - queues[name].deletedAt >= Cooldown
      BY <1>3, <2>1, <2>3 DEF CreateQueue
    <3> QED
      BY <1>1, <1>2, <1>3, <2>2, <3>1, QueueTypes DEF Remembered, Exists, Active
  <2>4. CASE nm # name
    BY <1>3, <1>4, <2>1, <2>2, <2>4 DEF CreateQueue
  <2> QED
    BY <2>3, <2>4
<1>7. CASE SomeSetAttributes
  <2>1. PICK nm \in QueueName : \E attrs \in OfferedAttributes[nm] : SetQueueAttributes(nm, attrs)
    BY <1>7 DEF SomeSetAttributes
  <2>2. /\ lastPurge' = lastPurge /\ lastDelete' = lastDelete /\ now' = now
        /\ queues'[name].createdAt = queues[name].createdAt
        /\ queues'[name].deletedAt = queues[name].deletedAt
        /\ queues'[name].purgedAt = queues[name].purgedAt
    BY <1>3, <2>1 DEF SetQueueAttributes, historyVars, Queue
  <2> QED
    BY <1>2, <2>2 DEF Remembered, Exists, Active
<1>8. CASE SomeQueueDelete
  <2>1. PICK nm \in QueueName : DeleteQueue(nm)
    BY <1>8 DEF SomeQueueDelete
  <2>2. lastPurge' = lastPurge /\ now' = now
    BY <2>1 DEF DeleteQueue
  <2>3. CASE nm = name
    <3>1. /\ queues'[name].createdAt = queues[name].createdAt
          /\ queues'[name].deletedAt = now
          /\ lastDelete'[name] = now
          /\ Active(name)
      BY <1>3, <2>1, <2>3 DEF DeleteQueue, Queue
    <3>2. now # 0
      BY <3>1, QueueTypes DEF Active, Exists
    <3> QED
      BY <1>1, <1>2, <2>2, <3>1, <3>2 DEF Remembered, Exists, Active
  <2>4. CASE nm # name
    BY <1>3, <1>4, <2>1, <2>2, <2>4 DEF DeleteQueue
  <2> QED
    BY <2>3, <2>4
<1>9. CASE SomePurge
  <2>1. PICK nm \in QueueName : PurgeQueue(nm)
    BY <1>9 DEF SomePurge
  <2>2. lastDelete' = lastDelete /\ now' = now
    BY <2>1 DEF PurgeQueue
  <2>3. CASE nm = name
    <3>1. /\ queues'[name].createdAt = queues[name].createdAt
          /\ queues'[name].deletedAt = queues[name].deletedAt
          /\ queues'[name].purgedAt = now
          /\ lastPurge'[name] = now
          /\ Active(name)
      BY <1>3, <2>1, <2>3 DEF PurgeQueue, Queue
    <3>2. now # 0
      BY <3>1, QueueTypes DEF Active, Exists
    <3> QED
      BY <1>1, <1>2, <2>2, <3>1, <3>2 DEF Remembered, Exists, Active
  <2>4. CASE nm # name
    BY <1>3, <1>4, <2>1, <2>2, <2>4 DEF PurgeQueue
  <2> QED
    BY <2>3, <2>4
<1> QED
  BY <1>5, <1>6, <1>7, <1>8, <1>9 DEF QueueNext

(* What one step does to the times of the last purge and delete.           *)
LEMMA CooldownKept ==
  ASSUME TypeOK, CooldownInv, [Next]_vars, NEW name \in QueueName
  PROVE  /\ lastPurge'[name] # lastPurge[name] /\ lastPurge[name] # 0
              => lastPurge'[name] - lastPurge[name] >= Cooldown
         /\ lastDelete'[name] # lastDelete[name] /\ lastDelete[name] # 0
              => lastDelete'[name] - lastDelete[name] >= Cooldown
<1>1. Remembered(name)
  BY DEF CooldownInv
<1>2. /\ queues[name] \in Queue /\ Cooldown \in Nat
      /\ lastPurge \in [QueueName -> Nat] /\ lastDelete \in [QueueName -> Nat]
  BY ServiceAssumption DEF TypeOK
<1>3. CASE ~QueueNext \/ SomeCreate \/ SomeSetAttributes
  BY <1>3, QueuesKept DEF SomeCreate, CreateQueue, SomeSetAttributes, SetQueueAttributes, historyVars
<1>4. CASE SomeQueueDelete
  <2>1. PICK nm \in QueueName : DeleteQueue(nm)
    BY <1>4 DEF SomeQueueDelete
  <2>2. /\ lastPurge' = lastPurge
        /\ nm # name => lastDelete'[name] = lastDelete[name]
        /\ nm = name => lastDelete'[name] = now /\ Active(name)
    BY <1>2, <2>1 DEF DeleteQueue
  <2> QED
    BY <1>1, <1>2, <2>2, QueueTypes DEF Remembered
<1>5. CASE SomePurge
  <2>1. PICK nm \in QueueName : PurgeQueue(nm)
    BY <1>5 DEF SomePurge
  <2>2. /\ lastDelete' = lastDelete
        /\ nm # name => lastPurge'[name] = lastPurge[name]
        /\ nm = name =>
              /\ lastPurge'[name] = now /\ Active(name)
              /\ queues[name].purgedAt # 0 => now - queues[name].purgedAt >= Cooldown
    BY <1>2, <2>1 DEF PurgeQueue
  <2> QED
    BY <1>1, <1>2, <2>2, QueueTypes DEF Remembered
<1> QED
  BY <1>3, <1>4, <1>5 DEF QueueNext
-----------------------------------------------------------------------------
(* What a step does to a message, as far as its place is concerned.        *)

Stays(m) ==
  /\ messages'[m].queue = messages[m].queue
  /\ messages'[m].sentAt = messages[m].sentAt
  /\ messages'[m].dlq = messages[m].dlq
  /\ messages'[m].source = messages[m].source
  /\ messages'[m].deadLetteredAt = messages[m].deadLetteredAt

Moves(m) ==
  \E t \in Readings :
    /\ Exhausted(m, t)
    /\ messages'[m].queue = Redriven(m, t).queue
    /\ messages'[m].sentAt = messages[m].sentAt
    /\ messages'[m].dlq = queues[messages[m].queue].attrs.dlq
    /\ messages'[m].source = messages[m].queue
    /\ messages'[m].deadLetteredAt = t
    /\ recovery' = RecoverySwept(t)

Comes(m) ==
  \E name \in QueueName :
    /\ Active(name)
    /\ messages'[m].queue = name
    /\ messages'[m].sentAt = now
    /\ messages'[m].dlq = NoQueue

Place(m) == Stays(m) \/ Moves(m) \/ Comes(m) \/ ~Present(m)'

(* A step that sweeps, and may hand m out. *)
LEMMA SweepPlace ==
  ASSUME TypeOK, NEW t \in Readings, NEW m \in MsgId,
         \/ messages'[m] = Swept(t)[m]
         \/ \E name \in QueueName : messages'[m] = Received(queues[name], Swept(t)[m], t),
         recovery' = RecoverySwept(t)
  PROVE  Stays(m) \/ Moves(m)
<1>1. Swept(t)[m] \in Message /\ messages[m] \in Message
  BY SweptType, TypeParts
<1>2. /\ messages'[m].queue = Swept(t)[m].queue
      /\ messages'[m].sentAt = Swept(t)[m].sentAt
      /\ messages'[m].dlq = Swept(t)[m].dlq
      /\ messages'[m].source = Swept(t)[m].source
      /\ messages'[m].deadLetteredAt = Swept(t)[m].deadLetteredAt
  BY <1>1 DEF Received, Message
<1>3. CASE Exhausted(m, t)
  <2>1. Swept(t)[m] = Redriven(m, t)
    BY <1>3 DEF Swept
  <2>2. /\ Redriven(m, t).sentAt = messages[m].sentAt
        /\ Redriven(m, t).dlq = queues[messages[m].queue].attrs.dlq
        /\ Redriven(m, t).source = messages[m].queue
        /\ Redriven(m, t).deadLetteredAt = t
    BY <1>1 DEF Redriven, Message
  <2> QED
    BY <1>2, <1>3, <2>1, <2>2 DEF Moves
<1>4. CASE ~Exhausted(m, t)
  BY <1>2, <1>4, SweptFate DEF Stays
<1> QED
  BY <1>3, <1>4

LEMMA NewMessagePlace ==
  ASSUME TypeOK, NEW name \in QueueName, NEW r \in Request, NEW n \in Nat, NEW m \in MsgId,
         Active(name), messages'[m] = NewMessage(name, r, n)
  PROVE  Comes(m)
BY NewMessageFields, NewMessageType DEF Comes

LEMMA MessagePlace ==
  ASSUME TypeOK, [Next]_vars, NEW m \in MsgId
  PROVE  Place(m)
<1> USE DEF Place
<1>1. CASE messages'[m] = messages[m]
  BY <1>1 DEF Stays
<1>2. CASE messages'[m] = Absent
  BY <1>2 DEF Present, Absent
<1>3. ASSUME NEW t \in Readings, Sweep(t) PROVE Place(m)
  BY <1>3, SweepPlace DEF Sweep
<1>4. CASE SomeReceive
  <2>1. PICK name \in QueueName, size \in ReceiveSizes, sel \in SUBSET MsgId, t \in Readings :
          ReceiveMessage(name, size, sel, t)
    BY <1>4 DEF SomeReceive
  <2>2. \/ messages'[m] = Swept(t)[m]
        \/ messages'[m] = Received(queues[name], Swept(t)[m], t)
    BY <2>1 DEF ReceiveMessage
  <2>3. recovery' = RecoverySwept(t)
    BY <2>1 DEF ReceiveMessage
  <2> QED
    BY <2>2, <2>3, SweepPlace
<1>5. CASE SomeSend
  <2>1. PICK name \in QueueName, o \in Fresh, n \in 0..(sends + 1) :
          \E r \in Requests[name] : SendMessage(name, r, o, n)
    BY <1>5 DEF SomeSend
  <2>2. PICK r \in Requests[name] : SendMessage(name, r, o, n)
    BY <2>1
  <2>3. r \in Request /\ n \in Nat
    BY ServiceAssumption DEF TypeOK
  <2>4. Active(name) /\ messages' = [messages EXCEPT ![o] = NewMessage(name, r, n)]
    BY <2>2 DEF SendMessage
  <2>5. CASE m = o
    <3>1. messages'[m] = NewMessage(name, r, n)
      BY <2>4, <2>5 DEF TypeOK
    <3> QED
      BY <2>3, <2>4, <3>1, NewMessagePlace
  <2>6. CASE m # o
    BY <1>1, <2>4, <2>6 DEF TypeOK
  <2> QED
    BY <2>5, <2>6
<1>6. CASE SomeBatchSend
  <2>1. PICK name \in QueueName : \E entries \in Batches[name] :
          \E new \in SUBSET DOMAIN entries :
            \E ids \in [new -> Fresh], nums \in [new -> 0..(sends + 1)] :
              SendMessageBatch(name, entries, ids, nums)
    BY <1>6 DEF SomeBatchSend
  <2>2. PICK entries \in Batches[name] :
          \E new \in SUBSET DOMAIN entries :
            \E ids \in [new -> Fresh], nums \in [new -> 0..(sends + 1)] :
              SendMessageBatch(name, entries, ids, nums)
    BY <2>1
  <2>3. PICK new \in SUBSET DOMAIN entries :
          \E ids \in [new -> Fresh], nums \in [new -> 0..(sends + 1)] :
            SendMessageBatch(name, entries, ids, nums)
    BY <2>2
  <2>4. PICK ids \in [new -> Fresh], nums \in [new -> 0..(sends + 1)] :
          SendMessageBatch(name, entries, ids, nums)
    BY <2>3
  <2>5. CASE \E i \in DOMAIN ids : ids[i] = m
    <3> DEFINE i == CHOOSE i \in DOMAIN ids : ids[i] = m
    <3>1. i \in new
      BY <2>5
    <3>2. Active(name) /\ messages'[m] = NewMessage(name, entries[i], nums[i])
      BY <2>4, <2>5 DEF SendMessageBatch
    <3>3. entries[i] \in Request /\ nums[i] \in Nat
      BY <3>1, ServiceAssumption DEF TypeOK
    <3> HIDE DEF i
    <3> QED
      BY <3>2, <3>3, NewMessagePlace
  <2>6. CASE ~ \E i \in DOMAIN ids : ids[i] = m
    BY <1>1, <2>4, <2>6 DEF SendMessageBatch
  <2> QED
    BY <2>5, <2>6
<1>7. CASE SomeDelete \/ SomeBatchDelete
  BY <1>1, <1>2, <1>7, TypeParts DEF SomeDelete, DeleteMessage, SomeBatchDelete, DeleteMessageBatch
<1>8. CASE SomeQueueDelete \/ SomePurge
  BY <1>1, <1>2, <1>8
  DEF SomeQueueDelete, DeleteQueue, SomePurge, PurgeQueue, RemoveMessagesForQueue
<1>9. CASE SomeVisibilityChange \/ SomeBatchVisibilityChange
  <2>1. messages'[m] = messages[m] \/ \E v \in Nat : messages'[m] = Retimed(messages[m], v)
    <3>1. CASE SomeVisibilityChange
      BY <3>1, TypeParts, ServiceAssumption DEF SomeVisibilityChange, ChangeMessageVisibility
    <3>2. CASE SomeBatchVisibilityChange
      BY <3>2, ServiceAssumption DEF SomeBatchVisibilityChange, ChangeMessageVisibilityBatch
    <3> QED
      BY <1>9, <3>1, <3>2
  <2>2. messages[m] \in Message
    BY TypeParts
  <2> QED
    BY <1>1, <2>1, <2>2 DEF Retimed, Message, Stays
<1>10. CASE WorkerAdvance \/ SomeEmptyReceive
  BY <1>3, <1>10 DEF WorkerAdvance, SomeEmptyReceive, ReceiveNothing
<1>11. CASE Tick \/ SomeCreate \/ SomeSetAttributes \/ UNCHANGED vars
  BY <1>1, <1>11 DEF Tick, SomeCreate, CreateQueue, SomeSetAttributes, SetQueueAttributes, vars
<1> QED
  BY <1>4, <1>5, <1>6, <1>7, <1>8, <1>9, <1>10, <1>11 DEF Next, MessageNext, QueueNext
-----------------------------------------------------------------------------
(* Lives of a queue name. *)

(* A step leaves every live queue that holds a message in its life, unless *)
(* it takes the message out.                                               *)
LEMMA LifeGoesOn ==
  ASSUME TypeOK, IncarnationIsolation, [Next]_vars,
         NEW m \in MsgId, Present(m), Present(m)', Stays(m),
         NEW home \in QueueName, home = messages[m].queue
  PROVE  /\ queues'[home].createdAt = queues[home].createdAt
         /\ queues'[home].deletedAt = queues[home].deletedAt
<1>1. Active(home)
  BY DEF IncarnationIsolation
<1>2. queues \in [QueueName -> Queue] /\ messages'[m].queue = home
  BY DEF TypeOK, Stays
<1>4. CASE ~QueueNext
  BY <1>4, QueuesKept
<1>5. CASE SomeCreate
  <2>1. PICK name \in QueueName : \E attrs \in OfferedAttributes[name] : CreateQueue(name, attrs)
    BY <1>5 DEF SomeCreate
  <2>2. name # home
    BY <1>1, <2>1 DEF CreateQueue, Active
  <2> QED
    BY <1>1, <1>2, <2>1, <2>2 DEF CreateQueue
<1>6. CASE SomeSetAttributes
  <2>1. PICK name \in QueueName :
          \E attrs \in OfferedAttributes[name] : SetQueueAttributes(name, attrs)
    BY <1>6 DEF SomeSetAttributes
  <2>2. /\ queues'[home].createdAt = queues[home].createdAt
        /\ queues'[home].deletedAt = queues[home].deletedAt
    BY <1>1, <1>2, <2>1 DEF SetQueueAttributes, Queue
  <2> QED
    BY <2>2
<1>7. CASE SomeQueueDelete
  <2>1. PICK name \in QueueName : DeleteQueue(name)
    BY <1>7 DEF SomeQueueDelete
  <2>2. name # home
    BY <2>1 DEF DeleteQueue, RemoveMessagesForQueue, Present, Absent
  <2> QED
    BY <1>1, <1>2, <2>1, <2>2 DEF DeleteQueue
<1>8. CASE SomePurge
  <2>1. PICK name \in QueueName : PurgeQueue(name)
    BY <1>8 DEF SomePurge
  <2>2. /\ queues'[home].createdAt = queues[home].createdAt
        /\ queues'[home].deletedAt = queues[home].deletedAt
    BY <1>1, <1>2, <2>1 DEF PurgeQueue, Queue
  <2> QED
    BY <2>2
<1> QED
  BY <1>4, <1>5, <1>6, <1>7, <1>8 DEF QueueNext

(* Sends, receives and sweeps leave the queues as they are.                *)
LEMMA BringsOnly ==
  ASSUME TypeOK, [Next]_vars, NEW m \in MsgId, Present(m)', ~Stays(m)
  PROVE  UNCHANGED <<queues, now>>
<1>1. CASE messages'[m] = messages[m] \/ messages'[m] = Absent
  BY <1>1 DEF Stays, Present, Absent
<1>2. CASE Tick \/ UNCHANGED vars
  BY <1>1, <1>2 DEF Tick, vars
<1>3. CASE SomeCreate \/ SomeSetAttributes
  BY <1>1, <1>3 DEF SomeCreate, CreateQueue, SomeSetAttributes, SetQueueAttributes
<1>4. CASE SomeQueueDelete \/ SomePurge
  BY <1>1, <1>4
  DEF SomeQueueDelete, DeleteQueue, SomePurge, PurgeQueue, RemoveMessagesForQueue
<1>5. CASE ~Tick /\ ~QueueNext
  BY <1>5, QueuesKept, ClockStep
<1> QED
  BY <1>2, <1>3, <1>4, <1>5 DEF QueueNext

LEMMA IncarnationStep ==
  ASSUME TypeOK, IncarnationIsolation, [Next]_vars
  PROVE  IncarnationIsolation'
<1> SUFFICES ASSUME NEW m \in MsgId, Present(m)'
             PROVE  /\ Active(messages[m].queue)'
                    /\ queues'[messages'[m].queue].createdAt <=
                          IF messages'[m].dlq = messages'[m].queue
                          THEN messages'[m].deadLetteredAt + MaxWait ELSE messages'[m].sentAt
  BY DEF IncarnationIsolation
<1>1. MaxWait \in Nat /\ now \in Nat
  BY ServiceAssumption DEF TypeOK
<1>2. CASE Stays(m)
  <2>1. Present(m) /\ messages'[m].queue = messages[m].queue
    BY <1>2 DEF Stays, Present
  <2>2. messages[m].queue \in QueueName
    BY <2>1, TypeParts DEF Present, Message
  <2>3. /\ queues'[messages[m].queue].createdAt = queues[messages[m].queue].createdAt
        /\ queues'[messages[m].queue].deletedAt = queues[messages[m].queue].deletedAt
    BY <1>2, <2>1, <2>2, LifeGoesOn
  <2> QED
    BY <1>2, <2>1, <2>3 DEF IncarnationIsolation, Stays, Active, Exists
<1>3. CASE ~Stays(m)
  <2>1. queues' = queues /\ now' = now
    BY <1>3, BringsOnly
  <2>2. CASE Moves(m)
    <3>1. PICK t \in Readings :
            /\ Exhausted(m, t)
            /\ messages'[m].queue = Redriven(m, t).queue
            /\ messages'[m].sentAt = messages[m].sentAt
            /\ messages'[m].dlq = queues[messages[m].queue].attrs.dlq
            /\ messages'[m].deadLetteredAt = t
      BY <2>2 DEF Moves
    <3> DEFINE from == messages[m].queue
               dlq  == queues[from].attrs.dlq
    <3>2. /\ from \in QueueName /\ messages[m].dlq = NoQueue /\ Active(from) /\ from # NoQueue
      BY <3>1, TypeParts DEF Exhausted, IsDeadLetterEligible, Message
    <3>3. dlq \in QueueName
      BY <3>1, <3>2, TypeParts DEF Exhausted, Attributes
    <3>4. messages'[m].queue = IF Active(dlq) THEN dlq ELSE from
      BY <3>1, TypeParts DEF Redriven, Message
    <3>5. CASE Active(dlq)
      <4>1. queues[dlq].createdAt \in Nat /\ queues[dlq].createdAt <= now
        BY <3>3, QueueTypes
      <4>2. t \in Nat /\ now <= t + MaxWait
        BY <1>1 DEF Readings
      <4>3. Active(messages[m].queue)'
        BY <2>1, <3>4, <3>5 DEF Active, Exists
      <4>4. messages'[m].queue = dlq /\ messages'[m].dlq = dlq /\ messages'[m].deadLetteredAt = t
        BY <3>1, <3>4, <3>5
      <4>5. queues[dlq].createdAt <= t + MaxWait
        BY <1>1, <4>1, <4>2
      <4> QED
        BY <2>1, <4>3, <4>4, <4>5
    <3>6. CASE ~Active(dlq)
      <4>1. messages'[m].queue = from /\ messages'[m].dlq # from
        BY <3>1, <3>2, <3>4, <3>6
      <4>2. queues[from].createdAt <= messages[m].sentAt
        BY <3>2 DEF IncarnationIsolation, Present
      <4>3. Active(messages[m].queue)'
        BY <2>1, <3>2, <4>1 DEF Active, Exists
      <4> QED
        BY <2>1, <3>1, <4>1, <4>2, <4>3
    <3> QED
      BY <3>5, <3>6
  <2>3. CASE Comes(m)
    <3>1. PICK name \in QueueName :
            /\ Active(name) /\ messages'[m].queue = name
            /\ messages'[m].sentAt = now /\ messages'[m].dlq = NoQueue
      BY <2>3 DEF Comes
    <3>2. name # NoQueue /\ queues[name].createdAt <= now
      BY DeliveryAssumption, QueueTypes
    <3>3. Active(messages[m].queue)'
      BY <2>1, <3>1 DEF Active, Exists
    <3> QED
      BY <2>1, <3>1, <3>2, <3>3
  <2> QED
    BY <1>3, <2>2, <2>3, MessagePlace DEF Place
<1> QED
  BY <1>2, <1>3
-----------------------------------------------------------------------------
(* Records of redriven messages. *)

(* RedriveRecorded, with the type that the source of a redrive has.        *)
RecordInv ==
  /\ RedriveRecorded
  /\ \A m \in MsgId :
        Present(m) /\ messages[m].dlq # NoQueue => messages[m].source \in QueueName

Emptied(name, time) == lastPurge[name] >= time \/ lastDelete[name] >= time

(* That a queue was emptied since a time is never forgotten.               *)
LEMMA EmptiedStays ==
  ASSUME TypeOK, [Next]_vars, NEW name \in QueueName, NEW time \in Nat, time <= now,
         Emptied(name, time)
  PROVE  Emptied(name, time)'
<1>1. /\ lastPurge \in [QueueName -> Nat] /\ lastDelete \in [QueueName -> Nat]
      /\ now \in Nat
  BY DEF TypeOK
<1>2. CASE ~QueueNext \/ SomeCreate \/ SomeSetAttributes
  BY <1>2, QueuesKept
  DEF SomeCreate, CreateQueue, SomeSetAttributes, SetQueueAttributes, historyVars, Emptied
<1>3. CASE SomeQueueDelete \/ SomePurge
  <2>1. /\ lastPurge'[name] = lastPurge[name] \/ lastPurge'[name] = now
        /\ lastDelete'[name] = lastDelete[name] \/ lastDelete'[name] = now
    BY <1>1, <1>3 DEF SomeQueueDelete, DeleteQueue, SomePurge, PurgeQueue
  <2> QED
    BY <1>1, <2>1 DEF Emptied
<1> QED
  BY <1>2, <1>3 DEF QueueNext

(* A record goes only when one of its queues is emptied.                   *)
LEMMA RecordStays ==
  ASSUME TypeOK, [Next]_vars, NEW r \in recovery, NEW time \in Nat, time <= now
  PROVE  r \in recovery' \/ Emptied(r.source, time)' \/ Emptied(r.dlq, time)'
<1>1. CASE SomeQueueDelete \/ SomePurge
  <2>1. PICK name \in QueueName : DeleteQueue(name) \/ PurgeQueue(name)
    BY <1>1 DEF SomeQueueDelete, SomePurge
  <2>2. /\ recovery' = {x \in recovery : x.dlq # name /\ x.source # name}
        /\ lastPurge'[name] = now \/ lastDelete'[name] = now
    BY <2>1 DEF DeleteQueue, PurgeQueue, RemoveMessagesForQueue, TypeOK
  <2>3. lastPurge'[name] = now => Emptied(name, time)'
    BY DEF Emptied
  <2>4. lastDelete'[name] = now => Emptied(name, time)'
    BY DEF Emptied
  <2>5. CASE r.source = name
    BY <2>2, <2>3, <2>4, <2>5 DEF Emptied
  <2>6. CASE r.dlq = name
    BY <2>2, <2>3, <2>4, <2>6 DEF Emptied
  <2> QED
    BY <2>2, <2>5, <2>6
<1>2. CASE SomeCreate \/ SomeSetAttributes
  BY <1>2 DEF SomeCreate, CreateQueue, SomeSetAttributes, SetQueueAttributes
<1>3. CASE WorkerAdvance \/ SomeReceive \/ SomeEmptyReceive
  BY <1>3 DEF WorkerAdvance, Sweep, SomeReceive, ReceiveMessage,
     SomeEmptyReceive, ReceiveNothing, RecoverySwept
<1>4. CASE Tick \/ UNCHANGED vars
  BY <1>4 DEF Tick, vars
<1>5. CASE SomeSend
  BY <1>5 DEF SomeSend, SendMessage
<1>6. CASE SomeBatchSend
  BY <1>6 DEF SomeBatchSend, SendMessageBatch
<1>7. CASE SomeDelete \/ SomeBatchDelete
  BY <1>7 DEF SomeDelete, DeleteMessage, SomeBatchDelete, DeleteMessageBatch
<1>8. CASE SomeVisibilityChange \/ SomeBatchVisibilityChange
  BY <1>8 DEF SomeVisibilityChange, ChangeMessageVisibility,
     SomeBatchVisibilityChange, ChangeMessageVisibilityBatch
<1> QED
  BY <1>1, <1>2, <1>3, <1>4, <1>5, <1>6, <1>7, <1>8 DEF Next, MessageNext, QueueNext

LEMMA RecordStep ==
  ASSUME TypeOK, RecordInv, [Next]_vars
  PROVE  RecordInv'
<1> DEFINE Record(m) ==
             [source |-> messages[m].source, message |-> m, dlq |-> messages[m].dlq]
<1> SUFFICES ASSUME NEW m \in MsgId, Present(m)', messages'[m].dlq # NoQueue
             PROVE  /\ messages'[m].source \in QueueName
                    /\ \/ Record(m)' \in recovery'
                       \/ \E name \in {messages'[m].source, messages'[m].dlq} :
                             Emptied(name, messages[m].deadLetteredAt)'
  BY DEF RecordInv, RedriveRecorded, Emptied
<1>1. messages[m] \in Message
  BY TypeParts
<1>2. CASE Stays(m)
  <2>1. Present(m) /\ messages[m].dlq # NoQueue
    BY <1>2 DEF Stays, Present
  <2>2. /\ messages[m].source \in QueueName /\ messages[m].dlq \in QueueName
        /\ messages[m].deadLetteredAt \in Nat /\ messages[m].deadLetteredAt <= now
    BY <1>1, <2>1, TypeParts DEF RecordInv, Message
  <2>3. \/ Record(m) \in recovery
        \/ Emptied(messages[m].source, messages[m].deadLetteredAt)
        \/ Emptied(messages[m].dlq, messages[m].deadLetteredAt)
    BY <2>1 DEF RecordInv, RedriveRecorded, Emptied
  <2>4. ASSUME NEW time \in Nat, time = messages[m].deadLetteredAt
        PROVE  \/ Record(m) \in recovery'
               \/ Emptied(messages[m].source, time)'
               \/ Emptied(messages[m].dlq, time)'
    <3>1. CASE Record(m) \in recovery
      BY <2>2, <2>4, <3>1, RecordStays, <1>2 DEF Stays, Emptied
    <3>2. CASE Emptied(messages[m].source, time)
      BY <2>2, <2>4, <3>2, EmptiedStays, <1>2 DEF Stays, Emptied
    <3>3. CASE Emptied(messages[m].dlq, time)
      BY <2>2, <2>4, <3>3, EmptiedStays, <1>2 DEF Stays, Emptied
    <3> QED
      BY <2>3, <2>4, <3>1, <3>2, <3>3
  <2> QED
    BY <1>2, <2>2, <2>4 DEF Stays, Emptied
<1>3. CASE Moves(m)
  <2>1. PICK t \in Readings :
          /\ Exhausted(m, t)
          /\ messages'[m].dlq = queues[messages[m].queue].attrs.dlq
          /\ messages'[m].source = messages[m].queue
          /\ recovery' = RecoverySwept(t)
    BY <1>3 DEF Moves
  <2>2. messages'[m].source \in QueueName
    BY <1>1, <2>1 DEF Exhausted, Message
  <2>3. Record(m)' = RecoveryOf(m)
    BY <2>1 DEF RecoveryOf
  <2>4. Record(m)' \in recovery'
    BY <2>1, <2>3 DEF RecoverySwept
  <2> QED
    BY <2>2, <2>4
<1> QED
  BY <1>2, <1>3, MessagePlace DEF Place, Comes
-----------------------------------------------------------------------------
(* The limit on receives. *)

(* A send leaves a message alone or brings it, never received.             *)
LEMMA SentAttempts ==
  ASSUME TypeOK, NEW m \in MsgId, SomeSend \/ SomeBatchSend
  PROVE  messages'[m] = messages[m] \/ messages'[m].attempts = 0
<1>1. CASE SomeSend
  <2>1. PICK name \in QueueName, o \in Fresh, n \in 0..(sends + 1) :
          \E r \in Requests[name] : SendMessage(name, r, o, n)
    BY <1>1 DEF SomeSend
  <2>2. PICK r \in Requests[name] : SendMessage(name, r, o, n)
    BY <2>1
  <2>3. messages' = [messages EXCEPT ![o] = NewMessage(name, r, n)]
    BY <2>2 DEF SendMessage
  <2>4. NewMessage(name, r, n).attempts = 0
    BY DEF NewMessage, Absent
  <2> QED
    BY <2>3, <2>4 DEF TypeOK
<1>2. CASE SomeBatchSend
  <2>1. PICK name \in QueueName : \E entries \in Batches[name] :
          \E new \in SUBSET DOMAIN entries :
            \E ids \in [new -> Fresh], nums \in [new -> 0..(sends + 1)] :
              SendMessageBatch(name, entries, ids, nums)
    BY <1>2 DEF SomeBatchSend
  <2>2. PICK entries \in Batches[name] :
          \E new \in SUBSET DOMAIN entries :
            \E ids \in [new -> Fresh], nums \in [new -> 0..(sends + 1)] :
              SendMessageBatch(name, entries, ids, nums)
    BY <2>1
  <2>3. PICK new \in SUBSET DOMAIN entries :
          \E ids \in [new -> Fresh], nums \in [new -> 0..(sends + 1)] :
            SendMessageBatch(name, entries, ids, nums)
    BY <2>2
  <2>4. PICK ids \in [new -> Fresh], nums \in [new -> 0..(sends + 1)] :
          SendMessageBatch(name, entries, ids, nums)
    BY <2>3
  <2>5. \/ messages'[m] = messages[m]
        \/ \E i \in DOMAIN ids : messages'[m] = NewMessage(name, entries[i], nums[i])
    BY <2>4 DEF SendMessageBatch
  <2>6. \A i \in DOMAIN ids : NewMessage(name, entries[i], nums[i]).attempts = 0
    BY DEF NewMessage, Absent
  <2> QED
    BY <2>5, <2>6
<1> QED
  BY <1>1, <1>2

(* A receive hands a message out that its own sweep would have taken if it *)
(* had used up its receives.                                               *)
LEMMA LimitStep ==
  ASSUME TypeOK, [Next]_vars, NEW m \in MsgId,
         messages'[m].attempts > messages[m].attempts,
         messages'[m].dlq = NoQueue,
         queues[messages[m].queue].attrs.dlq # NoQueue,
         queues[messages[m].queue].attrs.maxReceive > 0
  PROVE  messages'[m].attempts <= queues[messages[m].queue].attrs.maxReceive
<1>1. messages[m] \in Message /\ messages[m].attempts \in Nat
  BY TypeParts DEF Message
<1>2. CASE SomeReceive
  <2>1. PICK name \in QueueName, size \in ReceiveSizes, sel \in SUBSET MsgId, t \in Readings :
          ReceiveMessage(name, size, sel, t)
    BY <1>2 DEF SomeReceive
  <2>2. Swept(t)[m] \in Message
    BY SweptType
  <2>3. messages'[m].dlq = Swept(t)[m].dlq
    BY <2>1, <2>2 DEF ReceiveMessage, Received, Message
  <2>4. ~Exhausted(m, t) /\ Swept(t)[m] = messages[m]
    BY <2>3, SweptFate
  <2>5. m \in sel
    BY <1>1, <2>1, <2>4 DEF ReceiveMessage
  <2>6. messages'[m].attempts = messages[m].attempts + 1
    BY <1>1, <2>1, <2>4, <2>5 DEF ReceiveMessage, Received, Message
  <2>7. /\ messages[m].queue = name
        /\ ~IsDelayed(messages[m], t) /\ ~IsInvisible(queues[name], messages[m], t)
    BY <2>1, <2>4, <2>5
    DEF ReceiveMessage, IsBatchOf, Deliverable, MessageVisibleInQueue
  <2>8. IsVisible(queues[name], messages[m], t)
    BY <2>7 DEF IsInvisible
  <2>9. messages[m].dlq = NoQueue /\ Active(name) /\ name # NoQueue
    BY <2>1, <2>3, <2>4, DeliveryAssumption DEF ReceiveMessage
  <2>10. ~(messages[m].attempts >= queues[name].attrs.maxReceive)
    BY <2>4, <2>7, <2>8, <2>9 DEF Exhausted, IsDeadLetterEligible
  <2>11. queues[name].attrs.maxReceive \in Nat
    BY TypeParts DEF Attributes
  <2> QED
    BY <1>1, <2>6, <2>7, <2>10, <2>11
<1>3. CASE ~SomeReceive
  <2>1. CASE messages'[m] = messages[m]
    BY <1>1, <2>1
  <2>2. CASE messages'[m].attempts = 0
    BY <1>1, <2>2
  <2>3. ASSUME NEW t \in Readings, messages' = Swept(t) PROVE FALSE
    BY <1>1, <2>1, <2>3, SweptFate
  <2>4. CASE WorkerAdvance \/ SomeEmptyReceive
    BY <2>3, <2>4 DEF WorkerAdvance, SomeEmptyReceive, ReceiveNothing, Sweep
  <2>5. CASE SomeSend \/ SomeBatchSend
    BY <2>1, <2>2, <2>5, SentAttempts
  <2>6. CASE SomeDelete \/ SomeBatchDelete \/ SomeQueueDelete \/ SomePurge
    <3>1. messages'[m] = messages[m] \/ messages'[m] = Absent
      BY <2>6, TypeParts DEF SomeDelete, DeleteMessage, SomeBatchDelete, DeleteMessageBatch,
         SomeQueueDelete, DeleteQueue, SomePurge, PurgeQueue, RemoveMessagesForQueue
    <3> QED
      BY <2>1, <2>2, <3>1 DEF Absent
  <2>7. CASE SomeVisibilityChange \/ SomeBatchVisibilityChange
    <3>1. messages'[m] = messages[m] \/ \E v \in Nat : messages'[m] = Retimed(messages[m], v)
      <4>1. CASE SomeVisibilityChange
        BY <4>1, TypeParts, ServiceAssumption DEF SomeVisibilityChange, ChangeMessageVisibility
      <4>2. CASE SomeBatchVisibilityChange
        BY <4>2, ServiceAssumption DEF SomeBatchVisibilityChange, ChangeMessageVisibilityBatch
      <4> QED
        BY <2>7, <4>1, <4>2
    <3> QED
      BY <1>1, <2>1, <3>1, RetimedKeeps
  <2>8. CASE Tick \/ SomeCreate \/ SomeSetAttributes \/ UNCHANGED vars
    BY <2>1, <2>8 DEF Tick, SomeCreate, CreateQueue, SomeSetAttributes, SetQueueAttributes, vars
  <2> QED
    BY <1>3, <2>4, <2>5, <2>6, <2>7, <2>8 DEF Next, MessageNext, QueueNext
<1> QED
  BY <1>2, <1>3
-----------------------------------------------------------------------------
(* The theorems. *)

LifeInv == TypeOK /\ CooldownInv /\ IncarnationIsolation /\ RecordInv

LEMMA LifeInvariance == Spec => []LifeInv
<1>1. Init => LifeInv
  <2> SUFFICES ASSUME Init PROVE LifeInv
    OBVIOUS
  <2>1. TypeOK
    BY TypeInit
  <2>2. \A m \in MsgId : ~Present(m)
    BY AbsentLeaves DEF Init, InitWith, Present
  <2>3. \A name \in QueueName : /\ queues[name].createdAt = 0 /\ queues[name].deletedAt = 0
                               /\ lastPurge[name] = 0 /\ lastDelete[name] = 0
    BY DEF Init, InitWith, NoRecord
  <2>4. now = 1
    BY DEF Init, InitWith
  <2>5. CooldownInv
    BY <2>3, <2>4 DEF CooldownInv, Remembered, Exists, Active
  <2> QED
    BY <2>1, <2>2, <2>5 DEF LifeInv, IncarnationIsolation, RecordInv, RedriveRecorded
<1>2. LifeInv /\ [Next]_vars => LifeInv'
  BY TypeStep, CooldownStep, IncarnationStep, RecordStep DEF LifeInv
<1> QED
  BY <1>1, <1>2, PTL DEF Spec

(* A queue that is created again starts empty, under any sequence of       *)
(* deletions, creations, redrives and late sweeps.                         *)
THEOREM LivesApart == Spec => []IncarnationIsolation
<1>1. LifeInv => IncarnationIsolation
  BY DEF LifeInv
<1> QED
  BY <1>1, LifeInvariance, PTL

(* A redriven message has its recovery record until one of its queues is   *)
(* purged or deleted.                                                      *)
THEOREM RedrivesOnRecord == Spec => []RedriveRecorded
<1>1. LifeInv => RedriveRecorded
  BY DEF LifeInv, RecordInv
<1> QED
  BY <1>1, LifeInvariance, PTL

(* Purges of one name, and deletes of one name, are a cooldown apart.      *)
THEOREM CooldownsKept == Spec => CooldownHonoured
<1>1. LifeInv /\ [Next]_vars =>
        [\A name \in QueueName :
           /\ lastPurge'[name] # lastPurge[name] /\ lastPurge[name] # 0
                => lastPurge'[name] - lastPurge[name] >= Cooldown
           /\ lastDelete'[name] # lastDelete[name] /\ lastDelete[name] # 0
                => lastDelete'[name] - lastDelete[name] >= Cooldown]_vars
  BY CooldownKept DEF LifeInv
<1> QED
  BY <1>1, LifeInvariance, PTL DEF Spec, CooldownHonoured

(* No receive hands a message out more often than a complete redrive       *)
(* policy says.                                                            *)
THEOREM ReceivesLimited == Spec => RedriveLimit
<1>1. LifeInv /\ [Next]_vars =>
        [\A m \in MsgId :
           LET q == queues[messages[m].queue].attrs
           IN  /\ messages'[m].attempts > messages[m].attempts
               /\ messages'[m].dlq = NoQueue
               /\ q.dlq # NoQueue /\ q.maxReceive > 0
               => messages'[m].attempts <= q.maxReceive]_vars
  BY LimitStep DEF LifeInv
<1> QED
  BY <1>1, LifeInvariance, PTL DEF Spec, RedriveLimit

-----------------------------------------------------------------------------
(* The service and its file. *)

(* What the file holds could be what memory holds.                         *)
SavedTypeOK ==
  /\ disk \in [queues : [QueueName -> Queue], messages : [MsgId -> Message],
               phantoms : Nat, recovery : SUBSET RecoveryRecord]
  /\ \A m \in MsgId :
        /\ disk.messages[m].sentAt <= now
        /\ disk.messages[m].receivedAt <= now
        /\ disk.messages[m].deadLetteredAt <= now
  /\ \A name \in QueueName :
        /\ disk.queues[name].createdAt <= now
        /\ disk.queues[name].deletedAt <= now
        /\ disk.queues[name].purgedAt <= now

ToldTypeOK ==
  /\ accepted \subseteq MsgId
  /\ removed \subseteq MsgId
  /\ held \in [MsgId -> Nat]

PersistentTypeOK == TypeOK /\ SavedTypeOK /\ ToldTypeOK

(* The lease in a record lasts at least so long.                           *)
Covers(msg, until) ==
  msg.queue # NoQueue =>
    msg.receivedAt > 0 /\ msg.lease > 0 /\ msg.receivedAt + msg.lease >= until

(* What a client was told that it may keep is leased in memory and in the  *)
(* file, each of which may have another lease.                             *)
HeldInv ==
  /\ now > 0
  /\ \A m \in MsgId :
       held[m] > now => Covers(messages[m], held[m]) /\ Covers(disk.messages[m], held[m])

(* Nothing is known of an id that was never used.                          *)
UnusedInv ==
  \A m \in MsgId :
    ordinal[m] = 0 =>
      ~Present(m) /\ disk.messages[m].queue = NoQueue /\ held[m] = 0 /\ m \notin removed

(* What was removed is in the file no more, nor in memory.                 *)
GoneInv == \A m \in removed : ~Present(m) /\ disk.messages[m].queue = NoQueue

PersistentInv == PersistentTypeOK /\ HeldInv /\ UnusedInv /\ GoneInv

(* The file is rewritten with what memory holds now, or with what it held  *)
(* after the sweep of a receive.                                           *)
SavesSweep(t) ==
  disk' = [Memory EXCEPT !.messages = Swept(t), !.recovery = RecoverySwept(t)]

LEMMA SaveFate ==
  ASSUME NEW ok \in BOOLEAN, Commit(ok)
  PROVE  /\ disk' = disk \/ disk' = Memory'
         /\ ok => disk' = Memory'
BY DEF Commit, Save

(* Every step but a restart is one of the service.                         *)
LEMMA ServiceStep ==
  ASSUME [PersistentNext]_persistentVars, ~Restart
  PROVE  [Next]_vars
<1>1. CASE StoredTick \/ UNCHANGED persistentVars
  BY <1>1 DEF StoredTick, Next, persistentVars, vars
<1>2. CASE StoredSend
  BY <1>2 DEF StoredSend, Next, MessageNext, SomeSend
<1>3. CASE RepeatedSend
  BY <1>3 DEF RepeatedSend
<1>4. CASE StoredBatchSend
  <2>1. PICK name \in QueueName : \E entries \in Batches[name] :
          \E new \in SUBSET DOMAIN entries :
            \E ids \in [new -> Fresh], nums \in [new -> 0..(sends + 1)] :
              SendMessageBatch(name, entries, ids, nums)
    BY <1>4 DEF StoredBatchSend, StoreBatch
  <2> QED
    BY <2>1 DEF Next, MessageNext, SomeBatchSend
<1>5. CASE StoredReceive
  BY <1>5 DEF StoredReceive, Next, MessageNext, SomeReceive
<1>6. CASE StoredSweep \/ StoredQueueChange
  BY <1>6 DEF StoredSweep, StoredQueueChange, Next, MessageNext, QueueNext
<1>7. CASE StoredDelete \/ StoredBatchDelete
  BY <1>7 DEF StoredDelete, StoredBatchDelete, Next, MessageNext, SomeDelete, SomeBatchDelete
<1>8. CASE StoredVisibilityChange
  BY <1>8 DEF StoredVisibilityChange, Next, MessageNext, SomeVisibilityChange
<1>9. CASE StoredBatchVisibilityChange
  BY <1>9 DEF StoredBatchVisibilityChange, Next, MessageNext, SomeBatchVisibilityChange
<1>10. CASE StoredRemoval
  BY <1>10 DEF StoredRemoval, Next, QueueNext, SomePurge, SomeQueueDelete
<1> QED
  BY <1>1, <1>2, <1>3, <1>4, <1>5, <1>6, <1>7, <1>8, <1>9, <1>10 DEF PersistentNext

LEMMA DiskFate ==
  ASSUME [PersistentNext]_persistentVars
  PROVE  disk' = disk \/ disk' = Memory' \/ \E t \in Readings : SavesSweep(t)
<1>1. CASE StoredTick \/ Restart \/ RepeatedSend \/ UNCHANGED persistentVars
  BY <1>1 DEF StoredTick, Restart, RepeatedSend, persistentVars
<1>2. CASE \E ok \in BOOLEAN : Commit(ok)
  BY <1>2, SaveFate
<1>3. CASE StoredReceive
  <2>1. PICK name \in QueueName, size \in ReceiveSizes, sel \in SUBSET MsgId, t \in Readings :
          Commit(TRUE) \/ Commit(FALSE) \/ CommitSweptOnly(t)
    BY <1>3 DEF StoredReceive
  <2> QED
    BY <1>2, <2>1 DEF CommitSweptOnly, SavesSweep
<1>4. CASE \/ StoredSend \/ StoredBatchSend \/ StoredSweep \/ StoredQueueChange
           \/ StoredDelete \/ StoredBatchDelete \/ StoredRemoval
           \/ StoredVisibilityChange \/ StoredBatchVisibilityChange
  BY <1>2, <1>4 DEF StoredSend, StoredBatchSend, StoreBatch, StoredSweep, StoredQueueChange,
     StoredDelete, StoredBatchDelete, StoredRemoval,
     StoredVisibilityChange, StoredBatchVisibilityChange
<1> QED
  BY <1>1, <1>3, <1>4 DEF PersistentNext

(* So is the entry of each message.                                        *)
LEMMA SavedMessage ==
  ASSUME [PersistentNext]_persistentVars, NEW m \in MsgId
  PROVE  \/ disk'.messages[m] = disk.messages[m]
         \/ disk'.messages[m] = messages'[m]
         \/ \E t \in Readings : disk'.messages[m] = Swept(t)[m]
<1>1. CASE disk' = Memory'
  BY <1>1 DEF Memory
<1>2. ASSUME NEW t \in Readings, SavesSweep(t)
      PROVE  disk'.messages[m] = Swept(t)[m]
  BY <1>2 DEF SavesSweep, Memory
<1> QED
  BY <1>1, <1>2, DiskFate

(* Types. *)
LEMMA RestartType ==
  ASSUME TypeOK, SavedTypeOK, Restart
  PROVE  TypeOK'
BY DEF TypeOK, SavedTypeOK, Restart, Restored, historyVars

LEMMA NowGrows ==
  ASSUME PersistentTypeOK, [PersistentNext]_persistentVars
  PROVE  now \in Nat /\ now' \in Nat /\ now' >= now
<1>1. CASE Restart
  BY <1>1 DEF Restart, PersistentTypeOK, TypeOK
<1>2. CASE ~Restart
  <2>1. [Next]_vars
    BY <1>2, ServiceStep
  <2> QED
    BY <2>1, ClockStep DEF PersistentTypeOK, TypeOK
<1> QED
  BY <1>1, <1>2

LEMMA MemoryType ==
  ASSUME PersistentTypeOK, [PersistentNext]_persistentVars
  PROVE  TypeOK'
<1>1. CASE Restart
  BY <1>1, RestartType DEF PersistentTypeOK
<1>2. CASE ~Restart
  BY <1>2, ServiceStep, TypeStep DEF PersistentTypeOK
<1> QED
  BY <1>1, <1>2

LEMMA SavedType ==
  ASSUME PersistentTypeOK, [PersistentNext]_persistentVars
  PROVE  SavedTypeOK'
<1>1. now \in Nat /\ now' \in Nat /\ now' >= now /\ TypeOK /\ TypeOK' /\ SavedTypeOK
  BY NowGrows, MemoryType DEF PersistentTypeOK
<1>2. CASE disk' = disk
  <2>1. \A m \in MsgId : /\ disk.messages[m].sentAt \in Nat
                          /\ disk.messages[m].receivedAt \in Nat
                          /\ disk.messages[m].deadLetteredAt \in Nat
    BY <1>1 DEF SavedTypeOK, Message
  <2>2. \A name \in QueueName : /\ disk.queues[name].createdAt \in Nat
                                /\ disk.queues[name].deletedAt \in Nat
                                /\ disk.queues[name].purgedAt \in Nat
    BY <1>1 DEF SavedTypeOK, Queue
  <2> QED
    BY <1>1, <1>2, <2>1, <2>2 DEF SavedTypeOK
<1>3. CASE disk' = Memory'
  BY <1>1, <1>3 DEF SavedTypeOK, Memory, TypeOK
<1>4. ASSUME NEW t \in Readings, SavesSweep(t) PROVE SavedTypeOK'
  <2>1. disk' = [queues |-> queues, messages |-> Swept(t),
                 phantoms |-> phantoms, recovery |-> RecoverySwept(t)]
    BY <1>4 DEF SavesSweep, Memory
  <2>2. Swept(t) \in [MsgId -> Message] /\ RecoverySwept(t) \subseteq RecoveryRecord
    BY <1>1, SweptType, RecoverySweptType
  <2>3. \A m \in MsgId : /\ Swept(t)[m].sentAt <= now'
                          /\ Swept(t)[m].receivedAt <= now'
                          /\ Swept(t)[m].deadLetteredAt <= now'
    <3>1. ASSUME NEW m \in MsgId
          PROVE  /\ Swept(t)[m].sentAt \in 0..now
                 /\ Swept(t)[m].receivedAt \in 0..now
                 /\ Swept(t)[m].deadLetteredAt \in 0..now
      BY <1>1, <2>2, SweptType DEF Message
    <3> QED
      BY <1>1, <3>1
  <2>4. \A name \in QueueName : /\ queues[name].createdAt <= now'
                                /\ queues[name].deletedAt <= now'
                                /\ queues[name].purgedAt <= now'
    <3>1. ASSUME NEW name \in QueueName
          PROVE  /\ queues[name].createdAt \in 0..now
                 /\ queues[name].deletedAt \in 0..now
                 /\ queues[name].purgedAt \in 0..now
      BY <1>1 DEF TypeOK, Queue
    <3> QED
      BY <1>1, <3>1
  <2>5. queues \in [QueueName -> Queue] /\ phantoms \in Nat
    BY <1>1 DEF TypeOK
  <2> QED
    BY <2>1, <2>2, <2>3, <2>4, <2>5 DEF SavedTypeOK
<1> QED
  BY <1>2, <1>3, <1>4, DiskFate

LEMMA ToldType ==
  ASSUME PersistentTypeOK, [PersistentNext]_persistentVars
  PROVE  ToldTypeOK'
<1>1. TypeOK /\ TypeOK' /\ ToldTypeOK /\ Fresh \subseteq MsgId
  BY MemoryType DEF PersistentTypeOK, Fresh
<1>2. CASE StoredTick \/ Restart \/ StoredSweep \/ StoredQueueChange \/ UNCHANGED persistentVars
  BY <1>1, <1>2 DEF StoredTick, Restart, StoredSweep, StoredQueueChange, toldVars,
     persistentVars, ToldTypeOK
<1>3. CASE StoredSend \/ RepeatedSend
  BY <1>1, <1>3 DEF StoredSend, RepeatedSend, Duplicates, ToldTypeOK
<1>4. CASE StoredBatchSend
  <2>1. PICK name \in QueueName, ok \in BOOLEAN : \E entries \in Batches[name] :
          \E new \in SUBSET DOMAIN entries :
            \E ids \in [new -> Fresh], nums \in [new -> 0..(sends + 1)],
               old \in [Repeats(name, entries) -> MsgId] :
              StoreBatch(name, entries, ids, nums, old, ok)
    BY <1>4 DEF StoredBatchSend
  <2>2. PICK entries \in Batches[name] :
          \E new \in SUBSET DOMAIN entries :
            \E ids \in [new -> Fresh], nums \in [new -> 0..(sends + 1)],
               old \in [Repeats(name, entries) -> MsgId] :
              StoreBatch(name, entries, ids, nums, old, ok)
    BY <2>1
  <2>3. PICK new \in SUBSET DOMAIN entries :
          \E ids \in [new -> Fresh], nums \in [new -> 0..(sends + 1)],
             old \in [Repeats(name, entries) -> MsgId] :
            StoreBatch(name, entries, ids, nums, old, ok)
    BY <2>2
  <2>4. PICK ids \in [new -> Fresh], nums \in [new -> 0..(sends + 1)],
             old \in [Repeats(name, entries) -> MsgId] :
          StoreBatch(name, entries, ids, nums, old, ok)
    BY <2>3
  <2>5. Range(ids) \subseteq MsgId /\ Range(old) \subseteq MsgId
    BY <1>1 DEF Range
  <2>6. accepted' \subseteq MsgId /\ UNCHANGED <<removed, held>>
    BY <1>1, <2>4, <2>5 DEF StoreBatch, ToldTypeOK
  <2> QED
    BY <1>1, <2>6 DEF ToldTypeOK
<1>5. CASE StoredReceive
  <2>1. PICK sel \in SUBSET MsgId :
          /\ held' = [m \in MsgId |-> IF m \in sel THEN due'[m] ELSE held[m]] \/ held' = held
          /\ UNCHANGED <<accepted, released, removed>>
    BY <1>5 DEF StoredReceive
  <2>2. due' \in [MsgId -> Nat]
    BY <1>1 DEF TypeOK
  <2> QED
    BY <1>1, <2>1, <2>2 DEF ToldTypeOK
<1>6. CASE StoredDelete \/ StoredBatchDelete \/ StoredRemoval
  BY <1>1, <1>6 DEF StoredDelete, StoredBatchDelete, StoredRemoval, ToldTypeOK
<1>7. CASE StoredVisibilityChange
  <2>1. PICK o \in MsgId, v \in Visibilities, ok \in BOOLEAN :
          /\ held' = [held EXCEPT ![o] = IF ok \/ now + v < @ THEN now + v ELSE @]
          /\ UNCHANGED <<accepted, released, removed>>
    BY <1>7 DEF StoredVisibilityChange
  <2>2. now + v \in Nat
    BY <1>1, ServiceAssumption DEF TypeOK
  <2> QED
    BY <1>1, <2>1, <2>2 DEF ToldTypeOK
<1>8. CASE StoredBatchVisibilityChange
  <2>1. PICK S \in SUBSET MsgId, ok \in BOOLEAN : \E f \in [S -> Visibilities] :
          /\ held' = [m \in MsgId |->
                        IF m \in S /\ (ok \/ now + f[m] < held[m]) THEN now + f[m] ELSE held[m]]
          /\ UNCHANGED <<accepted, released, removed>>
    BY <1>8 DEF StoredBatchVisibilityChange
  <2>2. PICK f \in [S -> Visibilities] :
          /\ held' = [m \in MsgId |->
                        IF m \in S /\ (ok \/ now + f[m] < held[m]) THEN now + f[m] ELSE held[m]]
          /\ UNCHANGED <<accepted, released, removed>>
    BY <2>1
  <2>3. \A m \in S : f[m] \in Nat
    BY ServiceAssumption
  <2>4. \A m \in MsgId : held'[m] \in Nat
    BY <1>1, <2>2, <2>3 DEF TypeOK, ToldTypeOK
  <2> QED
    BY <1>1, <2>2, <2>4 DEF ToldTypeOK
<1> QED
  BY <1>2, <1>3, <1>4, <1>5, <1>6, <1>7, <1>8 DEF PersistentNext

-----------------------------------------------------------------------------
(* Leases that were granted. *)

(* While a record's lease lasts, no sweep and no receive takes the message *)
(* from whoever holds it.                                                  *)
LEMMA CoveredIsSafe ==
  ASSUME TypeOK, NEW m \in MsgId, NEW until \in Nat, until > now,
         Covers(messages[m], until), NEW t \in Readings
  PROVE  /\ ~Exhausted(m, t)
         /\ Swept(t)[m] = messages[m]
         /\ \A name \in QueueName : /\ m \notin Deliverable(messages, name, t)
                                    /\ m \notin Deliverable(Swept(t), name, t)
<1>1. messages[m] \in Message /\ now \in Nat /\ t \in Nat /\ t <= now
  BY TypeParts DEF Readings
<1>2. messages[m].receivedAt \in Nat /\ messages[m].lease \in Nat
  BY <1>1 DEF Message
<1>3. CASE ~Present(m)
  <2>1. ~Exhausted(m, t) /\ Swept(t)[m] = messages[m]
    BY <1>3 DEF Present, Exhausted, Swept
  <2> QED
    BY <1>3, <2>1, DeliveryAssumption DEF Present, Deliverable, MessageVisibleInQueue
<1>4. CASE Present(m)
  <2>1. /\ messages[m].receivedAt > 0 /\ messages[m].lease > 0
        /\ messages[m].receivedAt + messages[m].lease >= until
    BY <1>4 DEF Covers, Present
  <2>2. ASSUME NEW q \in Queue PROVE ~(t >= LeaseDeadline(q, messages[m]))
    BY <1>1, <1>2, <2>1 DEF LeaseDeadline, VisibilityTimeout
  <2>3. ASSUME NEW q \in Queue
        PROVE  ~IsVisible(q, messages[m], t) /\ ~CanRedeliver(q, messages[m], t)
    BY <1>2, <2>1, <2>2 DEF IsVisible, CanRedeliver
  <2>4. messages[m].queue \in QueueName /\ queues \in [QueueName -> Queue]
    BY <1>1, <1>4 DEF Message, Present, TypeOK
  <2>5. ~Exhausted(m, t)
    BY <2>3, <2>4 DEF Exhausted, IsDeadLetterEligible
  <2>6. Swept(t)[m] = messages[m]
    BY <2>5 DEF Swept
  <2>7. ASSUME NEW name \in QueueName
        PROVE  /\ m \notin Deliverable(messages, name, t)
               /\ m \notin Deliverable(Swept(t), name, t)
    BY <2>3, <2>4, <2>6 DEF Deliverable, IsInvisible
  <2> QED
    BY <2>5, <2>6, <2>7
<1> QED
  BY <1>3, <1>4

(* A send leaves alone every message but those it brings.                  *)
LEMMA SendKeeps ==
  ASSUME TypeOK, SomeSend \/ SomeBatchSend, NEW m \in MsgId, ordinal[m] # 0
  PROVE  messages'[m] = messages[m]
<1>1. m \notin Fresh
  BY DEF Fresh
<1>2. CASE SomeSend
  BY <1>1, <1>2 DEF SomeSend, SendMessage, TypeOK
<1>3. CASE SomeBatchSend
  <2>1. PICK name \in QueueName : \E entries \in Batches[name] : \E new \in SUBSET DOMAIN entries :
          \E ids \in [new -> Fresh], nums \in [new -> 0..(sends + 1)] :
            SendMessageBatch(name, entries, ids, nums)
    BY <1>3 DEF SomeBatchSend
  <2>2. PICK entries \in Batches[name] : \E new \in SUBSET DOMAIN entries :
          \E ids \in [new -> Fresh], nums \in [new -> 0..(sends + 1)] :
            SendMessageBatch(name, entries, ids, nums)
    BY <2>1
  <2>3. PICK new \in SUBSET DOMAIN entries :
          \E ids \in [new -> Fresh], nums \in [new -> 0..(sends + 1)] :
            SendMessageBatch(name, entries, ids, nums)
    BY <2>2
  <2>4. PICK ids \in [new -> Fresh], nums \in [new -> 0..(sends + 1)] :
          SendMessageBatch(name, entries, ids, nums)
    BY <2>3
  <2>5. ~\E i \in DOMAIN ids : ids[i] = m
    BY <1>1, <2>4
  <2> QED
    BY <2>4, <2>5 DEF SendMessageBatch
<1> QED
  BY <1>2, <1>3

(* Steps that set no lease but that of a message nobody holds.             *)
HoldersKeep ==
  \/ Tick \/ WorkerAdvance \/ SomeSend \/ SomeBatchSend
  \/ SomeReceive \/ SomeEmptyReceive \/ SomeDelete \/ SomeBatchDelete
  \/ QueueNext \/ UNCHANGED vars

LEMMA CoverStep ==
  ASSUME TypeOK, HoldersKeep, NEW m \in MsgId, ordinal[m] # 0,
         NEW until \in Nat, until > now, Covers(messages[m], until)
  PROVE  Covers(messages'[m], until)
<1>1. CASE messages'[m] = messages[m] \/ messages'[m] = Absent
  BY <1>1, AbsentLeaves DEF Covers
<1>2. CASE Tick \/ SomeCreate \/ SomeSetAttributes \/ UNCHANGED vars
  BY <1>1, <1>2 DEF Tick, SomeCreate, CreateQueue, SomeSetAttributes, SetQueueAttributes, vars
<1>3. CASE WorkerAdvance \/ SomeEmptyReceive
  <2>1. PICK t \in Readings : Sweep(t)
    BY <1>3 DEF WorkerAdvance, SomeEmptyReceive, ReceiveNothing
  <2>2. messages'[m] = Swept(t)[m]
    BY <2>1 DEF Sweep
  <2> QED
    BY <1>1, <2>2, CoveredIsSafe
<1>4. CASE SomeReceive
  <2>1. PICK name \in QueueName, size \in ReceiveSizes, sel \in SUBSET MsgId, t \in Readings :
          ReceiveMessage(name, size, sel, t)
    BY <1>4 DEF SomeReceive
  <2>2. m \notin sel
    BY <2>1, CoveredIsSafe DEF ReceiveMessage, IsBatchOf
  <2>3. messages'[m] = Swept(t)[m]
    BY <2>1, <2>2 DEF ReceiveMessage
  <2> QED
    BY <1>1, <2>3, CoveredIsSafe
<1>5. CASE SomeSend \/ SomeBatchSend
  BY <1>1, <1>5, SendKeeps
<1>6. CASE SomeDelete
  BY <1>1, <1>6 DEF SomeDelete, DeleteMessage
<1>7. CASE SomeBatchDelete
  BY <1>1, <1>7 DEF SomeBatchDelete, DeleteMessageBatch
<1>8. CASE SomeQueueDelete \/ SomePurge
  BY <1>1, <1>8 DEF SomeQueueDelete, DeleteQueue, SomePurge, PurgeQueue, RemoveMessagesForQueue
<1> QED
  BY <1>2, <1>3, <1>4, <1>5, <1>6, <1>7, <1>8 DEF HoldersKeep, QueueNext

LEMMA RetimedCovers ==
  ASSUME NEW msg \in Message, now \in Nat, NEW v \in Nat, v > 0
  PROVE  now > 0 => Covers(Retimed(msg, v), now + v)
<1>1. Retimed(msg, v).receivedAt = now /\ Retimed(msg, v).lease = v
  BY DEF Retimed, Message
<1> QED
  BY <1>1 DEF Covers

LEMMA CoversLess ==
  ASSUME NEW msg \in Message, NEW a \in Nat, NEW b \in Nat, b <= a, Covers(msg, a)
  PROVE  Covers(msg, b)
BY DEF Covers, Message

LEMMA HeldStep ==
  ASSUME PersistentInv, [PersistentNext]_persistentVars
  PROVE  HeldInv'
<1>1. /\ TypeOK /\ TypeOK' /\ SavedTypeOK /\ SavedTypeOK' /\ ToldTypeOK /\ ToldTypeOK'
      /\ HeldInv /\ UnusedInv
  BY MemoryType, SavedType, ToldType DEF PersistentInv, PersistentTypeOK
<1>2. now \in Nat /\ now' \in Nat /\ now' >= now /\ now > 0
  BY <1>1, NowGrows DEF PersistentInv, HeldInv
<1> SUFFICES ASSUME NEW m \in MsgId, held'[m] > now'
             PROVE  Covers(messages'[m], held'[m]) /\ Covers(disk'.messages[m], held'[m])
  BY <1>2 DEF HeldInv
<1>3. /\ messages[m] \in Message /\ messages'[m] \in Message /\ disk.messages[m] \in Message
      /\ held[m] \in Nat /\ held'[m] \in Nat
  BY <1>1 DEF TypeOK, SavedTypeOK, ToldTypeOK
<1>4. ASSUME held'[m] <= held[m]
      PROVE  /\ held[m] > now /\ ordinal[m] # 0
             /\ Covers(messages[m], held[m]) /\ Covers(disk.messages[m], held[m])
             /\ Covers(messages[m], held'[m]) /\ Covers(disk.messages[m], held'[m])
  <2>1. held[m] > now
    BY <1>2, <1>3, <1>4
  <2>2. Covers(messages[m], held[m]) /\ Covers(disk.messages[m], held[m])
    BY <1>1, <2>1 DEF HeldInv
  <2>3. ordinal[m] # 0
    BY <1>1, <1>2, <2>1 DEF UnusedInv
  <2> QED
    BY <1>3, <1>4, <2>1, <2>2, <2>3, CoversLess
<1>5. ASSUME held'[m] <= held[m], Covers(messages'[m], held'[m])
      PROVE  Covers(disk'.messages[m], held'[m])
  <2>1. /\ held[m] > now /\ Covers(messages[m], held[m])
        /\ Covers(messages[m], held'[m]) /\ Covers(disk.messages[m], held'[m])
    BY <1>4, <1>5
  <2>2. \A t \in Readings : Swept(t)[m] = messages[m]
    BY <1>1, <1>3, <2>1, CoveredIsSafe
  <2> QED
    BY <1>5, <2>1, <2>2, SavedMessage
<1>6. ASSUME disk' = Memory', Covers(messages'[m], held'[m])
      PROVE  Covers(disk'.messages[m], held'[m])
  BY <1>6 DEF Memory
<1>7. CASE HoldersKeep /\ held'[m] = held[m]
  <2>1. held'[m] <= held[m]
    BY <1>3, <1>7
  <2>2. Covers(messages'[m], held'[m])
    BY <1>1, <1>3, <1>4, <1>7, <2>1, CoverStep
  <2> QED
    BY <1>5, <2>1, <2>2
<1>8. CASE StoredTick \/ RepeatedSend \/ StoredSweep \/ StoredQueueChange \/ UNCHANGED persistentVars
  BY <1>7, <1>8 DEF StoredTick, RepeatedSend, StoredSweep, StoredQueueChange, HoldersKeep,
     QueueNext, toldVars, persistentVars
<1>9. CASE StoredSend
  <2>1. SomeSend /\ held' = held
    BY <1>9 DEF StoredSend, SomeSend
  <2> QED
    BY <1>7, <2>1 DEF HoldersKeep
<1>10. CASE StoredBatchSend
  <2>1. PICK name \in QueueName, ok \in BOOLEAN : \E entries \in Batches[name] :
          \E new \in SUBSET DOMAIN entries :
            \E ids \in [new -> Fresh], nums \in [new -> 0..(sends + 1)],
               old \in [Repeats(name, entries) -> MsgId] :
              StoreBatch(name, entries, ids, nums, old, ok)
    BY <1>10 DEF StoredBatchSend
  <2>2. SomeBatchSend
    BY <2>1 DEF StoreBatch, SomeBatchSend
  <2>3. held' = held
    BY <2>1 DEF StoreBatch
  <2> QED
    BY <1>7, <2>2, <2>3 DEF HoldersKeep
<1>11. CASE StoredDelete \/ StoredBatchDelete \/ StoredRemoval
  <2>1. held' = held /\ (SomeDelete \/ SomeBatchDelete \/ SomePurge \/ SomeQueueDelete)
    BY <1>11 DEF StoredDelete, StoredBatchDelete, StoredRemoval,
       SomeDelete, SomeBatchDelete, SomePurge, SomeQueueDelete
  <2> QED
    BY <1>7, <2>1 DEF HoldersKeep, QueueNext
<1>12. CASE StoredReceive
  <2>1. PICK name \in QueueName, size \in ReceiveSizes, sel \in SUBSET MsgId, t \in Readings :
          /\ ReceiveMessage(name, size, sel, t)
          /\ \/ /\ Commit(TRUE)
                /\ held' = [o \in MsgId |-> IF o \in sel THEN due'[o] ELSE held[o]]
             \/ UNCHANGED held
    BY <1>12 DEF StoredReceive
  <2>2. CASE UNCHANGED held \/ m \notin sel
    BY <1>7, <2>1, <2>2 DEF HoldersKeep, SomeReceive
  <2>3. CASE Commit(TRUE) /\ held'[m] = due'[m] /\ m \in sel
    <3>1. /\ messages'[m] = Received(queues[name], Swept(t)[m], t)
          /\ held'[m] = t + VisibilityTimeout(queues[name], Swept(t)[m])
      BY <2>1, <2>3 DEF ReceiveMessage
    <3>2. Swept(t)[m] \in Message /\ queues[name] \in Queue /\ t \in Nat /\ t > 0
      BY <1>1, SweptType DEF TypeOK, Readings
    <3>3. /\ messages'[m].receivedAt = t
          /\ messages'[m].lease = VisibilityTimeout(queues[name], Swept(t)[m])
      BY <3>1, <3>2 DEF Received, Message
    <3>4. /\ VisibilityTimeout(queues[name], Swept(t)[m]) \in Nat
          /\ VisibilityTimeout(queues[name], Swept(t)[m]) > 0
      BY <3>2, TimeoutType
    <3>5. Covers(messages'[m], held'[m])
      BY <3>1, <3>2, <3>3, <3>4 DEF Covers
    <3>6. disk' = Memory'
      BY <2>3, SaveFate
    <3> QED
      BY <1>6, <3>5, <3>6
  <2> QED
    BY <2>1, <2>2, <2>3
<1>13. ASSUME NEW v \in Nat, NEW ok \in BOOLEAN, Commit(ok), now' = now,
              messages'[m] = Retimed(messages[m], v),
              held'[m] = IF ok \/ now + v < held[m] THEN now + v ELSE held[m]
       PROVE  Covers(messages'[m], held'[m]) /\ Covers(disk'.messages[m], held'[m])
  <2>1. held'[m] <= now + v /\ v > 0 /\ now + v \in Nat
    BY <1>2, <1>3, <1>13
  <2>2. Covers(messages'[m], now + v)
    BY <1>2, <1>3, <1>13, <2>1, RetimedCovers
  <2>3. Covers(messages'[m], held'[m])
    BY <1>3, <2>1, <2>2, CoversLess
  <2>4. CASE ok
    BY <1>6, <1>13, <2>3, <2>4, SaveFate
  <2>5. CASE ~ok
    <3>1. held'[m] <= held[m]
      BY <1>2, <1>3, <1>13, <2>5
    <3> QED
      BY <1>5, <2>3, <3>1
  <2> QED
    BY <2>4, <2>5
<1>14. ASSUME messages'[m] = messages[m], held'[m] = held[m]
       PROVE  Covers(messages'[m], held'[m]) /\ Covers(disk'.messages[m], held'[m])
  <2>1. held'[m] <= held[m]
    BY <1>3, <1>14
  <2> QED
    BY <1>4, <1>5, <1>14, <2>1
<1>15. CASE StoredVisibilityChange
  <2>1. PICK name \in QueueName, o \in MsgId, k \in 1..MaxAttempts, v \in Visibilities, ok \in BOOLEAN :
          /\ ChangeMessageVisibility(name, o, k, v)
          /\ Commit(ok)
          /\ held' = [held EXCEPT ![o] = IF ok \/ now + v < @ THEN now + v ELSE @]
          /\ UNCHANGED <<accepted, released, removed>>
    BY <1>15 DEF StoredVisibilityChange
  <2>2. /\ messages' = [messages EXCEPT ![o] = Retimed(messages[o], v)]
        /\ now' = now /\ v \in Nat
    BY <2>1, ServiceAssumption DEF ChangeMessageVisibility
  <2>3. CASE m = o
    BY <1>1, <1>13, <2>1, <2>2, <2>3 DEF TypeOK, ToldTypeOK
  <2>4. CASE m # o
    BY <1>1, <1>14, <2>1, <2>2, <2>4 DEF TypeOK, ToldTypeOK
  <2> QED
    BY <2>3, <2>4
<1>16. CASE StoredBatchVisibilityChange
  <2>1. PICK name \in QueueName, S \in SUBSET MsgId, ok \in BOOLEAN :
          \E f \in [S -> Visibilities] :
            /\ ChangeMessageVisibilityBatch(name, f)
            /\ Commit(ok)
            /\ held' = [o \in MsgId |->
                          IF o \in S /\ (ok \/ now + f[o] < held[o]) THEN now + f[o] ELSE held[o]]
    BY <1>16 DEF StoredBatchVisibilityChange
  <2>2. PICK f \in [S -> Visibilities] :
            /\ ChangeMessageVisibilityBatch(name, f)
            /\ Commit(ok)
            /\ held' = [o \in MsgId |->
                          IF o \in S /\ (ok \/ now + f[o] < held[o]) THEN now + f[o] ELSE held[o]]
    BY <2>1
  <2>3. /\ messages' = [o \in MsgId |->
                          IF o \in S THEN Retimed(messages[o], f[o]) ELSE messages[o]]
        /\ now' = now
    BY <2>2 DEF ChangeMessageVisibilityBatch
  <2>4. CASE m \in S
    <3>1. f[m] \in Nat
      BY <2>4, ServiceAssumption
    <3>2. /\ messages'[m] = Retimed(messages[m], f[m])
          /\ held'[m] = IF ok \/ now + f[m] < held[m] THEN now + f[m] ELSE held[m]
      BY <2>2, <2>3, <2>4
    <3> QED
      BY <1>13, <2>2, <2>3, <3>1, <3>2
  <2>5. CASE m \notin S
    BY <1>14, <2>2, <2>3, <2>5
  <2> QED
    BY <2>4, <2>5
<1>17. CASE Restart
  <2>1. /\ messages'[m] = disk.messages[m] /\ disk' = disk
        /\ now' = now /\ held' = held
    BY <1>17 DEF Restart, Restored, toldVars
  <2> QED
    BY <1>1, <2>1 DEF HeldInv
<1> QED
  BY <1>8, <1>9, <1>10, <1>11, <1>12, <1>15, <1>16, <1>17 DEF PersistentNext

-----------------------------------------------------------------------------
(* Removals. *)

(* A message that is not in the service comes to it only by its one send.  *)
LEMMA OutStays ==
  ASSUME TypeOK, [Next]_vars, NEW m \in MsgId, ~Present(m)
  PROVE  \/ ordinal'[m] = ordinal[m] /\ ~Present(m)'
         \/ ordinal[m] = 0 /\ ordinal'[m] # 0
<1>1. sends \in Nat
  BY DEF TypeOK
<1>2. ordinal'[m] = ordinal[m] \/ Arrives(m)
  BY SendFate
<1>3. Arrives(m) => ordinal[m] = 0 /\ ordinal'[m] # 0
  BY <1>1 DEF Arrives, Fresh
<1>4. ~Present(m)' \/ Arrives(m)
  BY MessageFate DEF Kept, Leaves, Present
<1> QED
  BY <1>2, <1>3, <1>4

(* The file gets no message that is neither in it nor in memory.           *)
LEMMA OutOfFile ==
  ASSUME TypeOK, [PersistentNext]_persistentVars, NEW m \in MsgId,
         ~Present(m), ~Present(m)', disk.messages[m].queue = NoQueue
  PROVE  disk'.messages[m].queue = NoQueue
<1>1. \A t \in Readings : Swept(t)[m] = messages[m]
  BY DEF Swept, Exhausted, Present
<1> QED
  BY <1>1, SavedMessage DEF Present

(* Only messages that are in the service are handed out or removed.        *)
LEMMA ToldOfPresent ==
  ASSUME PersistentTypeOK, [PersistentNext]_persistentVars, NEW m \in MsgId, ~Present(m)
  PROVE  held'[m] = held[m] /\ (m \in removed' => m \in removed)
<1>1. TypeOK /\ TypeOK' /\ ToldTypeOK
  BY MemoryType DEF PersistentTypeOK
<1>2. ASSUME NEW name \in QueueName, NEW t \in Readings PROVE m \notin Deliverable(Swept(t), name, t)
  <2>1. Swept(t)[m] = messages[m]
    BY DEF Swept, Exhausted, Present
  <2> QED
    BY <2>1, DeliveryAssumption DEF Present, Deliverable, MessageVisibleInQueue
<1>3. ASSUME NEW name \in QueueName, NEW k PROVE ~HandleIsCurrent(name, m, k)
  BY DeliveryAssumption DEF HandleIsCurrent, Present, MessageVisibleInQueue
<1>4. CASE \/ StoredTick \/ Restart \/ StoredSweep \/ StoredQueueChange
           \/ StoredSend \/ RepeatedSend \/ UNCHANGED persistentVars
  BY <1>4 DEF StoredTick, Restart, StoredSweep, StoredQueueChange,
     StoredSend, RepeatedSend, toldVars, persistentVars
<1>5. CASE StoredBatchSend
  BY <1>5 DEF StoredBatchSend, StoreBatch
<1>6. CASE StoredReceive
  <2>1. PICK name \in QueueName, size \in ReceiveSizes, sel \in SUBSET MsgId, t \in Readings :
          /\ ReceiveMessage(name, size, sel, t)
          /\ \/ held' = [o \in MsgId |-> IF o \in sel THEN due'[o] ELSE held[o]]
             \/ UNCHANGED held
          /\ UNCHANGED removed
    BY <1>6 DEF StoredReceive
  <2>2. m \notin sel
    BY <1>2, <2>1 DEF ReceiveMessage, IsBatchOf
  <2> QED
    BY <2>1, <2>2
<1>7. CASE StoredDelete
  BY <1>3, <1>7 DEF StoredDelete, DeleteMessage
<1>8. CASE StoredBatchDelete
  BY <1>3, <1>8 DEF StoredBatchDelete, DeleteMessageBatch
<1>9. CASE StoredVisibilityChange
  <2>1. PICK name \in QueueName, o \in MsgId, k \in 1..MaxAttempts, v \in Visibilities, ok \in BOOLEAN :
          /\ ChangeMessageVisibility(name, o, k, v)
          /\ held' = [held EXCEPT ![o] = IF ok \/ now + v < @ THEN now + v ELSE @]
          /\ UNCHANGED removed
    BY <1>9 DEF StoredVisibilityChange
  <2>2. o # m
    BY <1>3, <2>1 DEF ChangeMessageVisibility
  <2> QED
    BY <1>1, <2>1, <2>2 DEF ToldTypeOK
<1>10. CASE StoredBatchVisibilityChange
  <2>1. PICK name \in QueueName, S \in SUBSET MsgId, ok \in BOOLEAN :
          \E f \in [S -> Visibilities] :
            /\ ChangeMessageVisibilityBatch(name, f)
            /\ held' = [o \in MsgId |->
                          IF o \in S /\ (ok \/ now + f[o] < held[o]) THEN now + f[o] ELSE held[o]]
            /\ UNCHANGED removed
    BY <1>10 DEF StoredBatchVisibilityChange
  <2>2. m \notin S
    BY <1>3, <2>1 DEF ChangeMessageVisibilityBatch
  <2> QED
    BY <2>1, <2>2
<1>11. CASE StoredRemoval
  BY <1>11, DeliveryAssumption DEF StoredRemoval, Present
<1> QED
  BY <1>4, <1>5, <1>6, <1>7, <1>8, <1>9, <1>10, <1>11 DEF PersistentNext

LEMMA UnusedStep ==
  ASSUME PersistentInv, [PersistentNext]_persistentVars
  PROVE  UnusedInv'
<1>1. TypeOK /\ PersistentTypeOK /\ UnusedInv
  BY DEF PersistentInv, PersistentTypeOK
<1> SUFFICES ASSUME NEW m \in MsgId, ordinal'[m] = 0
             PROVE  /\ ~Present(m)' /\ disk'.messages[m].queue = NoQueue
                    /\ held'[m] = 0 /\ m \notin removed'
  BY DEF UnusedInv
<1>2. CASE Restart
  <2>1. /\ ordinal' = ordinal /\ held' = held /\ removed' = removed
        /\ messages'[m] = disk.messages[m] /\ disk' = disk
    BY <1>2 DEF Restart, Restored, historyVars, toldVars
  <2> QED
    BY <1>1, <2>1 DEF UnusedInv, Present
<1>3. CASE ~Restart
  <2>1. [Next]_vars
    BY <1>3, ServiceStep
  <2>2. ordinal[m] = 0
    <3>1. sends \in Nat
      BY <1>1 DEF TypeOK
    <3> QED
      BY <1>1, <2>1, <3>1, SendFate DEF Arrives, Fresh
  <2>3. ~Present(m) /\ disk.messages[m].queue = NoQueue /\ held[m] = 0 /\ m \notin removed
    BY <1>1, <2>2 DEF UnusedInv
  <2>4. ~Present(m)'
    BY <1>1, <2>1, <2>3, OutStays
  <2> QED
    BY <1>1, <2>3, <2>4, OutOfFile, ToldOfPresent
<1> QED
  BY <1>2, <1>3

LEMMA GoneStep ==
  ASSUME PersistentInv, [PersistentNext]_persistentVars
  PROVE  GoneInv'
<1>1. /\ TypeOK /\ TypeOK' /\ PersistentTypeOK /\ UnusedInv /\ GoneInv
      /\ removed \subseteq MsgId /\ removed' \subseteq MsgId
  BY MemoryType, ToldType DEF PersistentInv, PersistentTypeOK, ToldTypeOK
<1> SUFFICES ASSUME NEW m \in removed'
             PROVE  ~Present(m)' /\ disk'.messages[m].queue = NoQueue
  BY DEF GoneInv
<1>2. m \in MsgId
  BY <1>1
<1>3. CASE m \in removed
  <2>1. ~Present(m) /\ disk.messages[m].queue = NoQueue /\ ordinal[m] # 0
    BY <1>1, <1>2, <1>3 DEF GoneInv, UnusedInv
  <2>2. CASE Restart
    BY <2>1, <2>2 DEF Restart, Restored, Present
  <2>3. CASE ~Restart
    <3>1. ~Present(m)'
      BY <1>1, <1>2, <2>1, <2>3, ServiceStep, OutStays
    <3> QED
      BY <1>1, <1>2, <2>1, <3>1, OutOfFile
  <2> QED
    BY <2>2, <2>3
<1>4. ASSUME messages'[m] = Absent, disk' = Memory'
      PROVE  ~Present(m)' /\ disk'.messages[m].queue = NoQueue
  BY <1>4, AbsentLeaves DEF Present, Memory
<1>5. CASE m \notin removed /\ StoredDelete
  <2>1. PICK name \in QueueName, o \in MsgId, k \in 1..MaxAttempts, ok \in BOOLEAN :
          /\ DeleteMessage(name, o, k) /\ Commit(ok)
          /\ removed' = IF ok THEN removed \cup {o} ELSE removed
    BY <1>5 DEF StoredDelete
  <2>2. ok /\ m = o
    BY <1>5, <2>1
  <2>3. messages'[m] = Absent
    BY <1>1, <1>2, <2>1, <2>2 DEF DeleteMessage, TypeOK
  <2> QED
    BY <1>4, <2>1, <2>2, <2>3, SaveFate
<1>6. CASE m \notin removed /\ StoredBatchDelete
  <2>1. PICK name \in QueueName, S \in SUBSET MsgId, ok \in BOOLEAN :
          /\ DeleteMessageBatch(name, S) /\ Commit(ok)
          /\ removed' = IF ok THEN removed \cup S ELSE removed
    BY <1>6 DEF StoredBatchDelete
  <2>2. ok /\ m \in S
    BY <1>6, <2>1
  <2>3. messages'[m] = Absent
    BY <1>2, <2>1, <2>2 DEF DeleteMessageBatch
  <2> QED
    BY <1>4, <2>1, <2>2, <2>3, SaveFate
<1>7. CASE m \notin removed /\ StoredRemoval
  <2>1. PICK name \in QueueName, ok \in BOOLEAN :
          /\ PurgeQueue(name) \/ DeleteQueue(name)
          /\ Commit(ok)
          /\ removed' = IF ok THEN removed \cup {o \in MsgId : messages[o].queue = name}
                        ELSE removed
    BY <1>7 DEF StoredRemoval
  <2>2. ok /\ messages[m].queue = name
    BY <1>7, <2>1
  <2>3. messages'[m] = Absent
    BY <1>2, <2>1, <2>2 DEF PurgeQueue, DeleteQueue, RemoveMessagesForQueue
  <2> QED
    BY <1>4, <2>1, <2>2, <2>3, SaveFate
<1>8. CASE m \notin removed /\ ~StoredDelete /\ ~StoredBatchDelete /\ ~StoredRemoval
  <2>1. removed' = removed
    BY <1>8 DEF PersistentNext, StoredTick, Restart, StoredSend, RepeatedSend,
       StoredBatchSend, StoreBatch, StoredReceive, StoredSweep, StoredQueueChange,
       StoredVisibilityChange, StoredBatchVisibilityChange, toldVars, persistentVars
  <2> QED
    BY <1>8, <2>1
<1> QED
  BY <1>3, <1>5, <1>6, <1>7, <1>8

LEMMA PersistentStart ==
  ASSUME PersistentInit
  PROVE  PersistentInv
<1>1. Init /\ disk = Memory /\ accepted = {} /\ removed = {} /\ held = [m \in MsgId |-> 0]
  BY DEF PersistentInit, PersistentInitWith, Init
<1>2. TypeOK /\ now = 1 /\ messages = [m \in MsgId |-> Absent]
  BY <1>1, TypeInit DEF Init, InitWith
<1>3. SavedTypeOK
  BY <1>1, <1>2 DEF SavedTypeOK, TypeOK, Memory
<1>4. ToldTypeOK
  BY <1>1 DEF ToldTypeOK
<1>5. HeldInv
  BY <1>1, <1>2 DEF HeldInv
<1>6. UnusedInv
  BY <1>1, <1>2, AbsentLeaves DEF UnusedInv, Present, Memory
<1>7. GoneInv
  BY <1>1 DEF GoneInv
<1> QED
  BY <1>2, <1>3, <1>4, <1>5, <1>6, <1>7 DEF PersistentInv, PersistentTypeOK

LEMMA PersistentStep ==
  ASSUME PersistentInv, [PersistentNext]_persistentVars
  PROVE  PersistentInv'
<1>1. PersistentTypeOK'
  BY MemoryType, SavedType, ToldType DEF PersistentInv, PersistentTypeOK
<1> QED
  BY <1>1, HeldStep, UnusedStep, GoneStep DEF PersistentInv

LEMMA PersistentInvariance == PersistentSpec => []PersistentInv
<1>1. PersistentInit => PersistentInv
  BY PersistentStart
<1>2. PersistentInv /\ [PersistentNext]_persistentVars => PersistentInv'
  BY PersistentStep
<1> QED
  BY <1>1, <1>2, PTL DEF PersistentSpec

(* The types of memory hold whatever the file gave back, and memory never  *)
(* takes from it a time that has not come.                                 *)
THEOREM RestartsTyped == PersistentSpec => []PersistentTypeOK
<1>1. PersistentInv => PersistentTypeOK
  BY DEF PersistentInv
<1> QED
  BY <1>1, PersistentInvariance, PTL

(* A lease that a client was told of is honoured until it ends, across any *)
(* number of failed writes and restarts.                                   *)
THEOREM LeasesOutliveRestarts == PersistentSpec => []GrantedLeaseHonoured
<1>1. PersistentInv => GrantedLeaseHonoured
  <2> SUFFICES ASSUME PersistentInv, NEW m \in MsgId, NEW t \in Readings,
                      Present(m), held[m] > now
               PROVE  /\ ~Exhausted(m, t)
                      /\ \A name \in QueueName : m \notin Deliverable(messages, name, t)
    BY DEF GrantedLeaseHonoured
  <2>1. TypeOK /\ held[m] \in Nat /\ Covers(messages[m], held[m])
    BY DEF PersistentInv, PersistentTypeOK, ToldTypeOK, HeldInv
  <2> QED
    BY <2>1, CoveredIsSafe
<1> QED
  BY <1>1, PersistentInvariance, PTL

(* A removal that was answered with success is final, across any number of *)
(* failed writes and restarts.                                             *)
THEOREM RemovalsOutliveRestarts == PersistentSpec => []RemovalIsFinal
<1>1. PersistentInv => RemovalIsFinal
  BY DEF PersistentInv, GoneInv, RemovalIsFinal
<1> QED
  BY <1>1, PersistentInvariance, PTL

-----------------------------------------------------------------------------
(* Accepted messages. *)

(* A service whose clients ask for standard queues only.  A FIFO queue     *)
(* answers a repeated send with a message that the file need not have, so  *)
(* AcceptedKept is not true of every service.                              *)
StandardOnly == \A name \in QueueName : \A attrs \in OfferedAttributes[name] : ~attrs.fifo

StandardInv ==
  /\ \A name \in QueueName : ~queues[name].fifo /\ ~disk.queues[name].fifo
  /\ \A m \in accepted \ released : Present(m) /\ disk.messages[m].queue # NoQueue

LEMMA SweptPresent ==
  ASSUME TypeOK, NEW t \in Readings, NEW m \in MsgId, Present(m)
  PROVE  Swept(t)[m].queue # NoQueue
<1>1. CASE Exhausted(m, t)
  <2>1. Swept(t)[m] = Redriven(m, t) /\ messages[m] \in Message
    BY <1>1, TypeParts DEF Swept
  <2> QED
    BY <1>1, <2>1 DEF Redriven, Exhausted, Message
<1>2. CASE ~Exhausted(m, t)
  BY <1>2 DEF Swept, Present
<1> QED
  BY <1>1, <1>2

LEMMA NewMessageQueue ==
  ASSUME NEW name \in QueueName, NEW r, NEW n
  PROVE  NewMessage(name, r, n).queue # NoQueue
BY DeliveryAssumption DEF NewMessage, Absent

(* Only a request to remove it takes a message out of the service.         *)
LEMMA PresentStays ==
  ASSUME PersistentInv, [PersistentNext]_persistentVars, ~Restart,
         NEW m \in MsgId, Present(m), m \notin released'
  PROVE  Present(m)'
<1>1. TypeOK /\ messages[m] \in Message /\ ordinal[m] # 0
  BY TypeParts DEF PersistentInv, PersistentTypeOK, UnusedInv
<1>2. CASE messages'[m] = messages[m]
  BY <1>2 DEF Present
<1>3. CASE StoredTick \/ RepeatedSend \/ UNCHANGED persistentVars
  BY <1>2, <1>3 DEF StoredTick, Tick, RepeatedSend, persistentVars, vars
<1>4. CASE StoredSend \/ StoredBatchSend
  <2>1. SomeSend \/ SomeBatchSend
    BY <1>4 DEF StoredSend, SomeSend, StoredBatchSend, StoreBatch, SomeBatchSend
  <2> QED
    BY <1>1, <1>2, <2>1, SendKeeps
<1>5. CASE StoredReceive
  <2>1. PICK name \in QueueName, size \in ReceiveSizes, sel \in SUBSET MsgId, t \in Readings :
          ReceiveMessage(name, size, sel, t)
    BY <1>5 DEF StoredReceive
  <2>2. \/ messages'[m] = Swept(t)[m]
        \/ messages'[m] = Received(queues[name], Swept(t)[m], t)
    BY <2>1 DEF ReceiveMessage
  <2>3. Swept(t)[m] \in Message
    BY <1>1, SweptType
  <2>4. messages'[m].queue = Swept(t)[m].queue
    BY <2>2, <2>3 DEF Received, Message
  <2> QED
    BY <1>1, <2>4, SweptPresent DEF Present
<1>6. CASE StoredSweep
  <2>1. PICK t \in Readings : Sweep(t)
    BY <1>6 DEF StoredSweep, WorkerAdvance, SomeEmptyReceive, ReceiveNothing
  <2> QED
    BY <1>1, <2>1, SweptPresent DEF Sweep, Present
<1>7. CASE StoredQueueChange
  BY <1>2, <1>7 DEF StoredQueueChange, SomeCreate, CreateQueue, SomeSetAttributes, SetQueueAttributes
<1>8. CASE StoredDelete
  BY <1>2, <1>8 DEF StoredDelete, DeleteMessage
<1>9. CASE StoredBatchDelete
  BY <1>2, <1>9 DEF StoredBatchDelete, DeleteMessageBatch
<1>10. CASE StoredRemoval
  BY <1>2, <1>10 DEF StoredRemoval, PurgeQueue, DeleteQueue, RemoveMessagesForQueue
<1>11. ASSUME NEW v \in Nat, messages'[m] = Retimed(messages[m], v) PROVE Present(m)'
  BY <1>1, <1>11 DEF Retimed, Message, Present
<1>12. CASE StoredVisibilityChange
  <2>1. PICK name \in QueueName, o \in MsgId, k \in 1..MaxAttempts, v \in Visibilities :
          ChangeMessageVisibility(name, o, k, v)
    BY <1>12 DEF StoredVisibilityChange
  <2>2. v \in Nat /\ (messages'[m] = messages[m] \/ messages'[m] = Retimed(messages[m], v))
    BY <2>1, ServiceAssumption DEF ChangeMessageVisibility
  <2> QED
    BY <1>2, <1>11, <2>2
<1>13. CASE StoredBatchVisibilityChange
  <2>1. PICK name \in QueueName, S \in SUBSET MsgId :
          \E f \in [S -> Visibilities] : ChangeMessageVisibilityBatch(name, f)
    BY <1>13 DEF StoredBatchVisibilityChange
  <2>2. PICK f \in [S -> Visibilities] : ChangeMessageVisibilityBatch(name, f)
    BY <2>1
  <2>3. \/ messages'[m] = messages[m]
        \/ f[m] \in Nat /\ messages'[m] = Retimed(messages[m], f[m])
    BY <2>2, ServiceAssumption DEF ChangeMessageVisibilityBatch
  <2> QED
    BY <1>2, <1>11, <2>3
<1> QED
  BY <1>3, <1>4, <1>5, <1>6, <1>7, <1>8, <1>9, <1>10, <1>12, <1>13 DEF PersistentNext

(* A send is answered with success once the file has its message, or if it *)
(* repeats, in a FIFO queue, a message that is in memory.                  *)
LEMMA AcceptedSaved ==
  ASSUME PersistentInv, [PersistentNext]_persistentVars,
         NEW m \in MsgId, m \notin accepted, m \in accepted'
  PROVE  \/ Present(m)' /\ OnFile(m)'
         \/ Present(m) /\ \E name \in QueueName : queues[name].fifo
<1>1. TypeOK
  BY DEF PersistentInv, PersistentTypeOK
<1>2. ASSUME messages'[m].queue # NoQueue, disk' = Memory'
      PROVE  Present(m)' /\ OnFile(m)'
  BY <1>2 DEF Present, OnFile, Memory
<1> DEFINE Found(name) == \E r : IsDuplicate(name, r) /\ m \in Duplicates(name, r)
<1>7. ASSUME NEW name \in QueueName, Found(name)
           PROVE  Present(m) /\ queues[name].fifo
  BY <1>7, DeliveryAssumption DEF IsDuplicate, Duplicates, MessageVisibleInQueue, Present
<1> HIDE DEF Found
<1>3. CASE StoredSend
  <2>1. PICK name \in QueueName, o \in Fresh, n \in 0..(sends + 1), ok \in BOOLEAN :
          \E r \in Requests[name] :
            /\ SendMessage(name, r, o, n)
            /\ Commit(ok)
            /\ accepted' = IF ok THEN accepted \cup {o} ELSE accepted
    BY <1>3 DEF StoredSend
  <2>2. PICK r \in Requests[name] :
            /\ SendMessage(name, r, o, n)
            /\ Commit(ok)
            /\ accepted' = IF ok THEN accepted \cup {o} ELSE accepted
    BY <2>1
  <2>3. ok /\ m = o
    BY <2>2
  <2>4. messages'[m] = NewMessage(name, r, n)
    BY <1>1, <2>2, <2>3 DEF SendMessage, TypeOK
  <2> QED
    BY <1>2, <2>2, <2>3, <2>4, NewMessageQueue, SaveFate
<1>4. CASE RepeatedSend
  <2>1. PICK name \in QueueName : \E r \in Requests[name] :
          IsDuplicate(name, r) /\ \E o \in Duplicates(name, r) : accepted' = accepted \cup {o}
    BY <1>4 DEF RepeatedSend
  <2>2. Found(name)
    BY <2>1 DEF Found
  <2> QED
    BY <1>7, <2>2
<1>5. CASE StoredBatchSend
  <2>1. PICK name \in QueueName, ok \in BOOLEAN : \E entries \in Batches[name] :
          \E new \in SUBSET DOMAIN entries :
            \E ids \in [new -> Fresh], nums \in [new -> 0..(sends + 1)],
               old \in [Repeats(name, entries) -> MsgId] :
              StoreBatch(name, entries, ids, nums, old, ok)
    BY <1>5 DEF StoredBatchSend
  <2>2. PICK entries \in Batches[name] :
          \E new \in SUBSET DOMAIN entries :
            \E ids \in [new -> Fresh], nums \in [new -> 0..(sends + 1)],
               old \in [Repeats(name, entries) -> MsgId] :
              StoreBatch(name, entries, ids, nums, old, ok)
    BY <2>1
  <2>3. PICK new \in SUBSET DOMAIN entries :
          \E ids \in [new -> Fresh], nums \in [new -> 0..(sends + 1)],
             old \in [Repeats(name, entries) -> MsgId] :
            StoreBatch(name, entries, ids, nums, old, ok)
    BY <2>2
  <2>4. PICK ids \in [new -> Fresh], nums \in [new -> 0..(sends + 1)],
             old \in [Repeats(name, entries) -> MsgId] :
          StoreBatch(name, entries, ids, nums, old, ok)
    BY <2>3
  <2>5. ok /\ Commit(ok) /\ (m \in Range(ids) \/ m \in Range(old))
    BY <2>4 DEF StoreBatch
  <2>6. CASE m \in Range(old)
    <3>1. PICK i \in Repeats(name, entries) : old[i] = m
      BY <2>6 DEF Range
    <3>2. m \in Duplicates(name, entries[i]) /\ IsDuplicate(name, entries[i])
      BY <2>4, <3>1 DEF StoreBatch, Repeats
    <3>3. Found(name)
      BY <3>2 DEF Found
    <3> QED
      BY <1>7, <3>3
  <2>7. CASE m \in Range(ids)
    <3>1. \E i \in DOMAIN ids : ids[i] = m
      BY <2>7 DEF Range
    <3>2. \E i \in DOMAIN ids : messages'[m] = NewMessage(name, entries[i], nums[i])
      BY <2>4, <3>1 DEF StoreBatch, SendMessageBatch
    <3> QED
      BY <1>2, <2>5, <3>2, NewMessageQueue, SaveFate
  <2> QED
    BY <2>5, <2>6, <2>7
<1>6. CASE ~StoredSend /\ ~RepeatedSend /\ ~StoredBatchSend
  <2>1. accepted' = accepted
    BY <1>6 DEF PersistentNext, StoredTick, Restart, StoredReceive, StoredSweep,
       StoredQueueChange, StoredDelete, StoredBatchDelete, StoredRemoval,
       StoredVisibilityChange, StoredBatchVisibilityChange, toldVars, persistentVars
  <2> QED
    BY <2>1
<1> QED
  BY <1>3, <1>4, <1>5, <1>6

(* What a client did not ask to remove is in memory if it is in the file.  *)
SavedInv == \A m \in MsgId : OnFile(m) /\ m \notin released => Present(m)

LEMMA ReleasedGrows ==
  ASSUME [PersistentNext]_persistentVars
  PROVE  released \subseteq released'
BY DEF PersistentNext, StoredTick, Restart, StoredSend, RepeatedSend,
   StoredBatchSend, StoreBatch, StoredReceive, StoredSweep, StoredQueueChange,
   StoredDelete, StoredBatchDelete, StoredRemoval,
   StoredVisibilityChange, StoredBatchVisibilityChange, toldVars, persistentVars

LEMMA SavedStays ==
  ASSUME PersistentInv, SavedInv, [PersistentNext]_persistentVars,
         NEW m \in MsgId, OnFile(m), m \notin released'
  PROVE  OnFile(m)' /\ Present(m)'
<1>1. TypeOK /\ m \notin released /\ Present(m)
  BY ReleasedGrows DEF PersistentInv, PersistentTypeOK, SavedInv
<1>2. CASE Restart
  BY <1>2 DEF Restart, Restored, Present, OnFile
<1>3. CASE ~Restart
  <2>1. Present(m)'
    BY <1>1, <1>3, PresentStays
  <2> QED
    BY <1>1, <2>1, SavedMessage, SweptPresent DEF Present, OnFile
<1> QED
  BY <1>2, <1>3

LEMMA SavedStep ==
  ASSUME PersistentInv, SavedInv, [PersistentNext]_persistentVars
  PROVE  SavedInv'
<1> SUFFICES ASSUME NEW m \in MsgId, OnFile(m)', m \notin released'
             PROVE  Present(m)'
  BY DEF SavedInv
<1>1. TypeOK
  BY DEF PersistentInv, PersistentTypeOK
<1>2. CASE OnFile(m)
  BY <1>2, SavedStays
<1>3. CASE disk'.messages[m] = messages'[m]
  BY <1>3 DEF OnFile, Present
<1>4. ASSUME ~OnFile(m), NEW t \in Readings, disk'.messages[m] = Swept(t)[m]
      PROVE  Present(m)'
  <2>1. Present(m)
    BY <1>4, <1>1 DEF OnFile, Present, Swept, Exhausted
  <2>2. ~Restart
    BY <1>4 DEF Restart, OnFile
  <2> QED
    BY <2>1, <2>2, PresentStays
<1> QED
  BY <1>2, <1>3, <1>4, SavedMessage DEF OnFile

(* Of any queue, what was saved is kept until a client asks to remove it,  *)
(* across any number of failed writes and restarts, and a send that is     *)
(* answered with success saved its message or repeats one in memory.       *)
THEOREM SavedMessagesAreKept == PersistentSpec => SavedIsKept
<1>1. PersistentInit => SavedInv
  BY DEF PersistentInit, PersistentInitWith, InitWith, SavedInv, OnFile, Present, Memory
<1>2. PersistentInv /\ SavedInv /\ [PersistentNext]_persistentVars => SavedInv'
  BY SavedStep
<1>3. PersistentInv /\ SavedInv /\ [PersistentNext]_persistentVars =>
        [\A m \in MsgId :
           /\ OnFile(m) /\ m \notin released' => OnFile(m)' /\ Present(m)'
           /\ m \in accepted' \ accepted => OnFile(m)' \/ Present(m)]_persistentVars
  BY SavedStays, AcceptedSaved
<1> QED
  BY <1>1, <1>2, <1>3, PersistentInvariance, PTL DEF PersistentSpec, SavedIsKept

(* A step that loses an accepted message is a restart, from a file that a  *)
(* refused Save left behind memory.                                        *)
LEMMA AcceptedStep ==
  ASSUME PersistentInv, AcceptedKept, [PersistentNext]_persistentVars,
         ~Restart \/ disk.messages = messages
  PROVE  AcceptedKept'
<1> SUFFICES ASSUME NEW m \in accepted', m \notin released'
             PROVE  Present(m)'
  BY DEF AcceptedKept
<1>1. m \in MsgId /\ released \subseteq released'
  BY ToldType, ReleasedGrows DEF PersistentInv, ToldTypeOK
<1>2. Present(m) \/ (Present(m)' /\ OnFile(m)')
  BY <1>1, AcceptedSaved DEF AcceptedKept
<1>3. CASE Restart
  <2>1. messages' = messages
    BY <1>3 DEF Restart, Restored
  <2> QED
    BY <1>2, <2>1 DEF Present
<1>4. CASE ~Restart
  BY <1>1, <1>2, <1>4, PresentStays
<1> QED
  BY <1>3, <1>4

(* What sqs_poison shows takes all of it: of any queue, an accepted        *)
(* message is lost only by a restart whose file lacks what memory had,     *)
(* which is what a refused Save leaves (commitStateLocked).                *)
THEOREM LossNeedsRefusedSave ==
  PersistentSpec =>
    [][AcceptedKept => AcceptedKept' \/ (Restart /\ disk.messages # messages)]_persistentVars
<1>1. PersistentInv /\ [PersistentNext]_persistentVars =>
        [AcceptedKept => AcceptedKept' \/ (Restart /\ disk.messages # messages)]_persistentVars
  BY AcceptedStep
<1> QED
  BY <1>1, PersistentInvariance, PTL DEF PersistentSpec

(* Hence while every Save succeeds, FIFO queues keep what they accept too. *)
THEOREM SavesKeepAccepted ==
  PersistentSpec /\ [](disk.messages = messages) => []AcceptedKept
<1>1. PersistentInit => AcceptedKept
  BY DEF PersistentInit, PersistentInitWith, AcceptedKept
<1>2. /\ PersistentInv /\ AcceptedKept /\ disk.messages = messages
      /\ [PersistentNext]_persistentVars
      => AcceptedKept'
  BY AcceptedStep
<1> QED
  BY <1>1, <1>2, PersistentInvariance, PTL DEF PersistentSpec

(* Nobody makes a queue FIFO who does not ask for it. *)
LEMMA StandardStays ==
  ASSUME StandardOnly, PersistentInv, StandardInv, [PersistentNext]_persistentVars
  PROVE  \A name \in QueueName : ~queues'[name].fifo /\ ~disk'.queues[name].fifo
<1>1. TypeOK /\ \A name \in QueueName : ~queues[name].fifo /\ ~disk.queues[name].fifo
  BY DEF PersistentInv, PersistentTypeOK, StandardInv
<1>2. ASSUME NEW name \in QueueName PROVE ~queues'[name].fifo
  <2>1. CASE Restart
    BY <1>1, <2>1 DEF Restart, Restored
  <2>2. CASE ~Restart /\ ~QueueNext
    BY <1>1, <2>2, ServiceStep, QueuesKept
  <2>3. CASE QueueNext
    <3>1. queues \in [QueueName -> Queue]
      BY <1>1 DEF TypeOK
    <3>2. CASE SomeCreate \/ SomeSetAttributes
      <4>1. PICK o \in QueueName : \E attrs \in OfferedAttributes[o] :
              CreateQueue(o, attrs) \/ SetQueueAttributes(o, attrs)
        BY <3>2 DEF SomeCreate, SomeSetAttributes
      <4>2. PICK attrs \in OfferedAttributes[o] :
              CreateQueue(o, attrs) \/ SetQueueAttributes(o, attrs)
        BY <4>1
      <4>3. ~attrs.fifo
        BY DEF StandardOnly
      <4>4. CASE CreateQueue(o, attrs)
        BY <1>1, <3>1, <4>3, <4>4 DEF CreateQueue
      <4>5. CASE SetQueueAttributes(o, attrs)
        BY <1>1, <3>1, <4>3, <4>5 DEF SetQueueAttributes, Queue
      <4> QED
        BY <4>2, <4>4, <4>5
    <3>3. CASE SomeQueueDelete \/ SomePurge
      <4>1. PICK o \in QueueName : DeleteQueue(o) \/ PurgeQueue(o)
        BY <3>3 DEF SomeQueueDelete, SomePurge
      <4>2. CASE DeleteQueue(o)
        BY <1>1, <3>1, <4>2 DEF DeleteQueue, Queue
      <4>3. CASE PurgeQueue(o)
        BY <1>1, <3>1, <4>3 DEF PurgeQueue, Queue
      <4> QED
        BY <4>1, <4>2, <4>3
    <3> QED
      BY <2>3, <3>2, <3>3 DEF QueueNext
  <2> QED
    BY <2>1, <2>2, <2>3
<1>3. disk'.queues = disk.queues \/ disk'.queues = queues' \/ disk'.queues = queues
  <2>1. disk' = Memory' => disk'.queues = queues'
    BY DEF Memory
  <2>2. ASSUME NEW t \in Readings, SavesSweep(t) PROVE disk'.queues = queues
    BY <2>2 DEF SavesSweep, Memory
  <2> QED
    BY <2>1, <2>2, DiskFate
<1> QED
  BY <1>1, <1>2, <1>3

LEMMA AcceptedStays ==
  ASSUME PersistentInv, StandardInv, [PersistentNext]_persistentVars,
         NEW m \in accepted, m \notin released'
  PROVE  Present(m)' /\ disk'.messages[m].queue # NoQueue
<1>1. TypeOK /\ m \in MsgId
  BY DEF PersistentInv, PersistentTypeOK, ToldTypeOK
<1>2. released \subseteq released'
  BY ReleasedGrows
<1>3. Present(m) /\ disk.messages[m].queue # NoQueue
  BY <1>2 DEF StandardInv
<1>4. CASE Restart
  BY <1>3, <1>4 DEF Restart, Restored, Present
<1>5. CASE ~Restart
  <2>1. Present(m)'
    BY <1>1, <1>3, <1>5, PresentStays
  <2> QED
    BY <1>1, <1>3, <2>1, SavedMessage, SweptPresent DEF Present
<1> QED
  BY <1>4, <1>5

(* Where every queue is a standard one, a message whose send was answered  *)
(* with success is in the service until a client asks to remove it, across *)
(* any number of failed writes and restarts.                               *)
THEOREM StandardQueuesKeep == StandardOnly /\ PersistentSpec => []AcceptedKept
<1>1. PersistentInit => StandardInv
  BY DEF PersistentInit, PersistentInitWith, InitWith, StandardInv, Memory, NoRecord
<1>2. StandardOnly /\ PersistentInv /\ StandardInv /\ [PersistentNext]_persistentVars => StandardInv'
  <2> SUFFICES ASSUME StandardOnly, PersistentInv, StandardInv, [PersistentNext]_persistentVars
               PROVE  StandardInv'
    OBVIOUS
  <2>1. accepted' \subseteq MsgId
    BY ToldType DEF PersistentInv, ToldTypeOK
  <2>2. ASSUME NEW m \in MsgId, m \notin accepted, m \in accepted'
        PROVE  Present(m)' /\ disk'.messages[m].queue # NoQueue
    BY <2>2, AcceptedSaved DEF StandardInv, OnFile
  <2> QED
    BY <2>1, <2>2, StandardStays, AcceptedStays DEF StandardInv
<1>3. StandardOnly => StandardOnly'
  BY DEF StandardOnly
<1>4. StandardInv => AcceptedKept
  BY DEF StandardInv, AcceptedKept
<1> QED
  BY <1>1, <1>2, <1>3, <1>4, PersistentInvariance, PTL DEF PersistentSpec

-----------------------------------------------------------------------------
(* Order and deduplication, across restarts. *)

(* What IdsInv, SequenceInv, FifoOrder and DedupHonoured say of a state    *)
(* that may be in memory or in the file; ords gives each message its send, *)
(* of which there were n.                                                  *)
SiblingsIn(msgs, m, o) ==
  /\ msgs[m].queue # NoQueue
  /\ msgs[m].queue = msgs[o].queue
  /\ msgs[m].group = msgs[o].group
  /\ msgs[m].seq > 0 /\ msgs[o].seq > 0
  /\ msgs[m].dlq = NoQueue /\ msgs[o].dlq = NoQueue

Ordered(qs, msgs, ords, n) ==
  /\ \A m \in MsgId : msgs[m].queue # NoQueue => ords[m] \in 1..n
  /\ \A m \in MsgId :
        msgs[m].queue # NoQueue /\ msgs[m].dlq = NoQueue =>
          /\ msgs[m].source = NoQueue
          /\ msgs[m].seq > 0 => qs[msgs[m].queue].fifo /\ msgs[m].group # NoGroup
  /\ \A m, o \in MsgId :
        SiblingsIn(msgs, m, o) /\ ords[m] < ords[o] =>
          /\ msgs[m].seq < msgs[o].seq
          /\ msgs[o].attempts = 0
          /\ msgs[m].dedup # NoDedup /\ msgs[m].dedup = msgs[o].dedup =>
                msgs[o].sentAt - msgs[m].sentAt > DedupWindow

OrderInv ==
  /\ \A m \in MsgId : ordinal[m] = 0 => due[m] = 0
  /\ Ordered(queues, messages, ordinal, sends)
  /\ Ordered(disk.queues, disk.messages, ordinal, sends)

LEMMA OrderParts ==
  Ordered(queues, messages, ordinal, sends) /\ (\A m \in MsgId : ordinal[m] = 0 => due[m] = 0)
    <=> IdsInv /\ SequenceInv /\ FifoOrder /\ DedupHonoured
BY DEF Ordered, SiblingsIn, IdsInv, SequenceInv, FifoOrder, DedupHonoured, Siblings, Present

(* A sweep, or sends elsewhere, leave a state ordered.                     *)
LEMMA OrderedStays ==
  ASSUME NEW qs, NEW old, NEW new, NEW ords, NEW ords2, NEW n \in Nat, NEW n2 \in Nat,
         MsgId # {} => n <= n2,
         Ordered(qs, old, ords, n),
         \A m \in MsgId :
           /\ new[m] = old[m] \/ (old[m].queue # NoQueue /\ new[m].dlq # NoQueue)
           /\ old[m].queue # NoQueue => ords2[m] = ords[m]
  PROVE  Ordered(qs, new, ords2, n2)
<1>1. ASSUME NEW m \in MsgId, new[m].queue # NoQueue PROVE ords2[m] \in 1..n2
  BY <1>1 DEF Ordered
<1>2. ASSUME NEW m \in MsgId, new[m].queue # NoQueue, new[m].dlq = NoQueue
      PROVE  /\ new[m].source = NoQueue
             /\ new[m].seq > 0 => qs[new[m].queue].fifo /\ new[m].group # NoGroup
  <2>1. new[m] = old[m]
    BY <1>2
  <2> QED
    BY <1>2, <2>1 DEF Ordered
<1>3. ASSUME NEW m \in MsgId, NEW o \in MsgId, SiblingsIn(new, m, o), ords2[m] < ords2[o]
      PROVE  /\ new[m].seq < new[o].seq
             /\ new[o].attempts = 0
             /\ new[m].dedup # NoDedup /\ new[m].dedup = new[o].dedup =>
                   new[o].sentAt - new[m].sentAt > DedupWindow
  <2>1. new[m] = old[m] /\ new[o] = old[o] /\ SiblingsIn(old, m, o)
    BY <1>3 DEF SiblingsIn
  <2>2. ords[m] < ords[o]
    BY <1>3, <2>1 DEF SiblingsIn
  <2> QED
    BY <2>1, <2>2 DEF Ordered
<1> QED
  BY <1>1, <1>2, <1>3 DEF Ordered

LEMMA OrderStep ==
  ASSUME PersistentInv, OrderInv, [PersistentNext]_persistentVars
  PROVE  OrderInv'
<1>1. TypeOK /\ TypeOK' /\ sends \in Nat
  BY MemoryType DEF PersistentInv, PersistentTypeOK, TypeOK
<1>2. CASE Restart
  <2>1. /\ queues' = disk.queues /\ messages' = disk.messages /\ disk' = disk
        /\ ordinal' = ordinal /\ sends' = sends /\ due' = due
    BY <1>2 DEF Restart, Restored, historyVars
  <2> QED
    BY <2>1 DEF OrderInv
<1>3. CASE ~Restart
  <2>1. [Next]_vars
    BY <1>3, ServiceStep
  <2>2. IdsInv /\ SequenceInv /\ FifoOrder /\ DedupHonoured
    BY OrderParts DEF OrderInv
  <2>3. IdsInv'
    BY <1>1, <2>1, <2>2, IdsStep
  <2>4. SequenceInv' /\ FifoOrder' /\ DedupHonoured'
    BY <1>1, <2>1, <2>2, <2>3, SequenceStep, FifoStep, DedupStep
  <2>5. (Ordered(queues, messages, ordinal, sends) /\ (\A m \in MsgId : ordinal[m] = 0 => due[m] = 0))'
    BY <2>3, <2>4
    DEF Ordered, SiblingsIn, IdsInv, SequenceInv, FifoOrder, DedupHonoured, Siblings, Present
  <2>6. sends' \in Nat /\ (MsgId # {} => sends <= sends')
    BY <1>1, <2>1, SendFate DEF TypeOK
  <2>7. \A m \in MsgId : ordinal[m] # 0 => ordinal'[m] = ordinal[m]
    BY <1>1, <2>1, SendFate DEF Arrives, Fresh
  <2>8. CASE disk' = disk
    <3>1. \A m \in MsgId : disk.messages[m].queue # NoQueue => ordinal[m] # 0
      BY DEF PersistentInv, UnusedInv
    <3>2. \A m \in MsgId :
            /\ \/ disk.messages[m] = disk.messages[m]
               \/ disk.messages[m].queue # NoQueue /\ disk.messages[m].dlq # NoQueue
            /\ disk.messages[m].queue # NoQueue => ordinal'[m] = ordinal[m]
      BY <2>7, <3>1
    <3>3. Ordered(disk.queues, disk.messages, ordinal, sends)
      BY DEF OrderInv
    <3>4. Ordered(disk.queues, disk.messages, ordinal', sends')
      BY <1>1, <2>6, <3>2, <3>3, OrderedStays
    <3> QED
      BY <2>5, <2>8, <3>4 DEF OrderInv
  <2>9. CASE disk' = Memory'
    BY <2>5, <2>9 DEF OrderInv, Memory
  <2>10. ASSUME NEW t \in Readings, SavesSweep(t) PROVE OrderInv'
    <3>1. disk'.queues = queues /\ disk'.messages = Swept(t)
      BY <2>10 DEF SavesSweep, Memory
    <3>2. \A m \in MsgId : \/ Swept(t)[m] = messages[m]
                           \/ messages[m].queue # NoQueue /\ Swept(t)[m].dlq # NoQueue
      BY <1>1, SweptFate DEF Exhausted
    <3>3. \A m \in MsgId : messages[m].queue # NoQueue => ordinal[m] # 0
      BY DEF PersistentInv, UnusedInv, Present
    <3>4. \A m \in MsgId :
            /\ Swept(t)[m] = messages[m] \/ (messages[m].queue # NoQueue /\ Swept(t)[m].dlq # NoQueue)
            /\ messages[m].queue # NoQueue => ordinal'[m] = ordinal[m]
      BY <2>7, <3>2, <3>3
    <3>5. Ordered(queues, messages, ordinal, sends)
      BY DEF OrderInv
    <3>6. Ordered(queues, Swept(t), ordinal', sends')
      BY <1>1, <2>6, <3>4, <3>5, OrderedStays
    <3> QED
      BY <2>5, <3>1, <3>6 DEF OrderInv
  <2> QED
    BY <2>8, <2>9, <2>10, DiskFate
<1> QED
  BY <1>2, <1>3

LEMMA OrderInvariance == PersistentSpec => []OrderInv
<1>1. PersistentInit => OrderInv
  BY AbsentLeaves DEF PersistentInit, PersistentInitWith, InitWith, OrderInv, Ordered,
     SiblingsIn, Memory
<1>2. PersistentInv /\ OrderInv /\ [PersistentNext]_persistentVars => OrderInv'
  BY OrderStep
<1> QED
  BY <1>1, <1>2, PersistentInvariance, PTL DEF PersistentSpec

(* A service that restarts from its file, whenever that was last written,  *)
(* still hands out each group in the order of its sends.                   *)
THEOREM OrderOutlivesRestarts == PersistentSpec => []FifoOrder
<1>1. OrderInv => FifoOrder
  BY OrderParts DEF OrderInv
<1> QED
  BY <1>1, OrderInvariance, PTL

(* Nor does a restart bring two sends of one deduplication id together     *)
(* that came within the window.                                            *)
THEOREM DeduplicationOutlivesRestarts == PersistentSpec => []DedupHonoured
<1>1. OrderInv => DedupHonoured
  BY OrderParts DEF OrderInv
<1> QED
  BY <1>1, OrderInvariance, PTL
-----------------------------------------------------------------------------
(* The pool of messages. *)

InPool == {m \in MsgId : Present(m)}
Loans(m) == IF Present(m) THEN messages[m].attempts ELSE 0
AllLoans == [m \in MsgId |-> Loans(m)]

LEMMA PoolParts ==
  /\ Pool!Init <=> /\ now = 1 /\ Fresh = MsgId /\ InPool = {}
                   /\ AllLoans = [m \in MsgId |-> 0]
                   /\ due = [m \in MsgId |-> 0]
  /\ Pool!Tick <=> now' = now + 1 /\ UNCHANGED <<Fresh, InPool, AllLoans, due>>
  /\ \A S \in SUBSET MsgId :
       /\ Pool!Put(S) <=> /\ S \subseteq Fresh /\ Fresh' = Fresh \ S
                          /\ InPool' = InPool \cup S
                          /\ UNCHANGED <<now, AllLoans, due>>
       /\ Pool!Terms(S) <=> due' \in [MsgId -> Nat] /\ \A m \in MsgId \ S : due'[m] = due[m]
       /\ Pool!Hand(S) <=> /\ S \subseteq InPool
                           /\ \A m \in S : due[m] <= now
                           /\ AllLoans' = [m \in MsgId |-> IF m \in S THEN AllLoans[m] + 1 ELSE AllLoans[m]]
                           /\ Pool!Terms(S)
                           /\ \A m \in S : due'[m] > now - MaxWait
                           /\ UNCHANGED <<now, Fresh, InPool>>
       /\ Pool!Change(S) <=> /\ S \subseteq InPool
                             /\ \A m \in S : AllLoans[m] > 0
                             /\ Pool!Terms(S)
                             /\ \A m \in S : due'[m] >= now
                             /\ UNCHANGED <<now, Fresh, InPool, AllLoans>>
       /\ Pool!Remove(S) <=> /\ S \subseteq InPool /\ InPool' = InPool \ S
                             /\ AllLoans' = [m \in MsgId |-> IF m \in S THEN 0 ELSE AllLoans[m]]
                             /\ UNCHANGED <<now, Fresh, due>>
BY DEF Pool!Init, Pool!Tick, Pool!Put, Pool!Terms, Pool!Hand, Pool!Change, Pool!Remove,
   InPool, AllLoans, Loans

(* To the pool, nothing happened. *)
PoolKept == UNCHANGED <<now, Fresh, InPool, AllLoans, due>>

LEMMA PoolStutters ==
  ASSUME UNCHANGED <<now, ordinal, due>>,
         \A m \in MsgId : Present(m)' = Present(m) /\ Loans(m)' = Loans(m)
  PROVE  PoolKept
BY DEF PoolKept, Fresh, InPool, AllLoans

(* Some messages are taken out, whatever for.                              *)
LEMMA PoolLoses ==
  ASSUME NEW S \in SUBSET MsgId, \A m \in S : Present(m), UNCHANGED <<now, ordinal, due>>,
         messages' = [m \in MsgId |-> IF m \in S THEN Absent ELSE messages[m]]
  PROVE  Pool!Remove(S)
<1>1. \A m \in MsgId : /\ Present(m)' <=> Present(m) /\ m \notin S
                       /\ Loans(m)' = IF m \in S THEN 0 ELSE Loans(m)
  BY AbsentLeaves DEF Present, Loans
<1>2. S \subseteq InPool /\ InPool' = InPool \ S
  BY <1>1 DEF InPool
<1>3. AllLoans' = [m \in MsgId |-> IF m \in S THEN 0 ELSE AllLoans[m]]
  BY <1>1 DEF AllLoans
<1>4. Fresh' = Fresh
  BY DEF Fresh
<1> QED
  BY <1>2, <1>3, <1>4, PoolParts

(* Some messages are sent. *)
LEMMA PoolGains ==
  ASSUME TypeOK, IdsInv, NEW S \in SUBSET Fresh, UNCHANGED <<now, due>>,
         \A m \in S : messages'[m].queue # NoQueue /\ messages'[m].attempts = 0 /\ ordinal'[m] # 0,
         \A m \in MsgId \ S : messages'[m] = messages[m] /\ ordinal'[m] = ordinal[m]
  PROVE  Pool!Put(S)
<1>1. \A m \in S : ~Present(m)
  BY DEF IdsInv, Fresh, TypeOK
<1>2. \A m \in MsgId : /\ Present(m)' <=> Present(m) \/ m \in S
                       /\ Loans(m)' = Loans(m)
  BY <1>1 DEF Present, Loans, Fresh
<1>3. S \in SUBSET MsgId /\ Fresh' = Fresh \ S
  BY DEF Fresh
<1>4. InPool' = InPool \cup S /\ AllLoans' = AllLoans
  BY <1>2, <1>3 DEF InPool, AllLoans
<1> QED
  BY <1>3, <1>4, PoolParts

(* Some loans are changed by those who have them. *)
LEMMA PoolChanges ==
  ASSUME TypeOK, NEW S \in SUBSET MsgId, UNCHANGED <<now, ordinal>>,
         \A m \in S :
           /\ Present(m) /\ messages[m].attempts > 0
           /\ \E v \in Nat : messages'[m] = Retimed(messages[m], v) /\ due'[m] = now + v,
         \A m \in MsgId \ S : messages'[m] = messages[m] /\ due'[m] = due[m],
         due' \in [MsgId -> Nat]
  PROVE  Pool!Change(S)
<1>1. ASSUME NEW m \in MsgId
      PROVE  messages'[m].queue = messages[m].queue /\ messages'[m].attempts = messages[m].attempts
  <2>1. messages[m] \in Message
    BY TypeParts
  <2>2. ASSUME NEW v \in Nat
        PROVE  /\ Retimed(messages[m], v).queue = messages[m].queue
               /\ Retimed(messages[m], v).attempts = messages[m].attempts
    BY <2>1 DEF Retimed, Message
  <2> QED
    BY <2>2
<1>2. UNCHANGED <<Fresh, InPool, AllLoans>>
  BY <1>1 DEF Fresh, InPool, AllLoans, Loans, Present
<1>3. \A m \in S : AllLoans[m] > 0 /\ due'[m] >= now
  BY DEF AllLoans, Loans, TypeOK
<1>4. S \subseteq InPool /\ Pool!Terms(S)
  BY PoolParts DEF InPool
<1> QED
  BY <1>2, <1>3, <1>4, PoolParts

LEMMA SweptLoans ==
  ASSUME TypeOK, NEW t \in Readings, NEW m \in MsgId
  PROVE  /\ Swept(t)[m].queue # NoQueue <=> Present(m)
         /\ Swept(t)[m].attempts = messages[m].attempts
<1>1. CASE Exhausted(m, t)
  <2>1. Swept(t)[m] = Redriven(m, t) /\ messages[m] \in Message
    BY <1>1, TypeParts DEF Swept
  <2>2. Present(m)
    BY <1>1 DEF Exhausted, Present
  <2>3. Swept(t)[m].attempts = messages[m].attempts
    BY <2>1 DEF Redriven, Message
  <2> QED
    BY <2>2, <2>3, SweptPresent
<1>2. CASE ~Exhausted(m, t)
  BY <1>2 DEF Swept, Present
<1> QED
  BY <1>1, <1>2

(* What a receive selects was lent to nobody, and is lent for a time.      *)
LEMMA PoolHands ==
  ASSUME TypeOK, TypeOK', LeaseInv, NEW name \in QueueName, NEW size, NEW sel \in SUBSET MsgId,
         NEW t \in Readings, ReceiveMessage(name, size, sel, t)
  PROVE  Pool!Hand(sel)
<1>1. /\ sel \subseteq Deliverable(Swept(t), name, t)
      /\ queues[name] \in Queue /\ t \in Nat /\ t <= now /\ now - t <= MaxWait
      /\ now \in Nat /\ MaxWait \in Nat
  BY ServiceAssumption DEF ReceiveMessage, IsBatchOf, TypeOK, Readings
<1>2. ASSUME NEW m \in sel
      PROVE  /\ Present(m) /\ due[m] <= now
             /\ messages'[m] = Received(queues[name], Swept(t)[m], t)
             /\ due'[m] > now - MaxWait
  <2>1. Swept(t)[m].queue = name /\ m \in Deliverable(Swept(t), name, t)
    BY <1>1 DEF Deliverable, MessageVisibleInQueue
  <2>2. Present(m)
    BY <2>1, SweptLoans, DeliveryAssumption
  <2>3. due[m] <= now
    <3> SUFFICES ASSUME due[m] > now PROVE FALSE
      BY DEF TypeOK
    <3>1. ~Exhausted(m, t) /\ ~IsVisible(queues[name], messages[m], t)
      BY <1>1, <2>2, LeasedIsSafe, LeaseOnRecord
    <3>2. Swept(t)[m] = messages[m]
      BY <3>1 DEF Swept
    <3> QED
      BY <2>1, <3>1, <3>2 DEF Deliverable, IsInvisible
  <2>4. due'[m] = t + VisibilityTimeout(queues[name], Swept(t)[m])
    BY DEF ReceiveMessage
  <2>5. /\ VisibilityTimeout(queues[name], Swept(t)[m]) \in Nat
        /\ VisibilityTimeout(queues[name], Swept(t)[m]) > 0
    BY <1>1, SweptType, TimeoutType
  <2> QED
    BY <1>1, <2>2, <2>3, <2>4, <2>5 DEF ReceiveMessage
<1>3. \A m \in MsgId \ sel : messages'[m] = Swept(t)[m] /\ due'[m] = due[m]
  BY DEF ReceiveMessage
<1>4. \A m \in MsgId : /\ Present(m)' = Present(m)
                       /\ Loans(m)' = IF m \in sel THEN Loans(m) + 1 ELSE Loans(m)
  <2> SUFFICES ASSUME NEW m \in MsgId
               PROVE  /\ Present(m)' = Present(m)
                      /\ Loans(m)' = IF m \in sel THEN Loans(m) + 1 ELSE Loans(m)
    OBVIOUS
  <2>1. Swept(t)[m] \in Message
    BY SweptType
  <2>2. CASE m \in sel
    <3>1. /\ messages'[m].queue = Swept(t)[m].queue
          /\ messages'[m].attempts = Swept(t)[m].attempts + 1
      BY <1>2, <2>1, <2>2 DEF Received, Message
    <3> QED
      BY <1>2, <2>2, <3>1, SweptLoans DEF Present, Loans
  <2>3. CASE m \notin sel
    BY <1>3, <2>3, SweptLoans DEF Present, Loans
  <2> QED
    BY <2>2, <2>3
<1>5. sel \subseteq InPool /\ InPool' = InPool /\ Fresh' = Fresh /\ now' = now
  BY <1>2, <1>4 DEF InPool, Fresh, ReceiveMessage
<1>6. AllLoans' = [m \in MsgId |-> IF m \in sel THEN AllLoans[m] + 1 ELSE AllLoans[m]]
  BY <1>4 DEF AllLoans
<1>7. Pool!Terms(sel)
  BY <1>3, PoolParts DEF TypeOK
<1> QED
  BY <1>2, <1>5, <1>6, <1>7, PoolParts
LEMMA PoolSends ==
  ASSUME TypeOK, IdsInv, SomeSend \/ SomeBatchSend
  PROVE  \E S \in SUBSET MsgId : Pool!Put(S)
<1>1. sends \in Nat /\ Fresh \subseteq MsgId
  BY DEF TypeOK, Fresh
<1>2. CASE SomeSend
  <2>1. PICK name \in QueueName, m \in Fresh, n \in 0..(sends + 1) :
          \E r \in Requests[name] : SendMessage(name, r, m, n)
    BY <1>2 DEF SomeSend
  <2>2. PICK r \in Requests[name] : SendMessage(name, r, m, n)
    BY <2>1
  <2>3. r \in Request /\ n \in Nat
    BY <1>1, ServiceAssumption
  <2>4. /\ messages'[m] = NewMessage(name, r, n) /\ ordinal'[m] = sends + 1
        /\ \A o \in MsgId \ {m} : messages'[o] = messages[o] /\ ordinal'[o] = ordinal[o]
        /\ UNCHANGED <<now, due>>
    BY <1>1, <2>2 DEF SendMessage, TypeOK
  <2>5. messages'[m].queue # NoQueue /\ messages'[m].attempts = 0 /\ ordinal'[m] # 0
    BY <1>1, <2>3, <2>4, NewMessageFields, DeliveryAssumption
  <2>6. Pool!Put({m})
    BY <2>4, <2>5, PoolGains
  <2> QED
    BY <1>1, <2>6
<1>3. CASE SomeBatchSend
  <2>1. PICK name \in QueueName : \E entries \in Batches[name] :
          \E new \in SUBSET DOMAIN entries :
            \E ids \in [new -> Fresh], nums \in [new -> 0..(sends + 1)] :
              SendMessageBatch(name, entries, ids, nums)
    BY <1>3 DEF SomeBatchSend
  <2>2. PICK entries \in Batches[name] :
          \E new \in SUBSET DOMAIN entries :
            \E ids \in [new -> Fresh], nums \in [new -> 0..(sends + 1)] :
              SendMessageBatch(name, entries, ids, nums)
    BY <2>1
  <2>3. PICK new \in SUBSET DOMAIN entries :
          \E ids \in [new -> Fresh], nums \in [new -> 0..(sends + 1)] :
            SendMessageBatch(name, entries, ids, nums)
    BY <2>2
  <2>4. PICK ids \in [new -> Fresh], nums \in [new -> 0..(sends + 1)] :
          SendMessageBatch(name, entries, ids, nums)
    BY <2>3
  <2> DEFINE S == {m \in Fresh : \E i \in new : ids[i] = m}
  <2>5. \A i \in new : entries[i] \in Request /\ nums[i] \in Nat
    BY <1>1, ServiceAssumption
  <2>6. ASSUME NEW m \in S
        PROVE  /\ \E i \in new : messages'[m] = NewMessage(name, entries[i], nums[i])
               /\ ordinal'[m] = sends + 1
    <3>1. \E i \in DOMAIN ids : ids[i] = m
      OBVIOUS
    <3> QED
      BY <1>1, <2>4, <3>1 DEF SendMessageBatch
  <2>7. \A m \in S : messages'[m].queue # NoQueue /\ messages'[m].attempts = 0 /\ ordinal'[m] # 0
    BY <1>1, <2>5, <2>6, NewMessageFields, DeliveryAssumption
  <2>8. ASSUME NEW m \in MsgId \ S
        PROVE  messages'[m] = messages[m] /\ ordinal'[m] = ordinal[m]
    <3>1. ~\E i \in DOMAIN ids : ids[i] = m
      OBVIOUS
    <3> QED
      BY <2>4, <3>1 DEF SendMessageBatch
  <2>9. UNCHANGED <<now, due>> /\ S \in SUBSET Fresh
    BY <2>4 DEF SendMessageBatch
  <2> HIDE DEF S
  <2>10. Pool!Put(S)
    BY <2>7, <2>8, <2>9, PoolGains
  <2> QED
    BY <1>1, <2>9, <2>10
<1> QED
  BY <1>2, <1>3

LEMMA PoolRemovals ==
  ASSUME TypeOK, SomeDelete \/ SomeBatchDelete \/ SomeQueueDelete \/ SomePurge
  PROVE  \E S \in SUBSET MsgId : Pool!Remove(S)
<1> USE DeliveryAssumption
<1>1. CASE SomeDelete
  <2>1. PICK name \in QueueName, m \in MsgId, k \in 1..MaxAttempts : DeleteMessage(name, m, k)
    BY <1>1 DEF SomeDelete
  <2>2. Present(m) /\ UNCHANGED <<now, ordinal, due>>
    BY <2>1 DEF DeleteMessage, HandleIsCurrent, MessageVisibleInQueue, Present, historyVars
  <2>3. messages' = [o \in MsgId |-> IF o \in {m} THEN Absent ELSE messages[o]]
    BY <2>1 DEF DeleteMessage, TypeOK
  <2>4. Pool!Remove({m})
    BY <2>2, <2>3, PoolLoses
  <2> QED
    BY <2>4
<1>2. CASE SomeBatchDelete
  <2>1. PICK name \in QueueName, S \in SUBSET MsgId : DeleteMessageBatch(name, S)
    BY <1>2 DEF SomeBatchDelete
  <2>2. /\ \A m \in S : Present(m)
        /\ UNCHANGED <<now, ordinal, due>>
        /\ messages' = [m \in MsgId |-> IF m \in S THEN Absent ELSE messages[m]]
    BY <2>1 DEF DeleteMessageBatch, HandleIsCurrent, MessageVisibleInQueue, Present, historyVars
  <2> QED
    BY <2>2, PoolLoses
<1>3. CASE SomeQueueDelete \/ SomePurge
  <2>1. PICK name \in QueueName : DeleteQueue(name) \/ PurgeQueue(name)
    BY <1>3 DEF SomeQueueDelete, SomePurge
  <2> DEFINE S == {m \in MsgId : messages[m].queue = name}
  <2>2. UNCHANGED <<now, ordinal, due>> /\ \A m \in S : Present(m)
    BY <2>1 DEF DeleteQueue, PurgeQueue, Present
  <2>3. messages' = [m \in MsgId |-> IF m \in S THEN Absent ELSE messages[m]]
    BY <2>1 DEF DeleteQueue, PurgeQueue, RemoveMessagesForQueue
  <2>4. S \in SUBSET MsgId
    OBVIOUS
  <2> HIDE DEF S
  <2> QED
    BY <2>2, <2>3, <2>4, PoolLoses
<1> QED
  BY <1>1, <1>2, <1>3

LEMMA PoolRetimes ==
  ASSUME TypeOK, TypeOK', SomeVisibilityChange \/ SomeBatchVisibilityChange
  PROVE  \E S \in SUBSET MsgId : Pool!Change(S)
<1> USE DeliveryAssumption
<1>1. due' \in [MsgId -> Nat]
  BY DEF TypeOK
<1>2. CASE SomeVisibilityChange
  <2>1. PICK name \in QueueName, m \in MsgId, k \in 1..MaxAttempts, v \in Visibilities :
          ChangeMessageVisibility(name, m, k, v)
    BY <1>2 DEF SomeVisibilityChange
  <2>2. /\ Present(m) /\ messages[m].attempts > 0 /\ k = messages[m].attempts
        /\ UNCHANGED <<now, ordinal>> /\ v \in Nat
    BY <2>1, ServiceAssumption
    DEF ChangeMessageVisibility, HandleIsCurrent, MessageVisibleInQueue, Present
  <2>3. /\ messages'[m] = Retimed(messages[m], v) /\ due'[m] = now + v
        /\ \A o \in MsgId \ {m} : messages'[o] = messages[o] /\ due'[o] = due[o]
    BY <2>1, <2>2 DEF ChangeMessageVisibility, TypeOK
  <2>4. Pool!Change({m})
    BY <1>1, <2>2, <2>3, PoolChanges
  <2> QED
    BY <2>4
<1>3. CASE SomeBatchVisibilityChange
  <2>1. PICK name \in QueueName, S \in SUBSET MsgId :
          \E f \in [S -> Visibilities] : ChangeMessageVisibilityBatch(name, f)
    BY <1>3 DEF SomeBatchVisibilityChange
  <2>2. PICK f \in [S -> Visibilities] : ChangeMessageVisibilityBatch(name, f)
    BY <2>1
  <2>3. \A m \in S : /\ Present(m) /\ messages[m].attempts > 0
                     /\ f[m] \in Nat /\ messages'[m] = Retimed(messages[m], f[m])
                     /\ due'[m] = now + f[m]
    BY <2>2, ServiceAssumption
    DEF ChangeMessageVisibilityBatch, HandleIsCurrent, MessageVisibleInQueue, Present
  <2>4. /\ UNCHANGED <<now, ordinal>>
        /\ \A m \in MsgId \ S : messages'[m] = messages[m] /\ due'[m] = due[m]
    BY <2>2 DEF ChangeMessageVisibilityBatch
  <2>5. Pool!Change(S)
    BY <1>1, <2>3, <2>4, PoolChanges
  <2> QED
    BY <2>5
<1> QED
  BY <1>2, <1>3

LEMMA PoolStep ==
  ASSUME IInv, TypeOK', [Next]_vars
  PROVE  [Pool!Next]_(Pool!poolVars)
<1>1. TypeOK /\ IdsInv /\ LeaseInv
  BY DEF IInv
<1>2. PoolKept => UNCHANGED Pool!poolVars
  BY DEF PoolKept, Pool!poolVars, InPool, AllLoans, Loans
<1>3. CASE UNCHANGED messages /\ UNCHANGED <<now, ordinal, due>>
  BY <1>2, <1>3, PoolStutters DEF Present, Loans
<1>4. CASE Tick
  <2>1. now' = now + 1 /\ UNCHANGED <<messages, ordinal, due>>
    BY <1>4 DEF Tick, historyVars
  <2>2. Pool!Tick
    BY <2>1, PoolParts DEF Fresh, InPool, AllLoans, Loans, Present
  <2> QED
    BY <2>2 DEF Pool!Next
<1>5. CASE SomeSend \/ SomeBatchSend
  BY <1>1, <1>5, PoolSends DEF Pool!Next
<1>6. ASSUME NEW t \in Readings, Sweep(t) PROVE PoolKept
  <2>1. UNCHANGED <<now, ordinal, due>> /\ messages' = Swept(t)
    BY <1>6 DEF Sweep, historyVars
  <2> QED
    BY <1>1, <2>1, SweptLoans, PoolStutters DEF Present, Loans
<1>7. CASE WorkerAdvance \/ SomeEmptyReceive
  BY <1>2, <1>6, <1>7 DEF WorkerAdvance, SomeEmptyReceive, ReceiveNothing
<1>8. CASE SomeReceive
  <2>1. PICK name \in QueueName, size \in ReceiveSizes, sel \in SUBSET MsgId, t \in Readings :
          ReceiveMessage(name, size, sel, t)
    BY <1>8 DEF SomeReceive
  <2>2. Pool!Hand(sel)
    BY <1>1, <2>1, PoolHands
  <2> QED
    BY <2>2 DEF Pool!Next
<1>9. CASE SomeDelete \/ SomeBatchDelete \/ SomeQueueDelete \/ SomePurge
  BY <1>1, <1>9, PoolRemovals DEF Pool!Next
<1>10. CASE SomeVisibilityChange \/ SomeBatchVisibilityChange
  BY <1>1, <1>10, PoolRetimes DEF Pool!Next
<1>11. CASE SomeCreate \/ SomeSetAttributes \/ UNCHANGED vars
  BY <1>3, <1>11 DEF SomeCreate, CreateQueue, SomeSetAttributes, SetQueueAttributes, vars, historyVars
<1> QED
  BY <1>4, <1>5, <1>7, <1>8, <1>9, <1>10, <1>11 DEF Next, MessageNext, QueueNext

(* The service implements the pool: whatever its queues, groups, redrives  *)
(* and deduplication do, no message is lost, copied, lent while it is      *)
(* lent, or brought back after its removal, and no loan is forgotten.      *)
THEOREM ImplementsPool == Spec => PoolSpec
<1>1. Init => Pool!Init
  <2> SUFFICES ASSUME Init PROVE Pool!Init
    OBVIOUS
  <2>1. \A m \in MsgId : ~Present(m) /\ ordinal[m] = 0
    BY AbsentLeaves DEF Init, InitWith, Present
  <2>2. Fresh = MsgId /\ InPool = {} /\ AllLoans = [m \in MsgId |-> 0]
    BY <2>1 DEF Fresh, InPool, AllLoans, Loans
  <2> QED
    BY <2>2, PoolParts DEF Init, InitWith
<1>2. IInv /\ [Next]_vars => [Pool!Next]_(Pool!poolVars)
  BY TypeStep, PoolStep DEF IInv
<1> QED
  BY <1>1, <1>2, Invariance, PTL DEF Spec, PoolSpec, Pool!Spec
=============================================================================
