---------------------------- MODULE SqsPersistence ---------------------------
(***************************************************************************)
(* The SQS service and its SQLite file.  Every operation of SqsQueue that  *)
(* changes the state saves all of it before it answers.  A Save that fails *)
(* is reported to the client, but the change stays in memory; a sweep does *)
(* not even report it.  A process that ends and starts again continues     *)
(* from the file.                                                          *)
(*                                                                         *)
(* A Save runs in one transaction: it replaces the file's content or       *)
(* leaves it.  It fails when the file cannot be written, and when two      *)
(* messages share a queue and an id, which the primary key forbids.        *)
(***************************************************************************)
EXTENDS SqsQueue, Functions

CONSTANT MaxFailures    \* bound of the model: requests that cannot be written

ASSUME FailureAssumption == MaxFailures \in Nat

VARIABLES
  disk,       \* what the file holds
  failures    \* how many requests found the file not writable

(* History: what clients were told, and what they asked for. *)
VARIABLES
  accepted,   \* the messages whose send was answered with success
  released,   \* the messages that a client asked to remove
  removed,    \* and those whose removal was answered with success
  held        \* until when the last client that was given a message may keep it

toldVars == <<accepted, released, removed, held>>
persistentVars == <<vars, disk, failures, toldVars>>

Memory ==
  [queues |-> queues, messages |-> messages,
   phantoms |-> phantoms, recovery |-> recovery]

PersistentInitWith(records) ==
  /\ InitWith(records)
  /\ disk = Memory
  /\ accepted = {}
  /\ released = {}
  /\ removed = {}
  /\ held = [m \in MsgId |-> 0]
-----------------------------------------------------------------------------
(* PRIMARY KEY (queue_name, message_id): ids are distinct, but two         *)
(* phantoms have the same key.                                             *)
Savable(state) == state.phantoms <= 1

(* Save writes the whole state in one transaction, or says that it did not *)
(* and leaves the file as it was.                                          *)
Save(ok) ==
  \/ ok /\ Savable(Memory') /\ disk' = Memory' /\ UNCHANGED failures
  \/ ~ok /\ ~Savable(Memory') /\ UNCHANGED <<disk, failures>>
  \/ ~ok /\ Savable(Memory') /\ failures < MaxFailures
         /\ failures' = failures + 1 /\ UNCHANGED disk

(* Mistaken variant of Commit: a Save that failed is not reported.         *)
CommitUnchecked(ok) == ok /\ \E written \in BOOLEAN : Save(written)

(* commitStateLocked, at the end of every operation that changes memory,   *)
(* reports what Save reports.  Memory stays changed either way.            *)
Commit(ok) == Save(ok)

(* A receive commits its sweep, ignoring the result, and then the leases:  *)
(* when the second Save fails, the first may have been made.               *)
CommitSweptOnly(t) ==
  /\ \E m \in MsgId : Exhausted(m, t)
  /\ Savable(Memory')
  /\ failures < MaxFailures
  /\ failures' = failures + 1
  /\ disk' = [Memory EXCEPT !.messages = Swept(t), !.recovery = RecoverySwept(t)]
-----------------------------------------------------------------------------
StoredSend ==
  \E name \in QueueName, m \in Fresh, n \in 0..(sends + 1), ok \in BOOLEAN :
    \E r \in Requests[name] :
      /\ SendMessage(name, r, m, n)
      /\ Commit(ok)
      /\ accepted' = IF ok THEN accepted \cup {m} ELSE accepted
      /\ UNCHANGED <<released, removed, held>>

(* A duplicate is answered with the id of the message it repeats, and      *)
(* changes and saves nothing.                                              *)
RepeatedSend ==
  \E name \in QueueName : \E r \in Requests[name] :
    /\ Active(name)
    /\ HasGroup(name, r)
    /\ IsDuplicate(name, r)
    /\ \E m \in Duplicates(name, r) : accepted' = accepted \cup {m}
    /\ UNCHANGED <<vars, disk, failures, released, removed, held>>

Repeats(name, entries) ==
  {i \in DOMAIN entries : HasGroup(name, entries[i]) /\ IsDuplicate(name, entries[i])}

(* An entry that repeats a message succeeds, like a send, with its id. *)
StoreBatch(name, entries, ids, nums, old, ok) ==
  /\ SendMessageBatch(name, entries, ids, nums)
  /\ \A i \in Repeats(name, entries) : old[i] \in Duplicates(name, entries[i])
  /\ Commit(ok)
  /\ accepted' = IF ok THEN accepted \cup Range(ids) \cup Range(old) ELSE accepted
  /\ UNCHANGED <<released, removed, held>>

StoredBatchSend ==
  \E name \in QueueName, ok \in BOOLEAN : \E entries \in Batches[name] :
    \E new \in SUBSET DOMAIN entries :
      \E ids \in [new -> Fresh], nums \in [new -> 0..(sends + 1)],
         old \in [Repeats(name, entries) -> MsgId] :
        StoreBatch(name, entries, ids, nums, old, ok)

StoredReceive ==
  \E name \in QueueName, size \in ReceiveSizes, sel \in SUBSET MsgId, t \in Readings :
    /\ ReceiveMessage(name, size, sel, t)
    /\ \/ /\ Commit(TRUE)
          /\ held' = [m \in MsgId |-> IF m \in sel THEN due'[m] ELSE held[m]]
       \/ (Commit(FALSE) \/ CommitSweptOnly(t)) /\ UNCHANGED held
    /\ UNCHANGED <<accepted, released, removed>>

(* The sweep of the worker, or of a poll that finds nothing. *)
StoredSweep ==
  /\ SomeEmptyReceive \/ WorkerAdvance
  /\ \E ok \in BOOLEAN : Commit(ok)
  /\ UNCHANGED toldVars

StoredDelete ==
  \E name \in QueueName, m \in MsgId, k \in 1..MaxAttempts, ok \in BOOLEAN :
    /\ DeleteMessage(name, m, k)
    /\ Commit(ok)
    /\ released' = released \cup {m}
    /\ removed' = IF ok THEN removed \cup {m} ELSE removed
    /\ UNCHANGED <<accepted, held>>

(* An entry of a batch succeeds only if the batch is saved. *)
StoredBatchDelete ==
  \E name \in QueueName, S \in SUBSET MsgId, ok \in BOOLEAN :
    /\ DeleteMessageBatch(name, S)
    /\ Commit(ok)
    /\ released' = released \cup S
    /\ removed' = IF ok THEN removed \cup S ELSE removed
    /\ UNCHANGED <<accepted, held>>

(* A client that was refused a change counts on no more than both leases.  *)
StoredVisibilityChange ==
  \E name \in QueueName, m \in MsgId, k \in 1..MaxAttempts, v \in Visibilities, ok \in BOOLEAN :
    /\ ChangeMessageVisibility(name, m, k, v)
    /\ Commit(ok)
    /\ held' = [held EXCEPT ![m] = IF ok \/ now + v < @ THEN now + v ELSE @]
    /\ UNCHANGED <<accepted, released, removed>>

StoredBatchVisibilityChange ==
  \E name \in QueueName, S \in SUBSET MsgId, ok \in BOOLEAN :
    \E f \in [S -> Visibilities] :
      /\ ChangeMessageVisibilityBatch(name, f)
      /\ Commit(ok)
      /\ held' = [m \in MsgId |->
                    IF m \in S /\ (ok \/ now + f[m] < held[m]) THEN now + f[m] ELSE held[m]]
      /\ UNCHANGED <<accepted, released, removed>>

StoredQueueChange ==
  /\ SomeCreate \/ SomeSetAttributes
  /\ \E ok \in BOOLEAN : Commit(ok)
  /\ UNCHANGED toldVars

StoredRemoval ==
  \E name \in QueueName, ok \in BOOLEAN :
    LET inQueue == {m \in MsgId : messages[m].queue = name}
    IN  /\ PurgeQueue(name) \/ DeleteQueue(name)
        /\ Commit(ok)
        /\ released' = released \cup inQueue
        /\ removed' = IF ok THEN removed \cup inQueue ELSE removed
        /\ UNCHANGED <<accepted, held>>

StoredTick == Tick /\ UNCHANGED <<disk, failures, toldVars>>
-----------------------------------------------------------------------------
(* Mistaken variant of Restored: the time of the last receive is not read. *)
RestoredAtRest(state) ==
  [state EXCEPT !.messages = [m \in MsgId |-> [state.messages[m] EXCEPT !.receivedAt = 0]]]

(* loadLocked gives back what saveLocked wrote, whole. *)
Restored(state) == state

(* The process ends between two requests, whatever it was told to, and a   *)
(* new one opens the file.                                                 *)
Restart ==
  /\ queues' = Restored(disk).queues
  /\ messages' = Restored(disk).messages
  /\ phantoms' = Restored(disk).phantoms
  /\ recovery' = Restored(disk).recovery
  /\ UNCHANGED <<now, historyVars, disk, failures, toldVars>>

(* A service with an empty file, and everything that happens to it. *)
PersistentInit ==
  /\ PersistentInitWith([name \in QueueName |-> NoRecord])
  /\ failures = 0

PersistentNext ==
  \/ StoredTick \/ Restart
  \/ StoredSend \/ RepeatedSend \/ StoredBatchSend
  \/ StoredReceive \/ StoredSweep
  \/ StoredDelete \/ StoredBatchDelete
  \/ StoredVisibilityChange \/ StoredBatchVisibilityChange
  \/ StoredQueueChange \/ StoredRemoval

PersistentSpec == PersistentInit /\ [][PersistentNext]_persistentVars
-----------------------------------------------------------------------------
(* An accepted message is not lost: from the moment a send is answered     *)
(* with success the message is in the service, across failed writes and    *)
(* restarts, until a client asks to remove it ("persists                   *)
(* queue/message/governance data in SQLite", architecture-core.md).        *)
AcceptedKept == \A m \in accepted \ released : Present(m)

(* A lease that was granted outlives a restart: while the client that was  *)
(* given a message may keep it, no receive returns it and no sweep takes   *)
(* it, whatever writes failed before and whenever the process restarted.   *)
GrantedLeaseHonoured ==
  \A m \in MsgId, t \in Readings :
    Present(m) /\ held[m] > now =>
      /\ ~Exhausted(m, t)
      /\ \A name \in QueueName : m \notin Deliverable(messages, name, t)

(* A removal that was answered with success is final: no failed write and  *)
(* no restart brings the message back.                                     *)
RemovalIsFinal == \A m \in removed : ~Present(m)
OnFile(m) == disk.messages[m].queue # NoQueue

(* What the file has is not lost, of any queue: it stays in the file and   *)
(* in memory, across failed writes and restarts, until a client asks to    *)
(* remove it.  A send that is answered with success has written its        *)
(* message, or repeats one that was in memory: so a restart loses only an  *)
(* accepted message whose own send was refused, as sqs_poison shows        *)
(* (commitStateLocked, findDuplicateFIFOMessageLocked).                      *)
SavedIsKept ==
  [][\A m \in MsgId :
       /\ OnFile(m) /\ m \notin released' => OnFile(m)' /\ Present(m)'
       /\ m \in accepted' \ accepted => OnFile(m)' \/ Present(m)]_persistentVars
=============================================================================
