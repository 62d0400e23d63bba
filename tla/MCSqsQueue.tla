------------------------------ MODULE MCSqsQueue -----------------------------
(***************************************************************************)
(* Small instances of SqsQueue.  Each run picks, in its .cfg, the names    *)
(* and the requests its question needs and one of the specifications       *)
(* below, which take part of the actions of SqsQueue, or start from queues *)
(* already created, so that TLC spends its states on that question.        *)
(***************************************************************************)
EXTENDS SqsQueue

CONSTANTS src, target  \* the two queue names of the runs

Standard(visibility, redriveTo, max) ==
  [NoAttributes EXCEPT !.visibility = visibility, !.dlq = redriveTo, !.maxReceive = max]

Fifo(content, scope) ==
  [NoAttributes EXCEPT !.fifo = TRUE, !.visibility = 1,
                       !.contentDedup = content, !.groupScope = scope]

Plain(delay) == [group |-> NoGroup, dedup |-> NoDedup, body |-> 1, delay |-> delay]

Grouped(group, dedup, body, delay) ==
  [group |-> group, dedup |-> dedup, body |-> body, delay |-> delay]

(* What clients ask of src alone, and of nothing else. *)
OfSrc(set) == [name \in QueueName |-> IF name = src THEN set ELSE {}]

(* The queues were created when the run starts. *)
Created(attrs) ==
  [name \in QueueName |->
     [attrs |-> attrs[name], fifo |-> attrs[name].fifo,
      createdAt |-> 1, deletedAt |-> 0, purgedAt |-> 0]]
-----------------------------------------------------------------------------
(* A standard queue with a redrive policy, and its target.                 *)
RedriveAttributes ==
  OfSrc({Standard(1, target, 1), Standard(2, NoQueue, 0)})

RedriveInit ==
  InitWith(Created([name \in QueueName |->
                      IF name = src THEN Standard(1, target, 1) ELSE NoAttributes]))

RedriveNext ==
  \/ Tick \/ WorkerAdvance
  \/ SomeSend \/ SomeReceive \/ SomeEmptyReceive \/ SomeDelete \/ SomeVisibilityChange
  \/ SomeSetAttributes

(* sqs_no_worker: the program as main composes it, where nothing calls     *)
(* Service.Start.  Time passes, but no client is obliged to poll.          *)
NoWorkerNext ==
  \/ Tick
  \/ SomeSend \/ SomeReceive \/ SomeEmptyReceive \/ SomeDelete \/ SomeVisibilityChange
  \/ SomeSetAttributes

NoWorkerSpec == RedriveInit /\ [][NoWorkerNext]_vars /\ WF_vars(Tick)

RedriveRequests == OfSrc({Plain(0), Plain(1)})
NoBatches == OfSrc({})
-----------------------------------------------------------------------------
(* One FIFO queue, deduplicating by content or within a group, sends that  *)
(* are delayed and sends in batches.                                       *)
FifoAttributes == OfSrc({Fifo(FALSE, TRUE), Fifo(TRUE, FALSE)})

FifoInit == \E attrs \in FifoAttributes[src] : InitWith(Created([name \in {src} |-> attrs]))

FifoNext ==
  \/ Tick
  \/ SomeSend \/ SomeBatchSend
  \/ SomeReceive \/ SomeDelete

FifoSpec == FifoInit /\ [][FifoNext]_vars

FifoRequests == OfSrc({Grouped(1, NoDedup, 1, 1), Grouped(1, 1, 2, 0), Grouped(2, 1, 2, 0)})

FifoBatches ==
  OfSrc({<<Grouped(1, 1, 1, 0), Grouped(1, NoDedup, 1, 0), Grouped(NoGroup, NoDedup, 1, 0)>>})
-----------------------------------------------------------------------------
(* Both queues are created, purged, deleted and created again while        *)
(* messages move between them.                                             *)
LifecycleAttributes ==
  [name \in QueueName |->
     IF name = src THEN {Standard(1, target, 1)} ELSE {NoAttributes}]

LifecycleNext ==
  \/ Tick \/ QueueNext
  \/ SomeSend \/ SomeReceive \/ SomeEmptyReceive
  \/ SomeBatchDelete \/ SomeBatchVisibilityChange

(* Bound: one queue is ever deleted, and one is ever purged. *)
OneEmptied ==
  \A a, b \in QueueName : a # b =>
    /\ lastDelete'[a] = 0 \/ lastDelete'[b] = 0
    /\ lastPurge'[a] = 0 \/ lastPurge'[b] = 0

LifecycleRequests == [name \in QueueName |-> {Plain(0)}]
=============================================================================
