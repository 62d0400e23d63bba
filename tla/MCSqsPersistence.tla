--------------------------- MODULE MCSqsPersistence --------------------------
(***************************************************************************)
(* Small instances of SqsPersistence.                                      *)
(***************************************************************************)
EXTENDS MCSqsQueue, SqsPersistence

(* sqs_restart follows one message, through a queue with a redrive policy  *)
(* while the file may be unwritable, or through a FIFO queue while two     *)
(* phantoms may make it so.  What a second send adds is for sqs_poison.    *)
StandardInit ==
  /\ PersistentInitWith(Created([name \in QueueName |->
        IF name = src THEN Standard(2, target, 1) ELSE NoAttributes]))
  /\ failures = 0

FifoStoreInit ==
  /\ PersistentInitWith(Created([name \in QueueName |->
        IF name = src THEN Fifo(FALSE, FALSE) ELSE NoAttributes]))
  /\ failures = MaxFailures

(* Bound of the run: a restart forgets phantoms, which may come again.     *)
MaxSends == 3

(* Changes that do not touch what the FIFO queue adds are left to the other *)
(* one.                                                                    *)
RestartNext ==
  /\ \/ StoredTick \/ Restart
     \/ StoredSend \/ RepeatedSend
     \/ sends < MaxSends /\ StoredBatchSend
     \/ StoredReceive \/ StoredDelete \/ StoredBatchDelete
     \/ /\ ~queues[src].fifo
        /\ \/ StoredSweep \/ StoredQueueChange \/ StoredRemoval
           \/ StoredVisibilityChange \/ StoredBatchVisibilityChange
  /\ OneEmptied

RestartSpec == (StandardInit \/ FifoStoreInit) /\ [][RestartNext]_persistentVars

RestartAttributes == OfSrc({Standard(1, NoQueue, 0)})

(* Only a FIFO queue takes the second request: it names a group.           *)
RestartRequests == OfSrc({Grouped(NoGroup, 1, 1, 0), Grouped(1, 1, 1, 0)})

RestartBatches == OfSrc({<<Grouped(1, 1, 1, 0)>>, <<Grouped(1, 1, 1, 0), Grouped(1, 1, 1, 0)>>})
-----------------------------------------------------------------------------
(* sqs_poison: a FIFO queue, every write possible.                         *)
PoisonNext ==
  \/ Restart \/ StoredSend \/ RepeatedSend
  \/ sends < MaxSends /\ StoredBatchSend

PoisonSpec == FifoStoreInit /\ [][PoisonNext]_persistentVars

PoisonAttributes == OfSrc({Fifo(FALSE, FALSE)})
PoisonRequests == OfSrc({Grouped(1, 1, 1, 0), Grouped(1, 2, 1, 0)})
PoisonBatches == OfSrc({<<Grouped(1, 1, 1, 0), Grouped(1, 1, 1, 0)>>})
=============================================================================
