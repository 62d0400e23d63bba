-------------------------------- MODULE MCSqs --------------------------------
(***************************************************************************)
(* The instance sqs_queues of SqsQueue.  A behaviour is about a queue with *)
(* a redrive policy, or about two queues that come and go while a message  *)
(* moves from one to the other.  A worker serves both.                     *)
(***************************************************************************)
EXTENDS MCSqsQueue

VARIABLE about

QueuesAttributes ==
  [name \in QueueName |-> RedriveAttributes[name] \cup LifecycleAttributes[name]]

QueuesRequests ==
  [name \in QueueName |-> RedriveRequests[name] \cup LifecycleRequests[name]]

QueuesInit ==
  \/ RedriveInit /\ about = "redrive"
  \/ Init /\ about = "lifecycle"

(* Bounds of the two subjects. *)
SentToSource == \A m \in MsgId : ordinal'[m] = ordinal[m] \/ messages'[m].queue = src
SecondIsPlain == \A m \in MsgId : m > 1 =>
  messages'[m].attempts <= 1 /\ messages'[m].availableAt \in {0, messages'[m].deadLetteredAt}
OneMessage == \A m \in MsgId : m > 1 => ordinal'[m] = 0
SentAtOnce == \A m \in MsgId : ordinal'[m] = ordinal[m] \/ messages'[m].availableAt = 0
TwoReceives == \A m \in MsgId : messages'[m].attempts <= 2 /\ messages'[m].lease <= 1
OwnAttributes == \A name \in QueueName :
  queues'[name].attrs \in LifecycleAttributes[name] \cup {NoAttributes}

QueuesNext ==
  /\ \/ /\ about = "redrive" /\ RedriveNext
        /\ SentToSource /\ SecondIsPlain
     \/ /\ about = "lifecycle" /\ (LifecycleNext \/ WorkerAdvance)
        /\ OneMessage /\ SentAtOnce /\ TwoReceives /\ OwnAttributes
        /\ OneEmptied
  /\ UNCHANGED about

(* Service.Start was called: the worker polls until Stop. *)
QueuesSpec ==
  /\ QueuesInit /\ [][QueuesNext]_<<vars, about>>
  /\ WF_<<vars, about>>(WorkerAdvance /\ UNCHANGED about)
=============================================================================
