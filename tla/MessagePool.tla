----------------------------- MODULE MessagePool ------------------------------
(***************************************************************************)
(* What the SQS service promises of its messages: a pool that gets a       *)
(* message by one send, lends it to one client at a time, counts the loans *)
(* and gives the message up for good when a client removes it.  There are  *)
(* no queues here, no groups and no dead letters: whatever the service     *)
(* does for them may neither lose, copy, lend nor recall a message.  The   *)
(* service is the module SqsQueue.                                         *)
(***************************************************************************)
EXTENDS Integers

CONSTANTS
  Item,   (* the messages that may be sent                                 *)
  Wait    (* how old the reading of the clock may be that a loan starts by *)

VARIABLES
  now,
  unsent,   \* the messages that were never sent
  pool,     \* those that the service has
  handed,   \* how often each was handed to a client
  until     \* until when the client that has it may keep it

poolVars == <<now, unsent, pool, handed, until>>

Init ==
  /\ now = 1
  /\ unsent = Item
  /\ pool = {}
  /\ handed = [m \in Item |-> 0]
  /\ until = [m \in Item |-> 0]

Tick == now' = now + 1 /\ UNCHANGED <<unsent, pool, handed, until>>

(* A send, or a batch of them. *)
Put(S) ==
  /\ S \subseteq unsent
  /\ unsent' = unsent \ S
  /\ pool' = pool \cup S
  /\ UNCHANGED <<now, handed, until>>

(* Some messages get new terms, the others keep theirs. *)
Terms(S) == until' \in [Item -> Nat] /\ \A m \in Item \ S : until'[m] = until[m]

(* Only what nobody has is handed out.  The new loan takes some time.      *)
Hand(S) ==
  /\ S \subseteq pool
  /\ \A m \in S : until[m] <= now
  /\ handed' = [m \in Item |-> IF m \in S THEN handed[m] + 1 ELSE handed[m]]
  /\ Terms(S)
  /\ \A m \in S : until'[m] > now - Wait
  /\ UNCHANGED <<now, unsent, pool>>

(* Who has a message, or had it last, may prolong the loan or end it.      *)
Change(S) ==
  /\ S \subseteq pool
  /\ \A m \in S : handed[m] > 0
  /\ Terms(S)
  /\ \A m \in S : until'[m] >= now
  /\ UNCHANGED <<now, unsent, pool, handed>>

Remove(S) ==
  /\ S \subseteq pool
  /\ pool' = pool \ S
  /\ handed' = [m \in Item |-> IF m \in S THEN 0 ELSE handed[m]]
  /\ UNCHANGED <<now, unsent, until>>

Next ==
  \/ Tick
  \/ \E S \in SUBSET Item : Put(S) \/ Hand(S) \/ Change(S) \/ Remove(S)

Spec == Init /\ [][Next]_poolVars
=============================================================================
