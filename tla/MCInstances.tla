----------------------------- MODULE MCInstances -----------------------------
(***************************************************************************)
(* A small instance of InstanceRuntime: three commands, that find nothing  *)
(* or an instance that an earlier process, server, serves on the first     *)
(* port.                                                                   *)
(***************************************************************************)
EXTENDS InstanceRuntime, TLC

CONSTANTS server, first  \* the earlier process and its instance

Commands == Permutations(Process \ {server}) \cup Permutations(InstanceId \ {first})

(* What server leaves once it is ready, and nobody else was under way.     *)
ServedInit ==
  /\ active = [i \in InstanceId |->
                 IF i = first
                   THEN [status |-> "running", port |-> DefaultPort, pid |-> server]
                   ELSE NoRecord]
  /\ saved = [i \in InstanceId |-> IF i = first THEN DefaultPort ELSE 0]
  /\ data = {first}
  /\ proc = [p \in Process |->
               IF p = server
                 THEN [Starting("start", DefaultPort, DefaultPort)
                         EXCEPT !.step = "serving", !.id = first]
                 ELSE NotBegun]
  /\ rivals = [p \in Process |-> {}]
  /\ quiet = {} /\ gone = {}

(* Nothing was ever started, or by server alone.                           *)
InstancesInit == RuntimeInit \/ ServedInit

(* Bounds: without an instance to begin with, server and first stay unused.*)
(* With one, starts name its port, a server fails while it serves or not   *)
(* at all, and no more than two commands are under way at once.            *)
InstancesNext ==
  /\ RuntimeNext
  /\ IF At(server, "new")
       THEN At(server, "new")' /\ \A p \in Process : proc'[p].id # first
     ELSE /\ \A p \in Process :
               proc'[p].kind # "detach" /\ proc'[p].last \in {0, DefaultPort}
          /\ \A p \in Process : ~ServeFails(p)
          /\ Cardinality({p \in Process : Alive(p)' /\ ~At(p, "serving")'}) <= 2

InstancesSpec == InstancesInit /\ [][InstancesNext]_vars
=============================================================================
