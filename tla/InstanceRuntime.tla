--------------------------- MODULE InstanceRuntime ---------------------------
(***************************************************************************)
(* The commands of mildstack that start, stop and delete instances         *)
(* (cli/serve.go, cli/root.go, cmd/mildstack/main.go), each a process of   *)
(* its own.  They share the ports of the machine and, under the base       *)
(* directory, one file per instance in active/ and in saved/ and one       *)
(* directory of data per instance.  Nothing locks them.                    *)
(*                                                                         *)
(* A process is used once: its number is never given to a later one, and   *)
(* no other program has it.  A record is read and written in one step.     *)
(***************************************************************************)
EXTENDS Naturals, FiniteSets

CONSTANTS
  Process,     \* process ids
  InstanceId,  \* ids newInstanceID may draw
  Port,        \* ports a command may name
  DefaultPort, \* defaultServePort
  Tries,       \* ports that pickServePort tries, three in the code
  NoId,        \* no id, outside InstanceId
  NoProcess    \* a record without a process id, outside Process

ASSUME RuntimeAssumption ==
  /\ Port \subseteq Nat \ {0}
  /\ DefaultPort \in Nat \ {0} /\ Tries \in Nat \ {0}
  /\ NoId \notin InstanceId /\ NoProcess \notin Process

VARIABLES
  active,  \* the records in active/
  saved,   \* the ports of the records in saved/, 0 for no record
  data,    \* the instances that have a directory of data
  proc,    \* the processes, past and present
  rivals,  \* history: who was under way when a start wrote its records
  quiet,   \* history: <<d, i>> when nobody holds i since d began to remove it
  gone     \* history: instances removed for good

vars == <<active, saved, data, proc, rivals, quiet, gone>>

AnyPort == Port \cup DefaultPort..(DefaultPort + Tries - 1)

StartSteps == {"probe", "resolve", "open", "listen", "save", "activate", "ready",
               "serving", "release", "failed"}
RemovalSteps == {"next", "kill", "unlist", "unsave", "wipe"}

(* An instance as a removal saw it, with the process to end, if any.       *)
Summary == [id : InstanceId, port : AnyPort, pid : Process \cup {NoProcess}]
NoSummary == [id |-> NoId, port |-> 0, pid |-> NoProcess]

(* A start goes from port to last in search of a free one; a removal works *)
(* through the summaries in targets, and is at target.                     *)
ProcessRecord ==
  [kind : {"start", "detach", "stop", "delete"},
   step : StartSteps \cup RemovalSteps \cup {"new", "done"},
   port : AnyPort \cup {0}, last : AnyPort \cup {0}, id : InstanceId \cup {NoId},
   targets : SUBSET Summary, target : Summary \cup {NoSummary}]

NotBegun ==
  [kind |-> "start", step |-> "new", port |-> 0, last |-> 0, id |-> NoId,
   targets |-> {}, target |-> NoSummary]

NoRecord == [status |-> "none", port |-> 0, pid |-> NoProcess]

Record == [status : {"none", "running", "errored"}, port : AnyPort \cup {0},
           pid : Process \cup {NoProcess}]

RuntimeInit ==
  /\ active = [i \in InstanceId |-> NoRecord]
  /\ saved = [i \in InstanceId |-> 0]
  /\ data = {}
  /\ proc = [p \in Process |-> NotBegun]
  /\ rivals = [p \in Process |-> {}]
  /\ quiet = {} /\ gone = {}

Alive(p) == proc[p].step \notin {"new", "done"}

(* The server's listener is open from net.Listen until the server fails.   *)
Listens(p) == proc[p].step \in {"save", "activate", "ready", "serving"}
Occupied(port) == \E p \in Process : Listens(p) /\ proc[p].port = port

(* A probe of another start holds the port for a moment.                   *)
Contended(port, p) ==
  \E q \in Process \ {p} : proc[q].step = "probe" /\ proc[q].port = port

Goes(p, step) == proc' = [proc EXCEPT ![p].step = step]
At(p, step) == proc[p].step = step

FilesUnchanged == UNCHANGED <<active, saved, data>>
-----------------------------------------------------------------------------
(* What LoadInstances makes of the records.                                *)
Recorded == {i \in InstanceId : active[i] # NoRecord \/ saved[i] # 0}

PortOf(i) == IF active[i] # NoRecord THEN active[i].port ELSE saved[i]

ListedRunning(i) ==
  active[i].status = "running" /\ active[i].pid # NoProcess /\ Alive(active[i].pid)

SummaryOf(i) ==
  [id |-> i, port |-> PortOf(i),
   pid |-> IF ListedRunning(i) THEN active[i].pid ELSE NoProcess]

IdsOf(port) == {i \in Recorded : PortOf(i) = port}

UnusedIds == InstanceId \ {proc[p].id : p \in Process}

(* Mistaken: a port's saved instance is forgotten.                         *)
ResolvedActiveIds(port) ==
  LET ids == {i \in InstanceId : active[i].port = port}
  IN  IF ids # {} THEN ids ELSE UnusedIds

(* An instance of the port, of several the one sorted first, or a new id.  *)
ResolvedIds(port) == IF IdsOf(port) # {} THEN IdsOf(port) ELSE UnusedIds
-----------------------------------------------------------------------------
(* start [port], start --detach.                                           *)
Begin(p, record) ==
  /\ At(p, "new")
  /\ proc' = [proc EXCEPT ![p] = record]
  /\ FilesUnchanged /\ UNCHANGED <<rivals, quiet, gone>>

Starting(kind, port, last) ==
  [kind |-> kind, step |-> "probe", port |-> port, last |-> last, id |-> NoId,
   targets |-> {}, target |-> NoSummary]

BeginStart(p) ==
  \E kind \in {"start", "detach"} :
    \/ \E port \in Port : Begin(p, Starting(kind, port, port))
    \/ Begin(p, Starting(kind, DefaultPort, DefaultPort + Tries - 1))

(* Mistaken: the port is taken to be free.                                 *)
ProbeFindsAny(p) ==
  /\ At(p, "probe")
  /\ Goes(p, "resolve")
  /\ FilesUnchanged /\ UNCHANGED <<rivals, quiet, gone>>

(* ensureServePortAvailable, pickServePort.                                *)
ProbeFinds(p) ==
  /\ At(p, "probe") /\ ~Occupied(proc[p].port)
  /\ Goes(p, "resolve")
  /\ FilesUnchanged /\ UNCHANGED <<rivals, quiet, gone>>

(* Mistaken: one port too many is tried.                                   *)
ProbeFailsLate(p) ==
  /\ At(p, "probe") /\ (Occupied(proc[p].port) \/ Contended(proc[p].port, p))
  /\ IF proc[p].port <= proc[p].last
       THEN proc' = [proc EXCEPT ![p].port = @ + 1]
       ELSE Goes(p, "done")
  /\ FilesUnchanged /\ UNCHANGED <<rivals, quiet, gone>>

ProbeFails(p) ==
  /\ At(p, "probe") /\ (Occupied(proc[p].port) \/ Contended(proc[p].port, p))
  /\ IF proc[p].port < proc[p].last
       THEN proc' = [proc EXCEPT ![p].port = @ + 1]
       ELSE Goes(p, "done")
  /\ FilesUnchanged /\ UNCHANGED <<rivals, quiet, gone>>

(* Storage.ResolveInstanceIDForPort; from here on the process holds an id. *)
Resolve(p) ==
  /\ At(p, "resolve")
  /\ \E i \in ResolvedIds(proc[p].port) :
       /\ proc' = [proc EXCEPT ![p].step = "open", ![p].id = i]
       /\ quiet' = {pair \in quiet : pair[2] # i}
  /\ FilesUnchanged /\ UNCHANGED <<rivals, gone>>

(* composition.DefaultRoot opens the services' stores.  A detached start   *)
(* goes on to run "start port" in a process c and ends when c is ready.    *)
Open(p) ==
  /\ At(p, "open")
  /\ data' = data \cup {proc[p].id}
  /\ \/ proc[p].kind = "start" /\ Goes(p, "listen")
     \/ /\ proc[p].kind = "detach"
        /\ \E c \in Process :
             /\ At(c, "new")
             /\ proc' = [proc EXCEPT ![p].step = "done",
                           ![c] = Starting("start", proc[p].port, proc[p].port)]
  /\ UNCHANGED <<active, saved, rivals, quiet, gone>>

ListenSucceeds(p) ==
  /\ At(p, "listen") /\ ~Occupied(proc[p].port)
  /\ Goes(p, "save")
  /\ FilesUnchanged /\ UNCHANGED <<rivals, quiet, gone>>

ListenFails(p) ==
  /\ At(p, "listen") /\ (Occupied(proc[p].port) \/ Contended(proc[p].port, p))
  /\ Goes(p, "failed")
  /\ FilesUnchanged /\ UNCHANGED <<rivals, quiet, gone>>
-----------------------------------------------------------------------------
(* instanceRegistrar.Serve, step by step; any step may fail, which closes  *)
(* the listener.                                                           *)
UnderWay(p) == {q \in Process \ {p} : Alive(q) /\ ~At(q, "serving")}
Witnessed(p) == rivals' = [rivals EXCEPT ![p] = @ \cup UnderWay(p)]

SaveSaved(p) ==
  /\ At(p, "save")
  /\ saved' = [saved EXCEPT ![proc[p].id] = proc[p].port]
  /\ Goes(p, "activate")
  /\ Witnessed(p)
  /\ UNCHANGED <<active, data, quiet, gone>>

SaveActive(p) ==
  /\ At(p, "activate")
  /\ active' = [active EXCEPT ![proc[p].id] =
                  [status |-> "running", port |-> proc[p].port, pid |-> p]]
  /\ Goes(p, "ready")
  /\ Witnessed(p)
  /\ UNCHANGED <<saved, data, quiet, gone>>

SignalReady(p) ==
  /\ At(p, "ready") /\ Goes(p, "serving")
  /\ FilesUnchanged /\ UNCHANGED <<rivals, quiet, gone>>

ServeFails(p) ==
  /\ proc[p].step \in {"save", "activate", "ready"}
  /\ Goes(p, "failed")
  /\ FilesUnchanged /\ UNCHANGED <<rivals, quiet, gone>>

(* A request writes to the instance's stores, whose directories it makes   *)
(* anew if they are missing.                                               *)
HandleRequest(p) ==
  /\ At(p, "serving")
  /\ data' = data \cup {proc[p].id}
  /\ UNCHANGED <<active, saved, proc, rivals, quiet, gone>>

ServerEnds(p) ==
  /\ At(p, "serving") /\ Goes(p, "release")
  /\ FilesUnchanged /\ UNCHANGED <<rivals, quiet, gone>>

(* instanceRegistrar.Release, deferred.                                    *)
Release(p) ==
  /\ At(p, "release")
  /\ active' = [active EXCEPT ![proc[p].id] = NoRecord]
  /\ Goes(p, "failed")
  /\ UNCHANGED <<saved, data, rivals, quiet, gone>>

(* recordingHTTPServer.Start: whatever ended the server is recorded.       *)
RecordError(p) ==
  /\ At(p, "failed")
  /\ active' = [active EXCEPT ![proc[p].id] =
                  [status |-> "errored", port |-> proc[p].port, pid |-> NoProcess]]
  /\ Goes(p, "done")
  /\ Witnessed(p)
  /\ UNCHANGED <<saved, data, quiet, gone>>

(* Ctrl-C, or a kill by the user, at any point; no signal is handled.      *)
Interrupt(p) ==
  /\ Alive(p) /\ Goes(p, "done")
  /\ FilesUnchanged /\ UNCHANGED <<rivals, quiet, gone>>
-----------------------------------------------------------------------------
(* stop and delete, of one port or with --all.                             *)
Removing(kind, ids) ==
  [kind |-> kind, step |-> "next", port |-> 0, last |-> 0, id |-> NoId,
   targets |-> {SummaryOf(i) : i \in ids}, target |-> NoSummary]

(* resolveLifecycleTargets; stop takes what is listed as running.  The     *)
(* summary of the port that comes first is the one that counts.            *)
BeginStop(p) ==
  \/ \E i \in Recorded : ListedRunning(i) /\ Begin(p, Removing("stop", {i}))
  \/ Begin(p, Removing("stop", {i \in Recorded : ListedRunning(i)}))

BeginDelete(p) ==
  \/ \E i \in Recorded : Begin(p, Removing("delete", {i}))
  \/ Begin(p, Removing("delete", Recorded))

(* Summaries are worked off in the order of their ports.                   *)
NextTarget(p) ==
  /\ At(p, "next")
  /\ \/ /\ proc[p].targets = {} /\ Goes(p, "done")
     \/ \E t \in proc[p].targets :
          /\ \A other \in proc[p].targets : t.port <= other.port
          /\ proc' = [proc EXCEPT ![p].step = "kill", ![p].target = t,
                                  ![p].targets = @ \ {t}]
  /\ FilesUnchanged /\ UNCHANGED <<rivals, quiet, gone>>

(* The process of an instance that is listed as running is killed.         *)
Kill(p) ==
  LET victim == proc[p].target.pid
      id == proc[p].target.id
      ended == IF victim = NoProcess \/ ~Alive(victim) THEN {} ELSE {victim}
      holders == {q \in Process \ ended : Alive(q) /\ proc[q].id = id}
  IN  /\ At(p, "kill")
      /\ proc' = [q \in Process |->
                    IF q = p THEN [proc[q] EXCEPT !.step = "unlist"]
                    ELSE IF q \in ended THEN [proc[q] EXCEPT !.step = "done"]
                    ELSE proc[q]]
      /\ quiet' = quiet \cup {pair \in {<<p, id>>} : holders = {}}
      /\ FilesUnchanged /\ UNCHANGED <<rivals, gone>>

Unlist(p) ==
  /\ At(p, "unlist")
  /\ active' = [active EXCEPT ![proc[p].target.id] = NoRecord]
  /\ Goes(p, IF proc[p].kind = "delete" THEN "unsave" ELSE "next")
  /\ UNCHANGED <<saved, data, rivals, quiet, gone>>

(* Mistaken: an instance that still has an active record stays saved.      *)
UnsaveInactive(p) ==
  /\ At(p, "unsave")
  /\ saved' = IF proc[p].target.pid = NoProcess
                THEN [saved EXCEPT ![proc[p].target.id] = 0] ELSE saved
  /\ Goes(p, "wipe")
  /\ UNCHANGED <<active, data, rivals, quiet, gone>>

Unsave(p) ==
  /\ At(p, "unsave")
  /\ saved' = [saved EXCEPT ![proc[p].target.id] = 0]
  /\ Goes(p, "wipe")
  /\ UNCHANGED <<active, data, rivals, quiet, gone>>

(* Storage.DeleteInstanceResources.                                        *)
Wipe(p) ==
  LET id == proc[p].target.id
  IN  /\ At(p, "wipe")
      /\ data' = data \ {id}
      /\ gone' = IF <<p, id>> \in quiet THEN gone \cup {id} ELSE gone
      /\ Goes(p, "next")
      /\ UNCHANGED <<active, saved, rivals, quiet>>
-----------------------------------------------------------------------------
StartStep(p) ==
  \/ BeginStart(p) \/ ProbeFinds(p) \/ ProbeFails(p) \/ Resolve(p) \/ Open(p)
  \/ ListenSucceeds(p) \/ ListenFails(p)
  \/ SaveSaved(p) \/ SaveActive(p) \/ SignalReady(p) \/ ServeFails(p)
  \/ HandleRequest(p) \/ ServerEnds(p) \/ Release(p) \/ RecordError(p)

RemovalStep(p) ==
  \/ BeginStop(p) \/ BeginDelete(p) \/ NextTarget(p)
  \/ Kill(p) \/ Unlist(p) \/ Unsave(p) \/ Wipe(p)

RuntimeNext == \E p \in Process : StartStep(p) \/ RemovalStep(p) \/ Interrupt(p)

RuntimeSpec == RuntimeInit /\ [][RuntimeNext]_vars
-----------------------------------------------------------------------------
(* The types of the state, and at most one listener on a port.             *)
RuntimeTypeOK ==
  /\ active \in [InstanceId -> Record]
  /\ saved \in [InstanceId -> AnyPort \cup {0}]
  /\ data \subseteq InstanceId
  /\ proc \in [Process -> ProcessRecord]
  /\ rivals \in [Process -> SUBSET Process]
  /\ quiet \subseteq Process \X InstanceId /\ gone \subseteq InstanceId
  /\ \A p, q \in Process :
       Listens(p) /\ Listens(q) /\ proc[p].port = proc[q].port => p = q

(* instanceIDForPort looks for an instance of the port and draws a new id  *)
(* only if there is none.  Two instances have one port only if starts that *)
(* used them overlapped: one was under way, its id resolved or about to    *)
(* be, when the other wrote a record.  In particular stopping, crashing,   *)
(* failing and deleting never give a port a second instance.               *)
OneInstancePerPort ==
  \A i, j \in Recorded : i # j /\ PortOf(i) = PortOf(j) =>
    \E p, q \in Process :
      proc[p].id = i /\ proc[q].id = j /\ (q \in rivals[p] \/ p \in rivals[q])

(* A server that can be seen is serving its port under a record of its own.*)
Visible(p) ==
  At(p, "serving") /\
  active[proc[p].id] = [status |-> "running", port |-> proc[p].port, pid |-> p]

(* The record of a running server is what stop and delete find it by.  A   *)
(* server that goes on serving loses it only to a command that was already *)
(* under way when the record was written: a start that had passed its      *)
(* probe and records its failure to listen, or a removal that loaded the   *)
(* instances before.  A later start stops at the probe, a later removal    *)
(* ends the server first.                                                  *)
OnlyRivalsHideServers ==
  [][\A p \in Process :
       Visible(p) /\ At(p, "serving")' =>
         Visible(p)' \/ \E q \in rivals[p] : proc'[q] # proc[q]]_vars

(* deleteInstances removes the records and the data of an instance in      *)
(* separate steps.  Once it is done, and unless a process had the id in    *)
(* hand meanwhile, nothing of the instance ever comes back: no start takes *)
(* up its id, no server writes to its directory.                           *)
DeletedForGood ==
  \A i \in gone : i \notin Recorded /\ i \notin data
=============================================================================
