--------------------------- MODULE InstanceProofs ----------------------------
(***************************************************************************)
(* Theorems about InstanceRuntime, for any number of processes, instances  *)
(* and ports: the state has its types and a port one listener, a running   *)
(* server loses its record to a rival only, a port has one instance unless *)
(* starts overlapped, and what is deleted stays deleted.                   *)
(***************************************************************************)
EXTENDS InstanceRuntime, TLAPS

(* A start that has resolved its id and is not through.                    *)
HoldingSteps ==
  {"open", "listen", "save", "activate", "ready", "serving", "release", "failed"}
TargetSteps == {"kill", "unlist", "unsave", "wipe"}

Holds(p, i) == proc[p].step \in HoldingSteps /\ proc[p].id = i

(* What a process works on, by the step it is at.                          *)
StepInv ==
  \A p \in Process :
    /\ proc[p].step \in HoldingSteps => proc[p].id \in InstanceId
    /\ proc[p].id # NoId => proc[p].step \in HoldingSteps \cup {"done"}
    /\ proc[p].step \in StartSteps \/ proc[p].id # NoId => proc[p].port \in AnyPort
    /\ At(p, "probe") => \/ proc[p].last = proc[p].port
                         \/ /\ proc[p].last = DefaultPort + Tries - 1
                            /\ proc[p].port >= DefaultPort
    /\ proc[p].step \in TargetSteps => proc[p].target \in Summary

(* An instance has one port, that of every process that held it and of its *)
(* records, and was held by a process if there is a trace of it.           *)
PortInv ==
  /\ \A p, q \in Process :
       proc[p].id # NoId /\ proc[p].id = proc[q].id => proc[p].port = proc[q].port
  /\ \A i \in InstanceId :
       /\ active[i] # NoRecord =>
            \E p \in Process : proc[p].id = i /\ proc[p].port = active[i].port
       /\ saved[i] # 0 => \E p \in Process : proc[p].id = i /\ proc[p].port = saved[i]
       /\ i \in data => i \notin UnusedIds
       /\ active[i].status = "running" => active[i].pid \in Process

(* While a server listens, a start on its port that is past its probe, or  *)
(* has failed, was under way when the server wrote its record.             *)
ServerSteps == {"ready", "serving"}
LateSteps == {"resolve", "open", "listen", "release", "failed"}

RivalInv ==
  \A p, q \in Process :
    /\ proc[p].step \in ServerSteps /\ proc[q].step \in LateSteps
    /\ proc[p].port = proc[q].port
    => q \in rivals[p]

(* A removal that would hide the record of a server either ends the server *)
(* first or was under way when the record was written.                     *)
Placed(p) ==
  /\ proc[p].step \in ServerSteps
  /\ active[proc[p].id] = [status |-> "running", port |-> proc[p].port, pid |-> p]

RemovalInv ==
  \A p, q \in Process : Placed(p) =>
    /\ proc[q].step \in RemovalSteps =>
         \A t \in proc[q].targets : t.id = proc[p].id => t.pid = p \/ q \in rivals[p]
    /\ At(q, "kill") /\ proc[q].target.id = proc[p].id =>
         proc[q].target.pid = p \/ q \in rivals[p]
    /\ At(q, "unlist") /\ proc[q].target.id = proc[p].id => q \in rivals[p]

(* Starts of i and of j overlapped.                                        *)
Overlapped(i, j) ==
  \E p, q \in Process :
    proc[p].id = i /\ proc[q].id = j /\ (q \in rivals[p] \/ p \in rivals[q])

OverlapInv ==
  \A i, j \in InstanceId : i # j /\ i \in Recorded =>
    /\ j \in Recorded /\ PortOf(i) = PortOf(j) => Overlapped(i, j)
    /\ \A q \in Process : Holds(q, j) /\ proc[q].port = PortOf(i) => Overlapped(i, j)

(* Once a delete has found nobody to hold the instance, nobody does, and   *)
(* what it has removed stays away.                                         *)
Abandoned(i) == i \notin UnusedIds /\ \A p \in Process : ~Holds(p, i)

Quieted(d, i) ==
  /\ Abandoned(i)
  /\ proc[d].target.id = i /\ proc[d].step \in {"unsave", "wipe"} => active[i] = NoRecord
  /\ proc[d].target.id = i /\ At(d, "wipe") => saved[i] = 0

Removed(i) == Abandoned(i) /\ active[i] = NoRecord /\ saved[i] = 0 /\ i \notin data

QuietInv ==
  /\ \A p \in Process : \A t \in proc[p].targets \cup {proc[p].target} : t.id \notin UnusedIds
  /\ \A d \in Process, i \in InstanceId : <<d, i>> \in quiet => Quieted(d, i)
  /\ \A i \in gone : Removed(i)

(* A recorded process, or one that a removal is to end, holds the instance *)
(* or held it; so no removal ends itself.                                  *)
PidInv ==
  /\ \A i \in InstanceId : active[i].pid \in Process => proc[active[i].pid].id = i
  /\ \A p \in Process : \A t \in proc[p].targets \cup {proc[p].target} :
       t.pid \in Process => proc[t.pid].id = t.id

TypeInv == RuntimeTypeOK /\ StepInv /\ PortInv /\ PidInv
-----------------------------------------------------------------------------
Steps == StartSteps \cup RemovalSteps \cup {"new", "done"}

(* proc' differs from proc at p alone, and there in step alone.            *)
Moves(p, s) ==
  /\ \A q \in Process \ {p} : proc'[q] = proc[q]
  /\ proc'[p].kind = proc[p].kind /\ proc'[p].step = s
  /\ proc'[p].port = proc[p].port /\ proc'[p].last = proc[p].last
  /\ proc'[p].id = proc[p].id
  /\ proc'[p].targets = proc[p].targets /\ proc'[p].target = proc[p].target

Processes == [Process -> ProcessRecord]

RecordOf(k, s, a, b, i, ts, t) ==
  [kind |-> k, step |-> s, port |-> a, last |-> b, id |-> i, targets |-> ts, target |-> t]

LEMMA RecordFields ==
  ASSUME NEW r \in ProcessRecord
  PROVE  /\ r = RecordOf(r.kind, r.step, r.port, r.last, r.id, r.targets, r.target)
         /\ r.kind \in {"start", "detach", "stop", "delete"} /\ r.step \in Steps
         /\ r.port \in AnyPort \cup {0} /\ r.last \in AnyPort \cup {0}
         /\ r.id \in InstanceId \cup {NoId}
         /\ r.targets \in SUBSET Summary /\ r.target \in Summary \cup {NoSummary}
BY DEF ProcessRecord, Steps, RecordOf

LEMMA FieldsMakeRecord ==
  ASSUME NEW k \in {"start", "detach", "stop", "delete"}, NEW s \in Steps,
         NEW a \in AnyPort \cup {0}, NEW b \in AnyPort \cup {0},
         NEW i \in InstanceId \cup {NoId},
         NEW ts \in SUBSET Summary, NEW t \in Summary \cup {NoSummary}
  PROVE  RecordOf(k, s, a, b, i, ts, t) \in ProcessRecord
BY DEF ProcessRecord, Steps, RecordOf

LEMMA FieldsOfRecord ==
  ASSUME NEW k, NEW s, NEW a, NEW b, NEW i, NEW ts, NEW t
  PROVE  LET r == RecordOf(k, s, a, b, i, ts, t)
         IN  /\ r.kind = k /\ r.step = s /\ r.port = a /\ r.last = b /\ r.id = i
             /\ r.targets = ts /\ r.target = t
BY DEF RecordOf

LEMMA Replaced ==
  ASSUME proc \in Processes, NEW p \in Process, NEW r \in ProcessRecord,
         proc' = [proc EXCEPT ![p] = r]
  PROVE  proc' \in Processes /\ proc'[p] = r /\ \A q \in Process \ {p} : proc'[q] = proc[q]
BY DEF Processes

LEMMA ProcFields ==
  ASSUME proc \in Processes, NEW p \in Process
  PROVE  /\ proc[p].kind \in {"start", "detach", "stop", "delete"} /\ proc[p].step \in Steps
         /\ proc[p].port \in AnyPort \cup {0} /\ proc[p].last \in AnyPort \cup {0}
         /\ proc[p].id \in InstanceId \cup {NoId}
         /\ proc[p].targets \in SUBSET Summary /\ proc[p].target \in Summary \cup {NoSummary}
<1>1. proc[p] \in ProcessRecord
  BY DEF Processes
<1> QED
  BY <1>1, RecordFields

LEMMA StepUpdate ==
  ASSUME NEW k, NEW s, NEW a, NEW b, NEW i, NEW ts, NEW t, NEW u
  PROVE  [RecordOf(k, s, a, b, i, ts, t) EXCEPT !.step = u] = RecordOf(k, u, a, b, i, ts, t)
BY DEF RecordOf

LEMMA PortUpdate ==
  ASSUME NEW k, NEW s, NEW a, NEW b, NEW i, NEW ts, NEW t, NEW u
  PROVE  [RecordOf(k, s, a, b, i, ts, t) EXCEPT !.port = u] = RecordOf(k, s, u, b, i, ts, t)
BY DEF RecordOf

LEMMA IdUpdate ==
  ASSUME NEW k, NEW s, NEW a, NEW b, NEW i, NEW ts, NEW t, NEW u
  PROVE  [RecordOf(k, s, a, b, i, ts, t) EXCEPT !.id = u] = RecordOf(k, s, a, b, u, ts, t)
BY DEF RecordOf

LEMMA TargetsUpdate ==
  ASSUME NEW k, NEW s, NEW a, NEW b, NEW i, NEW ts, NEW t, NEW u
  PROVE  [RecordOf(k, s, a, b, i, ts, t) EXCEPT !.targets = u] = RecordOf(k, s, a, b, i, u, t)
BY DEF RecordOf

LEMMA TargetUpdate ==
  ASSUME NEW k, NEW s, NEW a, NEW b, NEW i, NEW ts, NEW t, NEW u
  PROVE  [RecordOf(k, s, a, b, i, ts, t) EXCEPT !.target = u] = RecordOf(k, s, a, b, i, ts, u)
BY DEF RecordOf

(* The assignments to proc.                                                *)
NextPort(p) == proc' = [proc EXCEPT ![p].port = @ + 1]
Resolves(p, i) == proc' = [proc EXCEPT ![p].step = "open", ![p].id = i]
Targets(p, t) ==
  proc' = [proc EXCEPT ![p].step = "kill", ![p].target = t, ![p].targets = @ \ {t}]

(* What they make of the process.                                          *)
LEMMA StepMoves ==
  ASSUME proc \in Processes, NEW p \in Process, NEW s \in Steps, Goes(p, s)
  PROVE  proc' \in Processes /\ Moves(p, s)
<1> DEFINE x == proc[p]
           y == [x EXCEPT !.step = s]
           r == RecordOf(x.kind, s, x.port, x.last, x.id, x.targets, x.target)
<1>1. x \in ProcessRecord
  BY DEF Processes
<1>2. proc' = [proc EXCEPT ![p] = y]
  BY DEF Goes
<1>3. y = r
  <2> HIDE DEF x
  <2> QED
    BY <1>1, RecordFields, StepUpdate
<1>4. s \in Steps
  OBVIOUS
<1>5. r \in ProcessRecord
  <2> HIDE DEF x
  <2> QED
    BY <1>1, <1>4, RecordFields, FieldsMakeRecord
<1>6. /\ proc' \in Processes /\ (\A q \in Process \ {p} : proc'[q] = proc[q])
      /\ proc'[p] = r
  <2> HIDE DEF r, y
  <2> QED
    BY <1>2, <1>3, <1>5, Replaced
<1> QED
  BY <1>6, FieldsOfRecord DEF Moves

LEMMA PortMoves ==
  ASSUME proc \in Processes, NEW p \in Process, proc[p].port + 1 \in AnyPort, NextPort(p)
  PROVE  /\ proc' \in Processes
         /\ \A q \in Process \ {p} : proc'[q] = proc[q]
         /\ proc'[p].step = proc[p].step /\ proc'[p].id = proc[p].id
         /\ proc'[p].port = proc[p].port + 1 /\ proc'[p].last = proc[p].last
         /\ proc'[p].targets = proc[p].targets /\ proc'[p].target = proc[p].target
<1> DEFINE x == proc[p]
           y == [x EXCEPT !.port = x.port + 1]
           r == RecordOf(x.kind, x.step, x.port + 1, x.last, x.id, x.targets, x.target)
<1>1. x \in ProcessRecord
  BY DEF Processes
<1>2. proc' = [proc EXCEPT ![p] = y]
  BY DEF NextPort
<1>3. y = r
  <2> HIDE DEF x
  <2> QED
    BY <1>1, RecordFields, PortUpdate
<1>4. x.port + 1 \in AnyPort
  OBVIOUS
<1>5. r \in ProcessRecord
  <2> HIDE DEF x
  <2> QED
    BY <1>1, <1>4, RecordFields, FieldsMakeRecord
<1>6. /\ proc' \in Processes /\ (\A q \in Process \ {p} : proc'[q] = proc[q])
      /\ proc'[p] = r
  <2> HIDE DEF r, y
  <2> QED
    BY <1>2, <1>3, <1>5, Replaced
<1> QED
  BY <1>6, FieldsOfRecord

LEMMA ResolveMoves ==
  ASSUME proc \in Processes, NEW p \in Process, NEW i \in InstanceId, Resolves(p, i)
  PROVE  /\ proc' \in Processes
         /\ \A q \in Process \ {p} : proc'[q] = proc[q]
         /\ proc'[p].step = "open" /\ proc'[p].id = i
         /\ proc'[p].port = proc[p].port /\ proc'[p].last = proc[p].last
         /\ proc'[p].targets = proc[p].targets /\ proc'[p].target = proc[p].target
<1> DEFINE x == proc[p]
           y1 == [x EXCEPT !.step = "open"]
           y == [y1 EXCEPT !.id = i]
           r == RecordOf(x.kind, "open", x.port, x.last, i, x.targets, x.target)
<1>1. x \in ProcessRecord
  BY DEF Processes
<1>2. proc' = [proc EXCEPT ![p] = y]
  BY DEF Processes, Resolves
<1>3. y = r
  <2> DEFINE r1 == RecordOf(x.kind, "open", x.port, x.last, x.id, x.targets, x.target)
  <2>1. y1 = r1
    <3> HIDE DEF x
    <3> QED
      BY <1>1, RecordFields, StepUpdate
  <2>2. [r1 EXCEPT !.id = i] = r
    BY IdUpdate
  <2> HIDE DEF r, r1, y1
  <2> QED
    BY <2>1, <2>2
<1>4. "open" \in Steps
  BY DEF Steps, StartSteps
<1>5. r \in ProcessRecord
  <2> HIDE DEF x
  <2> QED
    BY <1>1, <1>4, RecordFields, FieldsMakeRecord
<1>6. /\ proc' \in Processes /\ (\A q \in Process \ {p} : proc'[q] = proc[q])
      /\ proc'[p] = r
  <2> HIDE DEF r, y
  <2> QED
    BY <1>2, <1>3, <1>5, Replaced
<1> QED
  BY <1>6, FieldsOfRecord

LEMMA TargetMoves ==
  ASSUME proc \in Processes, NEW p \in Process, NEW t \in proc[p].targets, Targets(p, t)
  PROVE  /\ proc' \in Processes
         /\ \A q \in Process \ {p} : proc'[q] = proc[q]
         /\ proc'[p].step = "kill" /\ proc'[p].id = proc[p].id
         /\ proc'[p].port = proc[p].port /\ proc'[p].last = proc[p].last
         /\ proc'[p].targets = proc[p].targets \ {t} /\ proc'[p].target = t
<1> DEFINE x == proc[p]
           rest == x.targets \ {t}
           y1 == [x EXCEPT !.step = "kill"]
           y2 == [y1 EXCEPT !.target = t]
           y == [y2 EXCEPT !.targets = rest]
           r == RecordOf(x.kind, "kill", x.port, x.last, x.id, rest, t)
<1>1. x \in ProcessRecord
  BY DEF Processes
<1>2. proc' = [proc EXCEPT ![p] = y]
  BY DEF Processes, Targets
<1>3. y = r
  <2> DEFINE r1 == RecordOf(x.kind, "kill", x.port, x.last, x.id, x.targets, x.target)
             r2 == RecordOf(x.kind, "kill", x.port, x.last, x.id, x.targets, t)
  <2>1. y1 = r1
    <3> HIDE DEF x
    <3> QED
      BY <1>1, RecordFields, StepUpdate
  <2>2. [r1 EXCEPT !.target = t] = r2
    BY TargetUpdate
  <2>3. y2 = r2
    <3> HIDE DEF r1, r2, y1
    <3> QED
      BY <2>1, <2>2
  <2>4. [r2 EXCEPT !.targets = rest] = r
    <3> HIDE DEF rest
    <3> QED
      BY TargetsUpdate
  <2> HIDE DEF r, r2, y2, rest
  <2> QED
    BY <2>3, <2>4
<1>4. "kill" \in Steps /\ t \in Summary /\ x.targets \ {t} \in SUBSET Summary
  BY <1>1, RecordFields DEF Steps, RemovalSteps
<1>5. r \in ProcessRecord
  <2> HIDE DEF x
  <2> QED
    BY <1>1, <1>4, RecordFields, FieldsMakeRecord
<1>6. /\ proc' \in Processes /\ (\A q \in Process \ {p} : proc'[q] = proc[q])
      /\ proc'[p] = r
  <2> HIDE DEF r, y
  <2> QED
    BY <1>2, <1>3, <1>5, Replaced
<1> QED
  BY <1>6, FieldsOfRecord

LEMMA BeginMoves ==
  ASSUME proc \in Processes, NEW p \in Process,
         NEW k \in {"start", "detach", "stop", "delete"}, NEW s \in Steps,
         NEW a \in AnyPort \cup {0}, NEW b \in AnyPort \cup {0}, NEW ts \in SUBSET Summary,
         Begin(p, RecordOf(k, s, a, b, NoId, ts, NoSummary))
  PROVE  /\ proc' \in Processes
         /\ \A q \in Process \ {p} : proc'[q] = proc[q]
         /\ proc'[p].step = s /\ proc'[p].id = NoId
         /\ proc'[p].port = a /\ proc'[p].last = b
         /\ proc'[p].targets = ts /\ proc'[p].target = NoSummary
<1> DEFINE r == RecordOf(k, s, a, b, NoId, ts, NoSummary)
<1>1. r \in ProcessRecord
  BY FieldsMakeRecord
<1>2. /\ proc' \in Processes /\ (\A q \in Process \ {p} : proc'[q] = proc[q])
      /\ proc'[p] = r
  <2> HIDE DEF r
  <2> QED
    BY <1>1, Replaced DEF Begin, r
<1> QED
  BY <1>2, FieldsOfRecord

LEMMA StartingIsRecord ==
  ASSUME NEW k, NEW a, NEW b
  PROVE  Starting(k, a, b) = RecordOf(k, "probe", a, b, NoId, {}, NoSummary)
BY DEF Starting, RecordOf

LEMMA RemovingIsRecord ==
  ASSUME NEW k, NEW ids
  PROVE  Removing(k, ids) =
           RecordOf(k, "next", 0, 0, NoId, {SummaryOf(i) : i \in ids}, NoSummary)
BY DEF Removing, RecordOf

Spawns(p, c) ==
  proc' = [proc EXCEPT ![p].step = "done",
             ![c] = Starting("start", proc[p].port, proc[p].port)]

(* A detached start ends and c begins.                                     *)
LEMMA SpawnMoves ==
  ASSUME proc \in Processes, NEW p \in Process, NEW c \in Process \ {p}, Spawns(p, c)
  PROVE  /\ proc' \in Processes
         /\ \A q \in Process \ {p, c} : proc'[q] = proc[q]
         /\ proc'[p].step = "done" /\ proc'[p].id = proc[p].id
         /\ proc'[p].port = proc[p].port
         /\ proc'[p].targets = proc[p].targets /\ proc'[p].target = proc[p].target
         /\ proc'[c].step = "probe" /\ proc'[c].id = NoId
         /\ proc'[c].port = proc[p].port /\ proc'[c].last = proc[p].port
         /\ proc'[c].targets = {} /\ proc'[c].target = NoSummary
<1> DEFINE x == proc[p]
           y == [x EXCEPT !.step = "done"]
           r == RecordOf(x.kind, "done", x.port, x.last, x.id, x.targets, x.target)
           z == RecordOf("start", "probe", x.port, x.port, NoId, {}, NoSummary)
<1>1. x \in ProcessRecord
  BY DEF Processes
<1>2. proc' = [proc EXCEPT ![p] = y, ![c] = z]
  BY StartingIsRecord DEF Processes, Spawns
<1>3. y = r
  <2> HIDE DEF x
  <2> QED
    BY <1>1, RecordFields, StepUpdate
<1>4. "done" \in Steps /\ "probe" \in Steps
  BY DEF Steps, StartSteps
<1>5. r \in ProcessRecord /\ z \in ProcessRecord
  <2> HIDE DEF x
  <2> QED
    BY <1>1, <1>4, RecordFields, FieldsMakeRecord
<1>6. /\ proc' \in Processes /\ (\A q \in Process \ {p, c} : proc'[q] = proc[q])
      /\ proc'[p] = r /\ proc'[c] = z
  <2> HIDE DEF r, y, z
  <2> QED
    BY <1>2, <1>3, <1>5 DEF Processes
<1> QED
  BY <1>6, FieldsOfRecord

(* The process to be killed, if it is still there.                         *)
Ended(p) ==
  LET victim == proc[p].target.pid
  IN  IF victim = NoProcess \/ ~Alive(victim) THEN {} ELSE {victim}

LEMMA KillMoves ==
  ASSUME proc \in Processes, NEW p \in Process, Kill(p), p \notin Ended(p)
  PROVE  /\ proc' \in Processes
         /\ \A q \in Process : q # p /\ q \notin Ended(p) => proc'[q] = proc[q]
         /\ proc'[p].step = "unlist"
         /\ \A q \in Ended(p) : q \in Process => proc'[q].step = "done"
         /\ \A q \in Process :
              /\ proc'[q].id = proc[q].id /\ proc'[q].port = proc[q].port
              /\ proc'[q].targets = proc[q].targets /\ proc'[q].target = proc[q].target
<1> DEFINE step(q) == IF q = p THEN "unlist" ELSE IF q \in Ended(p) THEN "done" ELSE proc[q].step
           r(q) == RecordOf(proc[q].kind, step(q), proc[q].port, proc[q].last, proc[q].id,
                            proc[q].targets, proc[q].target)
<1>1. "unlist" \in Steps /\ "done" \in Steps
  BY DEF Steps, RemovalSteps
<1>2. ASSUME NEW q \in Process
      PROVE  r(q) \in ProcessRecord /\ [proc[q] EXCEPT !.step = step(q)] = r(q)
  <2> DEFINE x == proc[q]
             u == step(q)
  <2>1. x \in ProcessRecord
    BY DEF Processes
  <2>2. u \in Steps
    BY <1>1, ProcFields
  <2> HIDE DEF u, x
  <2>3. RecordOf(x.kind, u, x.port, x.last, x.id, x.targets, x.target) \in ProcessRecord
    BY <2>1, <2>2, RecordFields, FieldsMakeRecord
  <2>4. [x EXCEPT !.step = u] = RecordOf(x.kind, u, x.port, x.last, x.id, x.targets, x.target)
    BY <2>1, RecordFields, StepUpdate
  <2> QED
    BY <2>3, <2>4 DEF u, x
<1>3. ASSUME NEW q \in Process
      PROVE  proc[q] = [proc[q] EXCEPT !.step = proc[q].step]
  <2> DEFINE x == proc[q]
  <2>1. x \in ProcessRecord
    BY DEF Processes
  <2> HIDE DEF x
  <2>2. x = [x EXCEPT !.step = x.step]
    BY <2>1, RecordFields, StepUpdate
  <2> QED
    BY <2>2 DEF x
<1>4. proc' = [q \in Process |-> IF q = p THEN [proc[q] EXCEPT !.step = "unlist"]
                                ELSE IF q \in Ended(p) THEN [proc[q] EXCEPT !.step = "done"]
                                ELSE proc[q]]
  BY DEF Kill, Ended
<1>5. ASSUME NEW q \in Process PROVE proc'[q] = r(q)
  BY <1>2, <1>3, <1>4
<1>6. \A q \in Process : q # p /\ q \notin Ended(p) => proc'[q] = proc[q]
  BY <1>4
<1>7. proc' \in Processes
  <2>1. \A q \in Process : proc'[q] \in ProcessRecord
    BY <1>2, <1>5
  <2>2. proc' = [q \in Process |-> proc'[q]]
    BY <1>4
  <2> QED
    BY <2>1, <2>2 DEF Processes
<1>8. \A q \in Process :
        /\ proc'[q].step = step(q) /\ proc'[q].id = proc[q].id /\ proc'[q].port = proc[q].port
        /\ proc'[q].targets = proc[q].targets /\ proc'[q].target = proc[q].target
  BY <1>5, FieldsOfRecord
<1> QED
  BY <1>6, <1>7, <1>8
-----------------------------------------------------------------------------
(* The steps of a process, by what they do to it.                          *)
Legal(p, s) ==
  \/ s = "done" /\ Alive(p)
  \/ At(p, "probe") /\ s = "resolve" /\ ~Occupied(proc[p].port)
  \/ At(p, "open") /\ s = "listen"
  \/ At(p, "listen") /\ s = "save" /\ ~Occupied(proc[p].port)
  \/ proc[p].step \in {"listen", "save", "activate", "ready", "release"} /\ s = "failed"
  \/ At(p, "save") /\ s = "activate"
  \/ At(p, "activate") /\ s = "ready"
  \/ At(p, "ready") /\ s = "serving"
  \/ At(p, "serving") /\ s = "release"
  \/ At(p, "unlist") /\ s \in {"unsave", "next"}
  \/ At(p, "unsave") /\ s = "wipe"
  \/ At(p, "wipe") /\ s = "next"

Simple(p) == \E s \in Steps : Legal(p, s) /\ Goes(p, s)

(* A command begins; a removal has a summary of each of its instances.     *)
BeginsStart(p) ==
  \E k \in {"start", "detach"}, a, b \in AnyPort :
    /\ b = a \/ (b = DefaultPort + Tries - 1 /\ a >= DefaultPort)
    /\ Begin(p, RecordOf(k, "probe", a, b, NoId, {}, NoSummary))

BeginsRemoval(p) ==
  \E k \in {"stop", "delete"}, ids \in SUBSET Recorded :
    Begin(p, RecordOf(k, "next", 0, 0, NoId, {SummaryOf(i) : i \in ids}, NoSummary))

Probes(p) == At(p, "probe") /\ proc[p].port < proc[p].last /\ NextPort(p)
TakesId(p) == At(p, "resolve") /\ \E i \in ResolvedIds(proc[p].port) : Resolves(p, i)
Detaches(p) == At(p, "open") /\ \E c \in Process : At(c, "new") /\ Spawns(p, c)
TakesTarget(p) == At(p, "next") /\ \E t \in proc[p].targets : Targets(p, t)

LEMMA ActionKinds ==
  ASSUME NEW p \in Process, StartStep(p) \/ RemovalStep(p) \/ Interrupt(p)
  PROVE  \/ Simple(p) \/ BeginsStart(p) \/ BeginsRemoval(p) \/ Probes(p) \/ TakesId(p)
         \/ Detaches(p) \/ TakesTarget(p) \/ Kill(p)
         \/ proc' = proc /\ At(p, "serving")
<1> USE DEF Steps, StartSteps, RemovalSteps
<1>1. CASE BeginStart(p)
  <2>1. Port \subseteq AnyPort /\ DefaultPort \in AnyPort /\ DefaultPort + Tries - 1 \in AnyPort
    BY RuntimeAssumption DEF AnyPort
  <2>2. DefaultPort >= DefaultPort
    BY RuntimeAssumption
  <2> QED
    BY <1>1, <2>1, <2>2, StartingIsRecord DEF BeginStart, BeginsStart
<1>2. CASE ProbeFinds(p)
  BY <1>2 DEF ProbeFinds, Simple, Legal
<1>3. CASE ProbeFails(p)
  BY <1>3 DEF ProbeFails, Simple, Legal, Probes, NextPort, At, Alive
<1>4. CASE Resolve(p)
  BY <1>4 DEF Resolve, TakesId, Resolves
<1>5. CASE Open(p)
  BY <1>5 DEF Open, Simple, Legal, Detaches, Spawns
<1>6. CASE ListenSucceeds(p)
  BY <1>6 DEF ListenSucceeds, Simple, Legal
<1>7. CASE ListenFails(p)
  BY <1>7 DEF ListenFails, Simple, Legal, At
<1>8. CASE SaveSaved(p)
  BY <1>8 DEF SaveSaved, Simple, Legal
<1>9. CASE SaveActive(p)
  BY <1>9 DEF SaveActive, Simple, Legal
<1>10. CASE SignalReady(p)
  BY <1>10 DEF SignalReady, Simple, Legal
<1>11. CASE ServeFails(p)
  BY <1>11 DEF ServeFails, Simple, Legal
<1>12. CASE HandleRequest(p)
  BY <1>12 DEF HandleRequest
<1>13. CASE ServerEnds(p)
  BY <1>13 DEF ServerEnds, Simple, Legal
<1>14. CASE Release(p)
  BY <1>14 DEF Release, Simple, Legal, At
<1>15. CASE RecordError(p)
  BY <1>15 DEF RecordError, Simple, Legal, At, Alive
<1>16. CASE Interrupt(p)
  BY <1>16 DEF Interrupt, Simple, Legal
<1>17. CASE BeginStop(p)
  <2>1. PICK ids \in SUBSET Recorded : Begin(p, Removing("stop", ids))
    BY <1>17 DEF BeginStop
  <2> QED
    BY <2>1, RemovingIsRecord DEF BeginsRemoval
<1>18. CASE BeginDelete(p)
  <2>1. PICK ids \in SUBSET Recorded : Begin(p, Removing("delete", ids))
    BY <1>18 DEF BeginDelete
  <2> QED
    BY <2>1, RemovingIsRecord DEF BeginsRemoval
<1>19. CASE NextTarget(p)
  BY <1>19 DEF NextTarget, Simple, Legal, TakesTarget, Targets, At, Alive
<1>20. CASE Kill(p)
  BY <1>20
<1>21. CASE Unlist(p)
  BY <1>21 DEF Unlist, Simple, Legal
<1>22. CASE Unsave(p)
  BY <1>22 DEF Unsave, Simple, Legal
<1>23. CASE Wipe(p)
  BY <1>23 DEF Wipe, Simple, Legal
<1> QED
  BY <1>1, <1>2, <1>3, <1>4, <1>5, <1>6, <1>7, <1>8, <1>9, <1>10, <1>11, <1>12,
     <1>13, <1>14, <1>15, <1>16, <1>17, <1>18, <1>19, <1>20, <1>21, <1>22, <1>23
     DEF StartStep, RemovalStep
(* Which actions change which other variable.                              *)
LEMMA Writers ==
  ASSUME NEW p \in Process, StartStep(p) \/ RemovalStep(p) \/ Interrupt(p)
  PROVE  /\ active' = active \/ SaveActive(p) \/ Release(p) \/ RecordError(p) \/ Unlist(p)
         /\ saved' = saved \/ SaveSaved(p) \/ Unsave(p)
         /\ data' = data \/ Open(p) \/ HandleRequest(p) \/ Wipe(p)
         /\ rivals' = rivals \/ SaveSaved(p) \/ SaveActive(p) \/ RecordError(p)
         /\ quiet' = quiet \/ Resolve(p) \/ Kill(p)
         /\ gone' = gone \/ Wipe(p)
BY DEF StartStep, RemovalStep, BeginStart, ProbeFinds, ProbeFails, Resolve, Open,
   ListenSucceeds, ListenFails, SaveSaved, SaveActive, SignalReady, ServeFails,
   HandleRequest, ServerEnds, Release, RecordError, BeginStop, BeginDelete, NextTarget,
   Kill, Unlist, Unsave, Wipe, Interrupt, Begin, FilesUnchanged

LEMMA PortsPositive == AnyPort \subseteq Nat \ {0}
BY RuntimeAssumption DEF AnyPort

(* The step invariant, by kinds of steps.                                  *)
LEMMA SimpleKeepsSteps ==
  ASSUME proc \in Processes, StepInv, NEW p \in Process, Simple(p)
  PROVE  proc' \in Processes /\ StepInv'
<1>1. PICK s \in Steps : Legal(p, s) /\ Goes(p, s)
  BY DEF Simple
<1>2. proc' \in Processes /\ Moves(p, s)
  BY <1>1, StepMoves
<1>3. ASSUME NEW q \in Process
      PROVE  /\ proc'[q].step \in HoldingSteps => proc'[q].id \in InstanceId
             /\ proc'[q].id # NoId => proc'[q].step \in HoldingSteps \cup {"done"}
             /\ proc'[q].step \in StartSteps \/ proc'[q].id # NoId => proc'[q].port \in AnyPort
             /\ proc'[q].step = "probe" =>
                  \/ proc'[q].last = proc'[q].port
                  \/ proc'[q].last = DefaultPort + Tries - 1 /\ proc'[q].port >= DefaultPort
             /\ proc'[q].step \in TargetSteps => proc'[q].target \in Summary
  <2>1. CASE q # p
    BY <1>2, <2>1 DEF Moves, StepInv, At
  <2>2. CASE q = p
    BY <1>1, <1>2, <2>2 DEF Moves, StepInv, Legal, At, Alive, HoldingSteps, TargetSteps, StartSteps
  <2> QED
    BY <2>1, <2>2
<1> QED
  BY <1>2, <1>3 DEF StepInv, At

(* A recorded instance has the port of a process that held it.             *)
LEMMA RecordedPorts ==
  ASSUME TypeInv, NEW i \in Recorded
  PROVE  /\ PortOf(i) \in AnyPort /\ SummaryOf(i) \in Summary
         /\ \E q \in Process : proc[q].id = i /\ proc[q].port = PortOf(i)
<1>1. i \in InstanceId /\ i # NoId
  BY RuntimeAssumption DEF Recorded
<1>2. PICK q \in Process : proc[q].id = i /\ proc[q].port = PortOf(i)
  <2>1. active[i] # NoRecord \/ saved[i] # 0
    BY DEF Recorded
  <2> QED
    BY <1>1, <2>1 DEF TypeInv, PortInv, PortOf
<1>3. PortOf(i) \in AnyPort
  BY <1>1, <1>2 DEF TypeInv, StepInv
<1>4. active[i].pid \in Process \cup {NoProcess}
  BY <1>1 DEF TypeInv, RuntimeTypeOK, Record
<1>5. SummaryOf(i) \in Summary
  BY <1>1, <1>3, <1>4 DEF SummaryOf, Summary
<1> QED
  BY <1>2, <1>3, <1>5

LEMMA NoSelfKill ==
  ASSUME TypeInv, NEW p \in Process, At(p, "kill")
  PROVE  p \notin Ended(p)
<1>1. SUFFICES ASSUME p \in Ended(p) PROVE FALSE
  OBVIOUS
<1>2. proc[p].target.pid = p /\ proc[p].target \in Summary
  BY <1>1 DEF Ended, TypeInv, StepInv, At, TargetSteps
<1>3. proc[p].id = proc[p].target.id
  BY <1>2 DEF TypeInv, PidInv
<1>4. proc[p].id # NoId
  BY <1>2, <1>3, RuntimeAssumption DEF Summary
<1> QED
  BY <1>4 DEF TypeInv, StepInv, At, HoldingSteps

(* A start whose port is taken tries the next one.                         *)
LEMMA ProbesOn ==
  ASSUME TypeInv, NEW p \in Process, Probes(p)
  PROVE  /\ proc[p].last = DefaultPort + Tries - 1 /\ proc[p].port >= DefaultPort
         /\ proc[p].port \in Nat /\ proc[p].port + 1 \in AnyPort
<1>1. proc[p].port \in AnyPort
  BY DEF Probes, TypeInv, StepInv, At, StartSteps
<1>2. proc[p].port \in Nat
  BY <1>1, PortsPositive
<1>3. proc[p].last # proc[p].port
  BY <1>2 DEF Probes
<1>4. proc[p].last = DefaultPort + Tries - 1 /\ proc[p].port >= DefaultPort
  BY <1>3 DEF Probes, TypeInv, StepInv
<1>5. proc[p].port + 1 \in AnyPort
  BY <1>2, <1>4, RuntimeAssumption DEF Probes, AnyPort
<1> QED
  BY <1>2, <1>4, <1>5

LEMMA OthersKeepSteps ==
  ASSUME TypeInv, NEW p \in Process,
         \/ BeginsStart(p) \/ BeginsRemoval(p) \/ Probes(p) \/ TakesId(p)
         \/ Detaches(p) \/ TakesTarget(p) \/ Kill(p)
  PROVE  proc' \in Processes /\ StepInv'
<1> DEFINE Fine(q) ==
      /\ proc'[q].step \in HoldingSteps => proc'[q].id \in InstanceId
      /\ proc'[q].id # NoId => proc'[q].step \in HoldingSteps \cup {"done"}
      /\ proc'[q].step \in StartSteps \/ proc'[q].id # NoId => proc'[q].port \in AnyPort
      /\ proc'[q].step = "probe" =>
           \/ proc'[q].last = proc'[q].port
           \/ proc'[q].last = DefaultPort + Tries - 1 /\ proc'[q].port >= DefaultPort
      /\ proc'[q].step \in TargetSteps => proc'[q].target \in Summary
<1>1. proc \in Processes
  BY DEF TypeInv, RuntimeTypeOK, Processes
<1>2. ASSUME NEW q \in Process, proc'[q] = proc[q] PROVE Fine(q)
  BY <1>2 DEF TypeInv, StepInv, At
<1>3. SUFFICES proc' \in Processes /\ \A q \in Process : Fine(q)
  BY DEF StepInv, At
<1>4. CASE BeginsStart(p)
  <2>1. PICK k \in {"start", "detach"}, a \in AnyPort, b \in AnyPort :
          /\ b = a \/ (b = DefaultPort + Tries - 1 /\ a >= DefaultPort)
          /\ Begin(p, RecordOf(k, "probe", a, b, NoId, {}, NoSummary))
    BY <1>4 DEF BeginsStart
  <2>2. "probe" \in Steps
    BY DEF Steps, StartSteps
  <2>3. /\ proc' \in Processes
        /\ \A q \in Process \ {p} : proc'[q] = proc[q]
        /\ proc'[p].step = "probe" /\ proc'[p].id = NoId
        /\ proc'[p].port = a /\ proc'[p].last = b
    BY <1>1, <2>1, <2>2, BeginMoves
  <2>4. Fine(p)
    BY <2>1, <2>3 DEF HoldingSteps, TargetSteps
  <2> QED
    BY <1>2, <2>3, <2>4
<1>5. CASE BeginsRemoval(p)
  <2>1. PICK k \in {"stop", "delete"}, ids \in SUBSET Recorded :
          Begin(p, RecordOf(k, "next", 0, 0, NoId, {SummaryOf(i) : i \in ids}, NoSummary))
    BY <1>5 DEF BeginsRemoval
  <2>2. "next" \in Steps /\ {SummaryOf(i) : i \in ids} \in SUBSET Summary
    BY RecordedPorts DEF Steps, RemovalSteps
  <2>3. /\ proc' \in Processes
        /\ \A q \in Process \ {p} : proc'[q] = proc[q]
        /\ proc'[p].step = "next" /\ proc'[p].id = NoId
    BY <1>1, <2>1, <2>2, BeginMoves
  <2>4. Fine(p)
    BY <2>3 DEF HoldingSteps, TargetSteps, StartSteps
  <2> QED
    BY <1>2, <2>3, <2>4
<1>6. CASE Probes(p)
  <2>1. At(p, "probe") /\ proc[p].port < proc[p].last /\ NextPort(p)
    BY <1>6 DEF Probes
  <2>2. /\ proc[p].last = DefaultPort + Tries - 1 /\ proc[p].port >= DefaultPort
        /\ proc[p].port \in Nat /\ proc[p].port + 1 \in AnyPort
    BY <1>6, ProbesOn
  <2>4. /\ proc' \in Processes
        /\ \A q \in Process \ {p} : proc'[q] = proc[q]
        /\ proc'[p].step = "probe" /\ proc'[p].port = proc[p].port + 1
        /\ proc'[p].last = proc[p].last /\ proc'[p].id = proc[p].id
    BY <1>1, <2>1, <2>2, PortMoves DEF At
  <2>5. Fine(p)
    BY <2>1, <2>2, <2>4, RuntimeAssumption
       DEF HoldingSteps, TargetSteps, TypeInv, StepInv, At
  <2> QED
    BY <1>2, <2>4, <2>5
<1>7. CASE TakesId(p)
  <2>1. PICK i \in InstanceId : At(p, "resolve") /\ Resolves(p, i)
    BY <1>7 DEF TakesId, ResolvedIds, IdsOf, Recorded, UnusedIds
  <2>2. /\ proc' \in Processes
        /\ \A q \in Process \ {p} : proc'[q] = proc[q]
        /\ proc'[p].step = "open" /\ proc'[p].id = i /\ proc'[p].port = proc[p].port
    BY <1>1, <2>1, ResolveMoves
  <2>3. proc[p].port \in AnyPort
    BY <2>1 DEF TypeInv, StepInv, At, StartSteps
  <2>4. Fine(p)
    BY <2>2, <2>3 DEF HoldingSteps, TargetSteps
  <2> QED
    BY <1>2, <2>2, <2>4
<1>8. CASE Detaches(p)
  <2>1. PICK c \in Process : At(c, "new") /\ Spawns(p, c)
    BY <1>8 DEF Detaches
  <2>2. At(p, "open") /\ c # p
    BY <1>8, <2>1 DEF Detaches, At
  <2>3. /\ proc' \in Processes
        /\ \A q \in Process \ {p, c} : proc'[q] = proc[q]
        /\ proc'[p].step = "done" /\ proc'[p].id = proc[p].id /\ proc'[p].port = proc[p].port
        /\ proc'[c].step = "probe" /\ proc'[c].id = NoId
        /\ proc'[c].port = proc[p].port /\ proc'[c].last = proc[p].port
    BY <1>1, <2>1, <2>2, SpawnMoves
  <2>4. proc[p].port \in AnyPort
    BY <2>2 DEF TypeInv, StepInv, At, StartSteps
  <2>5. Fine(p) /\ Fine(c)
    BY <2>3, <2>4 DEF HoldingSteps, TargetSteps, StartSteps
  <2> QED
    BY <1>2, <2>3, <2>5
<1>9. CASE TakesTarget(p)
  <2>1. PICK t \in proc[p].targets : At(p, "next") /\ Targets(p, t)
    BY <1>9 DEF TakesTarget
  <2>2. /\ proc' \in Processes
        /\ \A q \in Process \ {p} : proc'[q] = proc[q]
        /\ proc'[p].step = "kill" /\ proc'[p].id = proc[p].id /\ proc'[p].target = t
    BY <1>1, <2>1, TargetMoves
  <2>3. t \in Summary /\ proc[p].id = NoId
    BY <1>1, <2>1, ProcFields DEF TypeInv, StepInv, At, HoldingSteps
  <2>4. Fine(p)
    BY <2>2, <2>3 DEF HoldingSteps, TargetSteps, StartSteps
  <2> QED
    BY <1>2, <2>2, <2>4
<1>10. CASE Kill(p)
  <2>1. At(p, "kill") /\ p \notin Ended(p)
    BY <1>10, NoSelfKill DEF Kill
  <2>2. /\ proc' \in Processes /\ proc'[p].step = "unlist"
        /\ \A q \in Process : q # p /\ q \notin Ended(p) => proc'[q] = proc[q]
        /\ \A q \in Ended(p) : q \in Process => proc'[q].step = "done"
        /\ \A q \in Process :
             /\ proc'[q].id = proc[q].id /\ proc'[q].port = proc[q].port
             /\ proc'[q].target = proc[q].target
    BY <1>1, <1>10, <2>1, KillMoves
  <2>3. proc[p].id = NoId /\ proc[p].target \in Summary
    BY <2>1 DEF TypeInv, StepInv, At, HoldingSteps, TargetSteps
  <2>4. Fine(p)
    BY <2>2, <2>3 DEF HoldingSteps, StartSteps
  <2>5. ASSUME NEW q \in Process, q \in Ended(p) PROVE Fine(q)
    <3>1. proc'[q].step = "done" /\ proc'[q].id = proc[q].id /\ proc'[q].port = proc[q].port
      BY <2>2, <2>5
    <3>2. proc[q].id # NoId => proc[q].port \in AnyPort
      BY DEF TypeInv, StepInv
    <3> QED
      BY <3>1, <3>2 DEF HoldingSteps, TargetSteps, StartSteps
  <2> QED
    BY <1>2, <2>2, <2>4, <2>5
<1> QED
  BY <1>4, <1>5, <1>6, <1>7, <1>8, <1>9, <1>10

(* What a step of p does to q: ids are kept with their ports, taken in one *)
(* action, and a listener is opened on a port that has none; summaries are *)
(* those of recorded instances.                                            *)
Effect(p, q) ==
  /\ proc[q].id # NoId => proc'[q].id = proc[q].id /\ proc'[q].port = proc[q].port
  /\ proc'[q].id # proc[q].id =>
       /\ q = p /\ At(p, "resolve")
       /\ proc'[p].id \in ResolvedIds(proc[p].port) /\ proc'[p].port = proc[p].port
  /\ Listens(q)' =>
       /\ proc'[q].port = proc[q].port
       /\ Listens(q) \/ (q = p /\ ~Occupied(proc[p].port))
  /\ \A t \in proc'[q].targets \cup {proc'[q].target} :
       \/ t \in proc[q].targets \cup {proc[q].target} \/ t = NoSummary
       \/ \E i \in Recorded : t = SummaryOf(i)

(* The way of q through its steps, when p makes one.                       *)
Path(p, q) ==
  /\ At(q, "done") => At(q, "done")'
  /\ proc'[q].step \in LateSteps =>
       /\ proc'[q].port = proc[q].port
       /\ proc[q].step \in LateSteps \/ (q = p /\ (Listens(p) \/ ~Occupied(proc[p].port)))
  /\ proc'[q].step \in ServerSteps =>
       proc[q].step \in ServerSteps \/ (q = p /\ At(p, "activate") /\ At(p, "ready")')
  /\ proc'[q].step \in RemovalSteps =>
       \A t \in proc'[q].targets :
         \/ t \in proc[q].targets /\ proc[q].step \in RemovalSteps
         \/ \E i \in Recorded : t = SummaryOf(i)
  /\ At(q, "kill")' =>
       \/ At(q, "kill") /\ proc'[q].target = proc[q].target
       \/ At(q, "next") /\ proc'[q].target \in proc[q].targets
  /\ At(q, "unlist")' =>
       /\ proc'[q].target = proc[q].target
       /\ At(q, "unlist") \/ (q = p /\ Kill(p))
  /\ At(q, "unsave")' =>
       /\ proc'[q].target = proc[q].target
       /\ At(q, "unsave") \/ (q = p /\ At(p, "unlist"))
  /\ At(q, "wipe")' =>
       /\ proc'[q].target = proc[q].target
       /\ At(q, "wipe") \/ (q = p /\ At(p, "unsave"))

LEMMA SimpleEffects ==
  ASSUME TypeInv, NEW p \in Process, Simple(p), NEW q \in Process
  PROVE  Effect(p, q) /\ Path(p, q)
<1>1. PICK s \in Steps : Legal(p, s) /\ Goes(p, s)
  BY DEF Simple
<1>2. Moves(p, s)
  BY <1>1, StepMoves DEF TypeInv, RuntimeTypeOK, Processes
<1>3. Effect(p, q)
  <2>1. CASE q # p
    BY <1>2, <2>1 DEF Moves, Effect, Listens
  <2>2. CASE q = p
    BY <1>1, <1>2, <2>2 DEF Moves, Effect, Listens, Legal, At
  <2> QED
    BY <2>1, <2>2
<1>4. Path(p, q)
  <2>1. CASE q # p
    BY <1>2, <2>1 DEF Moves, Path, Listens, LateSteps, ServerSteps, RemovalSteps, At
  <2>2. CASE q = p
    BY <1>1, <1>2, <2>2 DEF Moves, Legal, Alive, Path, Listens, LateSteps, ServerSteps, RemovalSteps, At
  <2> QED
    BY <2>1, <2>2
<1> QED
  BY <1>3, <1>4

LEMMA StepEffects ==
  ASSUME TypeInv, NEW p \in Process, StartStep(p) \/ RemovalStep(p) \/ Interrupt(p)
  PROVE  /\ proc' \in Processes /\ StepInv'
         /\ \A q \in Process : Effect(p, q) /\ Path(p, q)
<1>1. proc \in Processes
  BY DEF TypeInv, RuntimeTypeOK, Processes
<1>2. ASSUME NEW q \in Process, proc'[q] = proc[q] PROVE Effect(p, q) /\ Path(p, q)
  BY <1>2 DEF Effect, Path, Listens, LateSteps, ServerSteps, RemovalSteps, At
<1>3. CASE Simple(p)
  BY <1>1, <1>3, SimpleKeepsSteps, SimpleEffects DEF TypeInv
<1>4. CASE BeginsStart(p)
  <2>1. PICK k \in {"start", "detach"}, a \in AnyPort, b \in AnyPort :
          Begin(p, RecordOf(k, "probe", a, b, NoId, {}, NoSummary))
    BY <1>4 DEF BeginsStart
  <2>2. "probe" \in Steps
    BY DEF Steps, StartSteps
  <2>3. /\ \A q \in Process \ {p} : proc'[q] = proc[q]
        /\ proc'[p].step = "probe" /\ proc'[p].id = NoId
        /\ proc'[p].targets = {} /\ proc'[p].target = NoSummary
    BY <1>1, <2>1, <2>2, BeginMoves
  <2>4. proc[p].id = NoId
    BY <2>1 DEF Begin, At, TypeInv, StepInv, HoldingSteps
  <2>5. Effect(p, p)
    BY <2>3, <2>4 DEF Effect, Listens
  <2>6. Path(p, p)
    BY <2>1, <2>3 DEF Path, Listens, LateSteps, ServerSteps, RemovalSteps, At, Begin
  <2> QED
    BY <1>2, <1>4, <2>3, <2>5, <2>6, OthersKeepSteps
<1>5. CASE BeginsRemoval(p)
  <2>1. PICK k \in {"stop", "delete"}, ids \in SUBSET Recorded :
          Begin(p, RecordOf(k, "next", 0, 0, NoId, {SummaryOf(i) : i \in ids}, NoSummary))
    BY <1>5 DEF BeginsRemoval
  <2>2. "next" \in Steps /\ {SummaryOf(i) : i \in ids} \in SUBSET Summary
    BY RecordedPorts DEF Steps, RemovalSteps
  <2>3. /\ \A q \in Process \ {p} : proc'[q] = proc[q]
        /\ proc'[p].step = "next" /\ proc'[p].id = NoId
        /\ proc'[p].targets = {SummaryOf(i) : i \in ids} /\ proc'[p].target = NoSummary
    BY <1>1, <2>1, <2>2, BeginMoves
  <2>4. proc[p].id = NoId
    BY <2>1 DEF Begin, At, TypeInv, StepInv, HoldingSteps
  <2>5. Effect(p, p)
    BY <2>3, <2>4 DEF Effect, Listens
  <2>6. Path(p, p)
    BY <2>1, <2>3 DEF Path, Listens, LateSteps, ServerSteps, RemovalSteps, At, Begin
  <2> QED
    BY <1>2, <1>5, <2>3, <2>5, <2>6, OthersKeepSteps
<1>6. CASE Probes(p)
  <2>1. proc' \in Processes /\ StepInv'
    BY <1>6, OthersKeepSteps
  <2>2. At(p, "probe") /\ proc[p].id = NoId
    BY <1>6 DEF Probes, At, TypeInv, StepInv, HoldingSteps
  <2>3. proc[p].port + 1 \in AnyPort
    BY <1>6, ProbesOn
  <2>4. /\ \A q \in Process \ {p} : proc'[q] = proc[q]
        /\ proc'[p].step = "probe" /\ proc'[p].id = NoId
        /\ proc'[p].targets = proc[p].targets /\ proc'[p].target = proc[p].target
    BY <1>1, <1>6, <2>2, <2>3, PortMoves DEF Probes, At
  <2>5. Effect(p, p)
    BY <2>2, <2>4 DEF Effect, Listens
  <2>6. Path(p, p)
    BY <2>2, <2>4 DEF Path, Listens, LateSteps, ServerSteps, RemovalSteps, At
  <2> QED
    BY <1>2, <2>1, <2>4, <2>5, <2>6
<1>7. CASE TakesId(p)
  <2>1. PICK i \in ResolvedIds(proc[p].port) : At(p, "resolve") /\ Resolves(p, i)
    BY <1>7 DEF TakesId
  <2>2. i \in InstanceId
    BY DEF ResolvedIds, IdsOf, Recorded, UnusedIds
  <2>3. /\ \A q \in Process \ {p} : proc'[q] = proc[q]
        /\ proc'[p].step = "open" /\ proc'[p].id = i /\ proc'[p].port = proc[p].port
        /\ proc'[p].targets = proc[p].targets /\ proc'[p].target = proc[p].target
    BY <1>1, <2>1, <2>2, ResolveMoves
  <2>4. proc[p].id = NoId
    BY <2>1 DEF At, TypeInv, StepInv, HoldingSteps
  <2>5. Effect(p, p)
    BY <2>1, <2>3, <2>4 DEF Effect, Listens
  <2>6. Path(p, p)
    BY <2>1, <2>3 DEF Path, Listens, LateSteps, ServerSteps, RemovalSteps, At
  <2> QED
    BY <1>2, <1>7, <2>3, <2>5, <2>6, OthersKeepSteps
<1>8. CASE Detaches(p)
  <2>1. PICK c \in Process : At(c, "new") /\ Spawns(p, c)
    BY <1>8 DEF Detaches
  <2>2. c # p /\ proc[c].id = NoId
    BY <1>8, <2>1 DEF Detaches, At, TypeInv, StepInv, HoldingSteps
  <2>3. /\ \A q \in Process \ {p, c} : proc'[q] = proc[q]
        /\ proc'[p].step = "done" /\ proc'[p].id = proc[p].id /\ proc'[p].port = proc[p].port
        /\ proc'[p].targets = proc[p].targets /\ proc'[p].target = proc[p].target
        /\ proc'[c].step = "probe" /\ proc'[c].id = NoId
        /\ proc'[c].targets = {} /\ proc'[c].target = NoSummary
    BY <1>1, <2>1, <2>2, SpawnMoves
  <2>4. Effect(p, p) /\ Effect(p, c)
    BY <2>2, <2>3 DEF Effect, Listens
  <2>5. Path(p, p) /\ Path(p, c)
    BY <1>8, <2>1, <2>2, <2>3 DEF Path, Listens, LateSteps, ServerSteps, RemovalSteps, At, Detaches
  <2> QED
    BY <1>2, <1>8, <2>3, <2>4, <2>5, OthersKeepSteps
<1>9. CASE TakesTarget(p)
  <2>1. PICK t \in proc[p].targets : At(p, "next") /\ Targets(p, t)
    BY <1>9 DEF TakesTarget
  <2>2. /\ \A q \in Process \ {p} : proc'[q] = proc[q]
        /\ proc'[p].step = "kill" /\ proc'[p].id = proc[p].id /\ proc'[p].port = proc[p].port
        /\ proc'[p].targets = proc[p].targets \ {t} /\ proc'[p].target = t
    BY <1>1, <2>1, TargetMoves
  <2>3. Effect(p, p)
    BY <2>2 DEF Effect, Listens
  <2>4. Path(p, p)
    BY <2>1, <2>2 DEF Path, Listens, LateSteps, ServerSteps, RemovalSteps, At
  <2> QED
    BY <1>2, <1>9, <2>2, <2>3, <2>4, OthersKeepSteps
<1>10. CASE Kill(p)
  <2>1. p \notin Ended(p)
    BY <1>10, NoSelfKill DEF Kill
  <2>2. /\ proc'[p].step = "unlist"
        /\ \A q \in Process : q # p /\ q \notin Ended(p) => proc'[q] = proc[q]
        /\ \A q \in Ended(p) : q \in Process => proc'[q].step = "done"
        /\ \A q \in Process :
             /\ proc'[q].id = proc[q].id /\ proc'[q].port = proc[q].port
             /\ proc'[q].targets = proc[q].targets /\ proc'[q].target = proc[q].target
    BY <1>1, <1>10, <2>1, KillMoves
  <2>3. ASSUME NEW q \in Process, q = p \/ q \in Ended(p) PROVE Effect(p, q)
    BY <2>2, <2>3 DEF Effect, Listens
  <2>4. ASSUME NEW q \in Process, q = p \/ q \in Ended(p) PROVE Path(p, q)
    BY <1>10, <2>1, <2>2, <2>4 DEF Kill, Path, Listens, LateSteps, ServerSteps, RemovalSteps, At
  <2> QED
    BY <1>2, <1>10, <2>2, <2>3, <2>4, OthersKeepSteps
<1>11. CASE proc' = proc
  BY <1>1, <1>2, <1>11 DEF TypeInv, StepInv, At
<1> QED
  BY <1>3, <1>4, <1>5, <1>6, <1>7, <1>8, <1>9, <1>10, <1>11, ActionKinds
-----------------------------------------------------------------------------
(* Types.                                                                  *)
LEMMA OneListener ==
  ASSUME TypeInv, NEW p \in Process, StartStep(p) \/ RemovalStep(p) \/ Interrupt(p),
         NEW q \in Process, NEW r \in Process,
         Listens(q)', Listens(r)', proc'[q].port = proc'[r].port
  PROVE  q = r
<1>1. /\ proc'[q].port = proc[q].port /\ (Listens(q) \/ (q = p /\ ~Occupied(proc[p].port)))
      /\ proc'[r].port = proc[r].port /\ (Listens(r) \/ (r = p /\ ~Occupied(proc[p].port)))
  BY StepEffects DEF Effect
<1>2. CASE Listens(q) /\ Listens(r)
  BY <1>1, <1>2 DEF TypeInv, RuntimeTypeOK
<1> QED
  BY <1>1, <1>2 DEF Occupied

LEMMA ResolvedPort ==
  ASSUME TypeInv, NEW p \in Process, NEW i \in ResolvedIds(proc[p].port),
         NEW q \in Process, proc[q].id = i
  PROVE  proc[q].port = proc[p].port
<1>1. i \in IdsOf(proc[p].port)
  BY DEF ResolvedIds, UnusedIds
<1>2. i \in Recorded /\ PortOf(i) = proc[p].port /\ i # NoId
  BY <1>1, RuntimeAssumption DEF IdsOf, Recorded
<1>3. PICK r \in Process : proc[r].id = i /\ proc[r].port = PortOf(i)
  BY <1>2, RecordedPorts
<1> QED
  BY <1>2, <1>3 DEF TypeInv, PortInv

LEMMA PortsOfIds ==
  ASSUME TypeInv, NEW p \in Process, StartStep(p) \/ RemovalStep(p) \/ Interrupt(p),
         NEW q \in Process, NEW r \in Process,
         proc'[q].id # NoId, proc'[q].id = proc'[r].id
  PROVE  proc'[q].port = proc'[r].port
<1>1. Effect(p, q) /\ Effect(p, r)
  BY StepEffects
<1>2. CASE proc'[q].id = proc[q].id /\ proc'[r].id = proc[r].id
  <2>1. proc[q].id # NoId /\ proc[q].id = proc[r].id
    BY <1>2
  <2>2. proc'[q].port = proc[q].port /\ proc'[r].port = proc[r].port
    BY <1>1, <1>2, <2>1 DEF Effect
  <2>3. proc[q].port = proc[r].port
    BY <2>1 DEF TypeInv, PortInv
  <2> QED
    BY <2>2, <2>3
<1>3. CASE proc'[q].id # proc[q].id /\ r # q
  <2>1. /\ q = p /\ proc'[q].id \in ResolvedIds(proc[p].port) /\ proc'[p].port = proc[p].port
        /\ proc'[r].id = proc[r].id /\ proc'[r].port = proc[r].port
    BY <1>1, <1>3 DEF Effect
  <2> QED
    BY <2>1, ResolvedPort
<1>4. CASE proc'[r].id # proc[r].id /\ r # q
  <2>1. /\ r = p /\ proc'[r].id \in ResolvedIds(proc[p].port) /\ proc'[p].port = proc[p].port
        /\ proc'[q].id = proc[q].id /\ proc'[q].port = proc[q].port
    BY <1>1, <1>4 DEF Effect
  <2> QED
    BY <2>1, ResolvedPort
<1> QED
  BY <1>2, <1>3, <1>4

(* Whoever had an id has it still.                                         *)
LEMMA HeldStays ==
  ASSUME TypeInv, NEW p \in Process, StartStep(p) \/ RemovalStep(p) \/ Interrupt(p),
         NEW i \in InstanceId, NEW q \in Process, proc[q].id = i
  PROVE  proc'[q].id = i /\ proc'[q].port = proc[q].port
BY StepEffects, RuntimeAssumption DEF Effect

(* What a step leaves of a record, or writes.                              *)
LEMMA ActiveStep ==
  ASSUME TypeInv, NEW p \in Process, StartStep(p) \/ RemovalStep(p) \/ Interrupt(p)
  PROVE  /\ active' \in [InstanceId -> Record]
         /\ \A i \in InstanceId :
              \/ active'[i] = active[i] \/ active'[i] = NoRecord
              \/ /\ proc[p].id = i /\ active'[i].port = proc[p].port
                 /\ proc[p].step \in {"activate", "failed"} /\ active'[i].pid \in {p, NoProcess}
                 /\ active'[i].status = "running" => active'[i].pid = p
                 /\ active'[i].pid = p => At(p, "activate")
<1>1. CASE active' = active
  BY <1>1 DEF TypeInv, RuntimeTypeOK
<1>2. NoRecord \in Record
  BY DEF NoRecord, Record
<1>3. ASSUME NEW i \in InstanceId, NEW r \in Record, active' = [active EXCEPT ![i] = r]
      PROVE  /\ active' \in [InstanceId -> Record] /\ active'[i] = r
             /\ \A j \in InstanceId \ {i} : active'[j] = active[j]
  BY <1>3 DEF TypeInv, RuntimeTypeOK
<1>4. CASE SaveActive(p)
  <2> DEFINE r == [status |-> "running", port |-> proc[p].port, pid |-> p]
  <2>1. proc[p].id \in InstanceId /\ proc[p].port \in AnyPort /\ At(p, "activate")
    BY <1>4 DEF SaveActive, At, TypeInv, StepInv, HoldingSteps, StartSteps
  <2>2. r \in Record /\ r.port = proc[p].port /\ r.pid = p
    BY <2>1 DEF Record
  <2>3. active' = [active EXCEPT ![proc[p].id] = r]
    BY <1>4 DEF SaveActive
  <2> HIDE DEF r
  <2> QED
    BY <1>3, <2>1, <2>2, <2>3, RuntimeAssumption DEF At
<1>5. CASE RecordError(p)
  <2> DEFINE r == [status |-> "errored", port |-> proc[p].port, pid |-> NoProcess]
  <2>1. proc[p].id \in InstanceId /\ proc[p].port \in AnyPort /\ At(p, "failed")
    BY <1>5 DEF RecordError, At, TypeInv, StepInv, HoldingSteps, StartSteps
  <2>2. r \in Record /\ r.port = proc[p].port /\ r.pid = NoProcess /\ r.status # "running"
    BY <2>1 DEF Record
  <2>3. active' = [active EXCEPT ![proc[p].id] = r]
    BY <1>5 DEF RecordError
  <2> HIDE DEF r
  <2> QED
    BY <1>3, <2>1, <2>2, <2>3, RuntimeAssumption DEF At
<1>6. CASE Release(p)
  <2>1. proc[p].id \in InstanceId
    BY <1>6 DEF Release, At, TypeInv, StepInv, HoldingSteps
  <2>2. active' = [active EXCEPT ![proc[p].id] = NoRecord]
    BY <1>6 DEF Release
  <2> QED
    BY <1>2, <1>3, <2>1, <2>2
<1>7. CASE Unlist(p)
  <2>1. proc[p].target.id \in InstanceId
    BY <1>7 DEF Unlist, At, TypeInv, StepInv, TargetSteps, Summary
  <2>2. active' = [active EXCEPT ![proc[p].target.id] = NoRecord]
    BY <1>7 DEF Unlist
  <2> QED
    BY <1>2, <1>3, <2>1, <2>2
<1> QED
  BY <1>1, <1>4, <1>5, <1>6, <1>7, Writers

LEMMA SavedStep ==
  ASSUME TypeInv, NEW p \in Process, StartStep(p) \/ RemovalStep(p) \/ Interrupt(p)
  PROVE  /\ saved' \in [InstanceId -> AnyPort \cup {0}]
         /\ \A i \in InstanceId :
              \/ saved'[i] = saved[i] \/ saved'[i] = 0
              \/ proc[p].id = i /\ saved'[i] = proc[p].port /\ At(p, "save")
<1>1. CASE saved' = saved
  BY <1>1 DEF TypeInv, RuntimeTypeOK
<1>2. CASE SaveSaved(p)
  <2>1. proc[p].id \in InstanceId /\ proc[p].port \in AnyPort
    BY <1>2 DEF SaveSaved, At, TypeInv, StepInv, HoldingSteps, StartSteps
  <2> QED
    BY <1>2, <2>1 DEF SaveSaved, TypeInv, RuntimeTypeOK
<1>3. CASE Unsave(p)
  <2>1. proc[p].target.id \in InstanceId
    BY <1>3 DEF Unsave, At, TypeInv, StepInv, TargetSteps, Summary
  <2> QED
    BY <1>3, <2>1 DEF Unsave, TypeInv, RuntimeTypeOK
<1> QED
  BY <1>1, <1>2, <1>3, Writers

LEMMA DataStep ==
  ASSUME TypeInv, NEW p \in Process, StartStep(p) \/ RemovalStep(p) \/ Interrupt(p)
  PROVE  /\ data' \subseteq InstanceId
         /\ data' \subseteq data \cup {i \in InstanceId : Holds(p, i)}
<1>1. CASE data' = data
  BY <1>1 DEF TypeInv, RuntimeTypeOK
<1>2. CASE Open(p) \/ HandleRequest(p)
  <2>1. proc[p].id \in InstanceId
    BY <1>2 DEF Open, HandleRequest, At, TypeInv, StepInv, HoldingSteps
  <2> QED
    BY <1>2, <2>1 DEF Open, HandleRequest, TypeInv, RuntimeTypeOK, Holds, HoldingSteps, At
<1>3. CASE Wipe(p)
  BY <1>3 DEF Wipe, TypeInv, RuntimeTypeOK
<1> QED
  BY <1>1, <1>2, <1>3, Writers

LEMMA HistoryTypes ==
  ASSUME TypeInv, NEW p \in Process, StartStep(p) \/ RemovalStep(p) \/ Interrupt(p)
  PROVE  /\ rivals' \in [Process -> SUBSET Process]
         /\ quiet' \subseteq Process \X InstanceId /\ gone' \subseteq InstanceId
<1>1. rivals' \in [Process -> SUBSET Process]
  <2>1. CASE rivals' = rivals
    BY <2>1 DEF TypeInv, RuntimeTypeOK
  <2>2. CASE rivals' # rivals
    <3>1. Witnessed(p) /\ UnderWay(p) \in SUBSET Process
      BY <2>2, Writers DEF SaveSaved, SaveActive, RecordError, UnderWay
    <3> QED
      BY <3>1 DEF Witnessed, TypeInv, RuntimeTypeOK
  <2> QED
    BY <2>1, <2>2
<1>2. At(p, "kill") \/ At(p, "wipe") => proc[p].target.id \in InstanceId
  BY DEF At, TypeInv, StepInv, TargetSteps, Summary
<1>3. quiet' \subseteq Process \X InstanceId
  <2>1. CASE quiet' = quiet
    BY <2>1 DEF TypeInv, RuntimeTypeOK
  <2>2. CASE Resolve(p)
    BY <2>2 DEF Resolve, TypeInv, RuntimeTypeOK
  <2>3. CASE Kill(p)
    <3>1. quiet' \subseteq quiet \cup {<<p, proc[p].target.id>>} /\ At(p, "kill")
      BY <2>3 DEF Kill
    <3> QED
      BY <1>2, <3>1 DEF TypeInv, RuntimeTypeOK
  <2> QED
    BY <2>1, <2>2, <2>3, Writers
<1>4. gone' \subseteq InstanceId
  BY <1>2, Writers DEF Wipe, TypeInv, RuntimeTypeOK
<1> QED
  BY <1>1, <1>3, <1>4

LEMMA TypeStep ==
  ASSUME TypeInv, NEW p \in Process, StartStep(p) \/ RemovalStep(p) \/ Interrupt(p)
  PROVE  TypeInv'
<1>1. RuntimeTypeOK'
  BY StepEffects, OneListener, ActiveStep, SavedStep, DataStep, HistoryTypes
     DEF RuntimeTypeOK, Processes
<1>2. StepInv'
  BY StepEffects
<1>3. PortInv'
  <2>1. ASSUME NEW i \in InstanceId, active'[i] # NoRecord
        PROVE  \E q \in Process : proc'[q].id = i /\ proc'[q].port = active'[i].port
    <3>1. PICK q \in Process : proc[q].id = i /\ proc[q].port = active'[i].port
      BY <2>1, ActiveStep DEF TypeInv, PortInv
    <3> QED
      BY <3>1, HeldStays
  <2>2. ASSUME NEW i \in InstanceId, saved'[i] # 0
        PROVE  \E q \in Process : proc'[q].id = i /\ proc'[q].port = saved'[i]
    <3>1. PICK q \in Process : proc[q].id = i /\ proc[q].port = saved'[i]
      BY <2>2, SavedStep DEF TypeInv, PortInv
    <3> QED
      BY <3>1, HeldStays
  <2>3. ASSUME NEW i \in InstanceId, i \in data' PROVE i \notin UnusedIds'
    <3>1. PICK q \in Process : proc[q].id = i
      BY <2>3, DataStep DEF TypeInv, PortInv, UnusedIds, Holds
    <3> QED
      BY <3>1, HeldStays DEF UnusedIds
  <2>4. ASSUME NEW i \in InstanceId, active'[i].status = "running" PROVE active'[i].pid \in Process
    BY <2>4, ActiveStep DEF TypeInv, PortInv, NoRecord
  <2> QED
    BY <2>1, <2>2, <2>3, <2>4, PortsOfIds DEF PortInv
<1>4. PidInv'
  <2>1. ASSUME NEW i \in InstanceId, active'[i].pid \in Process
        PROVE  proc'[active'[i].pid].id = i
    <3>1. proc[active'[i].pid].id = i
      BY <2>1, ActiveStep, RuntimeAssumption DEF TypeInv, PidInv, NoRecord
    <3> QED
      BY <2>1, <3>1, HeldStays
  <2>2. ASSUME NEW q \in Process, NEW t \in proc'[q].targets \cup {proc'[q].target}, t.pid \in Process
        PROVE  proc'[t.pid].id = t.id
    <3>1. CASE t \in proc[q].targets \cup {proc[q].target}
      <4>1. proc[t.pid].id = t.id
        BY <2>2, <3>1 DEF TypeInv, PidInv
      <4>2. t \in Summary
        BY <2>2, <3>1, ProcFields, RuntimeAssumption DEF TypeInv, RuntimeTypeOK, Processes, NoSummary
      <4> QED
        BY <2>2, <4>1, <4>2, HeldStays DEF Summary
    <3>2. CASE t = NoSummary
      BY <2>2, <3>2, RuntimeAssumption DEF NoSummary
    <3>3. ASSUME NEW i \in Recorded, t = SummaryOf(i) PROVE proc'[t.pid].id = t.id
      <4>1. t.id = i /\ t.pid = active[i].pid /\ i \in InstanceId
        BY <2>2, <3>3, RuntimeAssumption DEF SummaryOf, Recorded
      <4>2. proc[t.pid].id = i
        BY <2>2, <4>1 DEF TypeInv, PidInv
      <4> QED
        BY <2>2, <4>1, <4>2, HeldStays
    <3> QED
      BY <3>1, <3>2, <3>3, StepEffects DEF Effect
  <2> QED
    BY <2>1, <2>2 DEF PidInv
<1> QED
  BY <1>1, <1>2, <1>3, <1>4 DEF TypeInv

LEMMA TypeInit == RuntimeInit => TypeInv
<1>1. NotBegun \in ProcessRecord
  BY DEF NotBegun, ProcessRecord
<1>2. NoRecord \in Record /\ NoRecord.pid \notin Process /\ NoRecord.status # "running"
  BY RuntimeAssumption DEF NoRecord, Record
<1>3. /\ NotBegun.step = "new" /\ NotBegun.id = NoId /\ NotBegun.targets = {}
      /\ NotBegun.target = NoSummary /\ NoSummary.pid \notin Process
  BY RuntimeAssumption DEF NotBegun, NoSummary
<1> HIDE DEF NotBegun, NoRecord, NoSummary
<1> SUFFICES ASSUME RuntimeInit PROVE TypeInv
  OBVIOUS
<1>4. RuntimeTypeOK
  BY <1>1, <1>2, <1>3 DEF RuntimeInit, RuntimeTypeOK, Listens
<1>5. StepInv
  BY <1>3 DEF RuntimeInit, StepInv, HoldingSteps, StartSteps, TargetSteps, At
<1>6. PortInv
  BY <1>2, <1>3 DEF RuntimeInit, PortInv
<1>7. PidInv
  BY <1>2, <1>3 DEF RuntimeInit, PidInv
<1> QED
  BY <1>4, <1>5, <1>6, <1>7 DEF TypeInv

LEMMA TypeStutter ==
  ASSUME TypeInv, UNCHANGED vars
  PROVE  TypeInv'
BY DEF vars, TypeInv, RuntimeTypeOK, StepInv, PortInv, PidInv, Listens, At, UnusedIds

(* The inductive invariant of the types, the ports of instances and the    *)
(* processes that the records and the removals name.                       *)
THEOREM TypesHold == RuntimeSpec => []TypeInv
<1>1. TypeInv /\ [RuntimeNext]_vars => TypeInv'
  BY TypeStep, TypeStutter DEF RuntimeNext
<1> QED
  BY <1>1, TypeInit, PTL DEF RuntimeSpec

(* In every reachable state the records, the processes and the histories   *)
(* are well typed, and no two processes listen on one port, although every *)
(* probe and every listen is a step of its own (ensureServePortAvailable,  *)
(* net.Listen in the server's Start).                                      *)
THEOREM RuntimeTypeCorrect == RuntimeSpec => []RuntimeTypeOK
<1>1. TypeInv => RuntimeTypeOK
  BY DEF TypeInv
<1> QED
  BY <1>1, TypesHold, PTL
-----------------------------------------------------------------------------
(* Deletion.                                                               *)

(* Which actions a process at a step may make.                             *)
LEMMA Guards ==
  ASSUME NEW p \in Process, StartStep(p) \/ RemovalStep(p) \/ Interrupt(p)
  PROVE  /\ At(p, "resolve") => Resolve(p) \/ Interrupt(p)
         /\ At(p, "activate") => SaveActive(p) \/ ServeFails(p) \/ Interrupt(p)
         /\ At(p, "unlist") => Unlist(p) \/ Interrupt(p)
         /\ At(p, "unsave") => Unsave(p) \/ Interrupt(p)
BY DEF StartStep, RemovalStep, BeginStart, ProbeFinds, ProbeFails, Resolve, Open,
   ListenSucceeds, ListenFails, SaveSaved, SaveActive, SignalReady, ServeFails,
   HandleRequest, ServerEnds, Release, RecordError, BeginStop, BeginDelete, NextTarget,
   Kill, Unlist, Unsave, Wipe, Begin, At

LEMMA InterruptEnds ==
  ASSUME TypeInv, NEW p \in Process, Interrupt(p)
  PROVE  proc'[p].step = "done" /\ proc'[p].id = proc[p].id
<1>1. "done" \in Steps
  BY DEF Steps
<1> QED
  BY <1>1, StepMoves DEF Interrupt, TypeInv, RuntimeTypeOK, Processes, Moves

(* An instance comes to be held by being resolved.                         *)
LEMMA HoldStep ==
  ASSUME TypeInv, NEW p \in Process, StartStep(p) \/ RemovalStep(p) \/ Interrupt(p),
         NEW q \in Process, NEW i \in InstanceId, Holds(q, i)'
  PROVE  \/ Holds(q, i)
         \/ /\ q = p /\ Resolve(p) /\ i \in ResolvedIds(proc[p].port)
            /\ proc'[p].id = i /\ proc'[p].port = proc[p].port
<1>1. Effect(p, q) /\ Path(p, q) /\ i # NoId /\ proc'[q].id = i /\ proc'[q].step # "done"
  BY StepEffects, RuntimeAssumption DEF Holds, HoldingSteps
<1>2. CASE proc[q].id = i
  BY <1>1, <1>2 DEF Path, Holds, At, TypeInv, StepInv
<1>3. CASE proc[q].id # i
  <2>1. /\ q = p /\ At(p, "resolve") /\ i \in ResolvedIds(proc[p].port)
        /\ proc'[p].port = proc[p].port
    BY <1>1, <1>3 DEF Effect
  <2> QED
    BY <1>1, <2>1, Guards, InterruptEnds
<1> QED
  BY <1>2, <1>3

LEMMA UsedStays ==
  ASSUME TypeInv, NEW p \in Process, StartStep(p) \/ RemovalStep(p) \/ Interrupt(p),
         NEW i \in InstanceId, i \notin UnusedIds
  PROVE  i \notin UnusedIds'
<1>1. PICK q \in Process : proc[q].id = i
  BY DEF UnusedIds
<1> QED
  BY <1>1, HeldStays DEF UnusedIds

(* Nobody but a start that holds an instance brings its traces back.       *)
LEMMA NothingReturns ==
  ASSUME TypeInv, NEW p \in Process, StartStep(p) \/ RemovalStep(p) \/ Interrupt(p),
         NEW i \in InstanceId, ~Holds(p, i)
  PROVE  /\ active[i] = NoRecord => active'[i] = NoRecord
         /\ saved[i] = 0 => saved'[i] = 0
         /\ i \notin data => i \notin data'
BY ActiveStep, SavedStep, DataStep DEF Holds, HoldingSteps, At

LEMMA TargetsUsed ==
  ASSUME TypeInv, QuietInv, NEW p \in Process, StartStep(p) \/ RemovalStep(p) \/ Interrupt(p),
         NEW q \in Process, NEW t \in proc'[q].targets \cup {proc'[q].target}
  PROVE  t.id \notin UnusedIds'
<1>1. SUFFICES ASSUME t.id \in InstanceId PROVE t.id \notin UnusedIds
  BY UsedStays DEF UnusedIds
<1>2. CASE t \in proc[q].targets \cup {proc[q].target}
  BY <1>2 DEF QuietInv
<1>3. CASE t = NoSummary
  BY <1>1, <1>3, RuntimeAssumption DEF NoSummary
<1>4. ASSUME NEW i \in Recorded, t = SummaryOf(i) PROVE t.id \notin UnusedIds
  BY <1>4, RecordedPorts DEF SummaryOf, UnusedIds
<1> QED
  BY <1>2, <1>3, <1>4, StepEffects DEF Effect

(* A quiet instance stays so until it is resolved.                         *)
LEMMA QuietLasts ==
  ASSUME TypeInv, QuietInv, NEW p \in Process, StartStep(p) \/ RemovalStep(p) \/ Interrupt(p),
         NEW d \in Process, NEW i \in InstanceId, <<d, i>> \in quiet, <<d, i>> \in quiet'
  PROVE  Quieted(d, i)'
<1>1. Quieted(d, i) /\ \A q \in Process : ~Holds(q, i)
  BY DEF QuietInv, Quieted, Abandoned
<1>2. ASSUME NEW q \in Process, Holds(q, i)' PROVE FALSE
  <2>1. Resolve(p) /\ proc'[p].id = i
    BY <1>1, <1>2, HoldStep
  <2>2. PICK j \in ResolvedIds(proc[p].port) :
          Resolves(p, j) /\ quiet' = {pair \in quiet : pair[2] # j}
    BY <2>1 DEF Resolve, Resolves
  <2>3. j \in InstanceId
    BY DEF ResolvedIds, IdsOf, Recorded, UnusedIds
  <2>4. proc'[p].id = j
    BY <2>2, <2>3, ResolveMoves DEF TypeInv, RuntimeTypeOK, Processes
  <2> QED
    BY <2>1, <2>2, <2>4
<1>3. i \notin UnusedIds'
  BY <1>1, UsedStays DEF Quieted, Abandoned
<1>4. /\ active[i] = NoRecord => active'[i] = NoRecord
      /\ saved[i] = 0 => saved'[i] = 0
  BY <1>1, NothingReturns
<1>5. Path(p, d)
  BY StepEffects
<1>6. ASSUME proc'[d].target.id = i, proc'[d].step \in {"unsave", "wipe"} PROVE active'[i] = NoRecord
  <2>1. proc[d].target.id = i
    BY <1>5, <1>6 DEF Path, At
  <2>2. CASE proc[d].step \in {"unsave", "wipe"}
    BY <1>1, <1>4, <2>1, <2>2 DEF Quieted
  <2>3. CASE proc[d].step \notin {"unsave", "wipe"}
    <3>1. d = p /\ At(p, "unlist")
      BY <1>5, <1>6, <2>3 DEF Path, At
    <3>2. Unlist(p)
      BY <1>6, <3>1, Guards, InterruptEnds
    <3> QED
      BY <2>1, <3>1, <3>2 DEF Unlist, TypeInv, RuntimeTypeOK
  <2> QED
    BY <2>2, <2>3
<1>7. ASSUME proc'[d].target.id = i, At(d, "wipe")' PROVE saved'[i] = 0
  <2>1. proc[d].target.id = i
    BY <1>5, <1>7 DEF Path
  <2>2. CASE At(d, "wipe")
    BY <1>1, <1>4, <2>1, <2>2 DEF Quieted
  <2>3. CASE ~At(d, "wipe")
    <3>1. d = p /\ At(p, "unsave")
      BY <1>5, <1>7, <2>3 DEF Path
    <3>2. Unsave(p)
      BY <1>7, <3>1, Guards, InterruptEnds DEF At
    <3> QED
      BY <2>1, <3>1, <3>2 DEF Unsave, TypeInv, RuntimeTypeOK
  <2> QED
    BY <2>2, <2>3
<1> QED
  BY <1>2, <1>3, <1>6, <1>7 DEF Quieted, Abandoned

(* A kill that leaves nobody makes the instance quiet.                     *)
LEMMA QuietBegins ==
  ASSUME TypeInv, QuietInv, NEW p \in Process, StartStep(p) \/ RemovalStep(p) \/ Interrupt(p),
         NEW d \in Process, NEW i \in InstanceId, <<d, i>> \notin quiet, <<d, i>> \in quiet'
  PROVE  Quieted(d, i)'
<1>1. Kill(p)
  BY Writers DEF Resolve
<1>2. /\ d = p /\ i = proc[p].target.id /\ At(p, "kill")
      /\ {q \in Process \ Ended(p) : Alive(q) /\ proc[q].id = i} = {}
  BY <1>1 DEF Kill, Ended
<1>3. /\ proc'[p].step = "unlist"
      /\ \A q \in Process : q # p /\ q \notin Ended(p) => proc'[q] = proc[q]
      /\ \A q \in Ended(p) : q \in Process => proc'[q].step = "done"
  BY <1>1, <1>2, NoSelfKill, KillMoves DEF TypeInv, RuntimeTypeOK, Processes
<1>4. ASSUME NEW q \in Process, Holds(q, i)' PROVE FALSE
  <2>1. q # p /\ q \notin Ended(p)
    BY <1>3, <1>4 DEF Holds, HoldingSteps
  <2>2. Alive(q) /\ proc[q].id = i
    BY <1>3, <1>4, <2>1 DEF Holds, HoldingSteps, Alive
  <2> QED
    BY <1>2, <2>1, <2>2
<1>5. i \notin UnusedIds'
  BY <1>2, UsedStays DEF QuietInv
<1> QED
  BY <1>2, <1>3, <1>4, <1>5 DEF Quieted, Abandoned, At

LEMMA RemovedLasts ==
  ASSUME TypeInv, QuietInv, NEW p \in Process, StartStep(p) \/ RemovalStep(p) \/ Interrupt(p),
         NEW i \in gone
  PROVE  Removed(i)'
<1>1. Removed(i) /\ i \in InstanceId /\ \A q \in Process : ~Holds(q, i)
  BY DEF QuietInv, Removed, Abandoned, TypeInv, RuntimeTypeOK
<1>2. ASSUME NEW q \in Process, Holds(q, i)' PROVE FALSE
  <2>1. i \in ResolvedIds(proc[p].port)
    BY <1>1, <1>2, HoldStep
  <2> QED
    BY <1>1, <2>1 DEF Removed, Abandoned, ResolvedIds, IdsOf, Recorded
<1> QED
  BY <1>1, <1>2, UsedStays, NothingReturns DEF Removed, Abandoned

LEMMA RemovedBegins ==
  ASSUME TypeInv, QuietInv, NEW p \in Process, StartStep(p) \/ RemovalStep(p) \/ Interrupt(p),
         NEW i \in gone' \ gone
  PROVE  Removed(i)'
<1>1. Wipe(p)
  BY Writers
<1>2. /\ At(p, "wipe") /\ i = proc[p].target.id /\ <<p, i>> \in quiet
      /\ i \notin data' /\ UNCHANGED <<active, saved, quiet>>
  BY <1>1 DEF Wipe
<1>3. i \in InstanceId /\ Quieted(p, i)
  BY <1>2 DEF QuietInv, TypeInv, RuntimeTypeOK
<1>4. Quieted(p, i)'
  BY <1>2, <1>3, QuietLasts
<1> QED
  BY <1>2, <1>3, <1>4 DEF Quieted, Removed, At

LEMMA QuietStep ==
  ASSUME TypeInv, QuietInv, NEW p \in Process, StartStep(p) \/ RemovalStep(p) \/ Interrupt(p)
  PROVE  QuietInv'
BY TargetsUsed, QuietLasts, QuietBegins, RemovedLasts, RemovedBegins DEF QuietInv

LEMMA QuietInit == RuntimeInit => QuietInv
<1>1. NotBegun.targets = {} /\ NotBegun.target.id = NoId
  BY DEF NotBegun, NoSummary
<1> QED
  BY <1>1, RuntimeAssumption DEF RuntimeInit, QuietInv, UnusedIds

LEMMA QuietStutter ==
  ASSUME QuietInv, UNCHANGED vars
  PROVE  QuietInv'
BY DEF vars, QuietInv, Quieted, Removed, Abandoned, Holds, UnusedIds, At

(* However starts, stops, deletes and crashes interleave: an instance that *)
(* deleteInstances removed while no process held its id has no record and  *)
(* no data ever after.                                                     *)
THEOREM DeletedStaysDeleted == RuntimeSpec => []DeletedForGood
<1>1. TypeInv /\ QuietInv /\ [RuntimeNext]_vars => QuietInv'
  BY QuietStep, QuietStutter DEF RuntimeNext
<1>2. QuietInv => DeletedForGood
  BY DEF QuietInv, Removed, DeletedForGood, Recorded
<1> QED
  BY <1>1, <1>2, QuietInit, TypesHold, PTL DEF RuntimeSpec
-----------------------------------------------------------------------------
(* Servers and their rivals.                                               *)
LEMMA RivalsGrow ==
  ASSUME TypeInv, NEW p \in Process, StartStep(p) \/ RemovalStep(p) \/ Interrupt(p)
  PROVE  /\ \A q \in Process : rivals[q] \subseteq rivals'[q]
         /\ SaveSaved(p) \/ SaveActive(p) \/ RecordError(p) => UnderWay(p) \subseteq rivals'[p]
<1>1. ASSUME Witnessed(p)
      PROVE  UnderWay(p) \subseteq rivals'[p] /\ \A q \in Process : rivals[q] \subseteq rivals'[q]
  BY <1>1 DEF Witnessed, TypeInv, RuntimeTypeOK
<1>2. SaveSaved(p) \/ SaveActive(p) \/ RecordError(p) => Witnessed(p)
  BY DEF SaveSaved, SaveActive, RecordError
<1> QED
  BY <1>1, <1>2, Writers

(* A server becomes ready by writing its record.                           *)
LEMMA ServerPath ==
  ASSUME TypeInv, NEW p \in Process, StartStep(p) \/ RemovalStep(p) \/ Interrupt(p),
         NEW q \in Process, proc'[q].step \in ServerSteps
  PROVE  /\ proc'[q].port = proc[q].port /\ proc'[q].id = proc[q].id
         /\ proc[q].id \in InstanceId /\ Listens(q)
         /\ proc[q].step \in ServerSteps \/ (q = p /\ SaveActive(p))
<1>1. proc[q].step \in ServerSteps \/ (q = p /\ At(p, "activate") /\ At(p, "ready")')
  BY StepEffects DEF Path
<1>2. At(q, "activate") \/ proc[q].step \in ServerSteps
  BY <1>1
<1>3. proc[q].id \in InstanceId /\ Listens(q)
  BY <1>2 DEF At, ServerSteps, TypeInv, StepInv, HoldingSteps, Listens
<1>4. proc'[q].port = proc[q].port /\ proc'[q].id = proc[q].id
  BY <1>3, StepEffects, RuntimeAssumption DEF Effect
<1>5. CASE q = p /\ At(p, "activate") /\ At(p, "ready")'
  <2>1. ServeFails(p) => Goes(p, "failed") /\ "failed" \in Steps
    BY DEF ServeFails, Steps, StartSteps
  <2>2. ~ServeFails(p) /\ ~Interrupt(p)
    BY <1>5, <2>1, InterruptEnds, StepMoves DEF At, Moves, TypeInv, RuntimeTypeOK, Processes
  <2> QED
    BY <1>3, <1>4, <1>5, <2>2, Guards
<1> QED
  BY <1>1, <1>3, <1>4, <1>5

LEMMA RivalStep ==
  ASSUME TypeInv, RivalInv, NEW a \in Process, StartStep(a) \/ RemovalStep(a) \/ Interrupt(a)
  PROVE  RivalInv'
<1> SUFFICES ASSUME NEW p \in Process, NEW q \in Process,
                    proc'[p].step \in ServerSteps, proc'[q].step \in LateSteps,
                    proc'[p].port = proc'[q].port
             PROVE  q \in rivals'[p]
  BY DEF RivalInv
<1>1. /\ proc'[p].port = proc[p].port /\ Listens(p)
      /\ proc[p].step \in ServerSteps \/ (p = a /\ SaveActive(a))
  BY ServerPath
<1>2. /\ proc'[q].port = proc[q].port
      /\ proc[q].step \in LateSteps \/ (q = a /\ (Listens(a) \/ ~Occupied(proc[a].port)))
  BY StepEffects DEF Path
<1>3. p # q /\ proc[p].port = proc[q].port
  BY <1>1, <1>2 DEF ServerSteps, LateSteps
<1>4. ~Listens(q) /\ Occupied(proc[q].port)
  BY <1>1, <1>3 DEF Occupied, TypeInv, RuntimeTypeOK
<1>5. proc[q].step \in LateSteps
  BY <1>2, <1>4
<1>6. CASE proc[p].step \in ServerSteps
  BY <1>3, <1>5, <1>6, RivalsGrow DEF RivalInv
<1>7. CASE p = a /\ SaveActive(a)
  BY <1>3, <1>5, <1>7, RivalsGrow DEF UnderWay, Alive, At, LateSteps
<1> QED
  BY <1>1, <1>6, <1>7

(* Only the server itself writes the record of a running server.           *)
LEMMA PlacedStep ==
  ASSUME TypeInv, NEW a \in Process, StartStep(a) \/ RemovalStep(a) \/ Interrupt(a),
         NEW p \in Process, Placed(p)'
  PROVE  /\ Placed(p) \/ (p = a /\ SaveActive(a))
         /\ proc'[p].id = proc[p].id /\ proc[p].id \in InstanceId
<1>1. /\ proc'[p].id = proc[p].id /\ proc[p].id \in InstanceId /\ proc'[p].port = proc[p].port
      /\ proc[p].step \in ServerSteps \/ (p = a /\ SaveActive(a))
  BY ServerPath DEF Placed
<1>2. active'[proc[p].id] = [status |-> "running", port |-> proc[p].port, pid |-> p]
  BY <1>1 DEF Placed
<1>3. CASE proc[p].step \in ServerSteps
  <2>1. active'[proc[p].id].status = "running" /\ active'[proc[p].id].pid = p
    BY <1>2
  <2>2. active'[proc[p].id] # NoRecord
    BY <2>1 DEF NoRecord
  <2>3. p = a => ~At(a, "activate")
    BY <1>3 DEF ServerSteps, At
  <2>4. active'[proc[p].id] = active[proc[p].id]
    BY <1>1, <2>1, <2>2, <2>3, ActiveStep
  <2> QED
    BY <1>1, <1>2, <1>3, <2>4 DEF Placed
<1> QED
  BY <1>1, <1>3

(* A removal names the process of a server it lists.                       *)
LEMMA PlacedSummary ==
  ASSUME TypeInv, NEW p \in Process, Placed(p)
  PROVE  SummaryOf(proc[p].id).pid = p
<1>1. Alive(p) /\ p # NoProcess
  BY RuntimeAssumption DEF Placed, ServerSteps, Alive
<1> QED
  BY <1>1 DEF Placed, SummaryOf, ListedRunning

LEMMA RemovalsStep ==
  ASSUME TypeInv, RemovalInv, NEW a \in Process, StartStep(a) \/ RemovalStep(a) \/ Interrupt(a)
  PROVE  RemovalInv'
<1> SUFFICES ASSUME NEW p \in Process, NEW q \in Process, Placed(p)', proc'[q].step \in RemovalSteps
             PROVE  /\ \A t \in proc'[q].targets : t.id = proc'[p].id => t.pid = p \/ q \in rivals'[p]
                    /\ At(q, "kill")' /\ proc'[q].target.id = proc'[p].id =>
                         proc'[q].target.pid = p \/ q \in rivals'[p]
                    /\ At(q, "unlist")' /\ proc'[q].target.id = proc'[p].id => q \in rivals'[p]
  BY DEF RemovalInv, RemovalSteps, At
<1>1. /\ Placed(p) \/ (p = a /\ SaveActive(a))
      /\ proc'[p].id = proc[p].id /\ proc[p].id \in InstanceId
  BY PlacedStep
<1>2. Path(a, q)
  BY StepEffects
<1>3. CASE Placed(p)
  <2>1. ASSUME NEW t \in proc'[q].targets, t.id = proc[p].id PROVE t.pid = p \/ q \in rivals'[p]
    <3>1. CASE t \in proc[q].targets /\ proc[q].step \in RemovalSteps
      BY <1>3, <2>1, <3>1, RivalsGrow DEF RemovalInv
    <3>2. ASSUME NEW i \in Recorded, t = SummaryOf(i) PROVE t.pid = p
      BY <1>3, <2>1, <3>2, PlacedSummary DEF SummaryOf
    <3> QED
      BY <1>2, <3>1, <3>2 DEF Path
  <2>2. ASSUME At(q, "kill")', proc'[q].target.id = proc[p].id
        PROVE  proc'[q].target.pid = p \/ q \in rivals'[p]
    <3>1. CASE At(q, "kill") /\ proc'[q].target = proc[q].target
      BY <1>3, <2>2, <3>1, RivalsGrow DEF RemovalInv
    <3>2. CASE At(q, "next") /\ proc'[q].target \in proc[q].targets
      BY <1>3, <2>2, <3>2, RivalsGrow DEF RemovalInv, At, RemovalSteps
    <3> QED
      BY <1>2, <2>2, <3>1, <3>2 DEF Path
  <2>3. ASSUME At(q, "unlist")', proc'[q].target.id = proc[p].id PROVE q \in rivals'[p]
    <3>1. proc[q].target.id = proc[p].id /\ (At(q, "unlist") \/ (q = a /\ Kill(a)))
      BY <1>2, <2>3 DEF Path
    <3>2. CASE At(q, "unlist")
      BY <1>3, <3>1, <3>2, RivalsGrow DEF RemovalInv
    <3>3. CASE q = a /\ Kill(a)
      <4>1. At(q, "kill")
        BY <3>3 DEF Kill
      <4>2. proc[q].target.pid # p
        <5>1. SUFFICES ASSUME proc[q].target.pid = p PROVE FALSE
          OBVIOUS
        <5>2. p \in Ended(q)
          BY <1>3, <5>1, RuntimeAssumption DEF Ended, Placed, ServerSteps, Alive
        <5>3. proc'[p].step = "done"
          BY <3>3, <4>1, <5>2, NoSelfKill, KillMoves DEF TypeInv, RuntimeTypeOK, Processes
        <5> QED
          BY <5>3 DEF Placed, ServerSteps
      <4> QED
        BY <1>3, <3>1, <4>1, <4>2, RivalsGrow DEF RemovalInv
    <3> QED
      BY <3>1, <3>2, <3>3
  <2> QED
    BY <1>1, <2>1, <2>2, <2>3
<1>4. CASE p = a /\ SaveActive(a)
  <2>1. /\ At(a, "activate") /\ Goes(a, "ready") /\ "ready" \in Steps
    BY <1>4 DEF SaveActive, Steps, StartSteps
  <2>2. proc'[a].step = "ready" /\ \A r \in Process \ {a} : proc'[r] = proc[r]
    BY <2>1, StepMoves DEF Moves, TypeInv, RuntimeTypeOK, Processes
  <2>3. q # a /\ proc[q].step \in RemovalSteps
    BY <2>2 DEF RemovalSteps
  <2>4. q \in UnderWay(a)
    BY <2>3 DEF UnderWay, Alive, At, RemovalSteps
  <2> QED
    BY <1>4, <2>4, RivalsGrow
<1> QED
  BY <1>1, <1>3, <1>4

(* The action property, for a step of a.                                   *)
LEMMA HidingStep ==
  ASSUME TypeInv, RivalInv, RemovalInv,
         NEW a \in Process, StartStep(a) \/ RemovalStep(a) \/ Interrupt(a),
         NEW p \in Process, Visible(p), At(p, "serving")', ~Visible(p)'
  PROVE  \E q \in rivals[p] : proc'[q] # proc[q]
<1>1. Placed(p) /\ proc[p].id \in InstanceId /\ proc[p].id # NoId /\ Listens(p) /\ At(p, "serving")
  BY RuntimeAssumption
     DEF Visible, Placed, At, ServerSteps, Listens, TypeInv, StepInv, HoldingSteps
<1>2. proc'[p].id = proc[p].id /\ proc'[p].port = proc[p].port
  BY <1>1, StepEffects DEF Effect
<1>3. active'[proc[p].id] # active[proc[p].id]
  BY <1>2 DEF Visible
<1>4. "ready" \in Steps /\ "done" \in Steps /\ "failed" \in Steps /\ "unsave" \in Steps /\ "next" \in Steps
  BY DEF Steps, StartSteps, RemovalSteps
<1>5. ASSUME NEW s \in Steps, Goes(a, s), s # proc[a].step PROVE proc'[a] # proc[a]
  BY <1>5, StepMoves DEF Moves, TypeInv, RuntimeTypeOK, Processes
<1>6. SUFFICES a \in rivals[p] /\ \E s \in Steps : Goes(a, s) /\ s # proc[a].step
  BY <1>5
<1>7. ASSUME NEW i \in InstanceId, NEW r, active' = [active EXCEPT ![i] = r] PROVE proc[p].id = i
  BY <1>1, <1>3, <1>7 DEF TypeInv, RuntimeTypeOK
<1>8. ASSUME proc[a].id = proc[p].id PROVE proc[a].port = proc[p].port
  BY <1>1, <1>8 DEF TypeInv, PortInv
<1>9. CASE SaveActive(a)
  <2>1. proc[a].id \in InstanceId /\ Listens(a) /\ a # p
    BY <1>1, <1>9 DEF SaveActive, At, TypeInv, StepInv, HoldingSteps, Listens
  <2>2. proc[a].id = proc[p].id
    BY <1>7, <1>9, <2>1 DEF SaveActive
  <2> QED
    BY <1>1, <1>8, <2>1, <2>2 DEF TypeInv, RuntimeTypeOK
<1>10. CASE RecordError(a) \/ Release(a)
  <2>1. proc[a].id \in InstanceId /\ proc[a].step \in LateSteps
    BY <1>10 DEF RecordError, Release, At, TypeInv, StepInv, HoldingSteps, LateSteps
  <2>2. proc[a].id = proc[p].id
    BY <1>7, <1>10, <2>1 DEF RecordError, Release
  <2>3. a \in rivals[p]
    BY <1>1, <1>8, <2>1, <2>2 DEF RivalInv, Placed
  <2> QED
    BY <1>4, <1>10, <2>3 DEF RecordError, Release, At
<1>11. CASE Unlist(a)
  <2>1. At(a, "unlist") /\ proc[a].target.id \in InstanceId
    BY <1>11 DEF Unlist, At, TypeInv, StepInv, TargetSteps, Summary
  <2>2. proc[a].target.id = proc[p].id
    BY <1>7, <1>11, <2>1 DEF Unlist
  <2>3. a \in rivals[p]
    BY <1>1, <2>1, <2>2 DEF RemovalInv
  <2> QED
    BY <1>4, <1>11, <2>1, <2>3 DEF Unlist, At
<1> QED
  BY <1>3, <1>9, <1>10, <1>11, Writers

LEMMA ServerInit == RuntimeInit => RivalInv /\ RemovalInv
<1>1. NotBegun.step = "new"
  BY DEF NotBegun
<1> QED
  BY <1>1 DEF RuntimeInit, RivalInv, RemovalInv, Placed, ServerSteps, LateSteps, At

LEMMA ServerStutter ==
  ASSUME RivalInv, RemovalInv, UNCHANGED vars
  PROVE  RivalInv' /\ RemovalInv'
BY DEF vars, RivalInv, RemovalInv, Placed, At

(* A process that can still hide the record of a server was under way when *)
(* the server wrote it (instanceRegistrar.Serve).                          *)
THEOREM RivalsHold == RuntimeSpec => [](RivalInv /\ RemovalInv)
<1>1. TypeInv /\ RivalInv /\ RemovalInv /\ [RuntimeNext]_vars => RivalInv' /\ RemovalInv'
  BY RivalStep, RemovalsStep, ServerStutter DEF RuntimeNext
<1> QED
  BY <1>1, ServerInit, TypesHold, PTL DEF RuntimeSpec

(* A server that goes on serving loses the record that stop and delete     *)
(* find it by only to a command that was under way when it wrote that      *)
(* record: the records are read and written without a lock                 *)
(* (instanceRegistrar.Serve and Release, recordingHTTPServer.Start,        *)
(* stopInstances).                                                         *)
THEOREM ServersVisible == RuntimeSpec => OnlyRivalsHideServers
<1> DEFINE A == \A p \in Process :
                  Visible(p) /\ At(p, "serving")' =>
                    Visible(p)' \/ \E q \in rivals[p] : proc'[q] # proc[q]
<1>1. TypeInv /\ RivalInv /\ RemovalInv /\ [RuntimeNext]_vars => [A]_vars
  BY HidingStep DEF RuntimeNext
<1> QED
  BY <1>1, TypesHold, RivalsHold, PTL DEF RuntimeSpec, OnlyRivalsHideServers
-----------------------------------------------------------------------------
(* The instances of a port.                                                *)
LEMMA OverlapLasts ==
  ASSUME TypeInv, NEW a \in Process, StartStep(a) \/ RemovalStep(a) \/ Interrupt(a),
         NEW i \in InstanceId, NEW j \in InstanceId, Overlapped(i, j)
  PROVE  Overlapped(i, j)'
<1>1. PICK p \in Process, q \in Process :
        proc[p].id = i /\ proc[q].id = j /\ (q \in rivals[p] \/ p \in rivals[q])
  BY DEF Overlapped
<1>2. proc'[p].id = i /\ proc'[q].id = j /\ (q \in rivals'[p] \/ p \in rivals'[q])
  BY <1>1, HeldStays, RivalsGrow
<1> QED
  BY <1>2 DEF Overlapped

LEMMA OverlapSymmetric ==
  ASSUME NEW i, NEW j, Overlapped(i, j)
  PROVE  Overlapped(j, i)
BY DEF Overlapped

(* An instance is recorded as before, or anew by a start that holds it.    *)
LEMMA RecordedStep ==
  ASSUME TypeInv, NEW a \in Process, StartStep(a) \/ RemovalStep(a) \/ Interrupt(a),
         NEW i \in Recorded'
  PROVE  /\ i \in InstanceId
         /\ \/ i \in Recorded /\ PortOf(i)' = PortOf(i)
            \/ /\ Holds(a, i) /\ PortOf(i)' = proc[a].port
               /\ SaveSaved(a) \/ SaveActive(a) \/ RecordError(a)
<1>1. TypeInv' /\ i \in InstanceId /\ i # NoId
  BY TypeStep, RuntimeAssumption DEF Recorded
<1>2. ASSUME NEW q \in Process, proc[q].id = i PROVE PortOf(i)' = proc[q].port
  <2>1. proc'[q].id = i /\ proc'[q].port = proc[q].port
    BY <1>1, <1>2, HeldStays
  <2>2. PICK r \in Process : proc'[r].id = i /\ proc'[r].port = PortOf(i)'
    <3>1. active'[i] # NoRecord \/ saved'[i] # 0
      BY DEF Recorded
    <3> QED
      BY <1>1, <3>1 DEF TypeInv, PortInv, PortOf
  <2> QED
    BY <1>1, <2>1, <2>2 DEF TypeInv, PortInv
<1>3. CASE i \in Recorded
  BY <1>1, <1>2, <1>3, RecordedPorts
<1>4. CASE i \notin Recorded
  <2>1. active[i] = NoRecord /\ saved[i] = 0 /\ (active'[i] # NoRecord \/ saved'[i] # 0)
    BY <1>1, <1>4 DEF Recorded
  <2>2. proc[a].id = i /\ (SaveSaved(a) \/ SaveActive(a) \/ RecordError(a))
    <3>1. CASE active'[i] # active[i]
      <4>1. proc[a].id = i /\ proc[a].step \in {"activate", "failed"}
        BY <1>1, <2>1, <3>1, ActiveStep
      <4> QED
        BY <3>1, <4>1, Writers DEF Release, Unlist, At
    <3>2. CASE saved'[i] # saved[i]
      <4>1. proc[a].id = i /\ At(a, "save")
        BY <1>1, <2>1, <3>2, SavedStep
      <4> QED
        BY <3>2, <4>1, Writers DEF Unsave, At
    <3> QED
      BY <2>1, <3>1, <3>2
  <2>3. Holds(a, i)
    BY <2>2 DEF Holds, HoldingSteps, SaveSaved, SaveActive, RecordError, At
  <2> QED
    BY <1>1, <1>2, <2>2, <2>3
<1> QED
  BY <1>1, <1>3, <1>4

(* A start that writes the first record of i sees every other holder of an *)
(* instance of the port under way, or is itself a rival of its server.     *)
LEMMA FirstRecord ==
  ASSUME TypeInv, RivalInv, NEW a \in Process, StartStep(a) \/ RemovalStep(a) \/ Interrupt(a),
         NEW i \in InstanceId, NEW j \in InstanceId \ {i}, NEW q \in Process,
         Holds(a, i), SaveSaved(a) \/ SaveActive(a) \/ RecordError(a),
         Holds(q, j), proc[q].port = proc[a].port
  PROVE  Overlapped(i, j)'
<1>1. proc'[a].id = i /\ proc'[q].id = j
  BY HeldStays DEF Holds
<1>2. a # q
  BY DEF Holds
<1>3. CASE At(q, "serving")
  <2>1. ~Listens(a)
    BY <1>2, <1>3 DEF At, Listens, TypeInv, RuntimeTypeOK
  <2>2. At(a, "failed")
    BY <2>1 DEF SaveSaved, SaveActive, RecordError, At, Listens
  <2>3. a \in rivals[q]
    BY <1>3, <2>2 DEF RivalInv, At, ServerSteps, LateSteps
  <2> QED
    BY <1>1, <2>3, RivalsGrow DEF Overlapped
<1>4. CASE ~At(q, "serving")
  <2>1. q \in UnderWay(a)
    BY <1>2, <1>4 DEF UnderWay, Holds, HoldingSteps, Alive
  <2> QED
    BY <1>1, <2>1, RivalsGrow DEF Overlapped
<1> QED
  BY <1>3, <1>4

LEMMA OverlapStep ==
  ASSUME TypeInv, RivalInv, OverlapInv,
         NEW a \in Process, StartStep(a) \/ RemovalStep(a) \/ Interrupt(a)
  PROVE  OverlapInv'
<1>1. ASSUME NEW i \in Recorded', NEW j \in Recorded', i # j, PortOf(i)' = PortOf(j)'
      PROVE  Overlapped(i, j)'
  <2>1. /\ i \in InstanceId
        /\ \/ i \in Recorded /\ PortOf(i)' = PortOf(i)
           \/ Holds(a, i) /\ PortOf(i)' = proc[a].port
    BY RecordedStep
  <2>2. /\ j \in InstanceId
        /\ \/ j \in Recorded /\ PortOf(j)' = PortOf(j)
           \/ Holds(a, j) /\ PortOf(j)' = proc[a].port
    BY RecordedStep
  <2>3. Overlapped(i, j) \/ Overlapped(j, i)
    BY <1>1, <2>1, <2>2 DEF OverlapInv, Holds
  <2> QED
    BY <2>1, <2>2, <2>3, OverlapSymmetric, OverlapLasts
<1>2. ASSUME NEW i \in Recorded', NEW j \in InstanceId \ {i}, NEW q \in Process,
             Holds(q, j)', proc'[q].port = PortOf(i)'
      PROVE  Overlapped(i, j)'
  <2>1. /\ i \in InstanceId
        /\ \/ i \in Recorded /\ PortOf(i)' = PortOf(i)
           \/ /\ Holds(a, i) /\ PortOf(i)' = proc[a].port
              /\ SaveSaved(a) \/ SaveActive(a) \/ RecordError(a)
    BY RecordedStep
  <2>2. \/ Holds(q, j)
        \/ /\ q = a /\ Resolve(a) /\ j \in ResolvedIds(proc[a].port)
           /\ proc'[a].port = proc[a].port
    BY <1>2, HoldStep
  <2>3. CASE i \in Recorded /\ PortOf(i)' = PortOf(i) /\ Holds(q, j)
    <3>1. proc[q].port = PortOf(i)
      BY <1>2, <2>3, HeldStays DEF Holds
    <3> QED
      BY <1>2, <2>1, <2>3, <3>1, OverlapLasts DEF OverlapInv
  <2>4. CASE i \in Recorded /\ PortOf(i)' = PortOf(i) /\ j \in ResolvedIds(proc[a].port)
             /\ proc'[q].port = proc[a].port
    <3>1. j \in Recorded /\ PortOf(j) = PortOf(i)
      BY <1>2, <2>4 DEF ResolvedIds, IdsOf
    <3> QED
      BY <1>2, <2>1, <2>4, <3>1, OverlapLasts DEF OverlapInv
  <2>5. CASE Holds(a, i) /\ PortOf(i)' = proc[a].port
             /\ (SaveSaved(a) \/ SaveActive(a) \/ RecordError(a))
    <3>1. ~Resolve(a)
      BY <2>5 DEF Holds, HoldingSteps, Resolve, At
    <3>2. Holds(q, j) /\ proc[q].port = proc[a].port
      BY <1>2, <2>2, <2>5, <3>1, HeldStays DEF Holds
    <3> QED
      BY <1>2, <2>1, <2>5, <3>2, FirstRecord
  <2> QED
    BY <2>1, <2>2, <2>3, <2>4, <2>5
<1>3. Recorded' \subseteq InstanceId
  BY DEF Recorded
<1> QED
  BY <1>1, <1>2, <1>3 DEF OverlapInv

LEMMA OverlapInit == RuntimeInit => OverlapInv
BY DEF RuntimeInit, OverlapInv, Recorded

LEMMA OverlapStutter ==
  ASSUME OverlapInv, UNCHANGED vars
  PROVE  OverlapInv'
BY DEF vars, OverlapInv, Overlapped, Recorded, PortOf, Holds

(* instanceIDForPort gives a port a second instance only to starts that    *)
(* overlapped: one was under way when the other wrote a record, whatever   *)
(* is stopped, deleted, killed or fails in between.                        *)
THEOREM PortsKeepInstance == RuntimeSpec => []OneInstancePerPort
<1>1. TypeInv /\ RivalInv /\ OverlapInv /\ [RuntimeNext]_vars => OverlapInv'
  BY OverlapStep, OverlapStutter DEF RuntimeNext
<1>2. OverlapInv => OneInstancePerPort
  BY DEF OverlapInv, OneInstancePerPort, Overlapped, Recorded
<1> QED
  BY <1>1, <1>2, OverlapInit, TypesHold, RivalsHold, PTL DEF RuntimeSpec
=============================================================================
