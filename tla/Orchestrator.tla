---------------------------- MODULE Orchestrator ----------------------------
(***************************************************************************)
(* One git project of the launcher: the commands that install, start,      *)
(* stop, restart and remove it (src/src/tauri/src/projects/commands.rs),   *)
(* the reconciler that drives its container towards the intent of its      *)
(* record (projects/orchestrator.rs), the runtime that reaches the VM      *)
(* (vm/runtime.rs), and the sync worker that commits and pushes it         *)
(* (projects/syncer.rs).                                                   *)
(*                                                                         *)
(* Every map of these services is keyed by the project's id and no step    *)
(* touches two keys, so one project stands for all.  A command, a          *)
(* reconciler and a worker are tasks that interleave at every await, and   *)
(* on several threads between the get and the update of a record: get and  *)
(* update take the store's mutex one after the other, and update writes    *)
(* the whole record.                                                       *)
(***************************************************************************)
EXTENDS Naturals, FiniteSets

CONSTANTS Ports,
          Callers,    \* bound: commands under way
          Loops,      \* bound: reconcilers that exist at a time
          Workers,    \* bound: sync workers that exist at a time
          Commands,   \* bound: the commands that are given
          Mishaps,    \* what may go wrong, see MishapNames
          MaxMishaps, \* bound: kinds of mishap in one behaviour beside stale
          None

AllCommands == {"install", "start", "stop", "restart", "remove", "stop_all"}

\* overlap: two commands at once.  stale: an update writes back a record that
\* has changed since it was read.  exit: the container exits.  rpc: a call to
\* the agent fails, whether or not it took effect.  late: a call whose caller
\* was aborted takes effect afterwards.  relaunch: the launcher dies and
\* starts again.
MishapNames == {"overlap", "stale", "exit", "rpc", "late", "relaunch"}

Intents == {"Run", "Stop"}
Statuses == {"Stopped", "WaitingForVm", "Starting", "Running", "Ready",
             "Degraded", "Failed", "Stopping"}
Records == [intent : Intents, status : Statuses, port : Ports \cup {None},
            installed : BOOLEAN]
Forwards == [port : Ports, owner : BOOLEAN]

ASSUME OrchestratorAssumption ==
  /\ IsFiniteSet(Ports)
  /\ None \notin Ports \cup Loops \cup Workers /\ None \notin Records /\ None \notin Forwards
  /\ Commands \subseteq AllCommands /\ Mishaps \subseteq MishapNames
  /\ MaxMishaps \in Nat

VARIABLES record,    \* the project's record in the store
          vm,        \* VmRuntime::manager holds a gateway
          container, \* the dev container in the VM and the port it listens on
          late,      \* the port of a start whose caller was aborted
          open,      \* host ports with a forwarding listener of this project
          forward,   \* VmRuntime::port_forwards
          tasks,     \* ProjectOrchestrator::tasks
          loop,      \* the reconcilers
          workers,   \* ProjectSyncer::workers
          worker,    \* the sync workers
          call,      \* the commands
          mishaps    \* ghost: what has gone wrong so far

guest == <<container, late>>
net == <<open, forward>>
vars == <<record, vm, guest, net, tasks, loop, workers, worker, call, mishaps>>

NewRecord == [intent |-> "Stop", status |-> "Stopped", port |-> None, installed |-> FALSE]

NoContainer == [state |-> "none", port |-> None]
Ended == [pc |-> "dead", prev |-> "Starting", port |-> None, seen |-> FALSE,
          goal |-> "Starting", then |-> "dead", copy |-> None, cut |-> FALSE]
EndedWorker == [pc |-> "dead", copy |-> None, cut |-> FALSE]
Idle == [pc |-> "idle", op |-> "none", phase |-> "none", port |-> None, copy |-> None]

Init ==
  /\ record = NewRecord
  /\ vm \in BOOLEAN
  /\ container = NoContainer /\ late = None
  /\ open = {} /\ forward = None
  /\ tasks = None /\ loop = [l \in Loops |-> Ended]
  /\ workers = None /\ worker = [w \in Workers |-> EndedWorker]
  /\ call = [c \in Callers |-> Idle]
  /\ mishaps = {}

MayGoWrong(kind) ==
  kind \in Mishaps /\ Cardinality((mishaps \cup {kind}) \ {"stale"}) <= MaxMishaps
Mishap(kind) == MayGoWrong(kind) /\ mishaps' = mishaps \cup {kind}
Fine == UNCHANGED mishaps

\* ProjectStore::update: NotFound, or the whole record as the caller has it,
\* which is stale if the record has changed or the caller has been aborted.
Update(copy, new, aborted) ==
  /\ IF record = None \/ (record = copy /\ ~aborted) THEN Fine ELSE Mishap("stale")
  /\ record' = IF record = None THEN None ELSE new

-----------------------------------------------------------------------------
(* VmRuntime *)

\* The agent's start_container: a running container is kept as it is, one
\* that exited is started again or made anew.
Started(p) ==
  IF container.state = "running" THEN {container}
  ELSE {[state |-> "running", port |-> q] :
         q \in {p} \cup (IF container.state = "exited" THEN {container.port} ELSE {})}

StartEffect(p) == container' \in Started(p)
StopEffect ==
  container' = IF container.state = "running"
               THEN [container EXCEPT !.state = "exited"] ELSE container
RemoveEffect == container' = NoContainer

\* A call to the agent either succeeds or fails, in which case it may have
\* taken effect all the same; without a gateway it fails at once.
Succeeds(Effect) == vm /\ Effect /\ Fine
Fails(Effect) ==
  \/ ~vm /\ UNCHANGED container /\ Fine
  \/ vm /\ (Effect \/ UNCHANGED container) /\ Mishap("rpc")

\* container_status reports a running container, or is not answered.
Sees(running) ==
  \/ running = (vm /\ container.state = "running") /\ Fine
  \/ vm /\ running = FALSE /\ Mishap("rpc")

\* A listener on a port that an earlier one still holds fails to bind and
\* ends; its handle takes the place of the earlier one's all the same.
StartForwarding(p) ==
  IF vm
  THEN /\ forward' = [port |-> p, owner |-> p \notin open]
       /\ open' = open \cup {p}
  ELSE UNCHANGED net

StopForwarding ==
  /\ forward' = None
  /\ open' = IF forward # None /\ forward.owner THEN open \ {forward.port} ELSE open

Reachable(p) == vm /\ container.state = "running" /\ container.port = p /\ p \in open

-----------------------------------------------------------------------------
(* Tasks: abort takes effect at the next await, and none lies between the   *)
(* get and the update of a record, or in a push.  Where no stale update is  *)
(* looked for, a get and its update are one step of the program.            *)

Alone ==
  \/ "stale" \in Mishaps
  \/ (\A c \in Callers : call[c].pc # "put") /\ (\A l \in Loops : loop[l].pc # "put")

CutLoop(l) ==
  IF "stale" \in Mishaps /\ loop[l].pc \in {"get", "put"} THEN [loop[l] EXCEPT !.cut = TRUE] ELSE Ended
CutWorker(w) ==
  IF "stale" \in Mishaps /\ worker[w].pc = "push" THEN [worker[w] EXCEPT !.cut = TRUE] ELSE EndedWorker

\* The map forgets the handle and the task is aborted.  A start it was
\* waiting for may reach the agent later.
AbortLoop ==
  /\ tasks' = None
  /\ IF tasks = None THEN UNCHANGED <<loop, late>> /\ Fine
     ELSE /\ loop' = [loop EXCEPT ![tasks] = CutLoop(tasks)]
          /\ \/ UNCHANGED late /\ Fine
             \/ loop[tasks].pc = "start" /\ late' = loop[tasks].port /\ Mishap("late")

StopPeriodic ==
  /\ workers' = None
  /\ worker' = IF workers = None THEN worker
               ELSE [worker EXCEPT ![workers] = CutWorker(workers)]

LateStart ==
  /\ late # None
  /\ IF vm THEN StartEffect(late) ELSE UNCHANGED container
  /\ late' = None
  /\ UNCHANGED <<record, vm, net, tasks, loop, workers, worker, call, mishaps>>

-----------------------------------------------------------------------------
(* The reconciler *)

\* spawn_reconciler, under the lock of the map.
SpawnReconciler(p) ==
  \E l \in Loops :
    /\ loop[l].pc = "dead"
    /\ LET fresh == [Ended EXCEPT !.pc = "sleep", !.port = p] IN
       IF tasks = None
       THEN loop' = [loop EXCEPT ![l] = fresh] /\ UNCHANGED late /\ Fine
       ELSE /\ loop' = [loop EXCEPT ![tasks] = CutLoop(tasks), ![l] = fresh]
            /\ \/ UNCHANGED late /\ Fine
               \/ loop[tasks].pc = "start" /\ late' = loop[tasks].port /\ Mishap("late")
    /\ tasks' = l

LoopAt(l, label) == loop[l].pc = label /\ ~loop[l].cut
LoopGoes(l, label) == loop' = [loop EXCEPT ![l].pc = label]
LoopEnds(l) == loop' = [loop EXCEPT ![l] = Ended]
Persist(l, status, then) ==
  loop' = [loop EXCEPT ![l] = [@ EXCEPT !.pc = "get", !.goal = status, !.then = then]]
PersistIfNew(l, status) ==
  IF status = loop[l].prev THEN LoopGoes(l, "sleep") ELSE Persist(l, status, "sleep")

\* Mutant: a reconciler that is stopping has nothing more to do.
TickOnce(l) ==
  /\ LoopAt(l, "sleep")
  /\ IF record = None THEN LoopEnds(l)
     ELSE IF record.intent = "Stop"
     THEN loop[l].prev # "Stopping" /\ Persist(l, "Stopping", "teardown")
     ELSE LoopGoes(l, "observe")
  /\ UNCHANGED <<record, vm, guest, net, tasks, workers, worker, call, mishaps>>

Tick(l) ==
  /\ LoopAt(l, "sleep")
  /\ IF record = None THEN LoopEnds(l)
     ELSE IF record.intent = "Stop"
     THEN IF loop[l].prev = "Stopping" THEN LoopGoes(l, "teardown")
          ELSE Persist(l, "Stopping", "teardown")
     ELSE LoopGoes(l, "observe")
  /\ UNCHANGED <<record, vm, guest, net, tasks, workers, worker, call, mishaps>>

\* Mutant: the container is started at every tick.
ObserveEager(l) ==
  /\ LoopAt(l, "observe")
  /\ IF ~vm THEN PersistIfNew(l, "WaitingForVm") ELSE LoopGoes(l, "start")
  /\ UNCHANGED <<record, vm, guest, net, tasks, workers, worker, call, mishaps>>

\* is_reachable, then is_running; a container that is not running is started
\* only by a reconciler that is starting or retrying.
Observe(l) ==
  /\ LoopAt(l, "observe")
  /\ IF ~vm THEN PersistIfNew(l, "WaitingForVm") /\ Fine
     ELSE \E running \in BOOLEAN :
            /\ Sees(running)
            /\ IF ~running /\ loop[l].prev \in {"Starting", "Failed", "WaitingForVm"}
               THEN LoopGoes(l, "start")
               ELSE loop' = [loop EXCEPT ![l] = [@ EXCEPT !.pc = "probe", !.seen = running]]
  /\ UNCHANGED <<record, vm, guest, net, tasks, workers, worker, call>>

\* Mutant: a container that exits is given time.
DerivePatient(prev, running, http) ==
  IF ~running THEN prev
  ELSE IF http THEN "Ready" ELSE IF prev = "Ready" THEN "Degraded" ELSE "Running"

DeriveStatus(prev, running, http) ==
  IF ~running
  THEN IF prev \in {"Running", "Ready", "Degraded", "Starting"} THEN "Failed" ELSE prev
  ELSE IF http THEN "Ready" ELSE IF prev = "Ready" THEN "Degraded" ELSE "Running"

Probe(l) ==
  /\ LoopAt(l, "probe")
  /\ \E http \in BOOLEAN :
       /\ http => Reachable(loop[l].port)
       /\ PersistIfNew(l, DeriveStatus(loop[l].prev, loop[l].seen, http))
  /\ UNCHANGED <<record, vm, guest, net, tasks, workers, worker, call, mishaps>>

TryStartContainer(l) ==
  /\ LoopAt(l, "start")
  /\ \/ Succeeds(StartEffect(loop[l].port)) /\ LoopGoes(l, "forward")
     \/ Fails(StartEffect(loop[l].port)) /\ Persist(l, "Failed", "sleep")
  /\ UNCHANGED <<record, vm, late, net, tasks, workers, worker, call>>

LoopForwards(l) ==
  /\ LoopAt(l, "forward")
  /\ StartForwarding(loop[l].port)
  /\ Persist(l, "Running", "sleep")
  /\ UNCHANGED <<record, vm, guest, tasks, workers, worker, call, mishaps>>

LoopUnforwards(l) ==
  /\ LoopAt(l, "teardown")
  /\ StopForwarding
  /\ LoopGoes(l, "stop")
  /\ UNCHANGED <<record, vm, guest, tasks, workers, worker, call, mishaps>>

\* An error of the stop is logged.
LoopStops(l) ==
  /\ LoopAt(l, "stop")
  /\ Succeeds(StopEffect) \/ Fails(StopEffect)
  /\ LoopGoes(l, "verify")
  /\ UNCHANGED <<record, vm, late, net, tasks, workers, worker, call>>

Verify(l) ==
  /\ LoopAt(l, "verify")
  /\ \E running \in BOOLEAN :
       /\ Sees(running)
       /\ IF ~running THEN Persist(l, "Stopped", "dead")
          ELSE PersistIfNew(l, "Stopping")
  /\ UNCHANGED <<record, vm, guest, net, tasks, workers, worker, call>>

PersistGet(l) ==
  /\ loop[l].pc = "get"
  /\ loop' = [loop EXCEPT ![l] = [@ EXCEPT !.pc = "put", !.copy = record]]
  /\ UNCHANGED <<record, vm, guest, net, tasks, workers, worker, call, mishaps>>

\* The reconciler remembers the status it persisted, but for the Stopping
\* that precedes a teardown.  An aborted one ends at the await that follows.
PersistPut(l) ==
  LET me == loop[l] IN
  /\ me.pc = "put"
  /\ IF me.copy = None THEN UNCHANGED record /\ Fine
     ELSE Update(me.copy, [me.copy EXCEPT !.status = me.goal], me.cut)
  /\ loop' = [loop EXCEPT ![l] =
       IF me.cut \/ me.then = "dead" THEN Ended
       ELSE [Ended EXCEPT !.pc = me.then, !.port = me.port,
                          !.prev = IF me.then = "teardown" THEN me.prev ELSE me.goal]]
  /\ UNCHANGED <<vm, guest, net, tasks, workers, worker, call>>

Reconcile(l) ==
  \/ Tick(l) \/ Observe(l) \/ Probe(l) \/ TryStartContainer(l) \/ LoopForwards(l)
  \/ LoopUnforwards(l) \/ LoopStops(l) \/ Verify(l) \/ PersistGet(l)

-----------------------------------------------------------------------------
(* The sync worker: commit_auto, resolve_push_token (the one await), push,   *)
(* and last_synced_at written with the record read before                   *)

Syncable == record # None /\ record.status \in {"Running", "Ready", "Degraded"}

WorkerWakes(w) ==
  /\ worker[w].pc = "wait"
  /\ worker' = [worker EXCEPT ![w] =
       IF Syncable THEN [@ EXCEPT !.pc = "token", !.copy = record] ELSE EndedWorker]
  /\ UNCHANGED <<record, vm, guest, net, tasks, loop, workers, call, mishaps>>

\* No commit, no token, and nothing is pushed until the next round.
WorkerGivesUp(w) ==
  /\ worker[w].pc \in {"token", "push"}
  /\ worker' = [worker EXCEPT ![w] =
       IF @.cut THEN EndedWorker ELSE [EndedWorker EXCEPT !.pc = "wait"]]
  /\ UNCHANGED <<record, vm, guest, net, tasks, loop, workers, call, mishaps>>

WorkerPushes(w) ==
  /\ worker[w].pc = "token"
  /\ worker' = [worker EXCEPT ![w].pc = "push"]
  /\ UNCHANGED <<record, vm, guest, net, tasks, loop, workers, call, mishaps>>

WorkerStamps(w) ==
  /\ worker[w].pc = "push"
  /\ Update(worker[w].copy, worker[w].copy, worker[w].cut)
  /\ worker' = [worker EXCEPT ![w] =
       IF @.cut THEN EndedWorker ELSE [EndedWorker EXCEPT !.pc = "wait"]]
  /\ UNCHANGED <<vm, guest, net, tasks, loop, workers, call>>

Sync(w) == WorkerWakes(w) \/ WorkerGivesUp(w) \/ WorkerPushes(w) \/ WorkerStamps(w)

-----------------------------------------------------------------------------
(* Commands *)

CallAt(c, label) == call[c].pc = label
Go(c, label) == call' = [call EXCEPT ![c].pc = label]
Back(c) == call' = [call EXCEPT ![c] = Idle]
ToRecord(c, phase) == call' = [call EXCEPT ![c] = [@ EXCEPT !.pc = "get", !.phase = phase]]

Begin(c, op) ==
  /\ CallAt(c, "idle") /\ op \in Commands
  /\ IF \A d \in Callers : CallAt(d, "idle") THEN Fine ELSE Mishap("overlap")
  /\ call' = [call EXCEPT ![c] = [Idle EXCEPT !.op = op, !.pc =
       CASE op \in {"start", "install"} -> "check"
         [] op \in {"remove", "restart"} -> "find"
         [] OTHER -> "unsync"]]
  /\ UNCHANGED <<record, vm, guest, net, tasks, loop, workers, worker>>

\* ProjectStore::allocate_port: a port this project does not have already.
NewPorts == Ports \ (open \cup IF record = None THEN {} ELSE {record.port})
WithNewPort(c, label) ==
  \/ NewPorts = {} /\ Back(c)
  \/ \E p \in NewPorts : call' = [call EXCEPT ![c] = [@ EXCEPT !.pc = label, !.port = p]]

\* start is done when the intent is Run already, and install when it is
\* installed; a port the record has is used again.
Check(c) ==
  LET next == IF call[c].op = "start" THEN "starts" ELSE "reach" IN
  /\ CallAt(c, "check")
  /\ IF \/ record = None
        \/ record.installed # (call[c].op = "start")
        \/ call[c].op = "start" /\ record.intent = "Run" /\ record.port # None
     THEN Back(c)
     ELSE IF record.port # None
     THEN call' = [call EXCEPT ![c] = [@ EXCEPT !.pc = next, !.port = record.port]]
     ELSE WithNewPort(c, next)
  /\ UNCHANGED <<record, vm, guest, net, tasks, loop, workers, worker, mishaps>>

Reallocate(c) ==
  /\ CallAt(c, "allocate")
  /\ WithNewPort(c, "starts")
  /\ UNCHANGED <<record, vm, guest, net, tasks, loop, workers, worker, mishaps>>

\* ProjectOrchestrator::start_project
StartProject(c) ==
  /\ CallAt(c, "starts")
  /\ ToRecord(c, "run")
  /\ UNCHANGED <<record, vm, guest, net, tasks, loop, workers, worker, mishaps>>

Get(c) ==
  /\ CallAt(c, "get")
  /\ IF record = None /\ call[c].phase # "reset" THEN Back(c)
     ELSE call' = [call EXCEPT ![c] = [@ EXCEPT !.pc = "put", !.copy = record]]
  /\ UNCHANGED <<record, vm, guest, net, tasks, loop, workers, worker, mishaps>>

\* Mutant: a stop of everything, and a restart, leave the intent as it was.
ChangedButIntent(copy, phase, port) ==
  CASE phase = "run" -> [copy EXCEPT !.intent = "Run", !.port = port, !.status = "Starting"]
    [] phase = "stop" -> [copy EXCEPT !.intent = "Stop"]
    [] phase = "reset" -> [copy EXCEPT !.port = None, !.status = "Stopped"]
    [] phase = "all" -> [copy EXCEPT !.status = "Stopped"]
    [] phase = "installed" -> [copy EXCEPT !.intent = "Run", !.port = port,
                                           !.status = "Ready", !.installed = TRUE]

\* What each writer of the record changes in the copy it got.
Changed(copy, phase, port) ==
  CASE phase = "run" -> [copy EXCEPT !.intent = "Run", !.port = port, !.status = "Starting"]
    [] phase = "stop" -> [copy EXCEPT !.intent = "Stop"]
    [] phase = "reset" -> [copy EXCEPT !.intent = "Stop", !.port = None, !.status = "Stopped"]
    [] phase = "all" -> [copy EXCEPT !.intent = "Stop", !.status = "Stopped"]
    [] phase = "installed" -> [copy EXCEPT !.intent = "Run", !.port = port,
                                           !.status = "Ready", !.installed = TRUE]

AfterPut(c) ==
  LET me == call[c] IN
  CASE me.phase = "run" -> "spawn"
    [] me.phase = "stop" -> "sync"
    [] me.phase = "reset" -> IF me.op = "restart" THEN "allocate" ELSE "delete"
    [] me.phase = "all" -> "vm_off"
    [] me.phase = "installed" -> "starts"

\* Only force_stop_and_remove goes on when the record is gone.
Put(c) ==
  LET me == call[c] IN
  /\ CallAt(c, "put")
  /\ IF me.copy = None THEN UNCHANGED record /\ Fine
     ELSE Update(me.copy, Changed(me.copy, me.phase, me.port), FALSE)
  /\ IF record = None /\ me.phase \notin {"reset", "all"} THEN Back(c)
     ELSE call' = [call EXCEPT ![c] = [@ EXCEPT !.pc = AfterPut(c), !.copy = None]]
  /\ UNCHANGED <<vm, guest, net, tasks, loop, workers, worker>>

Spawn(c) ==
  /\ CallAt(c, "spawn")
  /\ SpawnReconciler(call[c].port)
  /\ Go(c, "periodic")
  /\ UNCHANGED <<record, vm, container, net, workers, worker>>

\* start_periodic takes the lock twice, and the insert drops a handle that it
\* finds: the worker of that handle runs on.
StartPeriodic(c) ==
  /\ CallAt(c, "periodic")
  /\ StopPeriodic
  /\ Go(c, "insert")
  /\ UNCHANGED <<record, vm, guest, net, tasks, loop, mishaps>>

InsertWorker(c) ==
  /\ CallAt(c, "insert")
  /\ \E w \in Workers :
       /\ worker[w].pc = "dead"
       /\ workers' = w
       /\ worker' = [worker EXCEPT ![w].pc = "wait"]
  /\ Back(c)
  /\ UNCHANGED <<record, vm, guest, net, tasks, loop, mishaps>>

\* stop_with_sync, force_stop_and_remove and stop_all_projects end the worker
\* first.
Unsync(c) ==
  /\ CallAt(c, "unsync")
  /\ StopPeriodic
  /\ IF call[c].op = "stop" THEN ToRecord(c, "stop") ELSE Go(c, "abort")
  /\ UNCHANGED <<record, vm, guest, net, tasks, loop, mishaps>>

\* sync_on_stop, with the record as it is after the stop.
SyncReads(c) ==
  /\ CallAt(c, "sync")
  /\ \/ record # None /\ call' = [call EXCEPT ![c] = [@ EXCEPT !.pc = "push", !.copy = record]]
     \/ Back(c)
  /\ UNCHANGED <<record, vm, guest, net, tasks, loop, workers, worker, mishaps>>

SyncStamps(c) ==
  /\ CallAt(c, "push")
  /\ Update(call[c].copy, call[c].copy, FALSE) \/ (UNCHANGED record /\ Fine)
  /\ Back(c)
  /\ UNCHANGED <<vm, guest, net, tasks, loop, workers, worker>>

\* A restart, as the window and the agents' tool offer it, is of an installed
\* project.
Find(c) ==
  /\ CallAt(c, "find")
  /\ IF record = None THEN Back(c)
     ELSE IF call[c].op = "restart" /\ ~record.installed THEN Back(c) ELSE Go(c, "unsync")
  /\ UNCHANGED <<record, vm, guest, net, tasks, loop, workers, worker, mishaps>>

Abort(c) ==
  /\ CallAt(c, "abort")
  /\ AbortLoop
  /\ IF call[c].op = "stop_all" /\ record = None THEN Go(c, "vm_off") ELSE Go(c, "unforward")
  /\ UNCHANGED <<record, vm, container, net, workers, worker>>

Unforward(c) ==
  /\ CallAt(c, "unforward")
  /\ StopForwarding
  /\ Go(c, "rt_stop")
  /\ UNCHANGED <<record, vm, guest, tasks, loop, workers, worker, mishaps>>

\* Errors of a forced stop and removal are logged.
RuntimeStop(c) ==
  /\ CallAt(c, "rt_stop")
  /\ Succeeds(StopEffect) \/ Fails(StopEffect)
  /\ IF call[c].op = "stop_all" THEN ToRecord(c, "all") ELSE Go(c, "rt_remove")
  /\ UNCHANGED <<record, vm, late, net, tasks, loop, workers, worker>>

RuntimeRemove(c) ==
  /\ CallAt(c, "rt_remove")
  /\ Succeeds(RemoveEffect) \/ Fails(RemoveEffect)
  /\ IF call[c].op = "install" THEN Back(c) ELSE ToRecord(c, "reset")
  /\ UNCHANGED <<record, vm, late, net, tasks, loop, workers, worker>>

Delete(c) ==
  /\ CallAt(c, "delete")
  /\ record' = None
  /\ Back(c)
  /\ UNCHANGED <<vm, guest, net, tasks, loop, workers, worker, mishaps>>

\* run_install_pipeline: the wait for the VM, npm install in a container of
\* its own, the dev server and its first answer.
AwaitVm(c) ==
  /\ CallAt(c, "reach")
  /\ IF vm THEN Go(c, "npm") ELSE Back(c)
  /\ UNCHANGED <<record, vm, guest, net, tasks, loop, workers, worker, mishaps>>

RunInstall(c) ==
  /\ CallAt(c, "npm")
  /\ (vm /\ Go(c, "serve")) \/ Back(c)
  /\ UNCHANGED <<record, vm, guest, net, tasks, loop, workers, worker, mishaps>>

Serve(c) ==
  /\ CallAt(c, "serve")
  /\ \/ Succeeds(StartEffect(call[c].port)) /\ Go(c, "forward")
     \/ Fails(StartEffect(call[c].port)) /\ Go(c, "unforward")
  /\ UNCHANGED <<record, vm, late, net, tasks, loop, workers, worker>>

ForwardInstall(c) ==
  /\ CallAt(c, "forward")
  /\ StartForwarding(call[c].port)
  /\ Go(c, "http")
  /\ UNCHANGED <<record, vm, guest, tasks, loop, workers, worker, mishaps>>

AwaitHttp(c) ==
  /\ CallAt(c, "http")
  /\ (Reachable(call[c].port) /\ ToRecord(c, "installed")) \/ Go(c, "unforward")
  /\ UNCHANGED <<record, vm, guest, net, tasks, loop, workers, worker, mishaps>>

\* VmLifecycle::stop, and a start of the VM from a fresh clone of its disk.
VmOff(c) ==
  /\ CallAt(c, "vm_off")
  /\ vm' = FALSE /\ container' = NoContainer /\ late' = None
  /\ Back(c)
  /\ UNCHANGED <<record, net, tasks, loop, workers, worker, mishaps>>

VmOn ==
  /\ ~vm /\ vm' = TRUE
  /\ UNCHANGED <<record, guest, net, tasks, loop, workers, worker, call, mishaps>>

ContainerExits ==
  /\ container.state = "running" /\ Mishap("exit")
  /\ container' = [container EXCEPT !.state = "exited"]
  /\ UNCHANGED <<record, vm, late, net, tasks, loop, workers, worker, call>>

\* mark_all_stopped_in_store at the next start.
Relaunch ==
  /\ Mishap("relaunch")
  /\ record' = IF record = None THEN None
               ELSE [record EXCEPT !.intent = "Stop", !.status = "Stopped"]
  /\ vm' = FALSE /\ container' = NoContainer /\ late' = None
  /\ open' = {} /\ forward' = None
  /\ tasks' = None /\ loop' = [l \in Loops |-> Ended]
  /\ workers' = None /\ worker' = [w \in Workers |-> EndedWorker]
  /\ call' = [c \in Callers |-> Idle]

Command(c) ==
  \/ \E op \in AllCommands : Begin(c, op)
  \/ Check(c) \/ Reallocate(c) \/ StartProject(c) \/ Get(c) \/ Spawn(c)
  \/ StartPeriodic(c) \/ InsertWorker(c) \/ Unsync(c) \/ SyncReads(c) \/ SyncStamps(c) \/ Find(c)
  \/ Abort(c) \/ Unforward(c) \/ RuntimeStop(c) \/ RuntimeRemove(c) \/ Delete(c)
  \/ AwaitVm(c) \/ RunInstall(c) \/ Serve(c) \/ ForwardInstall(c) \/ AwaitHttp(c)
  \/ VmOff(c)

Next ==
  \/ \E c \in Callers : Put(c)
  \/ \E l \in Loops : PersistPut(l)
  \/ Alone /\ \/ \E c \in Callers : Command(c)
              \/ \E l \in Loops : Reconcile(l)
              \/ \E w \in Workers : Sync(w)
              \/ LateStart \/ VmOn \/ ContainerExits \/ Relaunch

Spec == Init /\ [][Next]_vars

\* A reconciler sleeps and wakes, and its awaits end.  Strong fairness: the
\* instants in which another task updates a record do not starve it.
FairSpec ==
  /\ Spec
  /\ \A c \in Callers : WF_vars(Put(c))
  /\ \A l \in Loops : SF_vars((Alone /\ Reconcile(l)) \/ PersistPut(l))

-----------------------------------------------------------------------------
(* Properties *)

Without(kinds) == mishaps \cap kinds = {}
Quiet ==
  /\ \A c \in Callers : CallAt(c, "idle")
  /\ late = None
Supervised == \E l \in Loops : loop[l].pc # "dead" /\ ~loop[l].cut

TypeOK ==
  /\ record \in Records \cup {None} /\ vm \in BOOLEAN
  /\ container \in [state : {"none", "running", "exited"}, port : Ports \cup {None}]
  /\ late \in Ports \cup {None} /\ open \subseteq Ports
  /\ forward \in Forwards \cup {None}
  /\ tasks \in Loops \cup {None} /\ workers \in Workers \cup {None}
  /\ \A l \in Loops : loop[l].prev \in Statuses /\ loop[l].copy \in Records \cup {None}
  /\ \A w \in Workers : worker[w].copy \in Records \cup {None}
  /\ \A c \in Callers : call[c].copy \in Records \cup {None}
  /\ mishaps \subseteq Mishaps

\* One reconciler at a time drives the container, and it is the one in the
\* map, so that a forced stop finds it.
OneReconciler ==
  \A l \in Loops : (loop[l].pc # "dead" /\ ~loop[l].cut) => tasks = l

\* One worker at a time commits and pushes the project, and the next stop finds
\* it; two commands at once may leave one behind.
OneWorker ==
  Without({"overlap"}) => \A w \in Workers :
    (worker[w].pc # "dead" /\ ~worker[w].cut) => workers = w

\* A project that is shown stopped, and that no command is working on, has no
\* running container and no port open on the host: unless a call failed or
\* came late, an update wrote back an old record, the container exited by
\* itself (its next start loses the handle of the forwarder), or two commands
\* overlapped.
StoppedIsStopped ==
  (/\ Quiet /\ ~Supervised /\ record # None /\ record.status = "Stopped"
   /\ Without({"stale", "rpc", "late", "exit", "overlap"}))
  => container.state # "running" /\ open = {}

\* A project whose record says Run has a reconciler on the port of the
\* record: a start that returned "already running" was right to do so.
RunIsSupervised ==
  (Quiet /\ record # None /\ record.intent = "Run" /\ Without({"stale", "overlap"}))
  => \E l \in Loops : tasks = l /\ loop[l].pc # "dead" /\ loop[l].port = record.port

\* A listener on the host belongs to the handle in the map, so that the next
\* stop closes it; a container that exits and one that seems to have are
\* started again over the handle of the first forwarder.
ListenersAreOwned ==
  Without({"exit", "rpc", "late", "overlap", "stale"}) =>
    \A p \in open : forward # None /\ forward.owner /\ forward.port = p

\* A project shown ready by its reconciler serves on the port of its record.
ReadyIsServed ==
  (/\ Quiet /\ record # None /\ record.status = "Ready" /\ Supervised
   /\ \A l \in Loops : loop[l].pc \notin {"get", "put"}
   /\ Without({"stale", "exit", "rpc", "late", "overlap"}))
  => vm /\ Reachable(record.port)

\* What is shown of a project is so, and what keeps it so is there once and on
\* the port of the record.
ShownIsSo ==
  TypeOK /\ OneReconciler /\ OneWorker /\ StoppedIsStopped /\ RunIsSupervised /\ ReadyIsServed

\* An intent to stop is given up only for a start or an install: no writer of
\* another field brings an old intent back.
StopIsKept ==
  [][(/\ record # None /\ record' # None
      /\ record.intent = "Stop" /\ record'.intent = "Run")
     => \E c \in Callers : CallAt(c, "put") /\ call[c].phase \in {"run", "installed"}]_vars

\* A stop whose reconciler lives is carried out, unless the project is started
\* again; a stop that the agent never carries out is tried for ever.
StopEnds ==
  (record # None /\ record.intent = "Stop" /\ Supervised)
  ~> (record = None \/ record.intent = "Run" \/ ~Supervised \/ ~Without({"rpc"}))

\* The status follows a container that exits: Ready does not stand for ever.
ExitIsNoticed ==
  (record # None /\ record.status = "Ready" /\ Supervised /\ container.state # "running")
  ~> (record = None \/ record.status # "Ready" \/ container.state = "running" \/ ~Supervised)
=============================================================================
