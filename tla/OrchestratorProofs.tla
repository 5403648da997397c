-------------------------- MODULE OrchestratorProofs --------------------------
(***************************************************************************)
(* What is shown of a project is so, and its listeners have an owner, for  *)
(* any number of ports, commands, reconcilers and workers.  The invariant  *)
(* is written in layers, each for the behaviours in which less has gone    *)
(* wrong: types and the map of reconcilers; one command at a time; no      *)
(* record written back; and nothing gone wrong but a relaunch.             *)
(***************************************************************************)
EXTENDS Orchestrator, TLAPS

Lone == "overlap" \notin mishaps
Calm == Lone /\ "stale" \notin mishaps
Clean == Calm /\ {"exit", "rpc", "late"} \cap mishaps = {}

CallPcs == {"idle", "check", "find", "unsync", "reach", "npm", "serve", "forward", "http",
            "allocate", "starts", "get", "put", "spawn", "periodic", "insert", "sync", "push",
            "abort", "unforward", "rt_stop", "rt_remove", "delete", "vm_off"}
Phases == {"none", "run", "stop", "reset", "all", "installed"}
Calls == [pc : CallPcs, op : AllCommands \cup {"none"}, phase : Phases,
          port : Ports \cup {None}, copy : Records \cup {None}]
LoopPcs == {"dead", "sleep", "observe", "start", "probe", "forward", "teardown", "stop", "verify",
            "get", "put"}
LoopStates == [pc : LoopPcs, prev : Statuses, port : Ports \cup {None}, seen : BOOLEAN,
               goal : Statuses, then : {"dead", "sleep", "teardown"},
               copy : Records \cup {None}, cut : BOOLEAN]
WorkerStates == [pc : {"dead", "wait", "token", "push"}, copy : Records \cup {None}, cut : BOOLEAN]
Containers == [state : {"none", "running", "exited"}, port : Ports \cup {None}]

Live(l) == loop[l].pc # "dead" /\ ~loop[l].cut
NoneLive == \A l \in Loops : ~Live(l)
Puts(l) == loop[l].pc \in {"get", "put"}

\* Where a command is: it writes the record, installs, is about to set the
\* intent to run, or has ended the reconciler.
Writes(c, phases) == call[c].pc \in {"get", "put"} /\ call[c].phase \in phases
Installs(c) ==
  \/ call[c].pc \in {"reach", "npm", "serve", "forward", "http"}
  \/ Writes(c, {"installed"})
  \/ call[c].op = "install" /\ call[c].pc \in {"unforward", "rt_stop", "rt_remove"}
ToRun(c) == call[c].pc = "starts" \/ Writes(c, {"run"})
ToSpawn(c) == call[c].pc = "spawn"
HasEnded(c) ==
  \/ call[c].pc \in {"unforward", "rt_stop", "rt_remove", "delete", "allocate", "vm_off"}
  \/ Writes(c, {"reset", "all"})
Unlooped(c) ==
  Installs(c) \/ HasEnded(c) \/ (call[c].op \in {"install", "restart"} /\ (ToRun(c) \/ ToSpawn(c)))
Restarts(c) ==
  /\ call[c].op = "restart"
  /\ \/ call[c].pc \in {"unsync", "abort", "unforward", "rt_stop", "rt_remove", "allocate"}
     \/ Writes(c, {"reset"})

-----------------------------------------------------------------------------
(* The invariant *)

\* The VM, without which there is no container, and the listeners.
Machine ==
  /\ vm \in BOOLEAN /\ container \in Containers /\ late \in Ports \cup {None}
  /\ open \subseteq Ports /\ forward \in Forwards \cup {None}
  /\ ~vm => container = NoContainer

Typed ==
  /\ record \in Records \cup {None}
  /\ tasks \in Loops \cup {None} /\ loop \in [Loops -> LoopStates]
  /\ workers \in Workers \cup {None} /\ worker \in [Workers -> WorkerStates]
  /\ call \in [Callers -> Calls] /\ mishaps \subseteq Mishaps

\* What a command and a reconciler carry with them.
Carries(c) ==
  /\ ToRun(c) \/ ToSpawn(c) \/ (Installs(c) /\ ~HasEnded(c)) => call[c].port \in Ports
  /\ call[c].pc \in {"get", "put"} => call[c].phase # "none"
  /\ call[c].pc = "put" /\ call[c].copy = None => record = None
  /\ call[c].pc = "check" => call[c].op \in {"start", "install"}
  /\ ToRun(c) \/ ToSpawn(c) => call[c].op \in {"start", "install", "restart"}
  /\ Installs(c) => call[c].op = "install"
  /\ call[c].pc = "find" => call[c].op \in {"restart", "remove"}
  /\ call[c].pc = "unsync" => call[c].op \in {"stop", "restart", "remove", "stop_all"}
  /\ call[c].pc = "abort" => call[c].op \in {"restart", "remove", "stop_all"}
  /\ call[c].pc \in {"unforward", "rt_stop"} =>
       call[c].op \in {"install", "restart", "remove", "stop_all"}
  /\ call[c].pc = "rt_remove" => call[c].op \in {"install", "restart", "remove"}
  /\ call[c].pc = "allocate" => call[c].op = "restart"
  /\ Writes(c, {"reset"}) => call[c].op \in {"restart", "remove"}
LoopCarries(l) ==
  /\ loop[l].pc # "dead" => loop[l].port \in Ports
  /\ loop[l].pc = "put" /\ loop[l].copy = None => record = None

Base ==
  /\ Machine /\ Typed /\ OneReconciler
  /\ \A c \in Callers : Carries(c)
  /\ \A l \in Loops : LoopCarries(l)

\* One command at a time: it finds the one worker.
OneCall == \A c, d \in Callers : call[c].pc # "idle" /\ call[d].pc # "idle" => c = d
Inserts(c) == call[c].pc = "insert" => workers = None
LoneInv == OneCall /\ OneWorker /\ \A c \in Callers : Inserts(c)

\* No record written back: an installed project is installed for good, the
\* reconciler has the port of the record, there is none while a command works
\* on the container itself, and an intent to run has a reconciler or a command
\* that is about to make one.
AloneAt(c) ==
  /\ Unlooped(c) => NoneLive
  /\ Installs(c) \/ ToSpawn(c) => record # None
Gone == record = None => NoneLive
InstalledAt(c) ==
  record # None =>
    /\ Installs(c) => ~record.installed
    /\ ToRun(c) \/ ToSpawn(c) \/ Restarts(c) => record.installed
BareIsStopped ==
  record # None /\ ~record.installed =>
    record.status = "Stopped" /\ record.intent = "Stop" /\ NoneLive
LoopPort(l) == record # None /\ Live(l) => loop[l].port = record.port
PortAt(c) ==
  record # None =>
    /\ ToSpawn(c) => call[c].port = record.port
    /\ ToRun(c) => call[c].port = record.port \/ NoneLive
Supervision ==
  record # None /\ record.intent = "Run" =>
    ~NoneLive \/ \E c \in Callers : Unlooped(c) \/ ToSpawn(c)
StopAt(c) == record # None /\ call[c].pc \in {"allocate", "vm_off"} => record.intent = "Stop"
Leaves(l) ==
  \/ loop[l].pc \in {"teardown", "stop", "verify"}
  \/ Puts(l) /\ loop[l].then \in {"teardown", "dead"}
LeaveMeant(l) ==
  record # None /\ Live(l) /\ Leaves(l) => record.intent = "Stop" \/ \E c \in Callers : ToSpawn(c)
CalmInv ==
  /\ Gone /\ BareIsStopped /\ Supervision
  /\ \A c \in Callers : AloneAt(c) /\ InstalledAt(c) /\ PortAt(c) /\ StopAt(c)
  /\ \A l \in Loops : LoopPort(l) /\ LeaveMeant(l)

\* Nothing gone wrong: what each step of a reconciler and of a command leaves
\* of the container and of the listener.
Down == container.state # "running" /\ open = {}
Dies(l) == Puts(l) /\ loop[l].then = "dead"
LoopClean(l) ==
  Live(l) =>
    /\ loop[l].prev # "Stopping"
    /\ loop[l].pc = "start" => container.state # "running"
    /\ loop[l].pc \in {"forward", "stop"} => open = {}
    /\ loop[l].pc = "forward" => container.state = "running"
    /\ loop[l].pc = "verify" \/ Dies(l) => Down
    /\ Puts(l) => /\ loop[l].goal = "Ready" => Reachable(loop[l].port)
                  /\ loop[l].goal = "Stopped" <=> loop[l].then = "dead"
                  /\ loop[l].goal = "Stopping" <=> loop[l].then = "teardown"
    /\ record # None /\ (loop[l].pc \in {"teardown", "stop", "verify"} \/ Dies(l)) =>
         record.status # "Ready"
CallClean(c) ==
  /\ call[c].pc \in {"reach", "npm", "serve"} => Down
  /\ call[c].pc \in {"forward", "rt_stop"} => open = {}
  /\ call[c].pc = "forward" => container.state = "running"
  /\ call[c].pc \in {"rt_remove", "allocate", "delete", "vm_off"} \/ Writes(c, {"reset", "all"}) => Down
Builds(c) == Installs(c) \/ call[c].pc \in {"unforward", "rt_stop"}
Owned == \A p \in open : forward # None /\ forward.owner /\ forward.port = p
GoneIsDown == record = None => Down
StoppedIsDown ==
  record # None /\ record.status = "Stopped" /\ NoneLive /\ (\A c \in Callers : ~Builds(c)) => Down
ReadyAnswers ==
  record # None /\ record.status = "Ready" /\ (~NoneLive \/ \E c \in Callers : ToSpawn(c)) =>
    Reachable(record.port)
CleanInv ==
  /\ late = None /\ Owned /\ (open # {} => container.state = "running")
  /\ GoneIsDown /\ StoppedIsDown /\ ReadyAnswers
  /\ \A l \in Loops : LoopClean(l)
  /\ \A c \in Callers : CallClean(c)

IInv == Base /\ (Lone => LoneInv) /\ (Calm => CalmInv) /\ (Clean => CleanInv)

-----------------------------------------------------------------------------
(* The shape of a step of a command *)

USE DEF CallAt

Moves(c, pc, op, phase, port) ==
  /\ call' \in [Callers -> Calls] /\ \A d \in Callers \ {c} : call'[d] = call[d]
  /\ call'[c].pc = pc /\ call'[c].op = op /\ call'[c].phase = phase /\ call'[c].port = port

LEMMA GoMoves ==
  ASSUME Typed, NEW c \in Callers, NEW label \in CallPcs, Go(c, label)
  PROVE  Moves(c, label, call[c].op, call[c].phase, call[c].port)
<1>1. PICK r \in Calls : r = call[c]
  BY DEF Typed
<1>2. [r EXCEPT !.pc = label] \in Calls
  BY DEF Calls
<1>3. QED
  BY <1>1, <1>2 DEF Go, Moves, Typed, Calls

LEMMA IdleIsACall == Idle \in Calls
  BY DEF Idle, Calls, CallPcs, Phases

LEMMA BackMoves ==
  ASSUME Typed, NEW c \in Callers, Back(c)
  PROVE  Moves(c, "idle", "none", "none", None)
  BY IdleIsACall DEF Back, Moves, Typed, Idle

LEMMA ToRecordMoves ==
  ASSUME Typed, NEW c \in Callers, NEW phase \in Phases, ToRecord(c, phase)
  PROVE  Moves(c, "get", call[c].op, phase, call[c].port)
<1>1. PICK r \in Calls : r = call[c]
  BY DEF Typed
<1>2. [r EXCEPT !.pc = "get", !.phase = phase] \in Calls
  BY DEF Calls, CallPcs
<1>3. QED
  BY <1>1, <1>2 DEF ToRecord, Moves, Typed, Calls

LEMMA WithPortMoves ==
  ASSUME Typed, NEW c \in Callers, NEW label \in CallPcs, NEW p \in Ports,
         call' = [call EXCEPT ![c] = [@ EXCEPT !.pc = label, !.port = p]]
  PROVE  Moves(c, label, call[c].op, call[c].phase, p)
<1>1. PICK r \in Calls : r = call[c]
  BY DEF Typed
<1>2. [r EXCEPT !.pc = label, !.port = p] \in Calls
  BY DEF Calls
<1>3. QED
  BY <1>1, <1>2 DEF Moves, Typed, Calls

LEMMA WithCopyMoves ==
  ASSUME Typed, NEW c \in Callers, NEW label \in CallPcs, NEW copy \in Records \cup {None},
         call' = [call EXCEPT ![c] = [@ EXCEPT !.pc = label, !.copy = copy]]
  PROVE  Moves(c, label, call[c].op, call[c].phase, call[c].port) /\ call'[c].copy = copy
<1>1. PICK r \in Calls : r = call[c]
  BY DEF Typed
<1>2. [r EXCEPT !.pc = label, !.copy = copy] \in Calls
  BY DEF Calls
<1>3. QED
  BY <1>1, <1>2 DEF Moves, Typed, Calls

LEMMA NewPortMoves ==
  ASSUME Typed, NEW c \in Callers, NEW label \in CallPcs, WithNewPort(c, label)
  PROVE  \/ Moves(c, "idle", "none", "none", None)
         \/ \E p \in Ports : Moves(c, label, call[c].op, call[c].phase, p)
  BY BackMoves, WithPortMoves DEF WithNewPort, NewPorts

-----------------------------------------------------------------------------
(* The frame of a step: the layers that do not speak of the machine *)

USE DEF Writes, Installs, ToRun, ToSpawn, HasEnded, Unlooped, Restarts, Builds,
        CallPcs, Phases, AllCommands, guest, net

Longer == mishaps \subseteq mishaps' /\ mishaps' \subseteq Mishaps
Working == workers \in Workers \cup {None} /\ worker \in [Workers -> WorkerStates] /\ OneWorker

LEMMA LayersFall ==
  ASSUME mishaps \subseteq mishaps'
  PROVE  (Lone' => Lone) /\ (Calm' => Calm) /\ (Clean' => Clean)
  BY DEF Lone, Calm, Clean

LEMMA LoneIsWithout == Lone <=> Without({"overlap"})
  BY DEF Lone, Without

\* The other commands are idle.
OthersIdle(c) == \A d \in Callers \ {c} : call[d].pc = "idle"

LEMMA BusyIsAlone ==
  ASSUME IInv, Lone, NEW c \in Callers, call[c].pc # "idle"
  PROVE  OthersIdle(c)
  BY DEF IInv, LoneInv, OneCall, OthersIdle

LEMMA WorkIsKept ==
  ASSUME IInv, UNCHANGED <<workers, worker>>, mishaps \subseteq mishaps'
  PROVE  Working'
  BY LoneIsWithout DEF IInv, Base, Typed, LoneInv, Working, OneWorker, Without

LEMMA MachineIsKept ==
  ASSUME IInv, UNCHANGED <<vm, guest, net>>
  PROVE  Machine'
  BY DEF IInv, Base, Machine

\* A command moves: what it brings with it of the invariant, and what it leaves
\* behind that relies on it.
Brings(c) ==
  /\ Carries(c)' /\ (Lone => OthersIdle(c) /\ Inserts(c)')
  /\ Calm => AloneAt(c)' /\ InstalledAt(c)' /\ PortAt(c)' /\ StopAt(c)'
  /\ Calm /\ (Unlooped(c) \/ ToSpawn(c)) =>
       Unlooped(c)' \/ ToSpawn(c)' \/ record = None \/ record.intent = "Stop"
  /\ ToSpawn(c) => ToSpawn(c)'

LEMMA MoveFrame ==
  ASSUME IInv, NEW c \in Callers, NEW pc, NEW op, NEW phase, NEW port, Moves(c, pc, op, phase, port),
         UNCHANGED <<record, tasks, loop>>, Working', Machine', Longer, Lone' => Brings(c),
         Carries(c)'
  PROVE  Base' /\ (Lone' => LoneInv') /\ (Calm' => CalmInv')
<1>1. /\ call' \in [Callers -> Calls] /\ \A d \in Callers \ {c} : call'[d] = call[d]
      /\ UNCHANGED <<record, tasks, loop>>
  BY DEF Moves
<1>2. Base'
  BY <1>1 DEF IInv, Base, Typed, OneReconciler, Carries, LoopCarries, Working, Longer
<1>3. Lone' => LoneInv'
  BY <1>1, LayersFall DEF IInv, LoneInv, OneCall, Inserts, Working, Longer, Brings, OthersIdle
<1>4. Calm' => CalmInv'
  <2>1. SUFFICES ASSUME Calm, Lone' PROVE CalmInv'
    BY LayersFall DEF Longer, Calm
  <2>2. CalmInv /\ OthersIdle(c) /\ Brings(c)
    BY <2>1 DEF IInv, Calm, LoneInv, Brings
  <2>3. \A d \in Callers : AloneAt(d)' /\ InstalledAt(d)' /\ PortAt(d)' /\ StopAt(d)'
    BY <1>1, <2>1, <2>2
       DEF CalmInv, AloneAt, InstalledAt, PortAt, StopAt, NoneLive, Live, Brings, OthersIdle
  <2>4. Gone' /\ BareIsStopped' /\ \A l \in Loops : LoopPort(l)'
    BY <1>1, <2>2 DEF CalmInv, Gone, BareIsStopped, LoopPort, NoneLive, Live
  <2>5. Supervision'
    BY <1>1, <2>1, <2>2 DEF CalmInv, Supervision, NoneLive, Live, Brings, OthersIdle
  <2>6. \A l \in Loops : LeaveMeant(l)'
    BY <1>1, <2>1, <2>2 DEF CalmInv, LeaveMeant, Leaves, Puts, Live, Brings, OthersIdle
  <2>7. QED
    BY <2>3, <2>4, <2>5, <2>6 DEF CalmInv
<1>5. QED
  BY <1>2, <1>3, <1>4

\* The container and the listener stay as they are, too.
BringsClean(c) == CallClean(c)' /\ (Builds(c) /\ ~Builds(c)' => Down) /\ (ToSpawn(c)' => ToSpawn(c))

LEMMA CleanFrame ==
  ASSUME IInv, Clean, NEW c \in Callers, NEW pc, NEW op, NEW phase, NEW port,
         Moves(c, pc, op, phase, port), UNCHANGED <<record, vm, guest, net, loop>>,
         OthersIdle(c), BringsClean(c)
  PROVE  CleanInv'
<1>1. /\ call' \in [Callers -> Calls] /\ \A d \in Callers \ {c} : call'[d] = call[d]
      /\ UNCHANGED <<record, vm, container, late, open, forward, loop>> /\ CleanInv
  BY DEF Moves, IInv
<1>2. \A d \in Callers : CallClean(d)'
  BY <1>1 DEF CleanInv, CallClean, Down, OthersIdle, BringsClean
<1>3. \A l \in Loops : LoopClean(l)'
  BY <1>1 DEF CleanInv, LoopClean, Live, Puts, Dies, Down, Reachable
<1>4. StoppedIsDown' /\ ReadyAnswers'
  BY <1>1 DEF CleanInv, StoppedIsDown, ReadyAnswers, Down, NoneLive, Live, Reachable,
              OthersIdle, BringsClean
<1>5. QED
  BY <1>1, <1>2, <1>3, <1>4 DEF CleanInv, Owned, GoneIsDown, Down

StillBut == <<record, vm, guest, net, tasks, loop, mishaps>>
Fits(c) == Brings(c) /\ (Clean => BringsClean(c))

LEMMA MoveKeeps ==
  ASSUME IInv, NEW c \in Callers, NEW pc, NEW op, NEW phase, NEW port, Moves(c, pc, op, phase, port),
         UNCHANGED StillBut, Working', Fits(c)
  PROVE  IInv'
<1>1. Longer
  BY DEF Longer, StillBut, IInv, Base, Typed
<1>2. Base' /\ (Lone' => LoneInv') /\ (Calm' => CalmInv')
  BY <1>1, MoveFrame, MachineIsKept DEF StillBut, Fits, Brings
<1>3. Clean => Clean' /\ CleanInv'
  BY CleanFrame DEF StillBut, Fits, Brings, Clean, Calm, Lone
<1>4. QED
  BY <1>1, <1>2, <1>3, LayersFall DEF IInv, Longer

-----------------------------------------------------------------------------
(* Commands that change nothing but where they are *)

\* What a command at a place knows, of itself and of the project.
Knows(c) ==
  /\ Carries(c) /\ (Lone => Inserts(c) /\ (call[c].pc # "idle" => OthersIdle(c)))
  /\ Calm => Gone /\ AloneAt(c) /\ InstalledAt(c) /\ PortAt(c) /\ StopAt(c)
  /\ Clean => CallClean(c)
  /\ call[c] \in Calls /\ (record # None => record \in Records)

LEMMA IsKnown ==
  ASSUME IInv, NEW c \in Callers
  PROVE  Knows(c)
  BY BusyIsAlone DEF IInv, Base, Typed, LoneInv, CalmInv, CleanInv, Calm, Clean, Knows

USE DEF Knows, Fits, Brings, BringsClean, Carries, Inserts, AloneAt, Gone, NoneLive, Live,
        InstalledAt, PortAt, StopAt, CallClean, Down

\* These leave the workers alone.
Still == UNCHANGED StillBut /\ UNCHANGED <<workers, worker>>

LEMMA StillKeeps ==
  ASSUME IInv, NEW c \in Callers, NEW pc, NEW op, NEW phase, NEW port, Moves(c, pc, op, phase, port),
         Still, Fits(c)
  PROVE  IInv'
<1>1. Working'
  BY WorkIsKept DEF Still, StillBut
<1>2. QED
  BY <1>1, MoveKeeps DEF Still

LEMMA StartProjectKeeps ==
  ASSUME IInv, NEW c \in Callers, StartProject(c)
  PROVE  IInv'
<1>1. Moves(c, "get", call[c].op, "run", call[c].port) /\ Still /\ call[c].pc = "starts"
  BY ToRecordMoves DEF StartProject, Still, StillBut, IInv, Base
<1>2. Fits(c)
  BY <1>1, IsKnown DEF Moves, Still, StillBut
<1>3. QED
  BY <1>1, <1>2, StillKeeps

LEMMA ReallocateKeeps ==
  ASSUME IInv, NEW c \in Callers, Reallocate(c)
  PROVE  IInv'
<1>1. Still /\ call[c].pc = "allocate"
  BY DEF Reallocate, Still, StillBut
<1>2. CASE Moves(c, "idle", "none", "none", None)
  <2>1. Fits(c)
    BY <1>1, <1>2, IsKnown DEF Moves, Still, StillBut
  <2>2. QED
    BY <1>1, <1>2, <2>1, StillKeeps
<1>3. ASSUME NEW p \in Ports, Moves(c, "starts", call[c].op, call[c].phase, p)
      PROVE  IInv'
  <2>1. Fits(c)
    BY <1>1, <1>3, IsKnown DEF Moves, Still, StillBut
  <2>2. QED
    BY <1>1, <1>3, <2>1, StillKeeps
<1>4. QED
  BY <1>2, <1>3, NewPortMoves DEF Reallocate, IInv, Base

LEMMA FindKeeps ==
  ASSUME IInv, NEW c \in Callers, Find(c)
  PROVE  IInv'
<1>1. Still /\ call[c].pc = "find"
  BY DEF Find, Still, StillBut
<1>2. CASE Back(c)
  <2>1. Moves(c, "idle", "none", "none", None)
    BY <1>2, BackMoves DEF IInv, Base
  <2>2. Fits(c)
    BY <1>1, <2>1, IsKnown DEF Moves, Still, StillBut
  <2>3. QED
    BY <1>1, <2>1, <2>2, StillKeeps
<1>3. CASE Go(c, "unsync") /\ (call[c].op = "restart" => record.installed)
  <2>1. Moves(c, "unsync", call[c].op, call[c].phase, call[c].port)
    BY <1>3, GoMoves DEF IInv, Base
  <2>2. Fits(c)
    BY <1>1, <1>3, <2>1, IsKnown DEF Moves, Still, StillBut
  <2>3. QED
    BY <1>1, <2>1, <2>2, StillKeeps
<1>4. QED
  BY <1>2, <1>3 DEF Find

LEMMA GetKeeps ==
  ASSUME IInv, NEW c \in Callers, Get(c)
  PROVE  IInv'
<1>1. Still /\ call[c].pc = "get"
  BY DEF Get, Still, StillBut
<1>2. CASE Back(c) /\ record = None
  <2>1. Moves(c, "idle", "none", "none", None)
    BY <1>2, BackMoves DEF IInv, Base
  <2>2. Clean => Down
    BY <1>2 DEF IInv, CleanInv, GoneIsDown
  <2>3. Fits(c)
    BY <1>1, <1>2, <2>1, <2>2, IsKnown DEF Moves, Still, StillBut
  <2>4. QED
    BY <1>1, <2>1, <2>3, StillKeeps
<1>3. CASE call' = [call EXCEPT ![c] = [@ EXCEPT !.pc = "put", !.copy = record]]
  <2>1. Moves(c, "put", call[c].op, call[c].phase, call[c].port) /\ call'[c].copy = record
    BY <1>3, WithCopyMoves DEF IInv, Base, Typed
  <2>2. Fits(c)
    BY <1>1, <2>1, IsKnown DEF Moves, Still, StillBut
  <2>3. QED
    BY <1>1, <2>1, <2>2, StillKeeps
<1>4. QED
  BY <1>2, <1>3 DEF Get

LEMMA SyncReadsKeeps ==
  ASSUME IInv, NEW c \in Callers, SyncReads(c)
  PROVE  IInv'
<1>1. Still /\ call[c].pc = "sync"
  BY DEF SyncReads, Still, StillBut
<1>2. CASE Back(c)
  <2>1. Moves(c, "idle", "none", "none", None)
    BY <1>2, BackMoves DEF IInv, Base
  <2>2. Fits(c)
    BY <1>1, <2>1, IsKnown DEF Moves, Still, StillBut
  <2>3. QED
    BY <1>1, <2>1, <2>2, StillKeeps
<1>3. CASE call' = [call EXCEPT ![c] = [@ EXCEPT !.pc = "push", !.copy = record]]
  <2>1. Moves(c, "push", call[c].op, call[c].phase, call[c].port)
    BY <1>3, WithCopyMoves DEF IInv, Base, Typed
  <2>2. Fits(c)
    BY <1>1, <2>1, IsKnown DEF Moves, Still, StillBut
  <2>3. QED
    BY <1>1, <2>1, <2>2, StillKeeps
<1>4. QED
  BY <1>2, <1>3 DEF SyncReads

\* The wait for the VM, npm install and the wait for an answer.
LEMMA InstallMovesKeep ==
  ASSUME IInv, NEW c \in Callers, AwaitVm(c) \/ RunInstall(c) \/ AwaitHttp(c)
  PROVE  IInv'
<1>1. Still /\ call[c].pc \in {"reach", "npm", "http"}
  BY DEF AwaitVm, RunInstall, AwaitHttp, Still, StillBut
<1>2. CASE Back(c) /\ call[c].pc \in {"reach", "npm"}
  <2>1. Moves(c, "idle", "none", "none", None)
    BY <1>2, BackMoves DEF IInv, Base
  <2>2. Calm => record = None \/ record.intent = "Stop"
    BY <1>2, IsKnown DEF IInv, CalmInv, BareIsStopped
  <2>3. Fits(c)
    BY <1>1, <1>2, <2>1, <2>2, IsKnown DEF Moves, Still, StillBut
  <2>4. QED
    BY <1>1, <2>1, <2>3, StillKeeps
<1>3. ASSUME NEW label \in {"npm", "serve", "unforward"}, Go(c, label),
             label \in {"npm", "serve"} => call[c].pc \in {"reach", "npm"}
      PROVE  IInv'
  <2>1. Moves(c, label, call[c].op, call[c].phase, call[c].port)
    BY <1>3, GoMoves DEF IInv, Base
  <2>2. Fits(c)
    BY <1>1, <1>3, <2>1, IsKnown DEF Moves, Still, StillBut
  <2>3. QED
    BY <1>1, <2>1, <2>2, StillKeeps
<1>4. CASE ToRecord(c, "installed") /\ call[c].pc = "http"
  <2>1. Moves(c, "get", call[c].op, "installed", call[c].port)
    BY <1>4, ToRecordMoves DEF IInv, Base
  <2>2. Fits(c)
    BY <1>1, <1>4, <2>1, IsKnown DEF Moves, Still, StillBut
  <2>3. QED
    BY <1>1, <2>1, <2>2, StillKeeps
<1>5. QED
  BY <1>2, <1>3, <1>4 DEF AwaitVm, RunInstall, AwaitHttp

\* A start or an install finds out whether there is anything to do.
LEMMA CheckKeeps ==
  ASSUME IInv, NEW c \in Callers, Check(c)
  PROVE  IInv'
<1>1. Still /\ call[c].pc = "check"
  BY DEF Check, Still, StillBut
<1> DEFINE next == IF call[c].op = "start" THEN "starts" ELSE "reach"
<1>2. CASE Moves(c, "idle", "none", "none", None)
  <2>1. Fits(c)
    BY <1>1, <1>2, IsKnown DEF Moves, Still, StillBut
  <2>2. QED
    BY <1>1, <1>2, <2>1, StillKeeps
<1>3. ASSUME NEW p \in Ports, Moves(c, next, call[c].op, call[c].phase, p),
             record # None, record.installed = (call[c].op = "start"),
             record.port # None => p = record.port
      PROVE  IInv'
  <2>1. call[c].op \in {"start", "install"}
    BY <1>1, IsKnown
  <2>2. \A d \in Callers \ {c} : Lone => call[d].pc = "idle"
    BY <1>1 DEF IInv, LoneInv, OneCall
  <2>3. CASE call[c].op = "install"
    <3>1. Moves(c, "reach", "install", call[c].phase, p) /\ ~record.installed
      BY <1>3, <2>3
    <3>2. Calm => record.status = "Stopped" /\ NoneLive
      BY <1>3, <3>1 DEF IInv, CalmInv, BareIsStopped
    <3>3. Clean => Down
      BY <1>1, <1>3, <2>2, <3>2, <2>3 DEF IInv, CleanInv, StoppedIsDown, Clean, Calm
    <3>4. Fits(c)
      BY <1>1, <1>3, <2>3, <3>1, <3>2, <3>3, IsKnown DEF Moves, Still, StillBut
    <3>5. QED
      BY <1>1, <3>1, <3>4, StillKeeps
  <2>4. CASE call[c].op = "start"
    <3>1. Moves(c, "starts", "start", call[c].phase, p) /\ record.installed
      BY <1>3, <2>4
    <3>2. Calm => record.port = p \/ NoneLive
      BY <1>3, OrchestratorAssumption DEF IInv, CalmInv, LoopPort, Base, LoopCarries
    <3>3. Fits(c)
      BY <1>1, <1>3, <2>4, <3>1, <3>2, IsKnown DEF Moves, Still, StillBut
    <3>4. QED
      BY <1>1, <3>1, <3>3, StillKeeps
  <2>5. QED
    BY <2>1, <2>3, <2>4
<1>4. QED
  BY <1>2, <1>3, BackMoves, WithPortMoves, NewPortMoves DEF Check, IInv, Base, Typed, Records
LEMMA BeginKeeps ==
  ASSUME IInv, NEW c \in Callers, NEW op \in AllCommands, Begin(c, op)
  PROVE  IInv'
<1> DEFINE pc == CASE op \in {"start", "install"} -> "check"
                   [] op \in {"remove", "restart"} -> "find"
                   [] OTHER -> "unsync"
<1>1. /\ pc \in {"check", "find", "unsync"}
      /\ (pc = "check" <=> op \in {"start", "install"})
      /\ pc = "find" => op \in {"remove", "restart"}
      /\ pc = "unsync" => op \in {"stop", "stop_all"}
  OBVIOUS
<1>2. call' = [call EXCEPT ![c] = [Idle EXCEPT !.op = op, !.pc = pc]] /\ call[c].pc = "idle"
  BY DEF Begin
<1>3. UNCHANGED <<record, vm, guest, net, tasks, loop, workers, worker>>
  BY DEF Begin
<1> HIDE DEF pc
<1>4. PICK r \in Calls : r = Idle
  BY IdleIsACall
<1>5. [r EXCEPT !.op = op, !.pc = pc] \in Calls
  BY <1>1 DEF Calls
<1>6. Moves(c, pc, op, "none", None)
  BY <1>1, <1>2, <1>4, <1>5 DEF Moves, IInv, Base, Typed, Idle
<1>7. Carries(c)'
  BY <1>1, <1>6 DEF Moves
<1>8. CASE Fine /\ \A d \in Callers : call[d].pc = "idle"
  <2>1. Still
    BY <1>3, <1>8 DEF Still, StillBut, Fine
  <2>2. Fits(c)
    BY <1>1, <1>2, <1>6, <1>7, <1>8, <2>1, IsKnown DEF Moves, Still, StillBut, OthersIdle
  <2>3. QED
    BY <1>6, <2>1, <2>2, StillKeeps
<1>9. CASE Mishap("overlap")
  <2>1. Longer /\ ~Lone'
    BY <1>9 DEF Mishap, MayGoWrong, Longer, Lone, IInv, Base, Typed
  <2>2. Working' /\ Machine'
    BY <1>3, <2>1, WorkIsKept, MachineIsKept DEF Longer
  <2>3. Base'
    BY <1>3, <1>6, <1>7, <2>1, <2>2, MoveFrame
  <2>4. QED
    BY <2>1, <2>3 DEF IInv, Calm, Clean
<1>10. QED
  BY <1>8, <1>9 DEF Begin

-----------------------------------------------------------------------------
(* The sync worker, and the commands that start and end it *)

LEMMA StopPeriodicWorks ==
  ASSUME IInv, StopPeriodic, UNCHANGED mishaps
  PROVE  Working' /\ workers' = None
<1>1. CASE workers = None
  BY <1>1, LoneIsWithout
     DEF StopPeriodic, Working, OneWorker, Without, IInv, Base, Typed, LoneInv
<1>2. CASE workers # None
  <2>1. PICK r \in WorkerStates : r = worker[workers]
    BY <1>2 DEF IInv, Base, Typed
  <2>2. CutWorker(workers) \in {EndedWorker, [r EXCEPT !.cut = TRUE]}
    BY <2>1 DEF CutWorker
  <2>3. /\ EndedWorker \in WorkerStates /\ [r EXCEPT !.cut = TRUE] \in WorkerStates
        /\ EndedWorker.pc = "dead" /\ [r EXCEPT !.cut = TRUE].cut
    BY DEF EndedWorker, WorkerStates
  <2>4. worker' = [worker EXCEPT ![workers] = CutWorker(workers)] /\ workers' = None
    BY <1>2 DEF StopPeriodic
  <2>5. QED
    BY <1>2, <2>2, <2>3, <2>4, LoneIsWithout
       DEF Working, OneWorker, Without, IInv, Base, Typed, LoneInv
<1>3. QED
  BY <1>1, <1>2

LEMMA StartPeriodicKeeps ==
  ASSUME IInv, NEW c \in Callers, StartPeriodic(c)
  PROVE  IInv'
<1>1. UNCHANGED StillBut /\ call[c].pc = "periodic" /\ Working' /\ workers' = None
  BY StopPeriodicWorks DEF StartPeriodic, StillBut
<1>2. Moves(c, "insert", call[c].op, call[c].phase, call[c].port)
  BY GoMoves DEF StartPeriodic, IInv, Base
<1>3. Fits(c)
  BY <1>1, <1>2, IsKnown DEF Moves, StillBut
<1>4. QED
  BY <1>1, <1>2, <1>3, MoveKeeps

LEMMA InsertWorkerKeeps ==
  ASSUME IInv, NEW c \in Callers, InsertWorker(c)
  PROVE  IInv'
<1>1. UNCHANGED StillBut /\ call[c].pc = "insert" /\ Back(c)
  BY DEF InsertWorker, StillBut
<1>2. PICK w \in Workers : /\ worker[w].pc = "dead" /\ workers' = w
                           /\ worker' = [worker EXCEPT ![w].pc = "wait"]
  BY DEF InsertWorker
<1>3. Working'
  <2>1. PICK r \in WorkerStates : r = worker[w]
    BY DEF IInv, Base, Typed
  <2>2. [r EXCEPT !.pc = "wait"] \in WorkerStates
    BY DEF WorkerStates
  <2>3. worker' \in [Workers -> WorkerStates] /\ \A v \in Workers \ {w} : worker'[v] = worker[v]
    BY <1>2, <2>1, <2>2 DEF IInv, Base, Typed
  <2>4. Lone => workers = None /\ OneWorker
    BY <1>1, IsKnown DEF IInv, LoneInv
  <2>5. Lone => OneWorker'
    BY <1>2, <2>3, <2>4, OrchestratorAssumption, LoneIsWithout DEF OneWorker
  <2>6. QED
    BY <1>1, <1>2, <2>3, <2>5, LoneIsWithout DEF Working, OneWorker, Without, StillBut
<1>4. Moves(c, "idle", "none", "none", None)
  BY <1>1, BackMoves DEF IInv, Base
<1>5. Fits(c)
  BY <1>1, <1>4, IsKnown DEF Moves, StillBut
<1>6. QED
  BY <1>1, <1>3, <1>4, <1>5, MoveKeeps

LEMMA UnsyncKeeps ==
  ASSUME IInv, NEW c \in Callers, Unsync(c)
  PROVE  IInv'
<1>1. UNCHANGED StillBut /\ call[c].pc = "unsync" /\ Working'
  BY StopPeriodicWorks DEF Unsync, StillBut
<1>2. CASE ToRecord(c, "stop") /\ call[c].op = "stop"
  <2>1. Moves(c, "get", call[c].op, "stop", call[c].port)
    BY <1>2, ToRecordMoves DEF IInv, Base
  <2>2. Fits(c)
    BY <1>1, <1>2, <2>1, IsKnown DEF Moves, StillBut
  <2>3. QED
    BY <1>1, <2>1, <2>2, MoveKeeps
<1>3. CASE Go(c, "abort") /\ call[c].op # "stop"
  <2>1. Moves(c, "abort", call[c].op, call[c].phase, call[c].port)
    BY <1>3, GoMoves DEF IInv, Base
  <2>2. Fits(c)
    BY <1>1, <1>3, <2>1, IsKnown DEF Moves, StillBut
  <2>3. QED
    BY <1>1, <2>1, <2>2, MoveKeeps
<1>4. QED
  BY <1>2, <1>3 DEF Unsync

\* A record that is written back whole: the same, or a stale one.
LEMMA SameAgain ==
  ASSUME NEW copy, NEW aborted \in BOOLEAN, Update(copy, copy, aborted)
  PROVE  /\ record' \in {record, copy} /\ (record = None => record' = None)
         /\ (Fine /\ record' = record) \/ Mishap("stale")
  BY DEF Update

LEMMA MishapLonger ==
  ASSUME IInv, NEW kind, Fine \/ Mishap(kind)
  PROVE  Longer /\ (kind \in mishaps' \/ Fine)
  BY DEF Fine, Mishap, MayGoWrong, Longer, IInv, Base, Typed

LEMMA StaleIsNotCalm ==
  ASSUME Mishap("stale")
  PROVE  ~Calm' /\ ~Clean'
  BY DEF Mishap, Calm, Clean

\* The record changes under a command that moves, the rest of the project stays.
LEMMA RecordFrame ==
  ASSUME IInv, NEW c \in Callers, NEW pc, NEW op, NEW phase, NEW port, Moves(c, pc, op, phase, port),
         UNCHANGED <<vm, guest, net, tasks, loop, workers, worker>>, Longer,
         record' \in Records \cup {None}, record = None => record' = None, call[c].pc # "idle",
         pc # "insert", Carries(c)'
  PROVE  Base' /\ (Lone' => LoneInv')
<1>1. Working' /\ Machine'
  BY WorkIsKept, MachineIsKept DEF Longer
<1>2. Base'
  BY <1>1 DEF IInv, Base, Typed, OneReconciler, LoopCarries, Working, Longer, Moves
<1>3. Lone' => LoneInv'
  BY <1>1, LayersFall DEF IInv, LoneInv, OneCall, Working, Longer, Moves
<1>4. QED
  BY <1>2, <1>3

LEMMA SyncStampsKeeps ==
  ASSUME IInv, NEW c \in Callers, SyncStamps(c)
  PROVE  IInv'
<1>1. Moves(c, "idle", "none", "none", None) /\ call[c].pc = "push"
  BY BackMoves DEF SyncStamps, IInv, Base
<1>2. UNCHANGED <<vm, guest, net, tasks, loop, workers, worker>>
  BY DEF SyncStamps
<1>3. CASE Fine /\ record' = record
  <2>1. Still
    BY <1>2, <1>3 DEF Still, StillBut, Fine
  <2>2. Fits(c)
    BY <1>1, <2>1, IsKnown DEF Moves, Still, StillBut
  <2>3. QED
    BY <1>1, <2>1, <2>2, StillKeeps
<1>4. CASE Mishap("stale") /\ record' \in {record, call[c].copy} /\ (record = None => record' = None)
  <2>1. record' \in Records \cup {None} /\ Longer /\ Carries(c)'
    BY <1>1, <1>4, MishapLonger DEF IInv, Base, Typed, Calls, Moves
  <2>2. Base' /\ (Lone' => LoneInv')
    BY <1>1, <1>2, <1>4, <2>1, RecordFrame
  <2>3. QED
    BY <1>4, <2>2, StaleIsNotCalm DEF IInv
<1>5. QED
  BY <1>3, <1>4, SameAgain DEF SyncStamps

LEMMA SyncKeeps ==
  ASSUME IInv, NEW w \in Workers, Sync(w)
  PROVE  IInv'
<1>1. UNCHANGED <<vm, guest, net, tasks, loop, workers, call>>
  BY DEF Sync, WorkerWakes, WorkerGivesUp, WorkerPushes, WorkerStamps
<1>2. worker[w].pc # "dead"
  BY DEF Sync, WorkerWakes, WorkerGivesUp, WorkerPushes, WorkerStamps
<1>3. /\ worker' \in [Workers -> WorkerStates] /\ \A v \in Workers \ {w} : worker'[v] = worker[v]
      /\ worker'[w].pc # "dead" /\ ~worker'[w].cut => ~worker[w].cut
  <2>1. PICK r \in WorkerStates : r = worker[w]
    BY DEF IInv, Base, Typed
  <2>2. /\ EndedWorker \in WorkerStates /\ EndedWorker.pc = "dead"
        /\ [EndedWorker EXCEPT !.pc = "wait"] \in WorkerStates
        /\ ~[EndedWorker EXCEPT !.pc = "wait"].cut
    BY DEF EndedWorker, WorkerStates
  <2>3. [r EXCEPT !.pc = "push"] \in WorkerStates /\ [r EXCEPT !.pc = "push"].cut = r.cut
    BY DEF WorkerStates
  <2>4. record # None => /\ [r EXCEPT !.pc = "token", !.copy = record] \in WorkerStates
                         /\ [r EXCEPT !.pc = "token", !.copy = record].cut = r.cut
    BY DEF WorkerStates, IInv, Base, Typed
  <2>5. \/ worker' = [worker EXCEPT ![w] = EndedWorker]
        \/ ~r.cut /\ worker' = [worker EXCEPT ![w] = [EndedWorker EXCEPT !.pc = "wait"]]
        \/ worker' = [worker EXCEPT ![w] = [r EXCEPT !.pc = "push"]]
        \/ /\ record # None
           /\ worker' = [worker EXCEPT ![w] = [r EXCEPT !.pc = "token", !.copy = record]]
    BY <2>1 DEF Sync, WorkerWakes, WorkerGivesUp, WorkerPushes, WorkerStamps, Syncable
  <2>6. PICK v \in WorkerStates : worker' = [worker EXCEPT ![w] = v] /\ (v.pc # "dead" /\ ~v.cut => ~r.cut)
    BY <2>2, <2>3, <2>4, <2>5
  <2>7. QED
    BY <2>1, <2>6 DEF IInv, Base, Typed
<1>4. /\ record' \in Records \cup {None} /\ (record = None => record' = None) /\ Longer
      /\ (Fine /\ record' = record) \/ Mishap("stale")
  <2>1. CASE UNCHANGED <<record, mishaps>>
    BY <2>1 DEF IInv, Base, Typed, Longer, Fine
  <2>2. CASE Update(worker[w].copy, worker[w].copy, worker[w].cut)
    <3>1. worker[w].copy \in Records \cup {None} /\ worker[w].cut \in BOOLEAN
      BY DEF IInv, Base, Typed, WorkerStates
    <3>2. QED
      BY <2>2, <3>1, SameAgain, MishapLonger DEF IInv, Base, Typed
  <2>3. QED
    BY <2>1, <2>2 DEF Sync, WorkerWakes, WorkerGivesUp, WorkerPushes, WorkerStamps
<1>5. Working'
  BY <1>1, <1>2, <1>3, <1>4, LoneIsWithout
     DEF Working, OneWorker, Without, IInv, Base, Typed, LoneInv, Longer
<1>6. Base' /\ (Lone' => LoneInv')
  BY <1>1, <1>4, <1>5, MachineIsKept, LayersFall
     DEF IInv, Base, Typed, OneReconciler, LoopCarries, LoneInv, OneCall, Working, Longer
<1>7. CASE Fine /\ record' = record
  <2>1. Calm' => CalmInv'
    BY <1>1, <1>7, LayersFall
       DEF IInv, Fine, CalmInv, BareIsStopped, Supervision, LoopPort, LeaveMeant, Leaves, Puts
  <2>2. Clean' => CleanInv'
    BY <1>1, <1>7, LayersFall
       DEF IInv, Fine, CleanInv, Owned, GoneIsDown, StoppedIsDown, ReadyAnswers, LoopClean, Dies,
           Puts, Reachable
  <2>3. QED
    BY <1>6, <2>1, <2>2 DEF IInv
<1>8. CASE Mishap("stale")
  BY <1>6, <1>8, StaleIsNotCalm DEF IInv
<1>9. QED
  BY <1>4, <1>7, <1>8

-----------------------------------------------------------------------------
(* Writers of the record *)

LEMMA DeleteKeeps ==
  ASSUME IInv, NEW c \in Callers, Delete(c)
  PROVE  IInv'
<1>1. Moves(c, "idle", "none", "none", None) /\ call[c].pc = "delete"
  BY BackMoves DEF Delete, IInv, Base
<1>2. UNCHANGED <<vm, guest, net, tasks, loop, workers, worker, mishaps>> /\ record' = None
  BY DEF Delete
<1>3. Longer /\ Carries(c)'
  BY <1>1, <1>2 DEF Longer, IInv, Base, Typed, Moves
<1>4. Base' /\ (Lone' => LoneInv')
  BY <1>1, <1>2, <1>3, RecordFrame
<1>5. Calm' => CalmInv'
  <2>1. SUFFICES ASSUME Calm PROVE CalmInv'
    BY <1>3, LayersFall DEF Longer
  <2>2. OthersIdle(c) /\ NoneLive
    BY <1>1, <2>1, IsKnown DEF Calm
  <2>3. \A d \in Callers : call'[d].pc = "idle"
    BY <1>1, <2>2 DEF Moves, OthersIdle
  <2>4. QED
    BY <1>2, <2>2, <2>3 DEF CalmInv, BareIsStopped, Supervision, LoopPort, LeaveMeant
<1>6. Clean' => CleanInv'
  <2>1. SUFFICES ASSUME Clean PROVE CleanInv'
    BY <1>3, LayersFall DEF Longer
  <2>2. OthersIdle(c) /\ NoneLive /\ Down /\ CleanInv
    BY <1>1, <2>1, IsKnown DEF Clean, Calm, IInv
  <2>3. \A d \in Callers : call'[d].pc = "idle"
    BY <1>1, <2>2 DEF Moves, OthersIdle
  <2>4. QED
    BY <1>2, <2>2, <2>3
       DEF CleanInv, Owned, GoneIsDown, StoppedIsDown, ReadyAnswers, LoopClean, CallClean
<1>7. QED
  BY <1>4, <1>5, <1>6 DEF IInv

\* What each phase makes of the record.
LEMMA ChangedIs ==
  ASSUME NEW copy \in Records, NEW port \in Ports \cup {None}, NEW phase \in Phases \ {"none"}
  PROVE  LET new == Changed(copy, phase, port)
         IN /\ new \in Records
            /\ phase = "run" => /\ new.intent = "Run" /\ new.status = "Starting" /\ new.port = port
                                /\ new.installed = copy.installed
            /\ phase = "stop" => /\ new.intent = "Stop" /\ new.status = copy.status
                                 /\ new.port = copy.port /\ new.installed = copy.installed
            /\ phase \in {"reset", "all"} => /\ new.intent = "Stop" /\ new.status = "Stopped"
                                             /\ new.installed = copy.installed
            /\ phase = "installed" => /\ new.intent = "Run" /\ new.status = "Ready"
                                      /\ new.port = port /\ new.installed
  BY DEF Changed, Records, Intents, Statuses

\* A command that has written goes on, unless the record is gone.
LEMMA PutMoves ==
  ASSUME IInv, NEW c \in Callers, Put(c)
  PROVE  /\ call[c].pc = "put" /\ call[c].phase \in Phases \ {"none"}
         /\ \/ Moves(c, "idle", "none", "none", None) /\ record = None
            \/ Moves(c, AfterPut(c), call[c].op, call[c].phase, call[c].port) /\
               (record = None => call[c].phase \in {"reset", "all"})
         /\ AfterPut(c) \in CallPcs \ {"insert"}
<1>1. call[c].pc = "put" /\ call[c].phase \in Phases \ {"none"}
  BY IsKnown DEF Put, Calls
<1>2. AfterPut(c) \in CallPcs \ {"insert"}
  BY <1>1 DEF AfterPut
<1>3. CASE Back(c) /\ record = None
  BY <1>1, <1>2, <1>3, BackMoves DEF IInv, Base
<1>4. CASE call' = [call EXCEPT ![c] = [@ EXCEPT !.pc = AfterPut(c), !.copy = None]]
           /\ (record = None => call[c].phase \in {"reset", "all"})
  <2>1. ASSUME NEW label \in CallPcs, call' = [call EXCEPT ![c] = [@ EXCEPT !.pc = label, !.copy = None]]
        PROVE  Moves(c, label, call[c].op, call[c].phase, call[c].port)
    <3>1. PICK r \in Calls : r = call[c]
      BY <1>1, IsKnown
    <3>2. [r EXCEPT !.pc = label, !.copy = None] \in Calls
      BY DEF Calls
    <3>3. QED
      BY <2>1, <3>1, <3>2 DEF Moves, IInv, Base, Typed, Calls
  <2>2. QED
    BY <1>1, <1>2, <1>4, <2>1 DEF Moves
<1>5. QED
  BY <1>3, <1>4 DEF Put

LEMMA PutWrites ==
  ASSUME IInv, NEW c \in Callers, Put(c)
  PROVE  /\ record' \in Records \cup {None} /\ (record = None => record' = None) /\ Longer
         /\ \/ Mishap("stale")
            \/ Fine /\ record = None /\ record' = None
            \/ Fine /\ record # None /\ record' = Changed(record, call[c].phase, call[c].port)
  <1> DEFINE me == call[c]
  <1>1. me \in Calls /\ me.phase \in Phases \ {"none"} /\ record \in Records \cup {None}
    BY PutMoves, IsKnown DEF IInv, Base, Typed
  <1>2. CASE me.copy = None
    <2>1. UNCHANGED record /\ Fine /\ record = None
      BY <1>2, IsKnown DEF Put
    <2>2. Longer
      BY <2>1, MishapLonger
    <2>3. QED
      BY <1>1, <2>1, <2>2
  <1>3. CASE me.copy # None
    BY <1>1, <1>3, ChangedIs, MishapLonger DEF Put, Update, Calls
  <1>4. QED
    BY <1>2, <1>3

LEMMA PutKeeps ==
  ASSUME IInv, NEW c \in Callers, Put(c)
  PROVE  IInv'
<1> DEFINE me == call[c]
<1>1. /\ me.pc = "put" /\ me.phase \in Phases \ {"none"} /\ AfterPut(c) \in CallPcs \ {"insert"}
      /\ me \in Calls /\ Carries(c)
  BY PutMoves, IsKnown
<1>2. UNCHANGED <<vm, guest, net, tasks, loop, workers, worker>> /\ Longer
  BY PutWrites DEF Put
<1>3. CASE Moves(c, "idle", "none", "none", None) /\ record = None
  <2>1. Carries(c)' /\ record' = None
    BY <1>3, PutWrites DEF Moves
  <2>2. Base' /\ (Lone' => LoneInv')
    BY <1>1, <1>2, <1>3, <2>1, RecordFrame
  <2>3. Calm' => CalmInv' /\ OthersIdle(c) /\ Calm
    BY <1>1, <1>2, <1>3, <2>1, LayersFall, IsKnown
       DEF Moves, OthersIdle, CalmInv, BareIsStopped, Supervision, LoopPort, LeaveMeant, Longer,
          IInv, Calm
  <2>4. Clean' => CleanInv'
    <3>1. SUFFICES ASSUME Clean, Clean' PROVE CleanInv'
      BY <1>2, LayersFall DEF Longer
    <3>2. CleanInv /\ NoneLive /\ OthersIdle(c)
      BY <1>3, <2>3, <3>1 DEF IInv, CalmInv, Clean
    <3>3. UNCHANGED <<record, vm, container, late, open, forward, loop>>
      BY <1>2, <1>3, <2>1
    <3>4. \A d \in Callers : call'[d].pc = "idle"
      BY <1>3, <3>2 DEF Moves, OthersIdle
    <3>5. QED
      BY <1>3, <3>2, <3>3, <3>4
         DEF CleanInv, Owned, GoneIsDown, StoppedIsDown, ReadyAnswers, LoopClean
  <2>5. QED
    BY <2>2, <2>3, <2>4 DEF IInv
<1>4. CASE Moves(c, AfterPut(c), me.op, me.phase, me.port) /\ (record = None => me.phase \in {"reset", "all"})
  <2>1. AfterPut(c) = CASE me.phase = "run" -> "spawn" [] me.phase = "stop" -> "sync"
                        [] me.phase = "reset" -> IF me.op = "restart" THEN "allocate" ELSE "delete"
                        [] me.phase = "all" -> "vm_off" [] me.phase = "installed" -> "starts"
    BY DEF AfterPut
  <2>2. Carries(c)'
    BY <1>1, <1>4, <2>1 DEF Moves
  <2>3. Base' /\ (Lone' => LoneInv')
    BY <1>1, <1>2, <1>4, <2>2, PutWrites, RecordFrame
  <2>4. CASE ~Calm'
    BY <2>3, <2>4 DEF IInv, Clean
  <2>5. CASE Calm'
    <3>1. Calm /\ CalmInv /\ OthersIdle(c) /\ Knows(c) /\ Fine
      BY <1>1, <1>2, <2>5, LayersFall, IsKnown, PutWrites, StaleIsNotCalm DEF Longer, IInv, Calm
    <3>2. CASE record = None /\ record' = None
      <4>1. CalmInv'
        BY <1>1, <1>2, <1>4, <2>1, <3>1, <3>2
           DEF Moves, OthersIdle, CalmInv, BareIsStopped, Supervision, LoopPort, LeaveMeant
      <4>2. Clean => CleanInv'
        BY <1>1, <1>2, <1>4, <2>1, <3>1, <3>2
           DEF IInv, Moves, OthersIdle, CleanInv, Owned, GoneIsDown, StoppedIsDown, ReadyAnswers,
              LoopClean
      <4>3. QED
        BY <1>2, <2>3, <4>1, <4>2, LayersFall DEF IInv, Longer
    <3>3. CASE record # None /\ record' = Changed(record, me.phase, me.port)
      <4> DEFINE new == Changed(record, me.phase, me.port)
      <4>1. record \in Records /\ new \in Records /\ record' = new /\ record' # None
        BY <1>1, <3>1, <3>3, ChangedIs, OrchestratorAssumption DEF Calls
      <4>2. CalmInv'
        <5>1. CASE me.phase = "run"
          BY <1>1, <1>2, <1>4, <2>1, <3>1, <3>3, <4>1, <5>1, ChangedIs
             DEF Moves, OthersIdle, CalmInv, BareIsStopped, Supervision, LoopPort, LeaveMeant, Calls
        <5>2. CASE me.phase = "stop"
          BY <1>1, <1>2, <1>4, <2>1, <3>1, <3>3, <4>1, <5>2, ChangedIs
             DEF Moves, OthersIdle, CalmInv, BareIsStopped, Supervision, LoopPort, LeaveMeant, Calls
        <5>3. CASE me.phase \in {"reset", "all"}
          BY <1>1, <1>2, <1>4, <2>1, <3>1, <3>3, <4>1, <5>3, ChangedIs
             DEF Moves, OthersIdle, CalmInv, BareIsStopped, Supervision, LoopPort, LeaveMeant, Calls
        <5>4. CASE me.phase = "installed"
          BY <1>1, <1>2, <1>4, <2>1, <3>1, <3>3, <4>1, <5>4, ChangedIs
             DEF Moves, OthersIdle, CalmInv, BareIsStopped, Supervision, LoopPort, LeaveMeant, Calls
        <5>5. QED
          BY <1>1, <5>1, <5>2, <5>3, <5>4
      <4>3. Clean => CleanInv'
        <5>1. SUFFICES ASSUME Clean PROVE CleanInv'
          OBVIOUS
        <5>2. CleanInv /\ late' = None /\ Owned' /\ (open # {} => container.state = "running")'
          BY <1>2, <5>1 DEF IInv, CleanInv, Owned
        <5>3. GoneIsDown' /\ \A d \in Callers : CallClean(d)'
          BY <1>1, <1>2, <1>4, <2>1, <3>1, <4>1, <5>1 DEF Moves, OthersIdle, GoneIsDown
        <5>4. \A l \in Loops : LoopClean(l)'
          <6>1. NoneLive \/ me.phase \in {"run", "stop"}
            BY <1>1, <3>1, <2>5 DEF Calm
          <6>2. me.phase \in {"run", "stop"} => record'.status \in {"Starting", record.status}
            BY <1>1, <4>1, ChangedIs DEF Calls
          <6>3. \A l \in Loops : LoopClean(l) /\ UNCHANGED <<vm, container, open, loop>>
            BY <1>2, <5>2 DEF CleanInv
          <6>4. QED
            BY <3>3, <6>1, <6>2, <6>3 DEF LoopClean, Dies, Puts, Reachable
        <5>5. StoppedIsDown'
          BY <1>1, <1>2, <1>4, <2>1, <3>1, <3>3, <4>1, <5>1, <5>2, ChangedIs
             DEF Moves, OthersIdle, CleanInv, StoppedIsDown, Calls
        <5>6. ReadyAnswers'
          BY <1>1, <1>2, <1>4, <2>1, <3>1, <3>3, <4>1, <5>1, <5>2, ChangedIs
             DEF Moves, OthersIdle, CleanInv, ReadyAnswers, Reachable, Calls
        <5>7. QED
          BY <5>2, <5>3, <5>4, <5>5, <5>6 DEF CleanInv
      <4>4. QED
        BY <1>2, <2>3, <4>2, <4>3, LayersFall DEF IInv, Longer
    <3>4. QED
      BY <2>5, <3>2, <3>3, PutWrites, StaleIsNotCalm
  <2>6. QED
    BY <2>4, <2>5
<1>5. QED
  BY <1>3, <1>4, PutMoves

-----------------------------------------------------------------------------
(* Commands at work on the container and its listener *)

\* The steps of this kind that may fail: the project is as it was, and so are
\* the layers that do not speak of the machine.
MachineStep == UNCHANGED <<record, late, tasks, loop, workers, worker>> /\ Longer

LEMMA MachineFrame ==
  ASSUME IInv, NEW c \in Callers, NEW pc, NEW op, NEW phase, NEW port, Moves(c, pc, op, phase, port),
         MachineStep, Machine', Brings(c)
  PROVE  Base' /\ (Lone' => LoneInv') /\ (Calm' => CalmInv')
<1>1. Working'
  BY WorkIsKept DEF MachineStep, Longer
<1>2. QED
  BY <1>1, MoveFrame DEF MachineStep

\* Where nothing has gone wrong there is no reconciler to be told of it.
LEMMA MachineClean ==
  ASSUME IInv, NEW c \in Callers, NEW pc, NEW op, NEW phase, NEW port, Moves(c, pc, op, phase, port),
         MachineStep, Clean, OthersIdle(c), NoneLive, call[c].pc # "spawn", pc # "spawn",
         Owned', open' # {} => container'.state = "running",
         record = None => Down',
         Down' \/ Builds(c)' \/ (record # None /\ record.status # "Stopped"),
         CallClean(c)'
  PROVE  CleanInv'
<1>1. late' = None /\ UNCHANGED <<record, loop>>
  BY DEF IInv, CleanInv, MachineStep
<1>2. \A d \in Callers \ {c} : call'[d].pc = "idle"
  BY DEF OthersIdle, Moves
<1>3. \A d \in Callers : CallClean(d)' /\ ~ToSpawn(d)'
  BY <1>2 DEF Moves
<1>4. QED
  BY <1>1, <1>2, <1>3 DEF CleanInv, GoneIsDown, StoppedIsDown, ReadyAnswers, LoopClean

LEMMA StopEffectStops ==
  ASSUME IInv, Succeeds(StopEffect) \/ Fails(StopEffect), UNCHANGED <<vm, late, net>>
  PROVE  Longer /\ Machine' /\ (Clean' => container'.state # "running")
<1>1. Longer /\ ("rpc" \in mishaps' \/ Fine)
  BY MishapLonger DEF Succeeds, Fails
<1>2. StopEffect => container' \in Containers /\ container'.state # "running"
                    /\ (container = NoContainer => container' = NoContainer)
  <2>1. PICK k \in Containers : k = container
    BY DEF IInv, Base, Machine
  <2>2. [k EXCEPT !.state = "exited"] \in Containers /\ [k EXCEPT !.state = "exited"].state = "exited"
    BY DEF Containers
  <2>3. QED
    BY <2>1, <2>2 DEF StopEffect, NoContainer
<1>3. container' \in Containers /\ (~vm' => container' = NoContainer)
  BY <1>2 DEF Succeeds, Fails, IInv, Base, Machine
<1>4. Clean' => container'.state # "running"
  BY <1>1, <1>2 DEF Succeeds, Fails, IInv, Base, Machine, Clean, Mishap, NoContainer
<1>5. QED
  BY <1>1, <1>3, <1>4 DEF Machine, IInv, Base

LEMMA RemoveEffectRemoves ==
  ASSUME IInv, Succeeds(RemoveEffect) \/ Fails(RemoveEffect), UNCHANGED <<vm, late, net>>
  PROVE  Longer /\ Machine' /\ (Clean' => container'.state # "running")
<1>1. Longer /\ ("rpc" \in mishaps' \/ Fine)
  BY MishapLonger DEF Succeeds, Fails
<1>2. NoContainer \in Containers /\ NoContainer.state # "running"
  BY DEF NoContainer, Containers
<1>3. container' \in Containers /\ (~vm' => container' = NoContainer)
  BY <1>2 DEF Succeeds, Fails, IInv, Base, Machine, RemoveEffect
<1>4. Clean' => container'.state # "running"
  BY <1>1, <1>2 DEF Succeeds, Fails, IInv, Base, Machine, Clean, Mishap, RemoveEffect
<1>5. QED
  BY <1>1, <1>3, <1>4 DEF Machine, IInv, Base

LEMMA StartEffectStarts ==
  ASSUME IInv, NEW p \in Ports \cup {None}, Succeeds(StartEffect(p)) \/ Fails(StartEffect(p)),
         UNCHANGED <<vm, late, net>>
  PROVE  Longer /\ Machine' /\ (Clean' /\ Succeeds(StartEffect(p)) => container'.state = "running")
         /\ (Clean' /\ ~Succeeds(StartEffect(p)) => container' = container)
<1>1. Longer /\ ("rpc" \in mishaps' \/ Fine)
  BY MishapLonger DEF Succeeds, Fails
<1>2. StartEffect(p) => container' \in Containers /\ container'.state = "running"
  BY DEF StartEffect, Started, IInv, Base, Machine, Containers
<1>3. container' \in Containers /\ (~vm' => container' = NoContainer)
  BY <1>2 DEF Succeeds, Fails, IInv, Base, Machine
<1>4. Clean' /\ ~Succeeds(StartEffect(p)) => container' = container
  BY <1>1 DEF Succeeds, Fails, Clean, Mishap
<1>5. QED
  BY <1>1, <1>2, <1>3, <1>4 DEF Machine, IInv, Base, Succeeds

\* Without an earlier listener the forwarder owns its own.
LEMMA ForwardingForwards ==
  ASSUME IInv, NEW p \in Ports, StartForwarding(p), UNCHANGED <<vm, guest>>
  PROVE  Machine' /\ (open = {} => Owned' /\ (vm \/ open' = {})) /\ (~vm => UNCHANGED net)
<1>1. CASE ~vm
  BY <1>1 DEF StartForwarding, IInv, Base, Machine, Owned
<1>2. CASE vm
  <2>1. forward' = [port |-> p, owner |-> p \notin open] /\ open' = open \cup {p}
    BY <1>2 DEF StartForwarding
  <2>2. forward' \in Forwards /\ forward'.port = p /\ (open = {} => forward'.owner)
    BY <2>1 DEF Forwards
  <2>3. forward' # None
    BY <2>2, OrchestratorAssumption
  <2>4. Machine'
    BY <2>1, <2>2 DEF IInv, Base, Machine
  <2>5. open = {} => Owned'
    BY <2>1, <2>2, <2>3 DEF Owned
  <2>6. QED
    BY <1>2, <2>4, <2>5
<1>3. QED
  BY <1>1, <1>2

LEMMA UnforwardingCloses ==
  ASSUME IInv, StopForwarding, UNCHANGED <<vm, guest>>
  PROVE  Machine' /\ (Clean => open' = {})
  BY DEF StopForwarding, IInv, Base, Machine, CleanInv, Owned

LEMMA UnforwardKeeps ==
  ASSUME IInv, NEW c \in Callers, Unforward(c)
  PROVE  IInv'
<1>1. /\ Moves(c, "rt_stop", call[c].op, call[c].phase, call[c].port) /\ call[c].pc = "unforward"
      /\ Machine' /\ (Clean => open' = {})
  BY GoMoves, UnforwardingCloses DEF Unforward, IInv, Base
<1>2. MachineStep /\ UNCHANGED <<mishaps, container>>
  BY DEF Unforward, MachineStep, Longer, IInv, Base, Typed
<1>3. Brings(c)
  BY <1>1, <1>2, IsKnown DEF Moves, MachineStep
<1>4. Base' /\ (Lone' => LoneInv') /\ (Calm' => CalmInv')
  BY <1>1, <1>2, <1>3, MachineFrame
<1>5. Clean' => CleanInv'
  <2>1. SUFFICES ASSUME Clean PROVE CleanInv'
    BY <1>2, LayersFall
  <2>2. OthersIdle(c) /\ NoneLive /\ CleanInv /\ open' = {}
    BY <1>1, <2>1, IsKnown DEF Clean, Calm, IInv
  <2>3. CallClean(c)' /\ Owned' /\ Builds(c)'
    BY <1>1, <2>2 DEF Moves, Owned
  <2>4. record = None => Down'
    BY <1>2, <2>2 DEF CleanInv, GoneIsDown
  <2>5. QED
    BY <1>1, <1>2, <2>1, <2>2, <2>3, <2>4, MachineClean
<1>6. QED
  BY <1>4, <1>5 DEF IInv

LEMMA RuntimeStopKeeps ==
  ASSUME IInv, NEW c \in Callers, RuntimeStop(c)
  PROVE  IInv'
<1>1. /\ call[c].pc = "rt_stop" /\ Machine' /\ Longer /\ (Clean' => container'.state # "running")
      /\ MachineStep /\ UNCHANGED <<vm, net>>
  BY StopEffectStops DEF RuntimeStop, MachineStep
<1>2. PICK label \in {"get", "rt_remove"}, phase \in {"all", call[c].phase} :
        /\ Moves(c, label, call[c].op, phase, call[c].port)
        /\ label = "get" <=> call[c].op = "stop_all" 
        /\ label = "get" => phase = "all"
  BY GoMoves, ToRecordMoves DEF RuntimeStop, IInv, Base
<1>3. Brings(c)
  BY <1>1, <1>2, IsKnown DEF Moves, MachineStep
<1>4. Base' /\ (Lone' => LoneInv') /\ (Calm' => CalmInv')
  BY <1>1, <1>2, <1>3, MachineFrame
<1>5. Clean' => CleanInv'
  <2>1. SUFFICES ASSUME Clean, Clean' PROVE CleanInv'
    BY <1>1, LayersFall DEF Longer
  <2>2. OthersIdle(c) /\ NoneLive /\ CleanInv /\ open = {}
    BY <1>1, <2>1, IsKnown DEF Clean, Calm, IInv
  <2>3. Down' /\ CallClean(c)' /\ Owned'
    BY <1>1, <1>2, <2>1, <2>2 DEF Moves, Owned
  <2>4. QED
    BY <1>1, <1>2, <2>1, <2>2, <2>3, MachineClean
<1>6. QED
  BY <1>4, <1>5 DEF IInv

LEMMA RuntimeRemoveKeeps ==
  ASSUME IInv, NEW c \in Callers, RuntimeRemove(c)
  PROVE  IInv'
<1>1. /\ call[c].pc = "rt_remove" /\ Machine' /\ Longer /\ (Clean' => container'.state # "running")
      /\ MachineStep /\ UNCHANGED <<vm, net>>
  BY RemoveEffectRemoves DEF RuntimeRemove, MachineStep
<1>2. \/ Moves(c, "idle", "none", "none", None) /\ call[c].op = "install"
      \/ Moves(c, "get", call[c].op, "reset", call[c].port) /\ call[c].op # "install"
  BY BackMoves, ToRecordMoves DEF RuntimeRemove, IInv, Base
<1>3. Calm => ~Installs(c) \/ record = None \/ record.intent = "Stop"
  BY IsKnown DEF IInv, CalmInv, BareIsStopped
<1>4. Brings(c)
  BY <1>1, <1>2, <1>3, IsKnown DEF Moves, MachineStep
<1>5. Base' /\ (Lone' => LoneInv') /\ (Calm' => CalmInv')
  BY <1>1, <1>2, <1>4, MachineFrame
<1>6. Clean' => CleanInv'
  <2>1. SUFFICES ASSUME Clean, Clean' PROVE CleanInv'
    BY <1>1, LayersFall DEF Longer
  <2>2. OthersIdle(c) /\ NoneLive /\ CleanInv /\ open = {}
    BY <1>1, <2>1, IsKnown DEF Clean, Calm, IInv
  <2>3. Down' /\ CallClean(c)' /\ Owned'
    BY <1>1, <1>2, <2>1, <2>2 DEF Moves, Owned
  <2>4. QED
    BY <1>1, <1>2, <2>1, <2>2, <2>3, MachineClean
<1>7. QED
  BY <1>5, <1>6 DEF IInv

LEMMA ServeKeeps ==
  ASSUME IInv, NEW c \in Callers, Serve(c)
  PROVE  IInv'
<1>1. call[c].pc = "serve" /\ MachineStep /\ UNCHANGED <<vm, net>> /\ Machine'
  BY IsKnown, StartEffectStarts DEF Serve, MachineStep, Calls
<1>2. PICK label \in {"forward", "unforward"} :
        /\ Moves(c, label, call[c].op, call[c].phase, call[c].port)
        /\ label = "forward" => Succeeds(StartEffect(call[c].port))
  BY GoMoves DEF Serve, IInv, Base
<1>3. Brings(c)
  BY <1>1, <1>2, IsKnown DEF Moves, MachineStep
<1>4. Base' /\ (Lone' => LoneInv') /\ (Calm' => CalmInv')
  BY <1>1, <1>2, <1>3, MachineFrame
<1>5. Clean' => CleanInv'
  <2>1. SUFFICES ASSUME Clean, Clean' PROVE CleanInv'
    BY <1>1, LayersFall DEF MachineStep, Longer
  <2>2. OthersIdle(c) /\ NoneLive /\ record # None /\ open' = {}
    BY <1>1, <2>1, IsKnown DEF Clean, Calm
  <2>3. label = "forward" => container'.state = "running"
    BY <1>1, <1>2, <2>1, IsKnown, StartEffectStarts DEF Serve, Calls
  <2>4. CallClean(c)' /\ Owned' /\ Builds(c)'
    BY <1>1, <1>2, <2>2, <2>3, IsKnown DEF Moves, Owned
  <2>5. QED
    BY <1>1, <1>2, <2>1, <2>2, <2>4, MachineClean
<1>6. QED
  BY <1>4, <1>5 DEF IInv

LEMMA ForwardInstallKeeps ==
  ASSUME IInv, NEW c \in Callers, ForwardInstall(c)
  PROVE  IInv'
<1>1. call[c].pc = "forward" /\ MachineStep /\ UNCHANGED <<vm, guest, mishaps>> /\ call[c].port \in Ports
  BY IsKnown DEF ForwardInstall, MachineStep, Longer, IInv, Base, Typed
<1>2. Machine' /\ (open = {} => Owned' /\ (vm \/ open' = {}))
  BY <1>1, ForwardingForwards DEF ForwardInstall
<1>3. Moves(c, "http", call[c].op, call[c].phase, call[c].port)
  BY GoMoves DEF ForwardInstall, IInv, Base
<1>4. Brings(c)
  BY <1>1, <1>3, IsKnown DEF Moves, MachineStep
<1>5. Base' /\ (Lone' => LoneInv') /\ (Calm' => CalmInv')
  BY <1>1, <1>2, <1>3, <1>4, MachineFrame
<1>6. Clean' => CleanInv'
  <2>1. SUFFICES ASSUME Clean PROVE CleanInv'
    BY <1>1, LayersFall DEF MachineStep, Longer
  <2>2. OthersIdle(c) /\ NoneLive /\ record # None /\ open = {} /\ container.state = "running"
    BY <1>1, <2>1, IsKnown DEF Clean, Calm
  <2>3. CallClean(c)' /\ Owned' /\ Builds(c)'
    BY <1>1, <1>2, <1>3, <2>2 DEF Moves
  <2>4. QED
    BY <1>1, <1>2, <1>3, <2>1, <2>2, <2>3, MachineClean
<1>7. QED
  BY <1>5, <1>6 DEF IInv

LEMMA VmOffKeeps ==
  ASSUME IInv, NEW c \in Callers, VmOff(c)
  PROVE  IInv'
<1>1. /\ Moves(c, "idle", "none", "none", None) /\ call[c].pc = "vm_off"
      /\ UNCHANGED <<record, net, tasks, loop, workers, worker, mishaps>>
      /\ container' = NoContainer /\ late' = None /\ vm' = FALSE
  BY BackMoves DEF VmOff, IInv, Base
<1>2. Machine' /\ Longer
  BY <1>1 DEF Machine, NoContainer, Containers, IInv, Base, Typed, Longer
<1>3. Working'
  BY <1>1, WorkIsKept
<1>4. Brings(c)
  BY <1>1, IsKnown DEF Moves
<1>5. Base' /\ (Lone' => LoneInv') /\ (Calm' => CalmInv')
  BY <1>1, <1>2, <1>3, <1>4, MoveFrame
<1>6. Clean' => CleanInv'
  <2>1. SUFFICES ASSUME Clean PROVE CleanInv'
    BY <1>2, LayersFall DEF Longer
  <2>2. OthersIdle(c) /\ NoneLive /\ CleanInv /\ open = {}
    BY <1>1, <2>1, IsKnown DEF Clean, Calm, IInv
  <2>3. MachineStep
    BY <1>1, <1>2, <2>2 DEF MachineStep, CleanInv
  <2>4. Down' /\ CallClean(c)' /\ Owned'
    BY <1>1, <2>2 DEF Moves, Owned, NoContainer
  <2>5. QED
    BY <1>1, <2>1, <2>2, <2>3, <2>4, MachineClean
<1>7. QED
  BY <1>5, <1>6 DEF IInv

-----------------------------------------------------------------------------
(* Commands that end a reconciler or put one in its place *)

\* The reconciler that is aborted writes what it is writing, and no more.
LEMMA CutIsCut ==
  ASSUME IInv, NEW l \in Loops
  PROVE  /\ CutLoop(l) \in LoopStates
         /\ CutLoop(l).pc = "dead" \/ CutLoop(l).cut
         /\ CutLoop(l).pc = "dead" \/ (CutLoop(l).pc = loop[l].pc /\ CutLoop(l).port = loop[l].port
                                       /\ CutLoop(l).copy = loop[l].copy)
<1>1. PICK r \in LoopStates : r = loop[l]
  BY DEF IInv, Base, Typed
<1>2. CutLoop(l) \in {Ended, [r EXCEPT !.cut = TRUE]}
  BY <1>1 DEF CutLoop
<1>3. /\ Ended \in LoopStates /\ Ended.pc = "dead"
      /\ [r EXCEPT !.cut = TRUE] \in LoopStates /\ [r EXCEPT !.cut = TRUE].cut
      /\ [r EXCEPT !.cut = TRUE].pc = r.pc /\ [r EXCEPT !.cut = TRUE].port = r.port
      /\ [r EXCEPT !.cut = TRUE].copy = r.copy
  BY DEF Ended, LoopStates, LoopPcs, Statuses
<1>4. QED
  BY <1>1, <1>2, <1>3

\* No reconciler lives but l, if any.
Only(l) == \A k \in Loops \ {l} : ~Live(k)'

LEMMA AbortEndsAll ==
  ASSUME IInv, AbortLoop
  PROVE  /\ tasks' = None /\ loop' \in [Loops -> LoopStates] /\ \A k \in Loops : ~Live(k)'
         /\ \A k \in Loops : loop'[k].pc = "dead" \/
              (loop'[k].pc = loop[k].pc /\ loop'[k].port = loop[k].port /\ loop'[k].copy = loop[k].copy)
         /\ late' \in Ports \cup {None} /\ Longer /\ (Clean' => late' = late)
<1>1. tasks' = None
  BY DEF AbortLoop
<1>2. \A k \in Loops : Live(k) => tasks = k
  BY DEF IInv, Base, OneReconciler
<1>3. CASE tasks = None
  BY <1>1, <1>2, <1>3, MishapLonger, OrchestratorAssumption DEF AbortLoop, IInv, Base, Typed,
     Machine
<1>4. CASE tasks # None
  <2>1. tasks \in Loops /\ loop' = [loop EXCEPT ![tasks] = CutLoop(tasks)]
    BY <1>4 DEF AbortLoop, IInv, Base, Typed
  <2>2. /\ loop' \in [Loops -> LoopStates] /\ loop'[tasks] = CutLoop(tasks)
        /\ \A k \in Loops \ {tasks} : loop'[k] = loop[k]
    BY <2>1, CutIsCut DEF IInv, Base, Typed
  <2>3. (UNCHANGED late /\ Fine) \/ (late' = loop[tasks].port /\ Mishap("late"))
    BY <1>4 DEF AbortLoop
  <2>4. late' \in Ports \cup {None} /\ Longer /\ (Clean' => late' = late)
    BY <2>1, <2>3, MishapLonger DEF IInv, Base, Typed, Machine, LoopStates, Clean, Mishap
  <2>5. QED
    BY <1>1, <1>2, <2>1, <2>2, <2>4, CutIsCut
<1>5. QED
  BY <1>3, <1>4

LEMMA AbortKeeps ==
  ASSUME IInv, NEW c \in Callers, Abort(c)
  PROVE  IInv'
<1>1. /\ tasks' = None /\ loop' \in [Loops -> LoopStates] /\ \A k \in Loops : ~Live(k)'
      /\ \A k \in Loops : loop'[k].pc = "dead" \/
           (loop'[k].pc = loop[k].pc /\ loop'[k].port = loop[k].port /\ loop'[k].copy = loop[k].copy)
      /\ late' \in Ports \cup {None} /\ Longer /\ (Clean' => late' = late)
  BY AbortEndsAll DEF Abort
<1>2. UNCHANGED <<record, vm, container, net, workers, worker>> /\ call[c].pc = "abort"
  BY DEF Abort
<1>3. PICK label \in {"vm_off", "unforward"} :
        /\ Moves(c, label, call[c].op, call[c].phase, call[c].port)
        /\ label = "vm_off" => record = None
  BY GoMoves DEF Abort, IInv, Base
<1>4. Carries(c)' /\ (Lone => OthersIdle(c))
  BY <1>2, <1>3, IsKnown DEF Moves
<1>5. Working'
  BY <1>1, <1>2, WorkIsKept DEF Longer
<1>6. Base'
  BY <1>1, <1>2, <1>3, <1>4, <1>5
     DEF IInv, Base, Machine, Typed, OneReconciler, LoopCarries, Moves, Working, Longer
<1>7. Lone' => LoneInv'
  BY <1>1, <1>2, <1>3, <1>4, <1>5, LayersFall DEF IInv, LoneInv, OneCall, OthersIdle, Moves,
     Working, Longer
<1>8. Calm' => CalmInv'
  <2>1. SUFFICES ASSUME Calm PROVE CalmInv'
    BY <1>1, LayersFall DEF Longer
  <2>2. CalmInv /\ OthersIdle(c) /\ Knows(c)
    BY <1>4, <2>1, IsKnown DEF IInv, Calm
  <2>3. QED
    BY <1>1, <1>2, <1>3, <2>1, <2>2
       DEF CalmInv, BareIsStopped, Supervision, LoopPort, LeaveMeant, Moves, OthersIdle
<1>9. Clean' => CleanInv'
  <2>1. SUFFICES ASSUME Clean, Clean' PROVE CleanInv'
    BY <1>1, LayersFall DEF Longer
  <2>2. CleanInv /\ OthersIdle(c) /\ UNCHANGED <<record, vm, container, late, open, forward>>
    BY <1>1, <1>2, <1>4, <2>1 DEF IInv, Clean, Calm
  <2>3. \A d \in Callers : CallClean(d)'
    BY <1>3, <2>2 DEF CleanInv, GoneIsDown, Moves, OthersIdle
  <2>4. StoppedIsDown' /\ ReadyAnswers'
    BY <1>1, <1>3, <2>2 DEF StoppedIsDown, ReadyAnswers, Moves, OthersIdle
  <2>5. QED
    BY <1>1, <2>2, <2>3, <2>4 DEF CleanInv, Owned, GoneIsDown, LoopClean
<1>10. QED
  BY <1>6, <1>7, <1>8, <1>9 DEF IInv

Fresh(p) == [Ended EXCEPT !.pc = "sleep", !.port = p]

LEMMA FreshIsFresh ==
  ASSUME NEW p \in Ports
  PROVE  /\ Fresh(p) \in LoopStates /\ Fresh(p).pc = "sleep" /\ Fresh(p).port = p
         /\ Fresh(p).prev = "Starting" /\ ~Fresh(p).cut
  BY DEF Fresh, Ended, LoopStates, LoopPcs, Statuses

LEMMA SpawnReplaces ==
  ASSUME IInv, NEW p \in Ports, SpawnReconciler(p)
  PROVE  \E l \in Loops :
           /\ tasks' = l /\ loop' \in [Loops -> LoopStates] /\ loop'[l] = Fresh(p) /\ Only(l)
           /\ \A k \in Loops \ {l} : loop'[k].pc = "dead" \/
                (loop'[k].pc = loop[k].pc /\ loop'[k].port = loop[k].port /\ loop'[k].copy = loop[k].copy)
           /\ late' \in Ports \cup {None} /\ Longer /\ (Clean' => late' = late)
<1>1. PICK l \in Loops :
        /\ loop[l].pc = "dead" /\ tasks' = l
        /\ \/ tasks = None /\ loop' = [loop EXCEPT ![l] = Fresh(p)] /\ UNCHANGED late /\ Fine
           \/ /\ tasks # None /\ loop' = [loop EXCEPT ![tasks] = CutLoop(tasks), ![l] = Fresh(p)]
              /\ (UNCHANGED late /\ Fine) \/ (late' = loop[tasks].port /\ Mishap("late"))
  BY DEF SpawnReconciler, Fresh
<1>2. \A k \in Loops : Live(k) => tasks = k
  BY DEF IInv, Base, OneReconciler
<1>3. Fresh(p) \in LoopStates
  BY FreshIsFresh
<1>4. CASE tasks = None
  <2>1. /\ loop' \in [Loops -> LoopStates] /\ loop'[l] = Fresh(p)
        /\ \A k \in Loops \ {l} : loop'[k] = loop[k]
    BY <1>1, <1>3, <1>4 DEF IInv, Base, Typed
  <2>2. QED
    BY <1>1, <1>2, <1>4, <2>1, MishapLonger, OrchestratorAssumption DEF Only, IInv, Base, Machine
<1>5. CASE tasks # None
  <2>1. tasks \in Loops /\ CutLoop(tasks) \in LoopStates
    BY <1>5, CutIsCut DEF IInv, Base, Typed
  <2>2. /\ loop' \in [Loops -> LoopStates] /\ loop'[l] = Fresh(p)
        /\ tasks # l => loop'[tasks] = CutLoop(tasks)
        /\ \A k \in Loops \ {l, tasks} : loop'[k] = loop[k]
    BY <1>1, <1>3, <1>5, <2>1 DEF IInv, Base, Typed
  <2>3. (UNCHANGED late /\ Fine) \/ (late' = loop[tasks].port /\ Mishap("late"))
    BY <1>1, <1>5
  <2>4. late' \in Ports \cup {None} /\ Longer /\ (Clean' => late' = late)
    BY <2>1, <2>3, MishapLonger DEF IInv, Base, Typed, Machine, LoopStates, Clean, Mishap
  <2>5. QED
    BY <1>1, <1>2, <2>1, <2>2, <2>4, CutIsCut DEF Only
<1>6. QED
  BY <1>4, <1>5

LEMMA SpawnKeeps ==
  ASSUME IInv, NEW c \in Callers, Spawn(c)
  PROVE  IInv'
<1>1. call[c].port \in Ports /\ call[c].pc = "spawn" /\ SpawnReconciler(call[c].port)
  BY IsKnown DEF Spawn
<1>2. PICK l \in Loops :
        /\ tasks' = l /\ loop' \in [Loops -> LoopStates] /\ loop'[l] = Fresh(call[c].port) /\ Only(l)
        /\ \A k \in Loops \ {l} : loop'[k].pc = "dead" \/
             (loop'[k].pc = loop[k].pc /\ loop'[k].port = loop[k].port /\ loop'[k].copy = loop[k].copy)
        /\ late' \in Ports \cup {None} /\ Longer /\ (Clean' => late' = late)
  BY <1>1, SpawnReplaces
<1>3. /\ loop'[l].pc = "sleep" /\ loop'[l].port = call[c].port /\ loop'[l].prev = "Starting"
      /\ ~loop'[l].cut
  BY <1>1, <1>2, FreshIsFresh
<1>4. UNCHANGED <<record, vm, container, net, workers, worker>>
  BY DEF Spawn
<1>5. Moves(c, "periodic", call[c].op, call[c].phase, call[c].port)
  BY GoMoves DEF Spawn, IInv, Base
<1>6. Carries(c)' /\ (Lone => OthersIdle(c)) /\ Working'
  BY <1>1, <1>2, <1>4, <1>5, IsKnown, WorkIsKept DEF Moves, Longer
<1>7. Base'
  BY <1>1, <1>2, <1>3, <1>4, <1>5, <1>6
     DEF IInv, Base, Machine, Typed, OneReconciler, LoopCarries, Moves, Working, Longer, Only
<1>8. Lone' => LoneInv'
  BY <1>1, <1>2, <1>5, <1>6, LayersFall DEF IInv, LoneInv, OneCall, OthersIdle, Moves, Working,
     Longer
<1>9. Calm' => CalmInv'
  <2>1. SUFFICES ASSUME Calm PROVE CalmInv'
    BY <1>2, LayersFall DEF Longer
  <2>2. CalmInv /\ OthersIdle(c) /\ record # None /\ record.port = call[c].port /\ record.installed
    BY <1>1, <1>6, <2>1, IsKnown DEF IInv, Calm
  <2>3. \A d \in Callers : call'[d].pc \in {"idle", "periodic"}
    BY <1>5, <2>2 DEF Moves, OthersIdle
  <2>4. QED
    BY <1>2, <1>3, <1>4, <2>2, <2>3
       DEF CalmInv, BareIsStopped, Supervision, LoopPort, LeaveMeant, Leaves, Puts, Only
<1>10. Clean' => CleanInv'
  <2>1. SUFFICES ASSUME Clean, Clean' PROVE CleanInv'
    BY <1>2, LayersFall DEF Longer
  <2>2. CleanInv /\ OthersIdle(c) /\ record # None
        /\ UNCHANGED <<record, vm, container, late, open, forward>>
    BY <1>1, <1>2, <1>4, <1>6, <2>1, IsKnown DEF IInv, Clean, Calm
  <2>3. \A d \in Callers : call'[d].pc \in {"idle", "periodic"}
    BY <1>5, <2>2 DEF Moves, OthersIdle
  <2>4. \A k \in Loops : LoopClean(k)'
    BY <1>2, <1>3 DEF LoopClean, Puts, Dies, Only
  <2>5. StoppedIsDown' /\ ReadyAnswers'
    BY <1>1, <1>3, <2>2 DEF CleanInv, StoppedIsDown, ReadyAnswers, Reachable
  <2>6. QED
    BY <2>2, <2>3, <2>4, <2>5 DEF CleanInv, Owned, GoneIsDown
<1>11. QED
  BY <1>7, <1>8, <1>9, <1>10 DEF IInv


-----------------------------------------------------------------------------
(* The reconciler *)

\* A step of a reconciler: where it goes, and what it keeps.
Turns(l, pc, prev, goal, then) ==
  /\ loop' \in [Loops -> LoopStates] /\ \A k \in Loops \ {l} : loop'[k] = loop[k]
  /\ loop'[l].pc = pc
  /\ loop'[l].prev = prev /\ loop'[l].goal = goal /\ loop'[l].then = then
  /\ pc # "dead" => loop'[l].port = loop[l].port /\ loop'[l].cut = loop[l].cut

LEMMA GoesTurns ==
  ASSUME Typed, NEW l \in Loops, NEW label \in LoopPcs, LoopGoes(l, label)
  PROVE  Turns(l, label, loop[l].prev, loop[l].goal, loop[l].then)
<1>1. PICK r \in LoopStates : r = loop[l]
  BY DEF Typed
<1>2. [r EXCEPT !.pc = label] \in LoopStates
  BY DEF LoopStates
<1>3. QED
  BY <1>1, <1>2 DEF LoopGoes, Turns, Typed, LoopStates

LEMMA PersistTurns ==
  ASSUME Typed, NEW l \in Loops, NEW status \in Statuses, NEW then \in {"dead", "sleep", "teardown"},
         Persist(l, status, then)
  PROVE  Turns(l, "get", loop[l].prev, status, then)
<1>1. PICK r \in LoopStates : r = loop[l]
  BY DEF Typed
<1>2. [r EXCEPT !.pc = "get", !.goal = status, !.then = then] \in LoopStates
  BY DEF LoopStates, LoopPcs
<1>3. QED
  BY <1>1, <1>2 DEF Persist, Turns, Typed, LoopStates

LEMMA PersistIfNewTurns ==
  ASSUME Typed, NEW l \in Loops, NEW status \in Statuses, PersistIfNew(l, status)
  PROVE  \/ Turns(l, "sleep", loop[l].prev, loop[l].goal, loop[l].then)
         \/ status # loop[l].prev /\ Turns(l, "get", loop[l].prev, status, "sleep")
  BY GoesTurns, PersistTurns DEF PersistIfNew, LoopPcs

LEMMA EndedIsDead ==
  /\ Ended \in LoopStates /\ Ended.pc = "dead" /\ Ended.prev = "Starting"
  /\ Ended.goal = "Starting" /\ Ended.then = "dead"
  BY DEF Ended, LoopStates, LoopPcs, Statuses

LEMMA EndsTurns ==
  ASSUME Typed, NEW l \in Loops, LoopEnds(l)
  PROVE  Turns(l, "dead", "Starting", "Starting", "dead")
  BY EndedIsDead DEF LoopEnds, Turns, Typed

\* A reconciler does not end while there is a record, nor leave without a stop.
Stays(l) ==
  /\ loop[l].pc # "dead"
  /\ loop'[l].pc = "put" => loop'[l].copy = record
  /\ Calm /\ Live(l) => Live(l)' /\ (Leaves(l)' => Leaves(l) \/ record = None \/ record.intent = "Stop")
LoopStep == UNCHANGED <<record, tasks, workers, worker, call>> /\ Longer

LEMMA LoopFrame ==
  ASSUME IInv, NEW l \in Loops, NEW pc, NEW prev, NEW goal, NEW then, Turns(l, pc, prev, goal, then),
         LoopStep, Machine', Stays(l)
  PROVE  /\ Base' /\ (Lone' => LoneInv') /\ (Calm' => CalmInv')
         /\ Calm => \A k \in Loops : Live(k)' <=> Live(k)
<1>1. Working'
  BY WorkIsKept DEF LoopStep, Longer
<1>2. UNCHANGED <<record, tasks, call>> /\ \A k \in Loops \ {l} : loop'[k] = loop[k]
  BY DEF LoopStep, Turns
<1>3. Live(l)' => Live(l)
  BY DEF Turns, Stays
<1>4. LoopCarries(l)'
  BY <1>2 DEF IInv, Base, LoopCarries, Turns, Stays
<1>5. Base'
  BY <1>1, <1>2, <1>3, <1>4
     DEF IInv, Base, Typed, OneReconciler, LoopCarries, Turns, Working, LoopStep, Longer
<1>6. Lone' => LoneInv'
  BY <1>1, <1>2, LayersFall DEF IInv, LoneInv, OneCall, Working, LoopStep, Longer
<1>7. Calm => \A k \in Loops : Live(k)' <=> Live(k)
  BY <1>2, <1>3 DEF Stays
<1>8. Calm' => CalmInv'
  <2>1. SUFFICES ASSUME Calm PROVE CalmInv'
    BY LayersFall DEF LoopStep, Longer
  <2>2. CalmInv /\ (NoneLive' <=> NoneLive) /\ (Live(l)' => loop'[l].port = loop[l].port)
    BY <1>7, <2>1 DEF IInv, Turns
  <2>3. \A k \in Loops : LoopPort(k)' /\ LeaveMeant(k)'
    BY <1>2, <1>3, <2>1, <2>2 DEF CalmInv, LoopPort, LeaveMeant, Leaves, Puts, Stays
  <2>4. QED
    BY <1>2, <2>2, <2>3 DEF CalmInv, BareIsStopped, Supervision
<1>9. QED
  BY <1>5, <1>6, <1>7, <1>8

\* While one lives no command works on the container: what it left is its own.
LEMMA LoopIsAlone ==
  ASSUME IInv, Calm, NEW l \in Loops, Live(l)
  PROVE  /\ \A k \in Loops \ {l} : ~Live(k)
         /\ \A c \in Callers : ~Unlooped(c)
         /\ record # None /\ record.installed /\ loop[l].port = record.port
  BY DEF IInv, Base, OneReconciler, CalmInv, BareIsStopped, LoopPort

LEMMA LoopCleanFrame ==
  ASSUME IInv, Clean, NEW l \in Loops, NEW pc, NEW prev, NEW goal, NEW then,
         Turns(l, pc, prev, goal, then), LoopStep, UNCHANGED late, Stays(l), Live(l), Live(l)',
         Owned', open' # {} => container'.state = "running",
         record.status = "Ready" => Reachable(record.port)', LoopClean(l)'
  PROVE  CleanInv'
<1>1. /\ UNCHANGED <<record, call, late>> /\ \A k \in Loops \ {l} : loop'[k] = loop[k]
      /\ CleanInv
  BY DEF LoopStep, Turns, IInv
<1>2. /\ \A k \in Loops \ {l} : ~Live(k)
      /\ \A c \in Callers : ~Unlooped(c)
      /\ record # None
  BY LoopIsAlone DEF Clean
<1>3. \A c \in Callers : CallClean(c)'
  BY <1>1, <1>2
<1>4. \A k \in Loops : LoopClean(k)'
  BY <1>1, <1>2 DEF LoopClean
<1>5. StoppedIsDown' /\ ReadyAnswers' /\ GoneIsDown'
  BY <1>1, <1>2 DEF StoppedIsDown, ReadyAnswers, GoneIsDown
<1>6. QED
  BY <1>1, <1>3, <1>4, <1>5 DEF CleanInv

\* Steps that only look at the container.
Looks == LoopStep /\ UNCHANGED <<vm, guest, net>>

LEMMA LooksKeep ==
  ASSUME IInv, NEW l \in Loops, NEW pc, NEW prev, NEW goal, NEW then, Turns(l, pc, prev, goal, then),
         Looks, Stays(l), Clean /\ Clean' /\ Live(l) => LoopClean(l)'
  PROVE  IInv'
<1>1. /\ Base' /\ (Lone' => LoneInv') /\ (Calm' => CalmInv')
      /\ Calm => \A k \in Loops : Live(k)' <=> Live(k)
  BY LoopFrame, MachineIsKept DEF Looks
<1>2. Clean' => CleanInv'
  <2>1. SUFFICES ASSUME Clean, Clean' PROVE CleanInv'
    BY LayersFall DEF Looks, LoopStep, Longer
  <2>2. /\ UNCHANGED <<record, vm, container, late, open, forward, call>>
        /\ \A k \in Loops \ {l} : loop'[k] = loop[k]
        /\ CleanInv /\ \A k \in Loops : Live(k)' <=> Live(k)
    BY <1>1, <2>1 DEF Looks, LoopStep, IInv, Clean, Turns
  <2>3. \A k \in Loops : LoopClean(k)'
    BY <2>1, <2>2 DEF CleanInv, LoopClean, Puts, Dies, Reachable
  <2>4. QED
    BY <2>2, <2>3 DEF CleanInv, Owned, GoneIsDown, StoppedIsDown, ReadyAnswers, Reachable
<1>3. QED
  BY <1>1, <1>2 DEF IInv

LEMMA LoopIsTyped ==
  ASSUME IInv, NEW l \in Loops
  PROVE  loop[l] \in LoopStates /\ (Clean => LoopClean(l))
  BY DEF IInv, Base, Typed, CleanInv

LEMMA TickKeeps ==
  ASSUME IInv, NEW l \in Loops, Tick(l)
  PROVE  IInv'
<1>1. Looks /\ loop[l].pc = "sleep" /\ Live(l)
  BY DEF Tick, Looks, LoopStep, LoopAt, Longer, IInv, Base, Typed
<1>2. CASE record = None /\ LoopEnds(l)
  <2>1. Turns(l, "dead", "Starting", "Starting", "dead") /\ ~Calm
    BY <1>1, <1>2, EndsTurns DEF IInv, Base, CalmInv
  <2>2. Stays(l)
    BY <1>1, <2>1 DEF Stays, Turns
  <2>3. QED
    BY <1>1, <2>1, <2>2, LooksKeep DEF Clean
<1>3. CASE LoopGoes(l, "observe")
  <2>1. Turns(l, "observe", loop[l].prev, loop[l].goal, loop[l].then)
    BY <1>3, GoesTurns DEF IInv, Base, LoopPcs
  <2>2. Stays(l) /\ (Clean => LoopClean(l)')
    BY <1>1, <2>1, LoopIsTyped DEF Stays, Turns, Leaves, Puts, LoopClean, Dies
  <2>3. QED
    BY <1>1, <2>1, <2>2, LooksKeep
<1>4. CASE record # None /\ record.intent = "Stop" /\ loop[l].prev = "Stopping" /\ LoopGoes(l, "teardown")
  <2>1. Turns(l, "teardown", loop[l].prev, loop[l].goal, loop[l].then)
    BY <1>4, GoesTurns DEF IInv, Base, LoopPcs
  <2>2. Stays(l) /\ ~Clean
    BY <1>1, <1>4, <2>1, LoopIsTyped DEF Stays, Turns, LoopClean
  <2>3. QED
    BY <1>1, <2>1, <2>2, LooksKeep
<1>5. CASE record # None /\ record.intent = "Stop" /\ Persist(l, "Stopping", "teardown")
  <2>1. Turns(l, "get", loop[l].prev, "Stopping", "teardown")
    BY <1>5, PersistTurns DEF IInv, Base, Statuses
  <2>2. Stays(l) /\ (Clean => LoopClean(l)')
    BY <1>1, <1>5, <2>1, LoopIsTyped DEF Stays, Turns, LoopClean, Puts, Dies
  <2>3. QED
    BY <1>1, <2>1, <2>2, LooksKeep
<1>6. QED
  BY <1>2, <1>3, <1>4, <1>5, <1>1 DEF Tick

\* A status that is seen: it is new to the reconciler, or nothing is written.
LEMMA SeenKeeps ==
  ASSUME IInv, NEW l \in Loops, Live(l), Looks, NEW status \in Statuses, PersistIfNew(l, status),
         Clean /\ status # loop[l].prev =>
           status \notin {"Stopped", "Stopping"} /\ (status = "Ready" => Reachable(loop[l].port))
  PROVE  IInv'
<1>1. CASE Turns(l, "sleep", loop[l].prev, loop[l].goal, loop[l].then)
  <2>1. Stays(l) /\ (Clean => LoopClean(l)')
    BY <1>1, LoopIsTyped DEF Stays, Turns, Leaves, Puts, LoopClean, Dies
  <2>2. QED
    BY <1>1, <2>1, LooksKeep
<1>2. CASE status # loop[l].prev /\ Turns(l, "get", loop[l].prev, status, "sleep")
  <2>1. UNCHANGED <<vm, container, open>>
    BY DEF Looks
  <2>2. Stays(l) /\ (Clean => LoopClean(l)')
    BY <1>2, <2>1, LoopIsTyped DEF Stays, Turns, Leaves, Puts, LoopClean, Dies, Reachable
  <2>3. QED
    BY <1>2, <2>2, LooksKeep
<1>3. QED
  BY <1>1, <1>2, PersistIfNewTurns DEF IInv, Base

LEMMA SeesWhatIs ==
  ASSUME IInv, NEW running \in BOOLEAN, Sees(running)
  PROVE  Longer /\ (Clean' => Fine /\ (running <=> vm /\ container.state = "running"))
<1>1. Longer /\ ("rpc" \in mishaps' \/ Fine)
  BY MishapLonger DEF Sees
<1>2. (Fine /\ (running <=> vm /\ container.state = "running")) \/ Mishap("rpc")
  BY DEF Sees
<1>3. QED
  BY <1>1, <1>2 DEF Clean, Mishap

LEMMA ObserveKeeps ==
  ASSUME IInv, NEW l \in Loops, Observe(l)
  PROVE  IInv'
<1>1. /\ UNCHANGED <<record, vm, guest, net, tasks, workers, worker, call>>
      /\ loop[l].pc = "observe" /\ Live(l)
  BY DEF Observe, LoopAt
<1>2. CASE PersistIfNew(l, "WaitingForVm") /\ Fine
  <2>1. Looks
    BY <1>1, <1>2 DEF Looks, LoopStep, Longer, Fine, IInv, Base, Typed
  <2>2. QED
    BY <1>1, <1>2, <2>1, SeenKeeps DEF Statuses
<1>3. ASSUME NEW running \in BOOLEAN, Sees(running), vm,
             \/ ~running /\ LoopGoes(l, "start")
             \/ loop' = [loop EXCEPT ![l] = [@ EXCEPT !.pc = "probe", !.seen = running]]
      PROVE  IInv'
  <2>1. Looks /\ (Clean' => (running <=> container.state = "running"))
    BY <1>1, <1>3, SeesWhatIs DEF Looks, LoopStep
  <2>2. CASE ~running /\ LoopGoes(l, "start")
    <3>1. Turns(l, "start", loop[l].prev, loop[l].goal, loop[l].then)
      BY <2>2, GoesTurns DEF IInv, Base, LoopPcs
    <3>2. Stays(l) /\ (Clean /\ Clean' => LoopClean(l)')
      BY <1>1, <2>1, <2>2, <3>1, LoopIsTyped DEF Stays, Turns, Leaves, Puts, LoopClean, Dies, Looks
    <3>3. QED
      BY <2>1, <3>1, <3>2, LooksKeep
  <2>3. CASE loop' = [loop EXCEPT ![l] = [@ EXCEPT !.pc = "probe", !.seen = running]]
    <3>1. PICK r \in LoopStates : r = loop[l]
      BY LoopIsTyped
    <3>2. [r EXCEPT !.pc = "probe", !.seen = running] \in LoopStates
      BY DEF LoopStates, LoopPcs
    <3>3. Turns(l, "probe", loop[l].prev, loop[l].goal, loop[l].then)
      BY <2>3, <3>1, <3>2 DEF Turns, LoopStates, IInv, Base, Typed
    <3>4. Stays(l) /\ (Clean => LoopClean(l)')
      BY <1>1, <3>3, LoopIsTyped DEF Stays, Turns, Leaves, Puts, LoopClean, Dies
    <3>5. QED
      BY <2>1, <3>3, <3>4, LooksKeep
  <2>4. QED
    BY <1>3, <2>2, <2>3
<1>4. QED
  BY <1>2, <1>3 DEF Observe

LEMMA ProbeKeeps ==
  ASSUME IInv, NEW l \in Loops, Probe(l)
  PROVE  IInv'
<1>1. Looks /\ loop[l].pc = "probe" /\ Live(l)
  BY DEF Probe, Looks, LoopStep, LoopAt, Longer, IInv, Base, Typed
<1>2. PICK http \in BOOLEAN :
        /\ http => Reachable(loop[l].port)
        /\ PersistIfNew(l, DeriveStatus(loop[l].prev, loop[l].seen, http))
  BY DEF Probe
<1> DEFINE status == DeriveStatus(loop[l].prev, loop[l].seen, http)
<1>3. /\ status \in Statuses
      /\ status # loop[l].prev => status \in {"Failed", "Ready", "Degraded", "Running"}
      /\ status = "Ready" /\ status # loop[l].prev => http
  BY LoopIsTyped DEF DeriveStatus, Statuses, LoopStates
<1> HIDE DEF status
<1>4. QED
  BY <1>1, <1>2, <1>3, SeenKeeps DEF status

LEMMA TryStartContainerKeeps ==
  ASSUME IInv, NEW l \in Loops, TryStartContainer(l)
  PROVE  IInv'
<1>1. /\ UNCHANGED <<record, vm, late, net, tasks, workers, worker, call>>
      /\ loop[l].pc = "start" /\ Live(l) /\ loop[l].port \in Ports \cup {None}
  BY LoopIsTyped DEF TryStartContainer, LoopAt, LoopStates
<1>2. LoopStep /\ Machine'
  BY <1>1, StartEffectStarts DEF TryStartContainer, LoopStep
<1>3. CASE Succeeds(StartEffect(loop[l].port)) /\ LoopGoes(l, "forward")
  <2>1. Turns(l, "forward", loop[l].prev, loop[l].goal, loop[l].then)
    BY <1>3, GoesTurns DEF IInv, Base, LoopPcs
  <2>2. Stays(l) /\ Live(l)'
    BY <1>1, <2>1 DEF Stays, Turns, Leaves, Puts
  <2>3. Clean' => CleanInv'
    <3>1. SUFFICES ASSUME Clean, Clean' PROVE CleanInv'
      BY <1>2, LayersFall DEF LoopStep, Longer
    <3>2. container'.state = "running"
      BY <1>1, <1>3, <3>1, StartEffectStarts
    <3>3. open = {} /\ (record # None => record.status # "Ready")
      BY <1>1, <3>1 DEF IInv, CleanInv, LoopClean, ReadyAnswers, Reachable
    <3>4. record # None
      BY <1>1, <3>1, LoopIsAlone DEF Clean
    <3>5. LoopClean(l)' /\ Owned'
      BY <1>1, <2>1, <3>1, <3>2, <3>3, LoopIsTyped DEF LoopClean, Turns, Puts, Dies, Owned
    <3>6. QED
      BY <1>1, <1>2, <2>1, <2>2, <3>1, <3>2, <3>3, <3>4, <3>5, LoopCleanFrame
  <2>4. QED
    BY <1>2, <2>1, <2>2, <2>3, LoopFrame DEF IInv
<1>4. CASE Fails(StartEffect(loop[l].port)) /\ Persist(l, "Failed", "sleep")
  <2>1. Turns(l, "get", loop[l].prev, "Failed", "sleep")
    BY <1>4, PersistTurns DEF IInv, Base, Statuses
  <2>2. Stays(l) /\ Live(l)'
    BY <1>1, <2>1 DEF Stays, Turns, Leaves, Puts
  <2>3. Clean' => CleanInv'
    <3>1. SUFFICES ASSUME Clean, Clean' PROVE CleanInv'
      BY <1>2, LayersFall DEF LoopStep, Longer
    <3>2. open = {} /\ (record # None => record.status # "Ready")
      BY <1>1, <3>1 DEF IInv, CleanInv, LoopClean, ReadyAnswers, Reachable
    <3>3. record # None
      BY <1>1, <3>1, LoopIsAlone DEF Clean
    <3>4. LoopClean(l)' /\ Owned'
      BY <1>1, <2>1, <3>1, <3>2, LoopIsTyped DEF LoopClean, Turns, Puts, Dies, Owned
    <3>5. QED
      BY <1>1, <1>2, <2>1, <2>2, <3>1, <3>2, <3>3, <3>4, LoopCleanFrame
  <2>4. QED
    BY <1>2, <2>1, <2>2, <2>3, LoopFrame DEF IInv
<1>5. QED
  BY <1>3, <1>4 DEF TryStartContainer

LEMMA LoopForwardsKeeps ==
  ASSUME IInv, NEW l \in Loops, LoopForwards(l)
  PROVE  IInv'
<1>1. /\ UNCHANGED <<record, vm, guest, tasks, workers, worker, call, mishaps>>
      /\ loop[l].pc = "forward" /\ Live(l) /\ loop[l].port \in Ports
      /\ StartForwarding(loop[l].port) /\ Persist(l, "Running", "sleep")
  BY DEF LoopForwards, LoopAt, IInv, Base, LoopCarries
<1>2. LoopStep /\ Machine' /\ (open = {} => Owned' /\ (vm \/ open' = {}))
  BY <1>1, ForwardingForwards DEF LoopStep, Longer, IInv, Base, Typed
<1>3. Turns(l, "get", loop[l].prev, "Running", "sleep")
  BY <1>1, PersistTurns DEF IInv, Base, Statuses
<1>4. Stays(l) /\ Live(l)'
  BY <1>1, <1>3 DEF Stays, Turns, Leaves, Puts
<1>5. Clean' => CleanInv'
  <2>1. SUFFICES ASSUME Clean PROVE CleanInv'
    BY <1>2, LayersFall DEF LoopStep, Longer
  <2>2. open = {} /\ container'.state = "running" /\ record # None
    BY <1>1, <2>1, LoopIsAlone DEF IInv, CleanInv, LoopClean, Clean
  <2>3. record.status # "Ready"
    BY <1>1, <2>1, <2>2 DEF IInv, CleanInv, ReadyAnswers, Reachable
  <2>4. LoopClean(l)'
    BY <1>1, <1>3, <2>1, <2>2, LoopIsTyped DEF LoopClean, Turns, Puts, Dies
  <2>5. QED
    BY <1>1, <1>2, <1>3, <1>4, <2>1, <2>2, <2>3, <2>4, LoopCleanFrame
<1>6. QED
  BY <1>2, <1>3, <1>4, <1>5, LoopFrame DEF IInv

LEMMA LoopUnforwardsKeeps ==
  ASSUME IInv, NEW l \in Loops, LoopUnforwards(l)
  PROVE  IInv'
<1>1. /\ UNCHANGED <<record, vm, guest, tasks, workers, worker, call, mishaps>>
      /\ loop[l].pc = "teardown" /\ Live(l) /\ StopForwarding /\ LoopGoes(l, "stop")
  BY DEF LoopUnforwards, LoopAt
<1>2. LoopStep /\ Machine' /\ (Clean => open' = {})
  BY <1>1, UnforwardingCloses DEF LoopStep, Longer, IInv, Base, Typed
<1>3. Turns(l, "stop", loop[l].prev, loop[l].goal, loop[l].then)
  BY <1>1, GoesTurns DEF IInv, Base, LoopPcs
<1>4. Stays(l) /\ Live(l)'
  BY <1>1, <1>3 DEF Stays, Turns, Leaves, Puts
<1>5. Clean' => CleanInv'
  <2>1. SUFFICES ASSUME Clean PROVE CleanInv'
    BY <1>2, LayersFall DEF LoopStep, Longer
  <2>2. record # None
    BY <1>1, <2>1, LoopIsAlone DEF Clean
  <2>3. LoopClean(l)' /\ record.status # "Ready" /\ Owned'
    BY <1>1, <1>2, <1>3, <2>1, <2>2, LoopIsTyped DEF LoopClean, Turns, Puts, Dies, Owned
  <2>4. QED
    BY <1>1, <1>2, <1>3, <1>4, <2>1, <2>2, <2>3, LoopCleanFrame
<1>6. QED
  BY <1>2, <1>3, <1>4, <1>5, LoopFrame DEF IInv

LEMMA LoopStopsKeeps ==
  ASSUME IInv, NEW l \in Loops, LoopStops(l)
  PROVE  IInv'
<1>1. /\ UNCHANGED <<record, vm, late, net, tasks, workers, worker, call>>
      /\ loop[l].pc = "stop" /\ Live(l) /\ LoopGoes(l, "verify")
  BY DEF LoopStops, LoopAt
<1>2. LoopStep /\ Machine' /\ (Clean' => container'.state # "running")
  BY <1>1, StopEffectStops DEF LoopStops, LoopStep
<1>3. Turns(l, "verify", loop[l].prev, loop[l].goal, loop[l].then)
  BY <1>1, GoesTurns DEF IInv, Base, LoopPcs
<1>4. Stays(l) /\ Live(l)'
  BY <1>1, <1>3 DEF Stays, Turns, Leaves, Puts
<1>5. Clean' => CleanInv'
  <2>1. SUFFICES ASSUME Clean, Clean' PROVE CleanInv'
    BY <1>2, LayersFall DEF LoopStep, Longer
  <2>2. record # None
    BY <1>1, <2>1, LoopIsAlone DEF Clean
  <2>3. LoopClean(l)' /\ record.status # "Ready" /\ open' = {} /\ Owned'
    BY <1>1, <1>2, <1>3, <2>1, <2>2, LoopIsTyped DEF LoopClean, Turns, Puts, Dies, Owned
  <2>4. QED
    BY <1>1, <1>2, <1>3, <1>4, <2>1, <2>2, <2>3, LoopCleanFrame
<1>6. QED
  BY <1>2, <1>3, <1>4, <1>5, LoopFrame DEF IInv

LEMMA VerifyKeeps ==
  ASSUME IInv, NEW l \in Loops, Verify(l)
  PROVE  IInv'
<1>1. /\ UNCHANGED <<record, vm, guest, net, tasks, workers, worker, call>>
      /\ loop[l].pc = "verify" /\ Live(l)
  BY DEF Verify, LoopAt
<1>2. PICK running \in BOOLEAN :
        /\ Sees(running)
        /\ IF ~running THEN Persist(l, "Stopped", "dead") ELSE PersistIfNew(l, "Stopping")
  BY DEF Verify
<1>3. Looks /\ (Clean' => (running <=> vm /\ container.state = "running"))
  BY <1>1, <1>2, SeesWhatIs DEF Looks, LoopStep
<1>4. CASE ~running
  <2>1. Turns(l, "get", loop[l].prev, "Stopped", "dead")
    BY <1>2, <1>4, PersistTurns DEF IInv, Base, Statuses
  <2>2. UNCHANGED <<record, vm, container, open>>
    BY <1>1
  <2>3. Stays(l) /\ (Clean => LoopClean(l)')
    BY <1>1, <2>1, <2>2, LoopIsTyped DEF Stays, Turns, Leaves, Puts, LoopClean, Dies
  <2>4. QED
    BY <1>3, <2>1, <2>3, LooksKeep
<1>5. CASE running
  <2>1. ~(Clean /\ Clean')
    BY <1>1, <1>3, <1>5, LoopIsTyped DEF LoopClean
  <2>2. Longer /\ PersistIfNew(l, "Stopping")
    BY <1>2, <1>3, <1>5 DEF Looks, LoopStep
  <2>3. PICK pc \in {"sleep", "get"}, goal \in {loop[l].goal, "Stopping"}, then \in {loop[l].then, "sleep"} :
          Turns(l, pc, loop[l].prev, goal, then)
    BY <2>2, PersistIfNewTurns DEF IInv, Base, Statuses
  <2>4. Stays(l)
    BY <1>1, <2>3 DEF Stays, Turns, Leaves, Puts
  <2>5. QED
    BY <1>3, <2>1, <2>3, <2>4, LooksKeep
<1>6. QED
  BY <1>4, <1>5

LEMMA PersistGetKeeps ==
  ASSUME IInv, NEW l \in Loops, PersistGet(l)
  PROVE  IInv'
<1>1. Looks /\ loop[l].pc = "get"
  BY DEF PersistGet, Looks, LoopStep, Longer, IInv, Base, Typed
<1>2. PICK r \in LoopStates : r = loop[l]
  BY LoopIsTyped
<1>3. [r EXCEPT !.pc = "put", !.copy = record] \in LoopStates
  BY DEF LoopStates, LoopPcs, IInv, Base, Typed
<1>4. /\ Turns(l, "put", loop[l].prev, loop[l].goal, loop[l].then)
      /\ loop'[l].copy = record
  BY <1>2, <1>3 DEF PersistGet, Turns, LoopStates, IInv, Base, Typed
<1>5. Stays(l)
  BY <1>1, <1>4 DEF Stays, Turns, Leaves, Puts
<1>6. Clean /\ Live(l) => LoopClean(l)'
  BY <1>1, <1>4, LoopIsTyped DEF Looks, LoopStep, Turns, LoopClean, Puts, Dies, Reachable
<1>7. QED
  BY <1>1, <1>4, <1>5, <1>6, LooksKeep

\* Where a reconciler goes when it has written.
AfterWrite(l) ==
  IF loop[l].cut \/ loop[l].then = "dead" THEN Ended
  ELSE [Ended EXCEPT !.pc = loop[l].then, !.port = loop[l].port,
                     !.prev = IF loop[l].then = "teardown" THEN loop[l].prev ELSE loop[l].goal]

LEMMA AfterWriteTurns ==
  ASSUME IInv, NEW l \in Loops, loop' = [loop EXCEPT ![l] = AfterWrite(l)]
  PROVE  /\ \/ loop[l].cut \/ loop[l].then = "dead"
            \/ ~loop[l].cut /\ loop[l].then \in {"sleep", "teardown"}
         /\ loop[l].cut \/ loop[l].then = "dead" =>
              Turns(l, "dead", "Starting", "Starting", "dead")
         /\ ~loop[l].cut /\ loop[l].then \in {"sleep", "teardown"} =>
              Turns(l, loop[l].then,
                    IF loop[l].then = "teardown" THEN loop[l].prev ELSE loop[l].goal,
                    "Starting", "dead")
<1>1. PICK r \in LoopStates : r = loop[l]
  BY LoopIsTyped
<1>2. r.cut \/ r.then = "dead" \/ (~r.cut /\ r.then \in {"sleep", "teardown"})
  BY DEF LoopStates
<1>3. CASE r.cut \/ r.then = "dead"
  <2>1. AfterWrite(l) = Ended
    BY <1>1, <1>3 DEF AfterWrite
  <2>2. Turns(l, "dead", "Starting", "Starting", "dead")
    BY <2>1, EndedIsDead DEF Turns, IInv, Base, Typed
  <2>3. QED
    BY <1>1, <1>3, <2>2 DEF LoopStates
<1>4. CASE ~r.cut /\ r.then \in {"sleep", "teardown"}
  <2> DEFINE prev == IF r.then = "teardown" THEN r.prev ELSE r.goal
             next == [Ended EXCEPT !.pc = r.then, !.port = r.port, !.prev = prev]
  <2>1. AfterWrite(l) = next
    BY <1>1, <1>4 DEF AfterWrite
  <2>2. /\ next \in LoopStates /\ next.pc = r.then /\ next.port = r.port /\ next.prev = prev
        /\ next.goal = "Starting" /\ next.then = "dead" /\ ~next.cut
    BY <1>4 DEF Ended, LoopStates, LoopPcs, Statuses
  <2> HIDE DEF next
  <2>3. loop' \in [Loops -> LoopStates] /\ loop'[l] = next /\ \A k \in Loops \ {l} : loop'[k] = loop[k]
    BY <2>1, <2>2 DEF IInv, Base, Typed
  <2>4. next.cut = r.cut /\ r.then # "dead"
    BY <1>4, <2>2 DEF LoopStates
  <2>5. Turns(l, r.then, prev, "Starting", "dead")
    BY <1>1, <2>2, <2>3, <2>4 DEF Turns
  <2>6. QED
    BY <1>1, <1>4, <2>5
<1>5. QED
  BY <1>2, <1>3, <1>4

\* The write finds the record gone, as it was read, or changed meanwhile.
LEMMA WriteIsStale ==
  ASSUME IInv, NEW l \in Loops, PersistPut(l)
  PROVE  \/ UNCHANGED record /\ Fine /\ (loop[l].copy = None \/ record = None)
         \/ /\ record # None /\ record = loop[l].copy /\ ~loop[l].cut /\ Fine
            /\ record' = [record EXCEPT !.status = loop[l].goal]
         \/ /\ record # None /\ loop[l].copy # None /\ Mishap("stale")
            /\ record' = [loop[l].copy EXCEPT !.status = loop[l].goal]
  BY DEF PersistPut, Update

LEMMA WrittenRecord ==
  ASSUME NEW r \in Records, NEW status \in Statuses
  PROVE  LET w == [r EXCEPT !.status = status] IN
         /\ w \in Records /\ w # None /\ w.status = status
         /\ w.intent = r.intent /\ w.port = r.port /\ w.installed = r.installed
  BY OrchestratorAssumption DEF Records

LEMMA PersistPutKeeps ==
  ASSUME IInv, NEW l \in Loops, PersistPut(l)
  PROVE  IInv'
<1>1. /\ UNCHANGED <<vm, guest, net, tasks, workers, worker, call>>
      /\ loop[l].pc = "put" /\ loop' = [loop EXCEPT ![l] = AfterWrite(l)]
  BY DEF PersistPut, AfterWrite
<1>2. loop[l] \in LoopStates /\ LoopCarries(l)
  BY LoopIsTyped DEF IInv, Base
<1>3. PICK pc \in {"dead", "sleep", "teardown"}, prev \in {"Starting", loop[l].prev, loop[l].goal},
           then \in {"dead"} :
        /\ Turns(l, pc, prev, "Starting", then)
        /\ IF loop[l].cut THEN pc = "dead" ELSE pc = loop[l].then
        /\ pc # "dead" => prev = IF pc = "teardown" THEN loop[l].prev ELSE loop[l].goal
  BY <1>1, <1>2, AfterWriteTurns
<1>4. CASE UNCHANGED record /\ Fine /\ (loop[l].copy = None \/ record = None)
  <2>1. record = None /\ Looks
    BY <1>1, <1>2, <1>4 DEF LoopCarries, Looks, LoopStep, Longer, Fine, IInv, Base, Typed
  <2>2. Calm => ~Live(l)
    BY <2>1 DEF IInv, CalmInv
  <2>3. Stays(l)
    BY <1>1, <1>3, <2>2 DEF Stays, Turns
  <2>4. QED
    BY <1>3, <2>1, <2>2, <2>3, LooksKeep DEF Clean
<1>5. CASE /\ record # None /\ record = loop[l].copy /\ ~loop[l].cut /\ Fine
           /\ record' = [record EXCEPT !.status = loop[l].goal]
  <2>1. /\ record' \in Records /\ record' # None /\ record'.status = loop[l].goal
        /\ record'.intent = record.intent /\ record'.port = record.port
        /\ record'.installed = record.installed
    BY <1>2, <1>5, WrittenRecord DEF IInv, Base, Typed, LoopStates
  <2>2. Live(l) /\ Longer /\ UNCHANGED mishaps
    BY <1>1, <1>5 DEF Longer, Fine, IInv, Base, Typed
  <2>3. Working' /\ Machine'
    BY <1>1, <2>2, WorkIsKept, MachineIsKept DEF Longer
  <2>4. \A k \in Loops \ {l} : loop'[k] = loop[k]
    BY <1>3 DEF Turns
  <2>5. Base'
    BY <1>1, <1>2, <1>3, <1>5, <2>1, <2>2, <2>3, <2>4
       DEF IInv, Base, Typed, OneReconciler, LoopCarries, Turns, Working, Longer
  <2>6. Lone' => LoneInv'
    BY <1>1, <2>2, <2>3 DEF IInv, LoneInv, Lone, OneCall, Working
  <2>7. ASSUME Calm PROVE CalmInv'
    <3>1. /\ \A k \in Loops \ {l} : ~Live(k)'
          /\ \A c \in Callers : ~Unlooped(c) /\ ~Unlooped(c)'
          /\ record.installed /\ loop[l].port = record.port
      BY <1>1, <2>2, <2>4, <2>7, LoopIsAlone
    <3>2. CalmInv
      BY <2>7 DEF IInv
    <3>3. \A c \in Callers : AloneAt(c)' /\ InstalledAt(c)' /\ StopAt(c)' /\ PortAt(c)'
      BY <1>1, <1>5, <2>1, <2>2, <3>1, <3>2 DEF CalmInv
    <3>4. \A k \in Loops : LoopPort(k)'
      BY <1>3, <2>1, <3>1 DEF LoopPort, Turns
    <3>5. pc # "sleep" => record.intent = "Stop" \/ \E c \in Callers : ToSpawn(c)
      BY <1>1, <1>3, <1>5, <2>2, <3>2 DEF CalmInv, LeaveMeant, Leaves, Puts
    <3>6. \A k \in Loops : LeaveMeant(k)'
      BY <1>1, <1>3, <2>1, <3>1, <3>5 DEF LeaveMeant, Leaves, Puts, Turns
    <3>7. Supervision'
      BY <1>1, <1>3, <2>1, <2>2, <3>5 DEF Supervision, Turns
    <3>8. Gone' /\ BareIsStopped'
      BY <2>1, <3>1 DEF BareIsStopped
    <3>9. QED
      BY <3>3, <3>4, <3>6, <3>7, <3>8 DEF CalmInv
  <2>8. ASSUME Clean PROVE CleanInv'
    <3>1. /\ \A k \in Loops \ {l} : ~Live(k)'
          /\ \A c \in Callers : ~Unlooped(c) /\ ~Unlooped(c)'
          /\ loop[l].port = record'.port
      BY <1>1, <2>1, <2>2, <2>4, <2>8, LoopIsAlone DEF Clean
    <3>2. CleanInv /\ LoopClean(l) /\ UNCHANGED <<vm, container, late, open, forward, call>>
      BY <1>1, <2>8, LoopIsTyped DEF IInv
    <3>3. /\ loop[l].goal = "Ready" => Reachable(loop[l].port)
          /\ loop[l].goal = "Stopped" <=> loop[l].then = "dead"
          /\ loop[l].goal = "Stopping" <=> loop[l].then = "teardown"
          /\ loop[l].then = "dead" => Down
          /\ loop[l].prev # "Stopping" /\ pc = loop[l].then
      BY <1>1, <1>3, <1>5, <2>2, <3>2 DEF LoopClean, Puts, Dies
    <3>4. \A c \in Callers : CallClean(c)'
      BY <3>1
    <3>5. \A k \in Loops : LoopClean(k)'
      BY <1>3, <2>1, <3>1, <3>3 DEF LoopClean, Turns, Puts, Dies
    <3>6. pc # "dead" => ~NoneLive'
      BY <1>3, <2>2 DEF Turns
    <3>7. StoppedIsDown' /\ GoneIsDown'
      BY <2>1, <3>2, <3>3, <3>6 DEF StoppedIsDown, GoneIsDown
    <3>8. ReadyAnswers'
      BY <2>1, <3>1, <3>2, <3>3 DEF ReadyAnswers, Reachable
    <3>9. QED
      BY <3>2, <3>4, <3>5, <3>7, <3>8 DEF CleanInv, Owned
  <2>9. QED
    BY <2>2, <2>5, <2>6, <2>7, <2>8 DEF IInv, Calm, Clean, Lone
<1>6. CASE /\ record # None /\ loop[l].copy # None /\ Mishap("stale")
           /\ record' = [loop[l].copy EXCEPT !.status = loop[l].goal]
  <2>1. record' \in Records /\ Longer
    BY <1>2, <1>6, WrittenRecord, MishapLonger DEF LoopStates
  <2>2. Working' /\ Machine'
    BY <1>1, <2>1, WorkIsKept, MachineIsKept DEF Longer
  <2>3. Base'
    BY <1>1, <1>2, <1>3, <1>6, <2>1, <2>2
       DEF IInv, Base, Typed, OneReconciler, LoopCarries, Turns, Working, Longer
  <2>4. Lone' => LoneInv'
    BY <1>1, <2>1, <2>2, LayersFall DEF IInv, LoneInv, OneCall, Working, Longer
  <2>5. QED
    BY <1>6, <2>3, <2>4, StaleIsNotCalm DEF IInv
<1>7. QED
  BY <1>4, <1>5, <1>6, WriteIsStale

-----------------------------------------------------------------------------
(* The VM, the container and the launcher themselves *)

LEMMA MachineAloneKeeps ==
  ASSUME IInv, UNCHANGED <<record, tasks, loop, workers, worker, call>>, Longer, Machine'
  PROVE  Base' /\ (Lone' => LoneInv') /\ (Calm' => CalmInv')
<1>1. Working'
  BY WorkIsKept DEF Longer
<1>2. Base'
  BY <1>1 DEF IInv, Base, Typed, OneReconciler, LoopCarries, Working, Longer
<1>3. Lone' => LoneInv'
  BY <1>1, LayersFall DEF IInv, LoneInv, OneCall, Working, Longer
<1>4. Calm' => CalmInv'
  BY LayersFall DEF Longer, IInv, CalmInv, BareIsStopped, Supervision, LoopPort, LeaveMeant,
     Leaves, Puts
<1>5. QED
  BY <1>2, <1>3, <1>4

LEMMA LateStartKeeps ==
  ASSUME IInv, LateStart
  PROVE  IInv'
<1>1. /\ UNCHANGED <<record, vm, net, tasks, loop, workers, worker, call, mishaps>>
      /\ late \in Ports /\ late' = None
      /\ IF vm THEN StartEffect(late) ELSE UNCHANGED container
  BY DEF LateStart, IInv, Base, Machine
<1>2. container' \in Containers /\ (~vm => container' = NoContainer)
  BY <1>1 DEF StartEffect, Started, Containers, IInv, Base, Machine
<1>3. Longer /\ Machine'
  BY <1>1, <1>2 DEF Longer, Machine, IInv, Base, Typed
<1>4. ~Clean /\ ~Clean'
  BY <1>1, OrchestratorAssumption DEF IInv, CleanInv, Clean, Calm, Lone, LateStart
<1>5. QED
  BY <1>1, <1>3, <1>4, MachineAloneKeeps DEF IInv

LEMMA VmOnKeeps ==
  ASSUME IInv, VmOn
  PROVE  IInv'
<1>1. /\ UNCHANGED <<record, guest, net, tasks, loop, workers, worker, call, mishaps>>
      /\ ~vm /\ vm'
  BY DEF VmOn
<1>2. Longer /\ Machine'
  BY <1>1 DEF Longer, Machine, IInv, Base, Typed
<1>3. ASSUME Clean PROVE CleanInv'
  <2>1. CleanInv /\ UNCHANGED <<record, container, late, open, forward, loop, call>>
    BY <1>1, <1>3 DEF IInv
  <2>2. \A p : ~Reachable(p)
    BY <1>1 DEF Reachable
  <2>3. \A l \in Loops : LoopClean(l)'
    BY <2>1, <2>2 DEF CleanInv, LoopClean, Puts, Dies
  <2>4. StoppedIsDown' /\ ReadyAnswers' /\ GoneIsDown' /\ \A c \in Callers : CallClean(c)'
    BY <2>1, <2>2 DEF CleanInv, StoppedIsDown, ReadyAnswers, GoneIsDown
  <2>5. QED
    BY <2>1, <2>3, <2>4 DEF CleanInv, Owned
<1>4. QED
  BY <1>1, <1>2, <1>3, MachineAloneKeeps DEF IInv, Clean, Calm, Lone

LEMMA ContainerExitsKeeps ==
  ASSUME IInv, ContainerExits
  PROVE  IInv'
<1>1. /\ UNCHANGED <<record, vm, late, net, tasks, loop, workers, worker, call>>
      /\ container.state = "running" /\ Mishap("exit")
      /\ container' = [container EXCEPT !.state = "exited"]
  BY DEF ContainerExits
<1>2. container' \in Containers /\ vm
  BY <1>1 DEF Containers, NoContainer, IInv, Base, Machine
<1>3. Longer /\ Machine' /\ ~Clean'
  BY <1>1, <1>2, MishapLonger DEF Machine, IInv, Base, Clean, Mishap
<1>4. QED
  BY <1>1, <1>3, MachineAloneKeeps DEF IInv

\* The launcher at rest, as it starts.
Rested ==
  /\ record \in Records \cup {None}
  /\ record # None => record.intent = "Stop" /\ record.status = "Stopped"
  /\ vm \in BOOLEAN /\ container = NoContainer /\ late = None
  /\ open = {} /\ forward = None
  /\ tasks = None /\ loop = [l \in Loops |-> Ended]
  /\ workers = None /\ worker = [w \in Workers |-> EndedWorker]
  /\ call = [c \in Callers |-> Idle] /\ mishaps \subseteq Mishaps

LEMMA RestIsFine == Rested => IInv
<1> SUFFICES ASSUME Rested PROVE IInv
  OBVIOUS
<1>1. /\ \A l \in Loops : loop[l] = Ended /\ loop[l].pc = "dead"
      /\ \A w \in Workers : worker[w] = EndedWorker /\ worker[w].pc = "dead"
      /\ \A c \in Callers : call[c].pc = "idle" /\ call[c].op = "none" /\ call[c].phase = "none"
  BY EndedIsDead DEF Rested, EndedWorker, Idle
<1>2. Machine
  BY DEF Rested, Machine, Containers, NoContainer
<1>3. Typed
  BY EndedIsDead, IdleIsACall DEF Rested, Typed, EndedWorker, WorkerStates
<1>4. Base
  BY <1>1, <1>2, <1>3 DEF Base, OneReconciler, LoopCarries
<1>5. LoneInv
  BY <1>1 DEF LoneInv, OneCall, OneWorker
<1>6. CalmInv
  BY <1>1 DEF Rested, CalmInv, BareIsStopped, Supervision, LoopPort, LeaveMeant
<1>7. CleanInv
  BY <1>1 DEF Rested, CleanInv, Owned, GoneIsDown, StoppedIsDown, ReadyAnswers, LoopClean,
              NoContainer
<1>8. QED
  BY <1>4, <1>5, <1>6, <1>7 DEF IInv

LEMMA InitRests == Init => Rested
  BY DEF Init, Rested, NewRecord, Records, Intents, Statuses

LEMMA RelaunchRests ==
  ASSUME IInv, Relaunch
  PROVE  Rested'
<1>1. record # None =>
        LET w == [record EXCEPT !.intent = "Stop", !.status = "Stopped"] IN
        w \in Records /\ w.intent = "Stop" /\ w.status = "Stopped"
  BY DEF IInv, Base, Typed, Records, Intents, Statuses
<1>2. mishaps' \subseteq Mishaps
  BY MishapLonger DEF Relaunch, Longer
<1>3. QED
  BY <1>1, <1>2 DEF Relaunch, Rested

LEMMA RelaunchKeeps ==
  ASSUME IInv, Relaunch
  PROVE  IInv'
<1>1. Rested'
  BY RelaunchRests
<1>2. Rested' => IInv'
  <2> HIDE DEF Rested, IInv
  <2>1. QED
    BY RestIsFine, PTL
<1>3. QED
  BY <1>1, <1>2

-----------------------------------------------------------------------------
(* Every step, and what follows *)

LEMMA CommandKeeps ==
  ASSUME IInv, NEW c \in Callers, Command(c)
  PROVE  IInv'
  BY BeginKeeps, CheckKeeps, ReallocateKeeps, StartProjectKeeps, GetKeeps, SpawnKeeps,
     StartPeriodicKeeps, InsertWorkerKeeps, UnsyncKeeps, SyncReadsKeeps, SyncStampsKeeps, FindKeeps,
     AbortKeeps, UnforwardKeeps, RuntimeStopKeeps, RuntimeRemoveKeeps, DeleteKeeps,
     InstallMovesKeep, ServeKeeps, ForwardInstallKeeps, VmOffKeeps
  DEF Command

LEMMA ReconcileKeeps ==
  ASSUME IInv, NEW l \in Loops, Reconcile(l)
  PROVE  IInv'
  BY TickKeeps, ObserveKeeps, ProbeKeeps, TryStartContainerKeeps, LoopForwardsKeeps,
     LoopUnforwardsKeeps, LoopStopsKeeps, VerifyKeeps, PersistGetKeeps
  DEF Reconcile

LEMMA StutterKeeps ==
  ASSUME IInv, UNCHANGED vars
  PROVE  IInv'
<1>1. /\ UNCHANGED <<record, vm, container, late, open, forward, tasks, loop>>
      /\ UNCHANGED <<workers, worker, call, mishaps>>
  BY DEF vars
<1>2. Base' /\ (Lone' => LoneInv') /\ (Calm' => CalmInv')
  BY <1>1, MachineIsKept, MachineAloneKeeps DEF Longer, IInv, Base, Typed
<1>3. Clean' => CleanInv'
  BY <1>1 DEF IInv, Clean, Calm, Lone, CleanInv, Owned, GoneIsDown, StoppedIsDown, ReadyAnswers,
              LoopClean, Dies, Puts, Reachable
<1>4. QED
  BY <1>2, <1>3 DEF IInv

LEMMA NextKeeps ==
  ASSUME IInv, [Next]_vars
  PROVE  IInv'
<1>1. CASE \E c \in Callers : Put(c)
  BY <1>1, PutKeeps
<1>2. CASE \E l \in Loops : PersistPut(l)
  BY <1>2, PersistPutKeeps
<1>3. CASE \E c \in Callers : Command(c)
  BY <1>3, CommandKeeps
<1>4. CASE \E l \in Loops : Reconcile(l)
  BY <1>4, ReconcileKeeps
<1>5. CASE \E w \in Workers : Sync(w)
  BY <1>5, SyncKeeps
<1>6. CASE LateStart \/ VmOn \/ ContainerExits \/ Relaunch
  BY <1>6, LateStartKeeps, VmOnKeeps, ContainerExitsKeeps, RelaunchKeeps
<1>7. CASE UNCHANGED vars
  BY <1>7, StutterKeeps
<1>8. QED
  BY <1>1, <1>2, <1>3, <1>4, <1>5, <1>6, <1>7 DEF Next

LEMMA ShownFollows == IInv => ShownIsSo
<1> SUFFICES ASSUME IInv PROVE ShownIsSo
  OBVIOUS
<1>1. TypeOK
  <2>1. /\ \A l \in Loops : loop[l] \in LoopStates
        /\ \A w \in Workers : worker[w] \in WorkerStates
        /\ \A c \in Callers : call[c] \in Calls
    BY DEF IInv, Base, Typed
  <2>2. QED
    BY <2>1 DEF TypeOK, IInv, Base, Typed, Machine, Containers, LoopStates, WorkerStates, Calls
<1>2. OneReconciler
  BY DEF IInv, Base
<1>3. OneWorker
  BY LoneIsWithout DEF IInv, LoneInv, OneWorker
<1>4. Supervised <=> ~NoneLive
  BY DEF Supervised
<1>5. Without({"stale", "overlap"}) => Calm
  BY DEF Without, Calm, Lone
<1>6. Without({"stale", "rpc", "late", "exit", "overlap"}) => Clean
  BY DEF Without, Clean, Calm, Lone
<1>7. Without({"stale", "exit", "rpc", "late", "overlap"}) => Clean
  BY DEF Without, Clean, Calm, Lone
<1>8. StoppedIsStopped
  BY <1>4, <1>6 DEF StoppedIsStopped, Quiet, IInv, CleanInv, StoppedIsDown
<1>9. RunIsSupervised
  BY <1>2, <1>4, <1>5 DEF RunIsSupervised, Quiet, IInv, CalmInv, Supervision, LoopPort,
     OneReconciler
<1>10. ReadyIsServed
  BY <1>4, <1>7 DEF ReadyIsServed, IInv, CleanInv, ReadyAnswers, Reachable
<1>11. QED
  BY <1>1, <1>2, <1>3, <1>8, <1>9, <1>10 DEF ShownIsSo

LEMMA ListenersFollow == IInv => ListenersAreOwned
  BY DEF ListenersAreOwned, Without, IInv, CleanInv, Owned, Clean, Calm, Lone

\* The layers hold of every behaviour of a project's commands, reconcilers and
\* sync workers (projects/commands.rs, orchestrator.rs, syncer.rs).
THEOREM OrchestratorInvariant == Spec => []IInv
<1> HIDE DEF IInv
<1>1. Init => IInv
  BY InitRests, RestIsFine
<1>2. IInv /\ [Next]_vars => IInv'
  BY NextKeeps
<1>3. QED
  BY <1>1, <1>2, PTL DEF Spec

\* However many commands, reconcilers and workers interleave: one reconciler
\* and one worker at a time, a project shown stopped is stopped, one meant to
\* run is driven on the port of its record, and one shown ready serves there.
THEOREM ShownIsAlwaysSo == Spec => []ShownIsSo
<1> HIDE DEF IInv
<1>1. QED
  BY OrchestratorInvariant, ShownFollows, PTL

\* Every port of a project that is open on the host has its handle in
\* VmRuntime's map, as long as no call failed, came late or overlapped another.
THEOREM ListenersAlwaysOwned == Spec => []ListenersAreOwned
<1> HIDE DEF IInv
<1>1. QED
  BY OrchestratorInvariant, ListenersFollow, PTL

==============================================================================
