----------------------------- MODULE VmLifecycle -----------------------------
(***************************************************************************)
(* The virtual machine behind the launcher: VmLifecycle                    *)
(* (src/src/tauri/src/vm/lifecycle.rs) over VmGateway (vm/gateway.rs) and  *)
(* VfkitVM (vm/vfkit.rs), with the tasks that call it: the startup task    *)
(* and init_vm (app/platform/macos.rs), the tray's Start, Stop and Quit    *)
(* (tray.rs, app/shutdown.rs), and a deep link waiting for the VM          *)
(* (apps/deeplink.rs).                                                     *)
(*                                                                         *)
(* A task is an async function; it interleaves with the others wherever it *)
(* awaits and, as tokio runs tasks on several threads, between any two     *)
(* accesses to shared state.  A Vm is one spawned vfkit (with its gvproxy) *)
(* process.  vfkit.pid and the processes outlive the launcher.             *)
(***************************************************************************)
EXTENDS Naturals, FiniteSets

CONSTANTS Vms,         \* bound: processes alive or referred to at a time
          AutoStart,   \* the auto_start_vm setting
          Callers,     \* bound: the callers that act
          UserWaits,   \* bound: the tray is left alone once Quit is chosen
          None

\* What the constants are.
VmLifecycleAssumption ==
  /\ AutoStart \in BOOLEAN /\ UserWaits \in BOOLEAN
  /\ Callers \subseteq {"init_vm", "tray_start", "tray_stop", "quit"}
  /\ None \notin Vms

VARIABLES up,        \* the launcher runs
          status,    \* VmLifecycle.status_tx
          manager,   \* VmLifecycle.manager: the Vm of the published gateway
          tray,      \* TrayState
          pc,        \* where each task is
          vm,        \* the Vm a task's own gateway holds
          alive,     \* vfkit processes
          pidfile,   \* vfkit.pid
          link,      \* the deep link handler in wait_until_running
          changed,   \* its watch receiver has a status it has not seen
          booted     \* ghost: a start was attempted since the link arrived

vars == <<up, status, manager, tray, pc, vm, alive, pidfile, link, changed, booted>>
waiter == <<link, changed, booted>>

StartTasks == {"setup", "init_vm", "tray_start"}
StopTasks == {"tray_stop", "quit"}
Actors == StartTasks \cup StopTasks

Starting == {"send", "prepare", "reap", "spawn", "probe", "ping", "publish",
             "running", "fail", "kill", "rmpid"}
Unused(v) == v \notin alive \cup {manager, pidfile} /\ \A t \in Actors : vm[t] # v

\* on_setup spawns the startup task before anything else runs.
Launched == [t \in Actors |-> IF t = "setup" /\ AutoStart THEN "begin" ELSE "idle"]

Init ==
  /\ up = TRUE
  /\ status = "Stopped" /\ manager = None /\ tray = "Stopped"
  /\ pc = Launched
  /\ vm = [t \in Actors |-> None]
  /\ alive = {} /\ pidfile = None
  /\ link = "none" /\ changed = FALSE /\ booted = FALSE

Goto(t, label) == pc' = [pc EXCEPT ![t] = label]
At(t, label) == up /\ pc[t] = label

\* status_tx.send: every receiver has a change to look at.
Send(value) == status' = value /\ changed' = TRUE /\ UNCHANGED <<link, booted>>

-----------------------------------------------------------------------------
(* The callers *)

\* The task spawned by on_setup, once per launch.
SetupBegin ==
  /\ At("setup", "begin")
  /\ tray' = "Starting"
  /\ Goto("setup", "check")
  /\ UNCHANGED <<up, status, manager, vm, alive, pidfile, waiter>>

\* init_vm, called by the setup page when auto_start_vm is set.
InitVm ==
  /\ AutoStart /\ At("init_vm", "idle") /\ "init_vm" \in Callers
  /\ manager = None
  /\ Goto("init_vm", "check")
  /\ UNCHANGED <<up, status, manager, tray, vm, alive, pidfile, waiter>>

\* The menu offers Start only when the tray shows Stopped, Stop only when it
\* shows Running.
MayClick(item) == item \in Callers /\ (UserWaits => pc["quit"] = "idle")

TrayStart ==
  /\ At("tray_start", "idle") /\ tray = "Stopped" /\ MayClick("tray_start")
  /\ tray' = "Starting"
  /\ Goto("tray_start", "check")
  /\ UNCHANGED <<up, status, manager, vm, alive, pidfile, waiter>>

TrayStop ==
  /\ At("tray_stop", "idle") /\ tray = "Running" /\ MayClick("tray_stop")
  /\ tray' = "Stopping"
  /\ Goto("tray_stop", "stopping")
  /\ UNCHANGED <<up, status, manager, vm, alive, pidfile, waiter>>

Quit ==
  /\ At("quit", "idle") /\ MayClick("quit")
  /\ Goto("quit", "stopping")
  /\ UNCHANGED <<up, status, manager, tray, vm, alive, pidfile, waiter>>

-----------------------------------------------------------------------------
(* VmLifecycle::start *)

CheckStatus(t) ==
  /\ At(t, "check")
  /\ Goto(t, IF status \in {"Running", "Starting"} THEN "ok" ELSE "send")
  /\ UNCHANGED <<up, status, manager, tray, vm, alive, pidfile, waiter>>

SendStarting(t) ==
  /\ At(t, "send")
  /\ status' = "Starting" /\ changed' = TRUE
  /\ booted' = (link # "none")
  /\ Goto(t, "prepare")
  /\ UNCHANGED <<up, manager, tray, vm, alive, pidfile, link>>

\* The base image is cloned and the gateway built, or an error returned.
Prepare(t) ==
  /\ At(t, "prepare")
  /\ Goto(t, "reap") \/ Goto(t, "fail")
  /\ UNCHANGED <<up, status, manager, tray, vm, alive, pidfile, waiter>>

\* Mutant: a process of an earlier session is not looked for.
ReapNothing(t) ==
  /\ At(t, "reap")
  /\ Goto(t, "spawn")
  /\ UNCHANGED <<up, status, manager, tray, vm, alive, pidfile, waiter>>

Reap(t) ==
  /\ At(t, "reap")
  /\ alive' = alive \ {pidfile}
  /\ pidfile' = None
  /\ Goto(t, "spawn")
  /\ UNCHANGED <<up, status, manager, tray, vm, waiter>>

Spawn(t) ==
  /\ At(t, "spawn")
  /\ \/ \E v \in Vms :
          /\ Unused(v)
          /\ alive' = alive \cup {v}
          /\ pidfile' = v
          /\ vm' = [vm EXCEPT ![t] = v]
          /\ Goto(t, "probe")
     \/ /\ Goto(t, "fail")
        /\ UNCHANGED <<alive, pidfile, vm>>
  /\ UNCHANGED <<up, status, manager, tray, waiter>>

\* Every gateway uses the same socket path, so any Vm can answer.  When the
\* probe gives up the process is left running.
Probe(t) ==
  /\ At(t, "probe")
  /\ (alive # {} /\ Goto(t, "ping")) \/ Goto(t, "fail")
  /\ UNCHANGED <<up, status, manager, tray, vm, alive, pidfile, waiter>>

Ping(t) ==
  /\ At(t, "ping")
  /\ (alive # {} /\ Goto(t, "publish")) \/ Goto(t, "kill")
  /\ UNCHANGED <<up, status, manager, tray, vm, alive, pidfile, waiter>>

\* A Vm published before is forgotten.
Publish(t) ==
  /\ At(t, "publish")
  /\ manager' = vm[t]
  /\ vm' = [vm EXCEPT ![t] = None]
  /\ Goto(t, "running")
  /\ UNCHANGED <<up, status, tray, alive, pidfile, waiter>>

SendRunning(t) ==
  /\ At(t, "running")
  /\ Send("Running")
  /\ Goto(t, "ok")
  /\ UNCHANGED <<up, manager, tray, vm, alive, pidfile>>

SendError(t) ==
  /\ At(t, "fail")
  /\ Send("Error")
  /\ vm' = [vm EXCEPT ![t] = None]
  /\ Goto(t, "err")
  /\ UNCHANGED <<up, manager, tray, alive, pidfile>>

\* What the caller does with the result.  The startup task goes on to run the
\* installed apps; init_vm leaves the tray alone.
FinishStart(t) ==
  /\ up /\ t \in StartTasks /\ pc[t] \in {"ok", "err"}
  /\ tray' = CASE t = "init_vm" -> tray
               [] pc[t] = "ok"  -> "Running"
               [] OTHER         -> "Stopped"
  /\ Goto(t, IF t = "setup" /\ pc[t] = "ok" THEN "auto_start" ELSE "idle")
  /\ UNCHANGED <<up, status, manager, vm, alive, pidfile, waiter>>

AutoStartInstalled ==
  /\ At("setup", "auto_start")
  /\ Goto("setup", "idle")
  /\ UNCHANGED <<up, status, manager, tray, vm, alive, pidfile, waiter>>

-----------------------------------------------------------------------------
(* VmLifecycle::stop, and VfkitVM::stop, which never fails *)

SendStopping(t) ==
  /\ At(t, "stopping")
  /\ Send("Stopping")
  /\ Goto(t, "take")
  /\ UNCHANGED <<up, manager, tray, vm, alive, pidfile>>

Take(t) ==
  /\ At(t, "take")
  /\ manager' = None
  /\ vm' = [vm EXCEPT ![t] = manager]
  /\ Goto(t, IF manager = None THEN "stopped" ELSE "kill")
  /\ UNCHANGED <<up, status, tray, alive, pidfile, waiter>>

Kill(t) ==
  /\ At(t, "kill")
  /\ alive' = alive \ {vm[t]}
  /\ Goto(t, "rmpid")
  /\ UNCHANGED <<up, status, manager, tray, vm, pidfile, waiter>>

\* Whatever process the file names by now.
RemovePidfile(t) ==
  /\ At(t, "rmpid")
  /\ pidfile' = None
  /\ Goto(t, IF t \in StartTasks THEN "fail" ELSE "stopped")
  /\ UNCHANGED <<up, status, manager, tray, vm, alive, waiter>>

SendStopped(t) ==
  /\ At(t, "stopped")
  /\ Send("Stopped")
  /\ vm' = [vm EXCEPT ![t] = None]
  /\ Goto(t, "ok")
  /\ UNCHANGED <<up, manager, tray, alive, pidfile>>

FinishTrayStop ==
  /\ At("tray_stop", "ok")
  /\ tray' = "Stopped"
  /\ Goto("tray_stop", "idle")
  /\ UNCHANGED <<up, status, manager, vm, alive, pidfile, waiter>>

-----------------------------------------------------------------------------
(* wait_until_running *)

\* The receiver is a clone of one that never looked: if anything was sent
\* since the launch it has a change to look at.
LinkArrives ==
  /\ up /\ link \in {"none", "ready", "gave_up"}
  /\ link' = "check"
  /\ changed' = (status # "Stopped" \/ changed)
  /\ booted' = (status = "Starting")
  /\ UNCHANGED <<up, status, manager, tray, pc, vm, alive, pidfile>>

LinkChecks ==
  /\ up /\ link = "check"
  /\ link' = IF status = "Running" THEN "ready" ELSE "sleep"
  /\ UNCHANGED <<up, status, manager, tray, pc, vm, alive, pidfile, changed, booted>>

\* Mutant: the change is taken for the end of the wait for one change, and
\* the status is not looked at again.
LinkWakesOnce ==
  /\ up /\ link = "sleep" /\ changed
  /\ changed' = FALSE
  /\ UNCHANGED <<up, status, manager, tray, pc, vm, alive, pidfile, link, booted>>

LinkWakes ==
  /\ up /\ link = "sleep" /\ changed
  /\ changed' = FALSE
  /\ link' = "check"
  /\ UNCHANGED <<up, status, manager, tray, pc, vm, alive, pidfile, booted>>

\* VM_WAIT has elapsed.
LinkTimesOut ==
  /\ up /\ link = "sleep"
  /\ link' = IF status = "Running" THEN "ready" ELSE "gave_up"
  /\ UNCHANGED <<up, status, manager, tray, pc, vm, alive, pidfile, changed, booted>>

-----------------------------------------------------------------------------
(* The launcher process *)

Down ==
  /\ up' = FALSE
  /\ status' = "Stopped" /\ manager' = None /\ tray' = "Stopped"
  /\ pc' = Launched
  /\ vm' = [t \in Actors |-> None]
  /\ link' = "none" /\ changed' = FALSE /\ booted' = FALSE
  /\ UNCHANGED <<alive, pidfile>>

\* app_handle.exit after graceful_shutdown.
Exit == At("quit", "ok") /\ Down

\* The launcher is killed.
Crash == up /\ Down

Launch ==
  /\ ~up
  /\ up' = TRUE
  /\ UNCHANGED <<status, manager, tray, pc, vm, alive, pidfile, waiter>>

-----------------------------------------------------------------------------
StartStep(t) ==
  \/ CheckStatus(t) \/ SendStarting(t) \/ Prepare(t) \/ Reap(t) \/ Spawn(t)
  \/ Probe(t) \/ Ping(t) \/ Publish(t) \/ SendRunning(t) \/ SendError(t)
  \/ FinishStart(t)

StopStep(t) == SendStopping(t) \/ Take(t) \/ SendStopped(t)

TaskStep(t) ==
  \/ t \in StartTasks /\ StartStep(t)
  \/ t \in StopTasks /\ StopStep(t)
  \/ Kill(t) \/ RemovePidfile(t)
  \/ t = "setup" /\ (SetupBegin \/ AutoStartInstalled)
  \/ t = "tray_stop" /\ FinishTrayStop
  \/ t = "quit" /\ Exit

Link == LinkChecks \/ LinkWakes

Next ==
  \/ InitVm \/ TrayStart \/ TrayStop \/ Quit
  \/ \E t \in Actors : TaskStep(t)
  \/ LinkArrives \/ Link \/ LinkTimesOut
  \/ Crash \/ Launch

\* A task that can go on is polled eventually.  Nothing makes the user act,
\* the launcher die or the 90 seconds pass.
Fairness == (\A t \in Actors : WF_vars(TaskStep(t))) /\ WF_vars(Link)

Spec == Init /\ [][Next]_vars /\ Fairness

-----------------------------------------------------------------------------
(* Properties *)

\* The shape of the state.
TypeOK ==
  /\ up \in BOOLEAN /\ changed \in BOOLEAN /\ booted \in BOOLEAN
  /\ status \in {"Stopped", "Starting", "Running", "Stopping", "Error"}
  /\ manager \in Vms \cup {None}
  /\ tray \in {"Stopped", "Starting", "Running", "Stopping"}
  /\ pc \in [Actors -> {"idle", "begin", "check", "stopping", "take", "stopped",
                       "ok", "err", "auto_start"} \cup Starting]
  /\ vm \in [Actors -> Vms \cup {None}]
  /\ alive \subseteq Vms
  /\ pidfile \in Vms \cup {None}
  /\ link \in {"none", "check", "sleep", "ready", "gave_up"}

\* Started and stopped from the tray alone, whatever fails and whenever the
\* launcher dies, there are never two virtual machines: they would share the
\* MAC address, the EFI store and the sockets (vfkit.rs reap_stale_process).
AtMostOneVm == Cardinality(alive) <= 1

\* The claim of vfkit.rs:68 ("Reaps a `vfkit`/`gvproxy` child orphaned by a
\* non-graceful host exit"): a process no gateway holds is named by vfkit.pid,
\* so that the next start finds and ends it.
OrphansAreReapable ==
  \A v \in alive : v = pidfile \/ (up /\ v = manager) \/ \E t \in Actors : vm[t] = v

\* With no task under way the three accounts of the virtual machine agree: the
\* status, the published gateway and the tray; and a published one is alive.
SettledAgrees ==
  up /\ (\A t \in Actors : pc[t] = "idle") =>
    /\ (status = "Running") <=> (manager # None)
    /\ (status = "Running") <=> (tray = "Running")
    /\ manager # None => manager \in alive

\* Started and stopped from the tray alone: there is one virtual machine at
\* most, which is the one of the record, of the tray and of vfkit.pid.
OneVmIsKept == TypeOK /\ AtMostOneVm /\ OrphansAreReapable /\ SettledAgrees

\* Starting ends: no failed start leaves the status where later starts are
\* skipped as duplicates.
StartingEnds == up /\ status = "Starting" ~> status # "Starting"

\* A deep link that waits is released once the virtual machine runs and stays
\* up: no status change between its look and its sleep is missed.
WaiterIsReleased == link = "sleep" /\ status = "Running" ~> link # "sleep" \/ status # "Running"

\* A start ends, and a link that waits for it learns that it did.
StartsEnd == StartingEnds /\ WaiterIsReleased

\* The claim of lifecycle.rs:47 ("Prevent concurrent starts"): at most one
\* task is past the check.
NoConcurrentStarts == Cardinality({t \in StartTasks : pc[t] \in Starting}) <= 1

\* The claim of app/shutdown.rs:24 ("Gracefully shutdown containers and VM
\* before exit"): once Quit has stopped the VM no process is left.
ExitLeavesNoVm == At("quit", "ok") => alive = {}

\* The claim of README.md:44 ("boots the VM if needed"): a link that gives up
\* at least saw a start of the virtual machine.
LinkBootsVm == link = "gave_up" => booted

\* The claim of macos.rs:79 ("now that the VM is up"): the startup task goes
\* on to the installed apps with a gateway to run them through.
AutoStartFindsVm ==
  [][pc'["setup"] = "auto_start" /\ pc["setup"] = "ok" => manager # None]_vars
=============================================================================
