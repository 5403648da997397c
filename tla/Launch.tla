-------------------------------- MODULE Launch --------------------------------
(***************************************************************************)
(* The way from the launch to the library: the gate of the web page        *)
(* (src/src/web/hooks/use-app-gate.ts, lib/setup-utils.ts), what it asks   *)
(* of the backend on each operating system (app/platform/*.rs,             *)
(* vm/wsl.rs, vm/wsl_setup.rs), and what bootstrap.rs settles before the   *)
(* page is there: the container runtime and the report of a state file     *)
(* that was mended.                                                        *)
(*                                                                         *)
(* The page can be loaded again under a call of its own; the call goes on  *)
(* in the backend and its answer is lost.                                  *)
(***************************************************************************)
EXTENDS Naturals, FiniteSets

CONSTANTS Systems,      \* the operating systems looked at
          MaxLaunches,  \* bound: times the launcher is started
          Mishaps,      \* "fails", "reload", "removed", "corrupt": each at most once
          None

Calls == {1, 2}         \* bound: calls of init_wsl under way

VARIABLES
  os,
  machine,    \* windows: "old", "absent", "novirt", "pending" (enabled, not
              \* restarted), "one", "two"; linux: podman is "absent", "quiet"
              \* (no socket), "ready"; macos: "noimage", "image"
  distro,     \* the WSL distribution is registered
  autoStart,  \* the setting auto_start_vm
  up, runtime, report,
  lock, handle, call,   \* wsl_state: its mutex, whether it is set; init_wsl
  vm, starter,          \* VmLifecycle, and who asked for the start
  phase, status, run,   \* the gate, and where checkAndSetup is
  launches, mishaps

backend == <<runtime, report, lock, handle, call, vm, starter>>
page == <<phase, status, run>>
world == <<os, machine, distro, autoStart>>
vars == <<world, up, backend, page, launches, mishaps>>

Machines == [windows |-> {"old", "absent", "novirt", "pending", "one", "two"},
             linux |-> {"absent", "quiet", "ready"}, macos |-> {"noimage", "image"}]
Loading == {"checking", "setting-up", "starting-vm"}

Free == [at |-> "none", page |-> FALSE]

Init ==
  /\ os \in Systems /\ machine \in Machines[os] /\ distro \in (IF os = "windows" THEN BOOLEAN ELSE {FALSE})
  /\ autoStart \in (IF os = "macos" THEN BOOLEAN ELSE {FALSE})
  /\ up = FALSE /\ runtime = "stub" /\ report = "none"
  /\ lock = None /\ handle = FALSE /\ call = [i \in Calls |-> Free]
  /\ vm = "stopped" /\ starter = None
  /\ phase = "launching" /\ status = "checking" /\ run = "none"
  /\ launches = 0 /\ mishaps = {}

May(m) == m \in Mishaps \ mishaps
Occurs(m) == May(m) /\ mishaps' = mishaps \cup {m}

-----------------------------------------------------------------------------
(* The launcher                                                             *)

\* WSL2::is_available: wsl --status succeeds.
Available == machine \in {"one", "two"}

\* platform.runtime(): chosen once, for as long as the launcher runs.
Runtime ==
  CASE os = "windows" -> IF Available THEN "real" ELSE "stub"
    [] os = "linux" -> IF machine = "ready" THEN "real" ELSE "stub"
    [] os = "macos" -> "real"

\* The page is loaded: the gate checks at once.
Load == phase' = "launching" /\ status' = "checking" /\ run' = "files"

\* The stores mend a state file and keep the report for later; on_setup
\* starts the virtual machine.
Start ==
  /\ ~up /\ launches < MaxLaunches /\ up' = TRUE /\ launches' = launches + 1
  /\ runtime' = Runtime
  /\ \/ report' = "none" /\ UNCHANGED mishaps
     \/ Occurs("corrupt") /\ report' = "due"
  /\ IF os = "macos" /\ autoStart THEN vm' = "starting" /\ starter' = "setup" ELSE vm' = "stopped" /\ starter' = None
  /\ Load /\ UNCHANGED <<world, lock, handle, call>>

\* The notice is for whoever listens now: the library does, the gate does not.
EmitReport ==
  /\ up /\ report = "due" /\ report' = IF phase = "ready" THEN "told" ELSE "missed"
  /\ UNCHANGED <<world, up, runtime, lock, handle, call, vm, starter, page, launches, mishaps>>

Gone ==
  /\ up' = FALSE /\ runtime' = "stub" /\ lock' = None /\ handle' = FALSE /\ call' = [i \in Calls |-> Free]
  /\ vm' = "stopped" /\ starter' = None /\ phase' = "launching" /\ status' = "checking" /\ run' = "none"

Exit == up /\ launches < MaxLaunches /\ Gone /\ UNCHANGED <<world, report, launches, mishaps>>

\* The machine is restarted, by the user or by reboot_windows.
RebootWindows ==
  /\ up /\ os = "windows" /\ launches < MaxLaunches /\ Gone
  /\ machine' = IF machine = "pending" THEN "two" ELSE machine
  /\ UNCHANGED <<os, distro, autoStart, report, launches, mishaps>>

-----------------------------------------------------------------------------
(* init_wsl                                                                 *)

CallEnds(i, ok) ==
  /\ call' = [call EXCEPT ![i] = Free]
  /\ IF ~call[i].page THEN UNCHANGED page
     ELSE /\ run' = "none"
          /\ IF ok THEN phase' = "ready" /\ status' = "checking" ELSE status' = "error" /\ UNCHANGED phase

\* It holds the mutex to its end; an earlier call may have done the work.
TakeWsl(i) ==
  /\ call[i].at = "wait" /\ lock = None
  /\ IF handle THEN CallEnds(i, TRUE) /\ UNCHANGED lock
     ELSE IF ~Available THEN CallEnds(i, FALSE) /\ UNCHANGED lock
     ELSE lock' = i /\ call' = [call EXCEPT ![i].at = IF distro THEN "podman" ELSE "import"] /\ UNCHANGED page
  /\ UNCHANGED <<world, up, runtime, report, handle, vm, starter, launches, mishaps>>

\* install_distro; no archive beside the launcher is a failure too.
InstallDistro(i) ==
  /\ call[i].at = "import"
  /\ \/ /\ ~distro /\ distro' = TRUE /\ call' = [call EXCEPT ![i].at = "podman"] /\ UNCHANGED <<lock, page, mishaps>>
     \/ /\ (distro /\ UNCHANGED mishaps) \/ Occurs("fails")
        /\ lock' = None /\ CallEnds(i, FALSE) /\ UNCHANGED distro
  /\ UNCHANGED <<os, machine, autoStart, up, runtime, report, handle, vm, starter, launches>>

\* Mutant: the mutex is a flag that a failure leaves set.
ProbePodmanKeeps(i) ==
  /\ call[i].at = "podman"
  /\ \/ distro /\ handle' = TRUE /\ lock' = None /\ CallEnds(i, TRUE) /\ UNCHANGED mishaps
     \/ ((~distro /\ UNCHANGED mishaps) \/ Occurs("fails")) /\ CallEnds(i, FALSE) /\ UNCHANGED <<handle, lock>>
  /\ UNCHANGED <<world, up, runtime, report, vm, starter, launches>>

\* podman answers in the distribution.
ProbePodman(i) ==
  /\ call[i].at = "podman" /\ lock' = None
  /\ \/ distro /\ handle' = TRUE /\ CallEnds(i, TRUE) /\ UNCHANGED mishaps
     \/ ((~distro /\ UNCHANGED mishaps) \/ Occurs("fails")) /\ CallEnds(i, FALSE) /\ UNCHANGED handle
  /\ UNCHANGED <<world, up, runtime, report, vm, starter, launches>>

-----------------------------------------------------------------------------
(* The virtual machine of macOS, and the image of Linux                     *)

\* start_inner: without a base image it fails; only who asked is told.
VmStarts ==
  /\ vm = "starting"
  /\ \/ /\ machine = "image" /\ vm' = "running" /\ UNCHANGED mishaps
        /\ IF starter = "page" THEN phase' = "ready" /\ run' = "none" /\ UNCHANGED status ELSE UNCHANGED page
     \/ /\ (machine = "noimage" /\ UNCHANGED mishaps) \/ Occurs("fails")
        /\ vm' = "error"
        /\ IF starter = "page" THEN status' = "error" /\ run' = "none" /\ UNCHANGED phase ELSE UNCHANGED page
  /\ starter' = None
  /\ UNCHANGED <<world, up, runtime, report, lock, handle, call, launches>>

\* run_initial_setup asks the runtime for its image; the stub has none to get.
EnsureImage ==
  /\ run = "image"
  /\ \/ phase' = "ready" /\ UNCHANGED <<status, mishaps>>
     \/ runtime = "real" /\ Occurs("fails") /\ status' = "error" /\ UNCHANGED phase
  /\ run' = "none" /\ UNCHANGED <<world, up, backend, launches>>

-----------------------------------------------------------------------------
(* The gate                                                                 *)

\* check_wsl_status.  It never says that a restart is due: what wsl says then
\* is a failure without a name, or that it is not there.
WslStatus ==
  CASE machine = "old" -> {"not-supported"} [] machine = "absent" -> {"needs-wsl-enable"}
    [] machine = "novirt" -> {"needs-virtualization"} [] machine = "pending" -> {"error", "needs-wsl-enable"}
    [] machine = "one" -> {"needs-wsl-enable"} [] machine = "two" -> {"ready"}

\* checkAndSetupPlatform: the directories and the state file first.
CheckDataIntegrity ==
  /\ run = "files" /\ report # "due"
  /\ \/ run' = "ask" /\ UNCHANGED <<status, mishaps>>
     \/ Occurs("fails") /\ status' = "error" /\ run' = "none"
  /\ UNCHANGED <<world, up, backend, phase, launches>>

Screen(s) == status' = s /\ run' = "none" /\ UNCHANGED <<phase, backend>>
Ready == phase' = "ready" /\ run' = "none" /\ UNCHANGED <<status, backend>>

\* Mutant: the gate does not wait for init_wsl.
SetupWindowsAhead ==
  /\ run = "ask" /\ os = "windows"
  /\ \E s \in WslStatus :
       IF s # "ready" THEN Screen(s)
       ELSE \E i \in Calls :
              /\ call[i].at = "none" /\ call' = [call EXCEPT ![i] = [at |-> "wait", page |-> FALSE]]
              /\ phase' = "ready" /\ run' = "none" /\ UNCHANGED <<status, runtime, report, lock, handle, vm, starter>>
  /\ UNCHANGED <<world, up, launches, mishaps>>

SetupWindows ==
  /\ run = "ask" /\ os = "windows"
  /\ \E s \in WslStatus :
       IF s # "ready" THEN Screen(s)
       ELSE \E i \in Calls :
              /\ call[i].at = "none" /\ call' = [call EXCEPT ![i] = [at |-> "wait", page |-> TRUE]]
              /\ status' = "setting-up" /\ run' = "init" /\ UNCHANGED <<phase, runtime, report, lock, handle, vm, starter>>
  /\ UNCHANGED <<world, up, launches, mishaps>>

\* init_vm: a machine that runs, or that another is starting, is good enough.
SetupMacOS ==
  /\ run = "ask" /\ os = "macos"
  /\ IF ~autoStart \/ vm \in {"running", "starting"} THEN Ready
     ELSE /\ vm' = "starting" /\ starter' = "page" /\ status' = "starting-vm" /\ run' = "init"
          /\ UNCHANGED <<phase, runtime, report, lock, handle, call>>
  /\ UNCHANGED <<world, up, launches, mishaps>>

\* check_setup_status: podman --version.
SetupLinux ==
  /\ run = "ask" /\ os = "linux"
  /\ IF machine = "absent" THEN Screen("missing-podman")
     ELSE status' = "setting-up" /\ run' = "image" /\ UNCHANGED <<phase, backend>>
  /\ UNCHANGED <<world, up, launches, mishaps>>

Retry ==
  /\ up /\ phase = "launching" /\ run = "none" /\ status = "error" /\ run' = "files" /\ status' = "checking"
  /\ UNCHANGED <<world, up, backend, phase, launches, mishaps>>

\* enable_wsl: the elevated script may end without effect, ask for a restart, or do.
Enabled(m) == IF m = "absent" THEN {"absent", "pending", "two"} ELSE {m, "two"}

\* handleEnableWSL calls enable_wsl.  The answer, whether a restart is due, is
\* dropped: check_wsl_status is asked, and then everything again.
EnableWsl ==
  /\ up /\ phase = "launching" /\ run = "none" /\ status = "needs-wsl-enable"
  /\ \/ \E m \in Enabled(machine) :
          machine' = m /\ run' = "files" /\ status' = "checking" /\ UNCHANGED mishaps
     \/ Occurs("fails") /\ status' = "error" /\ UNCHANGED <<machine, run>>
  /\ UNCHANGED <<os, distro, autoStart, up, backend, phase, launches>>

\* The page is loaded again.
Reload ==
  /\ up /\ Occurs("reload") /\ Load /\ call' = [i \in Calls |-> [call[i] EXCEPT !.page = FALSE]]
  /\ starter' = IF starter = "page" THEN "setup" ELSE starter
  /\ UNCHANGED <<world, up, runtime, report, lock, handle, vm, launches>>

\* The user changes the machine behind the launcher's back.
ChangeMachine ==
  /\ \/ os = "windows" /\ machine = "novirt" /\ machine' = "two" /\ UNCHANGED <<distro, mishaps>>
     \/ os = "linux" /\ machine # "ready" /\ machine' = "ready" /\ UNCHANGED <<distro, mishaps>>
     \/ os = "windows" /\ distro /\ Occurs("removed") /\ distro' = FALSE /\ UNCHANGED machine
  /\ UNCHANGED <<os, autoStart, up, backend, page, launches>>

Next ==
  \/ Start \/ EmitReport \/ Exit \/ RebootWindows \/ VmStarts \/ EnsureImage \/ CheckDataIntegrity
  \/ SetupWindows \/ SetupMacOS \/ SetupLinux \/ Retry \/ EnableWsl \/ Reload \/ ChangeMachine
  \/ \E i \in Calls : TakeWsl(i) \/ InstallDistro(i) \/ ProbePodman(i)

Spec == Init /\ [][Next]_vars

\* The programs that are run come to an end.
FairSpec ==
  /\ Spec /\ WF_vars(EmitReport) /\ WF_vars(VmStarts) /\ WF_vars(EnsureImage) /\ WF_vars(CheckDataIntegrity)
  /\ WF_vars(SetupWindows \/ SetupMacOS \/ SetupLinux)
  /\ \A i \in Calls : WF_vars(TakeWsl(i) \/ InstallDistro(i) \/ ProbePodman(i))

-----------------------------------------------------------------------------
(* Properties                                                               *)

\* The types of the variables.
TypeOK ==
  /\ os \in Systems /\ machine \in Machines[os] /\ {distro, autoStart, up, handle} \subseteq BOOLEAN
  /\ runtime \in {"stub", "real"} /\ report \in {"none", "due", "missed", "told"}
  /\ lock \in Calls \cup {None} /\ vm \in {"stopped", "starting", "running", "error"}
  /\ phase \in {"launching", "ready"} /\ run \in {"none", "files", "ask", "init", "image"}
  /\ \A i \in Calls : call[i].at \in {"none", "wait", "import", "podman"}

\* The library opens on Windows only with a distribution in which podman has
\* answered in this launch: whatever page asked, and however often it was
\* loaded (setupWindows, init_wsl).
ReadyIsBacked ==
  os = "windows" /\ phase = "ready" => handle /\ (distro \/ "removed" \in mishaps)

\* A distribution is never imported over one that is there, though each call
\* looks first and imports later (init_wsl under the mutex).
ImportedOnce == \A i \in Calls : call[i].at = "import" => ~distro

\* A screen without a button is only shown while something is under way
\* (checkAndSetupPlatform, StatusContent).
LoadingIsBusy == up /\ phase = "launching" /\ status \in Loading => run # "none"

\* What the gate shows is backed by what is there.
GateIsTrue == TypeOK /\ ReadyIsBacked /\ ImportedOnce /\ LoadingIsBusy

\* What is under way ends, in the library or on a screen that says what to do
\* (checkAndSetupPlatform).
GateSettles == run # "none" ~> run = "none"

\* "container operations disabled until setup completes" (windows.rs:33): once
\* setup is through there is a runtime.
ReadyCanRun == phase = "ready" /\ os # "macos" => runtime = "real"

\* "VM image is not installed at ... Restart the app to download it."
\* (error.rs:212): the launcher, started often enough, gets the image.
RestartGetsImage == [](os = "macos" /\ machine = "noimage" => <>(machine = "image"))

\* "Reboot required after enabling" (wsl_setup.rs:12): where a restart is due
\* the gate says so.
RebootIsAsked == run = "none" /\ status = "needs-wsl-enable" => machine # "pending"

\* "State file was unreadable" (use-state-recovery-notifier.ts): a report
\* reaches the user.
RecoveryIsTold == report # "missed"

\* init_vm answers for a machine that another caller is still starting.
ReadyIsUp == os = "macos" /\ autoStart /\ phase = "ready" => vm = "running"
=============================================================================
