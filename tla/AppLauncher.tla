----------------------------- MODULE AppLauncher -----------------------------
(***************************************************************************)
(* The launcher's installed apps: install, run, stop, open, deep link,     *)
(* startup auto-run and reset (src/src/tauri/src/apps/commands.rs and      *)
(* deeplink.rs) over AppStore (apps/store.rs), the port forwarders         *)
(* (vm/port_forward.rs) and podman inside the virtual machine, which they  *)
(* reach through the agent's ExecHost call.                                *)
(*                                                                         *)
(* A task is one command.  Every call it awaits and every lock it takes is *)
(* a step.  AppStore writes its file under its mutex in each operation, so *)
(* store stands for memory and disk alike.  The VM's disk is cloned anew   *)
(* at each boot: what podman holds is gone after a restart.                *)
(***************************************************************************)
EXTENDS Naturals, FiniteSets

CONSTANTS Slugs, Versions,
          Ports,      \* bound: the host ports from FIRST_PORT on
          Tasks,      \* bound: commands under way, besides the auto-run
          Handles,    \* bound: forwarder tasks that exist at a time
          Commands,   \* bound: the commands that are given, see AllCommands
          Mishaps,    \* what may go wrong, see MishapNames
          MaxMishaps, \* bound: kinds of mishap in one behaviour
          None

\* overlap: two commands on one slug.  restart: the launcher dies and starts
\* again.  cutoff: unpacking fails halfway.  vm: the VM stops and starts.
\* abort: an aborted listener closes after its successor has tried to bind.
\* podman: the container is removed and podman run then fails.
MishapNames == {"overlap", "restart", "cutoff", "vm", "abort", "podman"}

AllCommands == {"install", "link", "run", "stop", "open", "reset"}

Images == Slugs \X Versions
Apps == [version : Versions, port : Ports \cup {None}, running : BOOLEAN]
Containers == [image : Images, port : Ports]

ASSUME AppLauncherAssumption ==
  /\ Ports \subseteq Nat
  /\ IsFiniteSet(Slugs) /\ IsFiniteSet(Ports)
  /\ Cardinality(Slugs) <= Cardinality(Ports)
  /\ Mishaps \subseteq MishapNames /\ Commands \subseteq AllCommands
  /\ MaxMishaps \in Nat
  /\ "auto" \notin Tasks
  /\ None \notin Slugs \cup Versions \cup Ports \cup Handles \cup Images \cup Apps \cup Containers
  /\ "cut off" \notin Versions

VARIABLES store,      \* AppStore: the InstalledApp of each slug
          image,      \* repos/{slug}/image.tar: a version, None, or cut off
          vmUp,       \* the VM answers
          loaded,     \* images in podman's storage
          alias,      \* what localhost/dotapps-{slug}:current names
          container,  \* the running container of each slug
          volume,     \* the slugs that have a data volume
          forwards,   \* AppForwards
          listener,   \* the forwarder tasks and the port each is for
          window,     \* the port the app's window was opened on
          pc, task,   \* the commands under way
          boot,       \* the startup task has not started the auto-run yet
          mishaps     \* ghost: what has gone wrong so far

podman == <<vmUp, loaded, alias, container, volume>>
net == <<forwards, listener>>
vars == <<store, image, podman, net, window, pc, task, boot, mishaps>>

Actors == Tasks \cup {"auto"}
Installed(s) == store[s] # None
Installs == {s \in Slugs : Installed(s)}
Claimed == {store[s].port : s \in Installs} \ {None}

NoTask == [op |-> "none", slug |-> None, version |-> None, port |-> None,
           handle |-> None, queue |-> {}]
NoListener == [state |-> "free", port |-> None]
NoPodman ==
  /\ loaded' = {}
  /\ alias' = [s \in Slugs |-> None]
  /\ container' = [s \in Slugs |-> None]
  /\ volume' = {}

Init ==
  /\ store = [s \in Slugs |-> None]
  /\ image = [s \in Slugs |-> None]
  /\ vmUp = TRUE /\ loaded = {}
  /\ alias = [s \in Slugs |-> None]
  /\ container = [s \in Slugs |-> None]
  /\ volume = {}
  /\ forwards = [s \in Slugs |-> None]
  /\ listener = [h \in Handles |-> NoListener]
  /\ window = [s \in Slugs |-> None]
  /\ pc = [t \in Actors |-> "idle"]
  /\ task = [t \in Actors |-> NoTask]
  /\ boot = FALSE
  /\ mishaps = {}

MayGoWrong(kind) == kind \in Mishaps /\ Cardinality(mishaps \cup {kind}) <= MaxMishaps
Mishap(kind) == MayGoWrong(kind) /\ mishaps' = mishaps \cup {kind}

At(t, label) == pc[t] = label
Goto(t, label) == pc' = [pc EXCEPT ![t] = label] /\ UNCHANGED task
Note(t, label, field, value) ==
  /\ pc' = [pc EXCEPT ![t] = label]
  /\ task' = [task EXCEPT ![t][field] = value]
Return(t) ==
  /\ pc' = [pc EXCEPT ![t] = "idle"]
  /\ task' = [task EXCEPT ![t] = NoTask]

\* Where a run ends up: the link opens the window, the auto-run goes on to
\* the next app whatever happened, a command returns.
RunReturns(t, ok) ==
  CASE task[t].op = "auto" -> Goto(t, "next")
    [] task[t].op = "link" /\ ok -> Goto(t, "open")
    [] OTHER -> Return(t)

\* Two commands on one slug, or a command beside a reset, are a mishap.
WorkOn(t, s) ==
  IF \A u \in Actors \ {t} : task[u].slug # s /\ task[u].op # "reset"
    THEN UNCHANGED mishaps ELSE Mishap("overlap")

Begin(t, op, s, v, label) ==
  /\ t \in Tasks /\ At(t, "idle")
  /\ op \in Commands /\ WorkOn(t, s)
  /\ pc' = [pc EXCEPT ![t] = label]
  /\ task' = [task EXCEPT ![t] = [NoTask EXCEPT !.op = op, !.slug = s, !.version = v]]
  /\ UNCHANGED <<store, image, podman, net, window, boot>>

-----------------------------------------------------------------------------
(* The store *)

\* Mutant: ports other apps hold are not skipped.
AllocatePortFirst(s) ==
  LET port == IF store[s].port # None THEN store[s].port
              ELSE CHOOSE p \in Ports : \A q \in Ports : p <= q
  IN store' = [store EXCEPT ![s].port = port]

\* The assigned port, or else the lowest one no app claims.
AllocatePort(s) ==
  LET free == Ports \ Claimed
      port == IF store[s].port # None THEN store[s].port
              ELSE CHOOSE p \in free : \A q \in free : p <= q
  IN store' = [store EXCEPT ![s].port = port]

Upsert(s, version, port) ==
  store' = [store EXCEPT ![s] = [version |-> version, port |-> port, running |-> FALSE]]

SetRunning(s, running) == store' = [store EXCEPT ![s].running = running]

-----------------------------------------------------------------------------
(* install_inner *)

InstallApp(t, s, v) == Begin(t, "install", s, v, "fetch")

\* handle() waits for the VM before it installs, and gives up after VM_WAIT.
OpenLink(t, s, v) == Begin(t, "link", s, v, "wait")

LinkWaits(t) ==
  /\ At(t, "wait")
  /\ (vmUp /\ Goto(t, "fetch")) \/ (~vmUp /\ Return(t))
  /\ UNCHANGED <<store, image, podman, net, window, boot, mishaps>>

\* The manifest and the artifact are fetched, or an error is returned.
Fetch(t) ==
  /\ At(t, "fetch")
  /\ Goto(t, "unpack") \/ Return(t)
  /\ UNCHANGED <<store, image, podman, net, window, boot, mishaps>>

\* image.tar is written in place.
StartUnpack(t) ==
  /\ At(t, "unpack")
  /\ image' = [image EXCEPT ![task[t].slug] = "cut off"]
  /\ Goto(t, "unpacking")
  /\ UNCHANGED <<store, podman, net, window, boot, mishaps>>

FinishUnpack(t) ==
  /\ At(t, "unpacking")
  /\ \/ /\ image' = [image EXCEPT ![task[t].slug] = task[t].version]
        /\ Goto(t, "load")
        /\ UNCHANGED mishaps
     \/ /\ Mishap("cutoff")
        /\ Return(t)
        /\ UNCHANGED image
  /\ UNCHANGED <<store, podman, net, window, boot>>

\* ExecHost fails when the VM is down, and may fail on its own.
LoadImage(t) ==
  LET s == task[t].slug IN
  /\ At(t, "load")
  /\ \/ /\ vmUp /\ image[s] \in Versions
        /\ loaded' = loaded \cup {<<s, image[s]>>}
        /\ Goto(t, "get_port")
     \/ /\ Return(t)
        /\ UNCHANGED loaded
  /\ UNCHANGED <<store, image, vmUp, alias, container, volume, net, window, boot, mishaps>>

\* store.get, and store.upsert with what it returned.
GetPort(t) ==
  LET s == task[t].slug IN
  /\ At(t, "get_port")
  /\ Note(t, "upsert", "port", IF Installed(s) THEN store[s].port ELSE None)
  /\ UNCHANGED <<store, image, podman, net, window, boot, mishaps>>

UpsertApp(t) ==
  /\ At(t, "upsert")
  /\ Upsert(task[t].slug, task[t].version, task[t].port)
  /\ IF task[t].op = "link" THEN Note(t, "allocate", "port", None) ELSE Return(t)
  /\ UNCHANGED <<image, podman, net, window, boot, mishaps>>

-----------------------------------------------------------------------------
(* run_app_inner *)

RunApp(t, s) == Begin(t, "run", s, None, "allocate")

\* store.get and store.allocate_port: both fail unless the app is installed.
Allocate(t) ==
  LET s == task[t].slug IN
  /\ At(t, "allocate")
  /\ \/ /\ ~Installed(s)
        /\ RunReturns(t, FALSE)
        /\ UNCHANGED store
     \/ /\ Installed(s)
        /\ AllocatePort(s)
        /\ Note(t, "tag", "port", store'[s].port)
  /\ UNCHANGED <<image, podman, net, window, boot, mishaps>>

\* Mutant: the newest image of the storage is taken to be the one just loaded.
LoadedRefNewest(s) == IF image[s] \in Versions THEN loaded \cup {<<s, image[s]>>} ELSE loaded

\* What the script may tag: the image podman load prints, or, when it prints
\* none, one that is in the storage.
LoadedRef(s) == IF image[s] \in Versions THEN {<<s, image[s]>>} ELSE loaded

\* podman load and podman tag.  Without a reference the alias stays what it was.
TagImage(t) ==
  LET s == task[t].slug IN
  /\ At(t, "tag")
  /\ \/ /\ vmUp
        /\ loaded' = IF image[s] \in Versions THEN loaded \cup {<<s, image[s]>>} ELSE loaded
        /\ IF LoadedRef(s) = {} THEN UNCHANGED alias
           ELSE \E ref \in LoadedRef(s) : alias' = [alias EXCEPT ![s] = ref]
        /\ Goto(t, "container")
     \/ /\ RunReturns(t, FALSE)
        /\ UNCHANGED <<loaded, alias>>
  /\ UNCHANGED <<store, image, vmUp, container, volume, net, window, boot, mishaps>>

PortInUse(s, port) == \E r \in Slugs \ {s} : container[r] # None /\ container[r].port = port

\* podman volume create, rm -f and run, the rest of the same script.
RunContainer(t) ==
  LET s == task[t].slug IN
  /\ At(t, "container")
  /\ \/ /\ vmUp
        /\ volume' = volume \cup {s}
        /\ \/ /\ alias[s] # None /\ ~PortInUse(s, task[t].port)
              /\ container' = [container EXCEPT ![s] = [image |-> alias[s], port |-> task[t].port]]
              /\ Goto(t, "vsock")
              /\ UNCHANGED mishaps
           \/ /\ IF alias[s] = None \/ PortInUse(s, task[t].port)
                   THEN UNCHANGED mishaps ELSE Mishap("podman")
              /\ container' = [container EXCEPT ![s] = None]
              /\ RunReturns(t, FALSE)
     \/ /\ ~vmUp
        /\ RunReturns(t, FALSE)
        /\ UNCHANGED <<container, volume, mishaps>>
  /\ UNCHANGED <<store, image, vmUp, loaded, alias, net, window, boot>>

FindVsock(t) ==
  /\ At(t, "vsock")
  /\ IF vmUp THEN Goto(t, "unforward") ELSE RunReturns(t, FALSE)
  /\ UNCHANGED <<store, image, podman, net, window, boot, mishaps>>

\* AbortHandle::abort asks; the listener keeps its port until it is dropped.
Abort(h) ==
  listener' = IF h = None \/ listener[h].state = "free" THEN listener
              ELSE IF listener[h].state = "bound"
                   THEN [listener EXCEPT ![h].state = "closing"]
                   ELSE [listener EXCEPT ![h] = NoListener]

\* Mutant: the old forwarder is forgotten, not aborted.
RemoveForwardOnly(s) ==
  /\ forwards' = [forwards EXCEPT ![s] = None]
  /\ UNCHANGED listener

RemoveForward(s) ==
  /\ forwards' = [forwards EXCEPT ![s] = None]
  /\ Abort(forwards[s])

Unforward(t) ==
  /\ At(t, "unforward")
  /\ RemoveForward(task[t].slug)
  /\ Goto(t, "forward")
  /\ UNCHANGED <<store, image, podman, window, boot, mishaps>>

StartForwarding(t) ==
  /\ At(t, "forward")
  /\ \E h \in Handles :
       /\ listener[h].state = "free"
       /\ \A s \in Slugs : forwards[s] # h
       /\ \A u \in Actors : task[u].handle # h
       /\ listener' = [listener EXCEPT ![h] = [state |-> "spawned", port |-> task[t].port]]
       /\ Note(t, "insert", "handle", h)
  /\ UNCHANGED <<store, image, podman, forwards, window, boot, mishaps>>

\* A handle that is in the map already is dropped, its task runs on.
InsertForward(t) ==
  /\ At(t, "insert")
  /\ forwards' = [forwards EXCEPT ![task[t].slug] = task[t].handle]
  /\ Note(t, "set_running", "handle", None)
  /\ UNCHANGED <<store, image, podman, listener, window, boot, mishaps>>

\* After wait_http_ready, which gives up in the end.
MarkRunning(t) ==
  LET s == task[t].slug IN
  /\ At(t, "set_running")
  /\ \/ Installed(s) /\ SetRunning(s, TRUE) /\ RunReturns(t, TRUE)
     \/ ~Installed(s) /\ UNCHANGED store /\ RunReturns(t, FALSE)
  /\ UNCHANGED <<image, podman, net, window, boot, mishaps>>

\* run_listener: a bind that fails is logged.
Bind(h) ==
  /\ listener[h].state = "spawned"
  /\ IF \A g \in Handles : listener[g].state # "closing"
       THEN UNCHANGED mishaps ELSE Mishap("abort")
  /\ listener' = IF \E g \in Handles \ {h} : /\ listener[g].state \in {"bound", "closing"}
                                             /\ listener[g].port = listener[h].port
                 THEN [listener EXCEPT ![h] = NoListener]
                 ELSE [listener EXCEPT ![h].state = "bound"]
  /\ UNCHANGED <<store, image, podman, forwards, window, pc, task, boot>>

CloseListener(h) ==
  /\ listener[h].state = "closing"
  /\ listener' = [listener EXCEPT ![h] = NoListener]
  /\ UNCHANGED <<store, image, podman, forwards, window, pc, task, boot, mishaps>>

-----------------------------------------------------------------------------
(* open_inner: the window's URL is set when it is built; the close button and
   reset only hide it (app/platform/macos.rs on_close_requested). *)
ShowWindow(s) ==
  IF Installed(s) /\ store[s].port # None /\ window[s] = None
  THEN window' = [window EXCEPT ![s] = store[s].port] ELSE UNCHANGED window

OpenApp(t, s) ==
  /\ t \in Tasks /\ At(t, "idle") /\ "open" \in Commands
  /\ Installed(s) /\ store[s].port # None
  /\ ShowWindow(s)
  /\ UNCHANGED <<store, image, podman, net, pc, task, boot, mishaps>>

LinkOpens(t) ==
  /\ At(t, "open")
  /\ ShowWindow(task[t].slug)
  /\ Return(t)
  /\ UNCHANGED <<store, image, podman, net, boot, mishaps>>

-----------------------------------------------------------------------------
(* dotapps_stop_app *)

StopApp(t, s) == Installed(s) /\ Begin(t, "stop", s, None, "stop")

\* A podman stop that fails is logged, a failed call returned.
StopContainer(t) ==
  LET s == task[t].slug IN
  /\ At(t, "stop")
  /\ \/ /\ vmUp
        /\ container' = [container EXCEPT ![s] = None]
        /\ Goto(t, "stop_forward")
     \/ /\ Return(t)
        /\ UNCHANGED container
  /\ UNCHANGED <<store, image, vmUp, loaded, alias, volume, net, window, boot, mishaps>>

StopForward(t) ==
  /\ At(t, "stop_forward")
  /\ RemoveForward(task[t].slug)
  /\ Goto(t, "set_stopped")
  /\ UNCHANGED <<store, image, podman, window, boot, mishaps>>

MarkStopped(t) ==
  LET s == task[t].slug IN
  /\ At(t, "set_stopped")
  /\ IF Installed(s) THEN SetRunning(s, FALSE) ELSE UNCHANGED store
  /\ Return(t)
  /\ UNCHANGED <<image, podman, net, window, boot, mishaps>>

-----------------------------------------------------------------------------
(* reset_demo: every failure is ignored *)

Reset(t) ==
  /\ t \in Tasks /\ At(t, "idle")
  /\ "reset" \in Commands
  /\ IF \A u \in Actors : At(u, "idle") THEN UNCHANGED mishaps ELSE Mishap("overlap")
  /\ pc' = [pc EXCEPT ![t] = "reset"]
  /\ task' = [task EXCEPT ![t] = [NoTask EXCEPT !.op = "reset", !.queue = Installs]]
  /\ UNCHANGED <<store, image, podman, net, window, boot>>

ResetContainer(t) ==
  /\ At(t, "reset")
  /\ \E s \in task[t].queue :
       /\ pc' = [pc EXCEPT ![t] = "reset_forward"]
       /\ task' = [task EXCEPT ![t].slug = s, ![t].queue = @ \ {s}]
       /\ \/ /\ vmUp
             /\ container' = [container EXCEPT ![s] = None]
             /\ volume' = volume \ {s}
          \/ UNCHANGED <<container, volume>>
  /\ UNCHANGED <<store, image, vmUp, loaded, alias, net, window, boot, mishaps>>

ResetForward(t) ==
  /\ At(t, "reset_forward")
  /\ RemoveForward(task[t].slug)
  /\ Note(t, "reset", "slug", None)
  /\ UNCHANGED <<store, image, podman, window, boot, mishaps>>

ResetStore(t) ==
  /\ At(t, "reset") /\ task[t].queue = {}
  /\ store' = [s \in Slugs |-> None]
  /\ Return(t)
  /\ UNCHANGED <<image, podman, net, window, boot, mishaps>>

-----------------------------------------------------------------------------
(* The startup auto-run, the VM and the process *)

\* auto_start_installed, once the startup task's start has returned.
StartAuto ==
  /\ boot /\ vmUp /\ At("auto", "idle")
  /\ boot' = FALSE
  /\ pc' = [pc EXCEPT !["auto"] = "next"]
  /\ task' = [task EXCEPT !["auto"] = [NoTask EXCEPT !.op = "auto", !.queue = Installs]]
  /\ UNCHANGED <<store, image, podman, net, window, mishaps>>

NextAuto ==
  /\ At("auto", "next")
  /\ \/ /\ task["auto"].queue = {}
        /\ Return("auto")
        /\ UNCHANGED mishaps
     \/ \E s \in task["auto"].queue :
          /\ WorkOn("auto", s)
          /\ pc' = [pc EXCEPT !["auto"] = "allocate"]
          /\ task' = [task EXCEPT !["auto"] =
                        [NoTask EXCEPT !.op = "auto", !.slug = s, !.queue = task["auto"].queue \ {s}]]
  /\ UNCHANGED <<store, image, podman, net, window, boot>>

\* stop_vm, the tray or a failure; AppStore and AppForwards are not told.  The
\* next boot clones the base image over this one's disk.
StopVm ==
  /\ vmUp /\ Mishap("vm")
  /\ vmUp' = FALSE
  /\ NoPodman
  /\ UNCHANGED <<store, image, net, window, pc, task, boot>>

StartVm ==
  /\ ~vmUp
  /\ vmUp' = TRUE
  /\ UNCHANGED <<store, image, loaded, alias, container, volume, net, window, pc, task, boot, mishaps>>

\* The launcher dies and is started again: mark_all_stopped, then the VM.
Restart ==
  /\ Mishap("restart")
  /\ store' = [s \in Slugs |-> IF Installed(s) THEN [store[s] EXCEPT !.running = FALSE] ELSE None]
  /\ vmUp' = FALSE
  /\ NoPodman
  /\ forwards' = [s \in Slugs |-> None]
  /\ listener' = [h \in Handles |-> NoListener]
  /\ window' = [s \in Slugs |-> None]
  /\ pc' = [t \in Actors |-> "idle"]
  /\ task' = [t \in Actors |-> NoTask]
  /\ boot' = TRUE
  /\ UNCHANGED image

-----------------------------------------------------------------------------
TaskStep(t) ==
  \/ LinkWaits(t) \/ Fetch(t) \/ StartUnpack(t) \/ FinishUnpack(t) \/ LoadImage(t)
  \/ GetPort(t) \/ UpsertApp(t)
  \/ Allocate(t) \/ TagImage(t) \/ RunContainer(t) \/ FindVsock(t) \/ Unforward(t)
  \/ StartForwarding(t) \/ InsertForward(t) \/ MarkRunning(t) \/ LinkOpens(t)
  \/ StopContainer(t) \/ StopForward(t) \/ MarkStopped(t)
  \/ ResetContainer(t) \/ ResetForward(t) \/ ResetStore(t)

Command(t) ==
  \/ \E s \in Slugs, v \in Versions : InstallApp(t, s, v) \/ OpenLink(t, s, v)
  \/ \E s \in Slugs : RunApp(t, s) \/ StopApp(t, s) \/ OpenApp(t, s)
  \/ Reset(t)

Next ==
  \/ \E t \in Tasks : Command(t)
  \/ \E t \in Actors : TaskStep(t)
  \/ \E h \in Handles : Bind(h) \/ CloseListener(h)
  \/ StartAuto \/ NextAuto \/ StopVm \/ StartVm \/ Restart

Spec == Init /\ [][Next]_vars

-----------------------------------------------------------------------------
(* Properties *)

\* The shape of the state.
TypeOK ==
  /\ store \in [Slugs -> Apps \cup {None}]
  /\ image \in [Slugs -> Versions \cup {None, "cut off"}]
  /\ vmUp \in BOOLEAN /\ boot \in BOOLEAN /\ mishaps \subseteq MishapNames
  /\ loaded \subseteq Images
  /\ alias \in [Slugs -> Images \cup {None}]
  /\ container \in [Slugs -> Containers \cup {None}]
  /\ volume \subseteq Slugs
  /\ forwards \in [Slugs -> Handles \cup {None}]
  /\ listener \in [Handles -> [state : {"free", "spawned", "bound", "closing"},
                               port : Ports \cup {None}]]
  /\ window \in [Slugs -> Ports \cup {None}]

\* A slug no command is working on.
Settled(s) ==
  /\ \A t \in Actors : task[t].slug # s /\ task[t].op # "reset"
  /\ \A h \in Handles : listener[h].state \in {"free", "bound"}

Forwarded(s) ==
  /\ forwards[s] # None
  /\ listener[forwards[s]] = [state |-> "bound", port |-> store[s].port]

Without(kinds) == mishaps \cap kinds = {}

\* No two installed apps are ever given the same host port, through installs,
\* updates, runs and resets of several apps at a time, whatever goes wrong
\* short of two commands on one app at once (allocate_port).
UniquePorts ==
  Without({"overlap"}) => \A r, s \in Slugs :
    r # s /\ Installed(r) /\ Installed(s) /\ store[r].port # None => store[r].port # store[s].port

\* With the same exception, while an app stays installed its port, once assigned,
\* does not change: install_inner carries it over.
PortStays ==
  Without({"overlap"}) => \A s \in Slugs : Installed(s) /\ store[s].port # None /\ store'[s] # None
    => store'[s].port = store[s].port

\* A step leaves every installed app a port of its own, and the port it had.
PortsAreKept == [][UniquePorts' /\ PortStays]_vars

\* The container of an app runs an image of that app, although the script takes
\* any image when podman load names none.  Only an image.tar that was cut off,
\* by a failure or because the launcher died, or two commands break it.
OwnImage ==
  Without({"overlap", "restart", "cutoff"}) =>
    \A s \in Slugs : container[s] # None => container[s].image[1] = s

\* The claim of README.md:42 ("pins an exact version"): unless the virtual
\* machine stops under it, a deep link opens the window over a container of the
\* version it named.
LinkRunsItsVersion ==
  Without({"overlap", "vm"}) => \A t \in Tasks : At(t, "open") =>
    LET c == container[task[t].slug]
    IN c # None /\ c.image = <<task[t].slug, task[t].version>> /\ c.port = store[task[t].slug].port

\* What runs for an app, or for the version of it a link names, is its image.
ImagesMatch == OwnImage /\ LinkRunsItsVersion

\* Once the commands on it have ended, an app shown as running has a container
\* on its port and a forwarder that listens there, after restarts and failed
\* downloads too.
RunningIsReachable ==
  Without({"overlap", "vm", "abort", "podman"}) => \A s \in Slugs : Settled(s) /\ Installed(s) /\ store[s].running =>
    container[s] # None /\ container[s].port = store[s].port /\ Forwarded(s)

\* A slug that is not installed, or no longer since a reset, has no forwarder,
\* though every failure of a reset is ignored.
OnlyInstalledForwarded ==
  Without({"overlap"}) => \A s \in Slugs : Settled(s) /\ ~Installed(s) => forwards[s] = None

\* What is shown as running can be reached, and nothing else is forwarded, over a
\* state that keeps its shape.
ReachableApps == TypeOK /\ RunningIsReachable /\ OnlyInstalledForwarded

\* The claim of README.md:32 ("Clicking Open runs the app").
OpenRunsTheApp == \A s \in Slugs : container[s] # None => container[s].image[1] = s

\* The claim of commands.rs:42 ("The host port assignment survives updates").
PortSurvivesUpdates ==
  [][\A s \in Slugs : Installed(s) /\ store[s].port # None /\ store'[s] # None
        => store'[s].port = store[s].port]_vars

\* The claim of commands.rs:27 ("store state is the source of truth for
\* running"): an app shown as running has a container.
RunningHasContainer ==
  \A s \in Slugs : Settled(s) /\ Installed(s) /\ store[s].running => container[s] # None

\* The same claim the other way: an app that runs is shown as running.
ContainerIsShown ==
  \A s \in Slugs : Settled(s) /\ Installed(s) /\ container[s] # None /\ Forwarded(s) => store[s].running

\* The claim of commands.rs:171 ("Replace any existing forwarder before binding
\* the host port again"): running an app again leaves it forwarded.
RerunIsForwarded ==
  \A s \in Slugs : Settled(s) /\ Installed(s) /\ store[s].running /\ container[s] # None => Forwarded(s)

\* The claim of commands.rs:216 ("tear down its port forward"): a stopped app
\* leaves no forwarder listening on its port.
StopClosesPort ==
  \A s \in Slugs, h \in Handles :
    Settled(s) /\ Installed(s) /\ forwards[s] = None /\ store[s].port # None
      => ~(listener[h].state = "bound" /\ listener[h].port = store[s].port)

\* The claim of README.md:36 ("a persistent named volume"): an app keeps its
\* volume, and the data in it, while it is installed and until a reset.
DataPersists ==
  [][\A s \in volume : Installed(s) /\ s \notin volume' => \E t \in Tasks : task[t].op = "reset"]_vars

\* The claim of commands.rs:314 ("close its window"): the window of an app shows
\* the port the app is on.
WindowShowsApp ==
  \A s \in Slugs : Settled(s) /\ Installed(s) /\ window[s] # None /\ store[s].port # None
    => window[s] = store[s].port
=============================================================================
