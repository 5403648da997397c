------------------------------- MODULE Tunnel -------------------------------
(***************************************************************************)
(* Sharing a running project through a public tunnel                       *)
(* (src/src/tauri/src/tunnel): the commands that share and unshare it, the *)
(* reconciler that unshares a project it has stopped, the end of the       *)
(* launcher, and what the next launch does with what an earlier one left.  *)
(*                                                                         *)
(* One project stands for all: the map, the record and the event names are *)
(* keyed by its id.  A tunnel exists in four places: in the tunnel API, as *)
(* a cloudflared process, as an entry of the map, and in the project's     *)
(* record; every step changes one of them.                                 *)
(***************************************************************************)
EXTENDS Naturals, FiniteSets

CONSTANTS Tunnels,    \* bound: the tunnels the API makes
          Users,      \* bound: commands of the window and of agents under way
          Mishaps,    \* what may go wrong, see MishapNames
          MaxMishaps, \* bound: kinds of mishap in one behaviour
          None

\* overlap: a command begins while another one, or the reconciler's, is under
\* way, or the reconciler unshares while a share has yet to look at the map.
\* logout: there is no token.  api: a call to the API fails, or its answer is
\* lost.  spawn: cloudflared cannot be started.  mute: cloudflared does not connect in time.
\* dies: it exits.  down: the dev server stops while the project is being
\* shared.  abort: a start ends the reconciler while it unshares.  crash: the
\* launcher dies and is started again.
MishapNames == {"overlap", "logout", "api", "spawn", "mute", "dies", "down", "abort", "crash"}

Entries == [id : Tunnels, live : BOOLEAN]

ASSUME TunnelAssumption ==
  /\ IsFiniteSet(Tunnels) /\ None \notin Tunnels \cup Entries /\ "reconciler" \notin Users
  /\ Mishaps \subseteq MishapNames /\ MaxMishaps \in Nat

VARIABLES remote,  \* the tunnels that exist in the API
          procs,   \* the tunnels a cloudflared process runs
          watched, \* those whose stderr is still read
          linked,  \* those that have registered a connection
          active,  \* TunnelCoordinator::active
          record,  \* tunnel_id of the project's record
          up,      \* the project is Ready and its dev server answers
          call,    \* the calls under way
          left,    \* ghost: the record at the last crash
          mishaps  \* ghost: what has gone wrong so far

vars == <<remote, procs, watched, linked, active, record, up, call, left, mishaps>>

Callers == Users \cup {"reconciler"}
Idle == [pc |-> "idle", op |-> "none", id |-> None, token |-> FALSE]

Init ==
  /\ remote = {} /\ procs = {} /\ watched = {} /\ linked = {}
  /\ active = None /\ record = None /\ up = FALSE
  /\ call = [c \in Callers |-> Idle]
  /\ left = None /\ mishaps = {}

Mishap(kind) ==
  /\ kind \in Mishaps /\ Cardinality(mishaps \cup {kind}) <= MaxMishaps
  /\ mishaps' = mishaps \cup {kind}
Fine == UNCHANGED mishaps

At(c, label) == call[c].pc = label
Go(c, label) == call' = [call EXCEPT ![c].pc = label]
GoWith(c, label, id) == call' = [call EXCEPT ![c] = [@ EXCEPT !.pc = label, !.id = id]]
Back(c) == call' = [call EXCEPT ![c] = Idle]
NoneUnderWay == \A c \in Callers : At(c, "idle")

-----------------------------------------------------------------------------
(* share *)

Begin(c, op, label) ==
  /\ At(c, "idle")
  /\ IF NoneUnderWay THEN Fine ELSE Mishap("overlap")
  /\ call' = [call EXCEPT ![c] = [Idle EXCEPT !.op = op, !.pc = label]]
  /\ UNCHANGED <<remote, procs, watched, linked, active, record, up, left>>

\* share_project and the tool that makes a preview link: only a project that
\* is Ready, and only when it is looked at.
BeginShare(c) == up /\ Begin(c, "share", "shareToken")

\* A token that has expired is refreshed first; without one nothing is shared.
ShareToken(c) ==
  /\ At(c, "shareToken")
  /\ \/ call' = [call EXCEPT ![c] = [@ EXCEPT !.pc = "share", !.token = TRUE]] /\ Fine
     \/ Back(c) /\ Mishap("logout")
  /\ UNCHANGED <<remote, procs, watched, linked, active, record, up, left>>

\* A project that is in the map keeps its URL.
Share(c) ==
  /\ At(c, "share")
  /\ IF active # None THEN Back(c) ELSE Go(c, "create")
  /\ UNCHANGED <<remote, procs, watched, linked, active, record, up, left, mishaps>>

CreateTunnel(c) ==
  /\ At(c, "create")
  /\ \/ \E t \in Tunnels \ (remote \cup procs) :
          /\ remote' = remote \cup {t}
          /\ \/ GoWith(c, "spawn", t) /\ Fine
             \/ Back(c) /\ Mishap("api")
     \/ UNCHANGED remote /\ Back(c) /\ Mishap("api")
  /\ UNCHANGED <<procs, watched, linked, active, record, up, left>>

\* Without a process the share fails, and the tunnel stays in the API.
SpawnProcess(c) ==
  /\ At(c, "spawn")
  /\ \/ /\ procs' = procs \cup {call[c].id} /\ watched' = watched \cup {call[c].id}
        /\ Go(c, "persist") /\ Fine
     \/ UNCHANGED <<procs, watched>> /\ Back(c) /\ Mishap("spawn")
  /\ UNCHANGED <<remote, linked, active, record, up, left>>

PersistTunnel(c) ==
  /\ At(c, "persist")
  /\ record' = call[c].id
  /\ Go(c, "insert")
  /\ UNCHANGED <<remote, procs, watched, linked, active, up, left, mishaps>>

\* An entry that is replaced is dropped: its process and the task that reads
\* it run on.
InsertTunnel(c) ==
  /\ At(c, "insert")
  /\ active' = [id |-> call[c].id, live |-> FALSE]
  /\ Go(c, "wait")
  /\ UNCHANGED <<remote, procs, watched, linked, record, up, left, mishaps>>

\* Mutant: the wait has no end of its own.
WaitWithoutEnd(c) ==
  /\ At(c, "wait")
  /\ active # None /\ active.live /\ Go(c, "probe")
  /\ UNCHANGED <<remote, procs, watched, linked, active, record, up, left, mishaps>>

\* The wait looks at the entry that is in the map; it gives up after a time,
\* and a removed entry makes sure that it does.
WaitForLive(c) ==
  /\ At(c, "wait")
  /\ \/ active # None /\ active.live /\ Go(c, "probe") /\ Fine
     \/ active = None /\ Go(c, "take") /\ Fine
     \/ /\ active # None /\ ~active.live /\ Go(c, "take")
        /\ IF active.id \in watched THEN Mishap("mute") ELSE Fine
  /\ UNCHANGED <<remote, procs, watched, linked, active, record, up, left>>

ProbeOrigin(c) ==
  /\ At(c, "probe")
  /\ IF up THEN Back(c) ELSE Go(c, "take")
  /\ UNCHANGED <<remote, procs, watched, linked, active, record, up, left, mishaps>>

-----------------------------------------------------------------------------
(* unshare, also as the end of a failed share and of the launcher *)

\* unshare_project and the tool that stops a preview link.
BeginUnshare(c) == Begin(c, "unshare", "unshareToken")

\* A user who has signed out can stop sharing all the same.
UnshareToken(c) ==
  /\ At(c, "unshareToken")
  /\ \/ call' = [call EXCEPT ![c] = [@ EXCEPT !.pc = "unshare", !.token = TRUE]] /\ Fine
     \/ Go(c, "unshare") /\ Mishap("logout")
  /\ UNCHANGED <<remote, procs, watched, linked, active, record, up, left>>

\* What is not shared is left alone.
Unshare(c) ==
  /\ At(c, "unshare")
  /\ IF active = None THEN Back(c) ELSE GoWith(c, "kill", active.id)
  /\ active' = None
  /\ UNCHANGED <<remote, procs, watched, linked, record, up, left, mishaps>>

\* The reconciler unshares a project once it has stopped it, without a token.
LoopUnshares ==
  /\ At("reconciler", "idle") /\ ~up /\ active # None
  /\ IF \E c \in Users : call[c].pc \in {"shareToken", "share"} THEN Mishap("overlap") ELSE Fine
  /\ call' = [call EXCEPT !["reconciler"] = [Idle EXCEPT !.pc = "unshare", !.op = "unshare"]]
  /\ UNCHANGED <<remote, procs, watched, linked, active, record, up, left>>

\* abort_failed_share takes whichever entry is there.
TakeEntry(c) ==
  /\ At(c, "take")
  /\ IF active = None THEN Go(c, "clear") ELSE GoWith(c, "kill", active.id)
  /\ active' = None
  /\ UNCHANGED <<remote, procs, watched, linked, record, up, left, mishaps>>

\* Mutant: the process is dropped with the entry, as a tokio Child may be.
DropProcess(c) ==
  /\ At(c, "kill")
  /\ watched' = watched \ {call[c].id}
  /\ Go(c, "delete")
  /\ UNCHANGED <<remote, procs, linked, active, record, up, left, mishaps>>

KillProcess(c) ==
  /\ At(c, "kill")
  /\ watched' = watched \ {call[c].id}
  /\ procs' = procs \ {call[c].id} /\ linked' = linked \ {call[c].id}
  /\ Go(c, "delete")
  /\ UNCHANGED <<remote, active, record, up, left, mishaps>>

\* Without a token the API refuses to delete.
DeleteTunnel(c) ==
  /\ At(c, "delete")
  /\ \/ remote' = (IF call[c].token THEN remote \ {call[c].id} ELSE remote) /\ Fine
     \/ UNCHANGED remote /\ Mishap("api")
  /\ Go(c, "clear")
  /\ UNCHANGED <<procs, watched, linked, active, record, up, left>>

ClearRecord(c) ==
  /\ At(c, "clear")
  /\ record' = None
  /\ Back(c)
  /\ UNCHANGED <<remote, procs, watched, linked, active, up, left, mishaps>>

\* A start of the project replaces its reconciler, which may be in the middle
\* of an unshare.
AbortReconciler ==
  /\ call["reconciler"].pc \in {"unshare", "delete", "clear"} /\ Mishap("abort")
  /\ Back("reconciler")
  /\ UNCHANGED <<remote, procs, watched, linked, active, record, up, left>>

\* graceful_shutdown: every project is unshared without a token and marked
\* stopped, which clears its tunnel; then stop_all drains the map.
StopAll ==
  /\ NoneUnderWay /\ active # None
  /\ procs' = procs \ {active.id} /\ watched' = watched \ {active.id}
  /\ linked' = linked \ {active.id}
  /\ active' = None /\ record' = None /\ up' = FALSE
  /\ UNCHANGED <<remote, call, left, mishaps>>

-----------------------------------------------------------------------------
(* cloudflared and its watcher *)

\* Each connection it registers marks the entry that is in the map.
Registers(t) ==
  /\ t \in procs /\ t \in watched
  /\ linked' = linked \cup {t}
  /\ active' = IF active = None THEN None ELSE [active EXCEPT !.live = TRUE]
  /\ UNCHANGED <<remote, procs, watched, record, up, call, left, mishaps>>

ProcessDies(t) ==
  /\ t \in procs /\ Mishap("dies")
  /\ procs' = procs \ {t} /\ watched' = watched \ {t} /\ linked' = linked \ {t}
  /\ UNCHANGED <<remote, active, record, up, call, left>>

\* The project becomes Ready, or stops.
Serves ==
  /\ ~up /\ At("reconciler", "idle") /\ up' = TRUE /\ Fine
  /\ UNCHANGED <<remote, procs, watched, linked, active, record, call, left>>

ServesNoMore ==
  /\ up /\ up' = FALSE
  /\ IF \E c \in Users : call[c].op = "share" THEN Mishap("down") ELSE Fine
  /\ UNCHANGED <<remote, procs, watched, linked, active, record, call, left>>

-----------------------------------------------------------------------------
(* A crash of the launcher.  The processes live on, and nothing reads them. *)
(* The next launch marks every project stopped before it cleans up.         *)

Crash ==
  /\ At("reconciler", "idle") /\ Mishap("crash")
  /\ active' = None /\ watched' = {} /\ up' = FALSE
  /\ call' = [c \in Callers |-> IF c = "reconciler" THEN [Idle EXCEPT !.pc = "mark"] ELSE Idle]
  /\ left' = record
  /\ UNCHANGED <<remote, procs, linked, record>>

MarkAllStopped ==
  /\ At("reconciler", "mark")
  /\ record' = None
  /\ Go("reconciler", "cleanup")
  /\ UNCHANGED <<remote, procs, watched, linked, active, up, left, mishaps>>

\* Each tunnel that a record names is deleted with the user's token.
CleanupOrphans ==
  /\ At("reconciler", "cleanup")
  /\ remote' = remote \ {record} /\ record' = None
  /\ Back("reconciler")
  /\ UNCHANGED <<procs, watched, linked, active, up, left, mishaps>>

Step(c) ==
  \/ ShareToken(c) \/ Share(c) \/ UnshareToken(c) \/ Unshare(c)
  \/ CreateTunnel(c) \/ SpawnProcess(c) \/ PersistTunnel(c) \/ InsertTunnel(c)
  \/ WaitForLive(c) \/ ProbeOrigin(c) \/ TakeEntry(c) \/ KillProcess(c)
  \/ DeleteTunnel(c) \/ ClearRecord(c)

Next ==
  \/ \E c \in Users : BeginShare(c) \/ BeginUnshare(c)
  \/ \E c \in Callers : Step(c)
  \/ LoopUnshares
  \/ \E t \in Tunnels : Registers(t) \/ ProcessDies(t)
  \/ AbortReconciler \/ StopAll \/ Serves \/ ServesNoMore
  \/ Crash \/ MarkAllStopped \/ CleanupOrphans

Spec == Init /\ [][Next]_vars

\* The awaits of a call end, a process that runs connects, and the wait is over
\* after its time however often the entry of the map comes and goes.
FairSpec ==
  /\ Spec
  /\ \A c \in Callers : WF_vars(Step(c)) /\ SF_vars(WaitForLive(c))
  /\ \A t \in Tunnels : WF_vars(Registers(t))

-----------------------------------------------------------------------------
(* Properties *)

Without(kinds) == mishaps \cap kinds = {}
Holds(c, t) == call[c].id = t /\ call[c].pc \in {"persist", "insert", "kill"}

TypeOK ==
  /\ remote \subseteq Tunnels /\ procs \subseteq Tunnels
  /\ watched \subseteq procs /\ linked \subseteq procs
  /\ active \in Entries \cup {None} /\ record \in Tunnels \cup {None}
  /\ up \in BOOLEAN /\ left \in Tunnels \cup {None} /\ mishaps \subseteq Mishaps
  /\ \A c \in Callers : call[c].id \in Tunnels \cup {None}

\* Every cloudflared process can be found and killed: it is in the map or in
\* the hands of a call, but for what a crash leaves, or a second share that
\* replaces the entry of the first.
NoStrayProcess ==
  Without({"crash", "overlap"}) =>
    \A t \in procs : (active # None /\ active.id = t) \/ \E c \in Callers : Holds(c, t)

\* A tunnel is shown live only when its own process has registered: unless it
\* died since, or the watcher of another share's process marked it.
LiveIsLinked ==
  (active # None /\ active.live /\ Without({"dies", "overlap"})) => active.id \in linked

\* With no call under way the record and the map name the same tunnel, unless
\* a share and an unshare overlapped, or an unshare was aborted.
RecordIsActive ==
  (NoneUnderWay /\ Without({"overlap", "abort"})) =>
    record = IF active = None THEN None ELSE active.id

\* What is shared, with no call under way, is live, and unless it was stopped
\* since, its server answers.
SharedIsLive ==
  (NoneUnderWay /\ active # None /\ Without({"overlap"})) => active.live

\* The process, the map, the record and the API tell the same of a tunnel.
AccountsAgree == TypeOK /\ NoStrayProcess /\ LiveIsLinked /\ RecordIsActive /\ SharedIsLive

\* A share ends, one way or another.
ShareEnds == \A c \in Users : (At(c, "wait") ~> At(c, "idle"))

\* What a crash left is deleted by the launch that follows.
OrphanIsDeleted ==
  (At("reconciler", "idle") /\ left # None /\ Without({"api", "abort"})) => left \notin remote
=============================================================================
