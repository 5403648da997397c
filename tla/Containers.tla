------------------------------ MODULE Containers ------------------------------
(***************************************************************************)
(* How a command is run in a container: the one-shot runs of builds and    *)
(* installs (Runtime::run_to_completion) and the start of a dev server     *)
(* (Runtime::start) on the three platforms.                                *)
(*   vm    : src/src/tauri/src/vm/runtime.rs through the client            *)
(*           (vm/agent_client.rs), the agent in the guest (src/src/agent)  *)
(*           and the podman service that the agent keeps up;               *)
(*   linux : PodmanRuntime of infrastructure/runtime.rs;                   *)
(*   wsl   : vm/wsl.rs, whose runtime runs no commands to completion.      *)
(*                                                                         *)
(* Every request of a run has a command of its own, named by its number;   *)
(* a container remembers the request whose command it was created with.    *)
(***************************************************************************)
EXTENDS Naturals, FiniteSets

CONSTANTS Backends,   \* the platforms, a subset of {"vm", "linux", "wsl"}
          Hosts,      \* bound: tasks of the launcher
          Threads,    \* bound: handlers of the agent at once
          Requests,   \* bound: 1..Requests runs and starts
          MaxPolls,   \* polls of a run before it is given up
          Mishaps, MaxMishaps

\* podman: the service dies, or hangs, under the agent.  race: the service is
\* restarted by two threads at once, the agent's own start among them.
\* late: the client stops waiting, the agent works on.  agent: the agent
\* restarts.  both: two tasks work on one container.  left: the container of
\* a run is there when the launcher starts.
MishapNames == {"podman", "race", "late", "agent", "both", "left"}

\* What the constants are.
ContainersAssumption ==
  /\ Backends \subseteq {"vm", "linux", "wsl"} /\ Mishaps \subseteq MishapNames
  /\ Threads \subseteq Nat /\ IsFiniteSet(Threads) /\ 0 \notin Hosts
  /\ {Requests, MaxPolls, MaxMishaps} \subseteq Nat /\ MaxPolls # 0

VARIABLES backend, box, podman, conn, gen, thread, host, runs, mishaps

vars == <<backend, box, podman, conn, gen, thread, host, runs, mishaps>>

Names == {"build", "dev"}
NoBox == [st |-> "none", r |-> 0, ok |-> FALSE]
FreeThread == [op |-> "free", pc |-> "free", name |-> "dev", r |-> 0, h |-> 0, pid |-> 0]
IdleHost == [job |-> "none", pc |-> "idle", name |-> "dev", r |-> 0, ans |-> "none", ok |-> FALSE, polls |-> 0]
Left == [st |-> "exited", r |-> 0, ok |-> TRUE]

\* The agent serves calls before its own start of podman is through.
Booting == [t \in Threads |-> IF t = 1 THEN [FreeThread EXCEPT !.op = "boot", !.pc = "check"] ELSE FreeThread]

Init ==
  /\ backend \in Backends
  /\ mishaps \in {{}, {"left"} \cap Mishaps}
  /\ \E dev \in {NoBox, Left} :
       box = [n \in Names |-> IF n = "dev" THEN dev ELSE IF mishaps = {} THEN NoBox ELSE Left]
  /\ podman = [up |-> {}, sock |-> 0, hung |-> FALSE]
  /\ conn = 0 /\ gen = 1
  /\ thread = (IF backend = "vm" THEN Booting ELSE [t \in Threads |-> FreeThread])
  /\ host = [h \in Hosts |-> IdleHost]
  /\ runs = [n |-> 0, done |-> {}, built |-> {}]

Happen(kinds) ==
  /\ kinds \subseteq Mishaps /\ Cardinality(mishaps \cup kinds) <= MaxMishaps
  /\ mishaps' = mishaps \cup kinds

SocketAlive == podman.sock \in podman.up /\ ~podman.hung

-----------------------------------------------------------------------------
(* The containers *)

Create(n, r) == box' = [box EXCEPT ![n] = [st |-> "created", r |-> r, ok |-> FALSE]]

\* The command of a run ends, well or not.
Exit ==
  /\ box["build"].st = "running"
  /\ \E ok \in BOOLEAN :
       /\ box' = [box EXCEPT !["build"].st = "exited", !["build"].ok = ok]
       /\ runs' = IF ok THEN [runs EXCEPT !.done = @ \cup {box["build"].r}] ELSE runs
  /\ UNCHANGED <<backend, podman, conn, gen, thread, host, mishaps>>

-----------------------------------------------------------------------------
(* The agent's service: restart_podman_service, and ensure_podman_socket    *)

At(t, label) == thread[t].pc = label
Go(t, label) == thread' = [thread EXCEPT ![t].pc = label]
Restarting(t) == thread[t].pc \in {"kill", "unlink", "spawn", "wait"}

\* The answer of a handler, if the client still waits for it.
Reply(t, ans, ok) ==
  /\ thread' = [thread EXCEPT ![t] = FreeThread]
  /\ host' = IF thread[t].h = 0 THEN host
             ELSE [host EXCEPT ![thread[t].h].ans = ans, ![thread[t].h].ok = ok]

Check(t) ==
  /\ At(t, "check")
  /\ IF SocketAlive
     THEN /\ UNCHANGED mishaps
          /\ IF thread[t].op = "boot" THEN thread' = [thread EXCEPT ![t] = FreeThread] ELSE Go(t, "op")
     ELSE /\ Go(t, IF thread[t].op # "boot" THEN "kill" ELSE IF podman.sock = 0 THEN "spawn" ELSE "unlink")
          /\ Happen(IF \E u \in Threads \ {t} : Restarting(u) THEN {"race"} ELSE {})
  /\ UNCHANGED <<backend, box, podman, conn, gen, host, runs>>

Kill(t) ==
  /\ At(t, "kill") /\ Go(t, IF thread[t].op = "boot" THEN "spawn" ELSE "unlink")
  /\ podman' = [podman EXCEPT !.up = {}]
  /\ UNCHANGED <<backend, box, conn, gen, host, runs, mishaps>>

Unlink(t) ==
  /\ At(t, "unlink") /\ Go(t, IF thread[t].op = "boot" THEN "kill" ELSE "spawn")
  /\ podman' = [podman EXCEPT !.sock = 0]
  /\ UNCHANGED <<backend, box, conn, gen, host, runs, mishaps>>

\* The new service listens where no other does.
NewPid == CHOOSE p \in 1..(Cardinality(podman.up) + Cardinality(Threads) + 2) :
            p \notin podman.up \cup {podman.sock} \cup {thread[t].pid : t \in Threads}

Spawn(t) ==
  /\ At(t, "spawn")
  /\ thread' = [thread EXCEPT ![t].pc = "wait", ![t].pid = NewPid]
  /\ podman' = [up |-> podman.up \cup {NewPid}, hung |-> FALSE,
                sock |-> IF SocketAlive THEN podman.sock ELSE NewPid]
  /\ UNCHANGED <<backend, box, conn, gen, host, runs, mishaps>>

\* When the socket never answers, the new service is killed and the call goes
\* on; the agent's own start tries again.
Wait(t) ==
  /\ At(t, "wait")
  /\ IF SocketAlive THEN UNCHANGED podman
     ELSE podman' = [podman EXCEPT !.up = @ \ {thread[t].pid}]
  /\ IF thread[t].op # "boot" THEN thread' = [thread EXCEPT ![t].pc = "op", ![t].pid = 0]
     ELSE thread' = [thread EXCEPT ![t] = IF SocketAlive THEN FreeThread ELSE [@ EXCEPT !.pc = "check", !.pid = 0]]
  /\ UNCHANGED <<backend, box, conn, gen, host, runs, mishaps>>

PodmanFails ==
  /\ backend = "vm" /\ SocketAlive /\ "podman" \notin mishaps /\ Happen({"podman"})
  /\ \/ podman' = [podman EXCEPT !.up = @ \ {podman.sock}]
     \/ podman' = [podman EXCEPT !.hung = TRUE]
  /\ UNCHANGED <<backend, box, conn, gen, thread, host, runs>>

-----------------------------------------------------------------------------
(* The agent's handlers *)

NoService(t) ==
  /\ At(t, "op") \/ At(t, "create") \/ At(t, "launch")
  /\ ~SocketAlive /\ Reply(t, "err", FALSE)
  /\ UNCHANGED <<backend, box, podman, conn, gen, runs, mishaps>>

Serving(t, op, label) == thread[t].op = op /\ At(t, label) /\ SocketAlive

\* reuse_or_remove_existing_container: one that runs is taken, one that does
\* not is started, with the command it was created with.
Reuse(t) ==
  LET n == thread[t].name IN
  /\ Serving(t, "start", "op")
  /\ IF box[n].st = "none" THEN Go(t, "create") /\ UNCHANGED <<box, host>>
     ELSE Reply(t, "done", TRUE) /\ box' = [box EXCEPT ![n].st = "running"]
  /\ UNCHANGED <<backend, podman, conn, gen, runs, mishaps>>

CreateInGuest(t) ==
  LET n == thread[t].name IN
  /\ Serving(t, "start", "create")
  /\ IF box[n].st = "none" THEN Create(n, thread[t].r) /\ Go(t, "launch") /\ UNCHANGED host
     ELSE Reply(t, "err", FALSE) /\ UNCHANGED box
  /\ UNCHANGED <<backend, podman, conn, gen, runs, mishaps>>

Launch(t) ==
  LET n == thread[t].name IN
  /\ Serving(t, "start", "launch")
  /\ IF box[n].st = "none" THEN Reply(t, "err", FALSE) /\ UNCHANGED box
     ELSE Reply(t, "done", TRUE) /\ box' = [box EXCEPT ![n].st = "running"]
  /\ UNCHANGED <<backend, podman, conn, gen, runs, mishaps>>

\* container_status is an error for one that is not there.
Status(t) ==
  LET b == box[thread[t].name] IN
  /\ Serving(t, "status", "op")
  /\ Reply(t, IF b.st = "none" THEN "err" ELSE "done", b.st = "running")
  /\ UNCHANGED <<backend, box, podman, conn, gen, runs, mishaps>>

\* Mutant: what failed has the code 0 too.
ZeroCode(t) ==
  LET b == box[thread[t].name] IN
  /\ Serving(t, "health", "op") /\ Reply(t, "done", TRUE)
  /\ UNCHANGED <<backend, box, podman, conn, gen, runs, mishaps>>

\* The exit code is 0 unless a container has exited with another.
Health(t) ==
  LET b == box[thread[t].name] IN
  /\ Serving(t, "health", "op") /\ Reply(t, "done", b.st # "exited" \/ b.ok)
  /\ UNCHANGED <<backend, box, podman, conn, gen, runs, mishaps>>

RemoveInGuest(t) ==
  LET n == thread[t].name IN
  /\ Serving(t, "remove", "op") /\ Reply(t, "done", box[n].st # "none")
  /\ box' = [box EXCEPT ![n] = NoBox]
  /\ UNCHANGED <<backend, podman, conn, gen, runs, mishaps>>

-----------------------------------------------------------------------------
(* The client *)

Waiting(h) == host[h].pc = "wait" /\ host[h].ans = "none"

\* A cached connection may be one to an agent that is gone.  Any failure
\* drops it, a newer one too.
Ask(h, op, job) ==
  LET c == IF host[h].ans = "err" THEN 0 ELSE conn
      w == [host[h] EXCEPT !.pc = "wait", !.job = job, !.ans = "none", !.ok = FALSE,
                           !.polls = IF op = "status" THEN @ + 1 ELSE @]
  IN IF c \in {0, gen}
     THEN /\ conn' = gen
          /\ \E t \in Threads :
               /\ At(t, "free") /\ \A u \in Threads : At(u, "free") => t <= u
               /\ thread' = [thread EXCEPT ![t] = [op |-> op, pc |-> "check", name |-> w.name,
                                                   r |-> IF op = "start" THEN w.r ELSE 0, h |-> h, pid |-> 0]]
          /\ host' = [host EXCEPT ![h] = w]
     ELSE host' = [host EXCEPT ![h] = [w EXCEPT !.ans = "err"]] /\ UNCHANGED <<conn, thread>>

Return(h) ==
  /\ host' = [host EXCEPT ![h] = IdleHost]
  /\ conn' = IF host[h].ans = "err" THEN 0 ELSE conn
  /\ UNCHANGED thread

GiveUp(h) ==
  /\ Waiting(h) /\ Happen({"late"})
  /\ thread' = [t \in Threads |-> IF thread[t].h = h THEN [thread[t] EXCEPT !.h = 0] ELSE thread[t]]
  /\ host' = [host EXCEPT ![h].ans = "err"]
  /\ UNCHANGED <<backend, box, podman, conn, gen, runs>>

\* The calls under way fail with it.
AgentRestarts ==
  /\ backend = "vm" /\ Happen({"agent"}) /\ gen = 1 /\ gen' = 2
  /\ thread' = Booting
  /\ host' = [h \in Hosts |-> IF Waiting(h) THEN [host[h] EXCEPT !.ans = "err"] ELSE host[h]]
  /\ UNCHANGED <<backend, box, podman, conn, runs>>

-----------------------------------------------------------------------------
(* The tasks of the launcher *)

Begin(h, job, name) ==
  /\ host[h].pc = "idle" /\ runs.n < Requests
  /\ Happen(IF \E g \in Hosts : host[g].pc # "idle" /\ host[g].name = name THEN {"both"} ELSE {})
  /\ runs' = [runs EXCEPT !.n = @ + 1]
  /\ host' = [host EXCEPT ![h] = [IdleHost EXCEPT !.job = job, !.pc = job, !.name = name, !.r = runs.n + 1]]
  /\ UNCHANGED <<backend, box, podman, conn, gen, thread>>

Build(h) == Begin(h, "run", "build")
Start(h) == Begin(h, "start", "dev")
Remove(h) == Begin(h, "remove", "dev")

Do(h, job, label) == host[h].job = job /\ host[h].pc = label

\* The result of a run, as its caller sees it.
Result(h, code0) == runs' = IF code0 THEN [runs EXCEPT !.built = @ \cup {host[h].r}] ELSE runs

Asked(h) ==
  /\ backend = "vm" /\ UNCHANGED <<backend, box, podman, gen, runs, mishaps>>
  /\ \/ Do(h, "run", "run") /\ Ask(h, "start", "run")
     \/ Do(h, "start", "start") /\ Ask(h, "start", "start")
     \/ Do(h, "remove", "remove") /\ Ask(h, "remove", "remove")

Answered(h, job) == Do(h, job, "wait") /\ ~Waiting(h) /\ UNCHANGED <<backend, box, podman, gen, mishaps>>

RunStarted(h) ==
  /\ Answered(h, "run") /\ UNCHANGED runs
  /\ IF host[h].ans = "done" THEN Ask(h, "status", "poll") ELSE Return(h)

\* Mutant: a run is waited for without end.
PollOn(h) ==
  /\ Answered(h, "poll") /\ UNCHANGED <<runs, conn, thread>>
  /\ host' = [host EXCEPT ![h].ans = "none"]

\* No answer is as good as an end.  After ten minutes the run has failed.
Polled(h) ==
  /\ Answered(h, "poll") /\ UNCHANGED runs
  /\ CASE ~host[h].ok -> Ask(h, "health", "code")
       [] host[h].ok /\ host[h].polls < MaxPolls -> Ask(h, "status", "poll")
       [] OTHER -> Ask(h, "remove", "clean")

Coded(h) ==
  /\ Answered(h, "code") /\ Result(h, host[h].ans = "done" /\ host[h].ok)
  /\ Ask(h, "remove", "clean")

\* Whatever it answers.
Cleaned(h) == Answered(h, "clean") /\ Return(h) /\ UNCHANGED runs

Started(h) == Answered(h, "start") /\ Return(h) /\ UNCHANGED runs
Removed(h) == Answered(h, "remove") /\ Return(h) /\ UNCHANGED runs

-----------------------------------------------------------------------------
(* On Linux the launcher asks podman itself, and waits for the end; in WSL  *)
(* too, but for the runs, which it refuses.                                 *)

Then(h, label) == host' = [host EXCEPT ![h].pc = label, ![h].job = label]
Done(h) == host' = [host EXCEPT ![h] = IdleHost]
Native == backend # "vm" /\ UNCHANGED <<backend, podman, conn, gen, thread, mishaps>>

Refuse(h) ==
  /\ Native /\ backend = "wsl" /\ Do(h, "run", "run") /\ Done(h)
  /\ UNCHANGED <<box, runs>>

RemoveStale(h) ==
  /\ Native /\ backend = "linux" /\ Do(h, "run", "run") /\ Then(h, "create")
  /\ box' = [box EXCEPT !["build"] = NoBox] /\ UNCHANGED runs

CreateRun(h) ==
  /\ Native /\ Do(h, "create", "create") /\ UNCHANGED runs
  /\ IF box["build"].st = "none" THEN Create("build", host[h].r) /\ Then(h, "launch")
     ELSE Done(h) /\ UNCHANGED box

LaunchRun(h) ==
  /\ Native /\ Do(h, "launch", "launch") /\ UNCHANGED runs
  /\ IF box["build"].st = "none" THEN Done(h) /\ UNCHANGED box
     ELSE Then(h, "end") /\ box' = [box EXCEPT !["build"].st = "running"]

\* One that was removed has no code.
AwaitEnd(h) ==
  /\ Native /\ Do(h, "end", "end") /\ box["build"].st # "running"
  /\ Result(h, box["build"].st = "exited" /\ box["build"].ok)
  /\ Then(h, "tidy") /\ UNCHANGED box

RemoveRun(h) ==
  /\ Native /\ Do(h, "tidy", "tidy") /\ Done(h)
  /\ box' = [box EXCEPT !["build"] = NoBox] /\ UNCHANGED runs

\* A dev server's container is taken as it is, or made.
StartNative(h) ==
  /\ Native /\ Do(h, "start", "start") /\ UNCHANGED runs
  /\ IF box["dev"].st = "none" THEN Then(h, "make") /\ UNCHANGED box
     ELSE Done(h) /\ box' = [box EXCEPT !["dev"].st = "running"]

MakeNative(h) ==
  /\ Native /\ Do(h, "make", "make") /\ Done(h) /\ UNCHANGED runs
  /\ box' = IF box["dev"].st = "none"
            THEN [box EXCEPT !["dev"] = [st |-> "running", r |-> host[h].r, ok |-> FALSE]] ELSE box

RemoveNative(h) ==
  /\ Native /\ Do(h, "remove", "remove") /\ Done(h) /\ UNCHANGED runs
  /\ box' = [box EXCEPT !["dev"] = NoBox]

-----------------------------------------------------------------------------
Handler(t) ==
  \/ Check(t) \/ Kill(t) \/ Unlink(t) \/ Spawn(t) \/ Wait(t) \/ NoService(t)
  \/ Reuse(t) \/ CreateInGuest(t) \/ Launch(t) \/ Status(t) \/ Health(t) \/ RemoveInGuest(t)

Task(h) ==
  \/ Asked(h) \/ RunStarted(h) \/ Polled(h) \/ Coded(h) \/ Cleaned(h) \/ Started(h) \/ Removed(h)
  \/ Refuse(h) \/ RemoveStale(h) \/ CreateRun(h) \/ LaunchRun(h) \/ AwaitEnd(h) \/ RemoveRun(h)
  \/ StartNative(h) \/ MakeNative(h) \/ RemoveNative(h)

Next ==
  \/ \E t \in Threads : Handler(t)
  \/ \E h \in Hosts : Build(h) \/ Start(h) \/ Remove(h) \/ Task(h) \/ GiveUp(h)
  \/ Exit \/ PodmanFails \/ AgentRestarts

\* The threads of the agent and the tasks of the launcher run on; a command
\* may never end.
Fairness == (\A t \in Threads : WF_vars(Handler(t))) /\ (\A h \in Hosts : WF_vars(Task(h)))

Spec == Init /\ [][Next]_vars
FairSpec == Spec /\ Fairness

-----------------------------------------------------------------------------
(* Properties *)

Without(kinds) == mishaps \cap kinds = {}

TypeOK ==
  /\ \A n \in Names : box[n].r \in 0..Requests /\ box[n].st \in {"none", "created", "running", "exited"}
  /\ podman.sock \notin podman.up => podman.up = {} \/ backend = "vm"
  /\ conn \in 0..gen /\ runs.built \subseteq 1..runs.n
  /\ \A h \in Hosts : host[h].polls <= MaxPolls
  /\ \A t \in Threads : At(t, "free") => thread[t].h = 0

\* A run that its caller is told has succeeded ran its own command to a good
\* end: on Linux whatever a run before left, in the VM as long as every call
\* to the agent is answered and no container was left.
SuccessIsReal ==
  (IF backend = "linux" THEN Without({"both"}) ELSE mishaps = {}) => runs.built \subseteq runs.done

\* There is one podman service at most, unless two threads start one at once, or
\* the agent restarts after it has removed the socket of a service that hangs:
\* its start kills the old service only where there is a socket.
OneService ==
  Without({"race"}) /\ ~({"podman", "agent"} \subseteq mishaps) => Cardinality(podman.up) <= 1

\* No run leaves its container, for the next would take its result for its
\* own.
NothingLeft ==
  mishaps = {} /\ (\A h \in Hosts : host[h].name # "build" \/ host[h].pc = "idle") => box["build"].st = "none"

\* A run that succeeded was one, in the only podman, and left nothing that the
\* next could take for its own.
RunsAreReal == TypeOK /\ SuccessIsReal /\ OneService /\ NothingLeft

\* The start of a dev server that succeeds has it running, one that was there
\* exited before too.
StartedRuns ==
  [][\A h \in Hosts :
       /\ Without({"both", "late", "agent"})
       /\ Do(h, "start", "wait") /\ host[h].ans = "done" /\ host'[h].pc = "idle"
       => box["dev"].st = "running"]_vars

\* In the VM a run has an end, also when its command has none and the agent
\* or its podman restart.
RunEnds == \A h \in Hosts : [](host[h].name = "build" /\ backend = "vm" => <>(host[h].pc = "idle"))

\* What is started is running, and what runs to its end has one.
RunsEnd == StartedRuns /\ RunEnds

\* What a run is told to have done, it did, whatever happens to the calls.
ResultIsTrue == runs.built \subseteq runs.done
=============================================================================
