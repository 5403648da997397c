------------------------------ MODULE AgentCalls ------------------------------
(***************************************************************************)
(* The tools an editor's agent calls over MCP, as far as they wait, race   *)
(* and report: start, stop and restart, which block until the project's    *)
(* reconciler says so (src/src/tauri/src/mcp/wait.rs), exec_command,       *)
(* read_file and tail_logs, whose answers are cut, the ring of recent      *)
(* calls the settings panel shows (mcp/ring.rs), and the listener's        *)
(* shutdown (mcp/server.rs).                                               *)
(*                                                                         *)
(* One project.  Its reconciler is reduced to the statuses it emits and    *)
(* persists, in that order; Orchestrator has the rest.  Time is counted in *)
(* units of which the RPC timeout is a whole number.                       *)
(***************************************************************************)
EXTENDS Naturals, Sequences, FiniteSets

CONSTANTS Callers,
          MaxCalls,    \* bound: calls made
          Cap,         \* entries of the ring
          Budgets,     \* time limits exec_command is asked for; 0 is one of them
          MaxBudget,   \* MAX_TIMEOUT_MS
          Rpc,         \* RPC_TIMEOUT_LONG
          Amounts,     \* sizes of files, outputs and logs, and caps on them
          Backlog,     \* bound: events on their way to a call
          Chunk,       \* the most one read of a file returns
          Mishaps,     \* what may go wrong, see MishapNames
          None

\* ui: the user starts, stops and removes the project beside the agent.
\* rpc: the guest does not answer.  wide: the cap falls inside a character.
\* split: a listener is attached between the emission of a status and the
\* persist that follows at once.
MishapNames == {"ui", "rpc", "wide", "split"}

Waits == {"start", "restart", "stop"}
Tools == Waits \cup {"exec", "read", "tail"}
\* Waiting for the VM, starting, running without an answer and degraded end no
\* wait: all four are "Starting".
Statuses == {"Stopped", "Starting", "Ready", "Failed", "Stopping"}

ASSUME AgentCallsAssumption ==
  /\ IsFiniteSet(Callers) /\ MaxCalls \in Nat /\ Cap \in Nat /\ Backlog \in Nat
  /\ Budgets \subseteq Nat /\ 0 \in Budgets /\ MaxBudget \in Nat /\ Rpc \in Nat
  /\ Amounts \subseteq Nat /\ Chunk \in Nat
  /\ Mishaps \subseteq MishapNames /\ None \notin Statuses \cup Tools

VARIABLES installed, stored, intent,  \* the project's record; stored is None when
                                      \* it is removed
          loop,    \* the reconciler: the status it knows, the one it has emitted
                   \* and not persisted
          call, begun,
          ring,
          log,     \* ghost: every answer, in order
          server   \* "up", "draining", "down"

project == <<installed, stored, intent>>
vars == <<project, loop, call, begun, ring, log, server>>

Idle == [tool |-> None, at |-> "idle", heard |-> <<>>, limit |-> 0, age |-> 0]
NoLoop == [prev |-> None, due |-> None]
Target(tool) == IF tool = "stop" THEN "Stopped" ELSE "Ready"
Least(a, b) == IF a < b THEN a ELSE b

At(c, label, tools) == call[c].at = label /\ call[c].tool \in tools
Goto(c, label) == call' = [call EXCEPT ![c].at = label]

Init ==
  /\ installed \in BOOLEAN /\ stored = "Stopped" /\ intent = "Stop"
  /\ loop = NoLoop
  /\ call = [c \in Callers |-> Idle] /\ begun = 0
  /\ ring = <<>> /\ log = <<>>
  /\ server = "up"

-----------------------------------------------------------------------------
(* Answers and the ring *)

\* Mutant: the ring sheds before it records, and holds one entry too many.
RecordedEarly(entry) ==
  IF Len(ring) > Cap THEN Append(Tail(ring), entry) ELSE Append(ring, entry)

Recorded(entry) ==
  LET longer == Append(ring, entry)
  IN IF Len(longer) > Cap THEN Tail(longer) ELSE longer

\* Every wrapper records the outcome as it returns, "ok" or a code.  over: the command has
\* ended; short: the answer lacks something and does not say so.
Tell(c, what, over, short) ==
  LET entry == [by |-> c, ok |-> what = "ok", over |-> over, short |-> short]
  IN /\ log' = Append(log, entry)
     /\ ring' = Recorded(entry)
     /\ call' = [call EXCEPT ![c] = Idle]

Answer(c, what) == Tell(c, what, TRUE, FALSE)

Begin(c) ==
  /\ server = "up" /\ call[c].at = "idle" /\ begun < MaxCalls
  /\ \E tool \in Tools, b \in Budgets :
       /\ tool # "exec" => b = 0
       /\ call' = [call EXCEPT ![c] = [Idle EXCEPT !.tool = tool, !.at = "look", !.limit = b]]
  /\ begun' = begun + 1
  /\ UNCHANGED <<project, loop, ring, log, server>>

\* project_for_slug finds nothing.
Unknown(c) ==
  /\ At(c, "look", Tools) /\ stored = None
  /\ Answer(c, "PROJECT_NOT_FOUND")
  /\ UNCHANGED <<project, loop, begun, server>>

-----------------------------------------------------------------------------
(* Starting and stopping *)

\* ProjectOrchestrator::start_project: the record, then a fresh reconciler.
Started ==
  /\ stored' = "Starting" /\ intent' = "Run"
  /\ loop' = [prev |-> "Starting", due |-> None]
  /\ UNCHANGED installed

StartLook(c) ==
  /\ At(c, "look", {"start"}) /\ stored # None
  /\ \/ ~installed /\ Answer(c, "NOT_INSTALLED") /\ UNCHANGED <<project, loop>>
     \/ installed /\ stored = "Ready" /\ Answer(c, "ok") /\ UNCHANGED <<project, loop>>
     \/ installed /\ stored # "Ready" /\ Started /\ Goto(c, "listen") /\ UNCHANGED <<ring, log>>
  /\ UNCHANGED <<begun, server>>

\* force_stop_and_remove aborts the reconciler and persists Stopped.
RestartLook(c) ==
  /\ At(c, "look", {"restart"}) /\ stored # None
  /\ \/ ~installed /\ Answer(c, "NOT_INSTALLED") /\ UNCHANGED <<project, loop>>
     \/ /\ installed
        /\ stored' = "Stopped" /\ intent' = "Stop" /\ loop' = NoLoop
        /\ Goto(c, "again") /\ UNCHANGED <<installed, ring, log>>
  /\ UNCHANGED <<begun, server>>

RestartStarts(c) ==
  /\ At(c, "again", {"restart"})
  /\ IF stored = None
       THEN Answer(c, "PROJECT_NOT_FOUND") /\ UNCHANGED <<project, loop>>
       ELSE Started /\ Goto(c, "listen") /\ UNCHANGED <<ring, log>>
  /\ UNCHANGED <<begun, server>>

\* stop_with_sync sets the intent, commits and pushes; the call listens after.
StopLook(c) ==
  /\ At(c, "look", {"stop"}) /\ stored # None
  /\ \/ stored = "Stopped" /\ Answer(c, "ok") /\ UNCHANGED intent
     \/ stored # "Stopped" /\ intent' = "Stop" /\ Goto(c, "listen") /\ UNCHANGED <<ring, log>>
  /\ UNCHANGED <<installed, stored, loop, begun, server>>

-----------------------------------------------------------------------------
(* wait_for_status *)

\* persist_status; the reconciler of a stopped project ends.
Persisted ==
  /\ stored' = IF stored = None THEN None ELSE loop.due
  /\ loop' = IF loop.due = "Stopped" THEN NoLoop ELSE [prev |-> loop.due, due |-> None]

\* The listener is attached.  An event and the write of its status are a few
\* instructions apart: but for the mishap, no listener comes between them, the
\* write is taken first.
Listen(c) ==
  /\ At(c, "listen", Waits)
  /\ IF loop.due # None /\ "split" \notin Mishaps THEN Persisted ELSE UNCHANGED <<stored, loop>>
  /\ Goto(c, "snapshot")
  /\ UNCHANGED <<installed, intent, begun, ring, log, server>>

\* Mutant: the snapshot is trusted to come as an event.
SnapshotSkipped(c) ==
  /\ At(c, "snapshot", Waits)
  /\ Goto(c, "wait")
  /\ UNCHANGED <<project, loop, begun, ring, log, server>>

Snapshot(c) ==
  /\ At(c, "snapshot", Waits)
  /\ \/ stored = None /\ Answer(c, "PROJECT_NOT_FOUND")
     \/ stored = Target(call[c].tool) /\ Answer(c, "ok")
     \/ stored = "Failed" /\ Answer(c, "FAILED")
     \/ /\ stored \notin {None, Target(call[c].tool), "Failed"}
        /\ Goto(c, "wait") /\ UNCHANGED <<ring, log>>
  /\ UNCHANGED <<project, loop, begun, server>>

Ends(c, status) == status \in {Target(call[c].tool), "Failed"}

Hear(c) ==
  /\ At(c, "wait", Waits) /\ call[c].heard # <<>>
  /\ LET status == Head(call[c].heard)
     IN \/ status = Target(call[c].tool) /\ Answer(c, "ok")
        \/ status = "Failed" /\ Answer(c, "FAILED")
        \/ /\ ~Ends(c, status)
           /\ call' = [call EXCEPT ![c].heard = Tail(@)] /\ UNCHANGED <<ring, log>>
  /\ UNCHANGED <<project, loop, begun, server>>

\* Mutant: the wait has no deadline.
DeadlineNever(c) == FALSE /\ UNCHANGED vars

\* START_DEADLINE and STOP_DEADLINE: some minutes.  What has been heard is
\* looked at once more.
Deadline(c) ==
  /\ At(c, "wait", Waits) /\ \A i \in 1 .. Len(call[c].heard) : ~Ends(c, call[c].heard[i])
  /\ Answer(c, "TIMEOUT")
  /\ UNCHANGED <<project, loop, begun, server>>

-----------------------------------------------------------------------------
(* The reconciler *)

\* An event reaches the listeners that are attached.
Emit(status) ==
  call' = [c \in Callers |->
             IF call[c].at \in {"snapshot", "wait"} /\ call[c].tool \in Waits
               THEN [call[c] EXCEPT !.heard = Append(@, status)] ELSE call[c]]

Ticks ==
  /\ loop.prev # None /\ loop.due = None /\ stored # None
  /\ \A c \in Callers : Len(call[c].heard) < Backlog

LoopRuns ==
  /\ Ticks /\ intent = "Run"
  /\ \E status \in {"Starting", "Failed", "Ready"} \ {loop.prev} :
       /\ Emit(status)
       /\ loop' = [loop EXCEPT !.due = status]
  /\ UNCHANGED <<project, begun, ring, log, server>>

\* handle_stop_intent persists Stopping unannounced; the container that does
\* not stop leaves it there.
LoopStopping ==
  /\ Ticks /\ intent = "Stop" /\ loop.prev # "Stopping" /\ stored # "Stopping"
  /\ stored' = "Stopping"
  /\ UNCHANGED <<installed, intent, loop, call, begun, ring, log, server>>

LoopStops ==
  /\ Ticks /\ intent = "Stop" /\ stored = "Stopping"
  /\ \E status \in {"Stopped", "Stopping"} \ {loop.prev} :
       Emit(status) /\ loop' = [loop EXCEPT !.due = status]
  /\ UNCHANGED <<project, begun, ring, log, server>>

LoopPersists ==
  /\ loop.due # None /\ Persisted
  /\ UNCHANGED <<installed, intent, call, begun, ring, log, server>>

\* The user, in the window.
Ui ==
  /\ "ui" \in Mishaps /\ stored # None /\ server = "up"
  /\ \/ installed /\ stored \in {"Stopped", "Failed"} /\ Started
     \/ intent = "Run" /\ intent' = "Stop" /\ UNCHANGED <<installed, stored, loop>>
     \/ stored' = None /\ loop' = NoLoop /\ UNCHANGED <<installed, intent>>
  /\ UNCHANGED <<call, begun, ring, log, server>>

-----------------------------------------------------------------------------
(* Answers that are cut *)

\* What comes back of "have" when at most "cap" is asked for, and what is said.
Cut(have, cap) == [got |-> Least(have, cap), told |-> have > cap]

\* One read returns at most a chunk, and truncated compares the size.
ReadBytes(size, cap) == [Cut(size, cap) EXCEPT !.got = Least(@, Chunk)]

\* The guest takes a request for no lines for one for its default.
TailLines(have, asked) == [got |-> Least(have, IF asked = 0 THEN 1 ELSE asked),
                           told |-> Least(have, IF asked = 0 THEN 1 ELSE asked) >= asked]

Short(have, cut) == cut.got < have /\ ~cut.told

\* safe_join_within_repo: a path that exists and resolves within the project.
SafeJoin(path) == path = "inside"

Read(c) ==
  /\ At(c, "look", {"read"}) /\ stored # None
  /\ \E path \in {"inside", "missing", "elsewhere"}, size, cap \in Amounts :
       IF SafeJoin(path)
         THEN Tell(c, "ok", TRUE, Short(size, ReadBytes(size, cap)))
         ELSE Answer(c, "INVALID_INPUT")
  /\ UNCHANGED <<project, loop, begun, server>>

TailLogs(c) ==
  /\ At(c, "look", {"tail"}) /\ stored # None
  /\ \/ \E have, asked \in Amounts : Tell(c, "ok", TRUE, Short(have, TailLines(have, asked)))
     \/ "rpc" \in Mishaps /\ Answer(c, "CONTAINER_FAILED")
  /\ UNCHANGED <<project, loop, begun, server>>

-----------------------------------------------------------------------------
(* exec_command *)

\* The budget, clamped; timeout(1) takes 0 for none.
Limit(b) == Least(b, MaxBudget)

ExecLook(c) ==
  /\ At(c, "look", {"exec"}) /\ stored # None
  /\ \/ stored # "Ready" /\ Answer(c, "NOT_RUNNING")
     \/ stored = "Ready" /\ Answer(c, "INVALID_INPUT")  \* the name of a variable
     \/ /\ stored = "Ready"
        /\ call' = [call EXCEPT ![c].at = "run", ![c].limit = Limit(@)]
        /\ UNCHANGED <<ring, log>>
  /\ UNCHANGED <<project, loop, begun, server>>

TimeIsUp(c) == call[c].limit > 0 /\ call[c].age >= call[c].limit

Tick(c) ==
  /\ At(c, "run", {"exec"}) /\ ~TimeIsUp(c) /\ call[c].age < Rpc
  /\ call' = [call EXCEPT ![c].age = @ + 1]
  /\ UNCHANGED <<project, loop, begun, ring, log, server>>

\* A stream longer than the cap is truncated; String::truncate panics inside a
\* character, and the wrapper records nothing.
ExecEnds(c) ==
  /\ At(c, "run", {"exec"}) /\ ~TimeIsUp(c)
  /\ \/ \E have, cap \in Amounts : Tell(c, "ok", TRUE, Short(have, Cut(have, cap)))
     \/ "wide" \in Mishaps /\ call' = [call EXCEPT ![c] = Idle] /\ UNCHANGED <<ring, log>>
  /\ UNCHANGED <<project, loop, begun, server>>

\* timeout(1) ends the command with 124.
ExecTimesOut(c) ==
  /\ At(c, "run", {"exec"}) /\ TimeIsUp(c)
  /\ Answer(c, "EXEC_TIMEOUT")
  /\ UNCHANGED <<project, loop, begun, server>>

\* The RPC is given up; the command runs on in the guest.
ExecGivenUp(c) ==
  /\ At(c, "run", {"exec"})
  /\ call[c].age >= Rpc \/ "rpc" \in Mishaps
  /\ Tell(c, "CONTAINER_FAILED", FALSE, FALSE)
  /\ UNCHANGED <<project, loop, begun, server>>

-----------------------------------------------------------------------------
(* Shutdown *)

\* McpHandle::shutdown: the listener closes, calls under way are drained.
Quit ==
  /\ server = "up" /\ server' = "draining"
  /\ UNCHANGED <<project, loop, call, begun, ring, log>>

\* stop_all_projects comes after the join.
Drained ==
  /\ server = "draining" /\ \A c \in Callers : call[c].at = "idle"
  /\ server' = "down"
  /\ loop' = NoLoop
  /\ UNCHANGED <<project, call, begun, ring, log>>

Lifecycle(c) ==
  \/ StartLook(c) \/ RestartLook(c) \/ RestartStarts(c) \/ StopLook(c)
  \/ Listen(c) \/ Snapshot(c) \/ Hear(c) \/ Deadline(c)
Exec(c) == ExecLook(c) \/ Tick(c) \/ ExecEnds(c) \/ ExecTimesOut(c) \/ ExecGivenUp(c)
Serve(c) == Unknown(c) \/ Lifecycle(c) \/ Exec(c) \/ Read(c) \/ TailLogs(c)

Reconcile == LoopRuns \/ LoopStopping \/ LoopStops \/ LoopPersists

Next ==
  \/ \E c \in Callers : Begin(c) \/ Serve(c)
  \/ server # "down" /\ (Reconcile \/ Ui)
  \/ Quit \/ Drained

\* A task that can run runs, and a deadline passes.
Over(c) == Deadline(c) \/ (Hear(c) /\ call'[c].at = "idle")
Fairness == /\ \A c \in Callers : WF_vars(Serve(c)) /\ WF_vars(Over(c))
            /\ WF_vars(LoopPersists) /\ WF_vars(Drained)
Spec == Init /\ [][Next]_vars /\ Fairness

-----------------------------------------------------------------------------
TypeOK ==
  /\ installed \in BOOLEAN /\ stored \in Statuses \cup {None} /\ intent \in {"Run", "Stop"}
  /\ {loop.prev, loop.due} \subseteq Statuses \cup {None}
  /\ \A c \in Callers : call[c].tool \in Tools \cup {None} /\ call[c].age <= Rpc
  /\ begun <= MaxCalls /\ server \in {"up", "draining", "down"}

\* A call that waits has not missed what it waits for: with nothing on its way
\* to it the project is neither there nor failed.  A restart beside a stop is
\* the exception: it persists Stopped without an event.
WakeNotLost ==
  \A c \in Callers :
    /\ At(c, "wait", Waits) /\ call[c].heard = <<>> /\ loop.due = None
    /\ ~ \E d \in Callers : At(d, "again", {"restart"})
    => stored \notin {Target(call[c].tool), "Failed"}

\* The panel shows the most recent calls, in the order in which they ended, and
\* every call that is no longer under way has been among them.
RingIsTail ==
  /\ ring = SubSeq(log, 1 + (IF Len(log) > Cap THEN Len(log) - Cap ELSE 0), Len(log))
  /\ "wide" \notin Mishaps => begun = Len(log) + Cardinality({c \in Callers : call[c].at # "idle"})

\* An answer from which something is missing says so, where one read takes the
\* whole file.
ShortIsTold == \A i \in 1 .. Len(log) : ~log[i].short

\* No tool call lands in the teardown: while the listener is down no call is
\* under way.
NoCallInTeardown == server = "down" => \A c \in Callers : call[c].at = "idle"

\* A call is recorded, tells what it left out, and ends before the server does.
CallsAreWhole == TypeOK /\ RingIsTail /\ ShortIsTold /\ NoCallInTeardown

\* Every call is answered, and so the quit that waits for them ends
\* (wait_for_status, McpHandle::shutdown).
CallsEnd == \A c \in Callers : call[c].at = "look" ~> call[c].at = "idle"
QuitEnds == server = "draining" ~> server = "down"
EveryoneEnds == CallsEnd /\ QuitEnds

\* exec_command returns once the command exits or the timeout fires.
ReturnsWhenOver == \A i \in 1 .. Len(log) : log[i].over

\* A stop is said to have failed only if the project has failed since.
FailedIsFailed ==
  [][\A c \in Callers :
       At(c, "snapshot", {"stop"}) /\ call'[c].at = "idle" => stored # "Failed"]_vars

\* A stop that is told of a timeout has not stopped.
TimeoutIsLate ==
  [][\A c \in Callers :
       At(c, "wait", {"stop"}) /\ call[c].heard = <<>> /\ call'[c].at = "idle"
         => stored # "Stopped"]_vars

\* A call that has been made is in the panel.
EveryCallIsRecorded ==
  begun = Len(log) + Cardinality({c \in Callers : call[c].at # "idle"})
=============================================================================
