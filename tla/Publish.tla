-------------------------------- MODULE Publish --------------------------------
(***************************************************************************)
(* A project's site on GitHub Pages: publish and unpublish                 *)
(* (src/src/tauri/src/publish/), as a command of the launcher or a tool    *)
(* with a deadline (mcp/tools/discovery.rs), beside the syncer that writes *)
(* the whole record of the project (projects/syncer.rs).                   *)
(*                                                                         *)
(* Content is [v, whole]: the version of the sources it was built from,    *)
(* and whether the build that writes it is through.  The build runs in one *)
(* container per project, on the VM.                                       *)
(***************************************************************************)
EXTENDS Naturals, Sequences, FiniteSets

CONSTANTS Tasks,      \* bound: publishes and unpublishes at once
          Calls,      \* bound: how many in all
          Edits,      \* bound: the user's edits of the sources
          Mishaps,
          MaxMishaps  \* bound: kinds of mishap in one behaviour

\* api: a call to GitHub fails.  poll: the container's status cannot be read.
\* late: Pages takes longer than is waited for.  deadline: the tool's.  quit:
\* the launcher ends, and its machine with it.  both: two tasks at once.
\* sync: a sync writes back a record of before the end of a task.
MishapNames == {"api", "poll", "late", "deadline", "quit", "both", "sync"}

VARIABLES pkg, src, out, box, branch, pages, url, snap, call, calls, told, mishaps

vars == <<pkg, src, out, box, branch, pages, url, snap, call, calls, told, mishaps>>

Dirs == {"dist", "build", "out", "public"}
Nothing == [v |-> 0, whole |-> FALSE]
NoBox == [st |-> "none", step |-> "clean", dir |-> "dist", ok |-> FALSE]
Idle == [pc |-> "idle", tool |-> FALSE, dir |-> "dist", pushed |-> Nothing, was |-> FALSE]

\* What package.json depends on, whether it has a build script and Next an
\* export, and where the build writes.
Packages ==
  [deps : SUBSET {"next", "vite", "react-scripts"}, script : BOOLEAN, export : BOOLEAN, into : Dirs]

\* detect_framework.
Detect(p) ==
  CASE "next" \in p.deps -> [ok |-> p.export, dir |-> "out"]
    [] "next" \notin p.deps /\ "vite" \in p.deps -> [ok |-> TRUE, dir |-> "dist"]
    [] p.deps = {"react-scripts"} -> [ok |-> TRUE, dir |-> "build"]
    [] OTHER -> [ok |-> p.script, dir |-> "dist"]

\* The tools write where they are known to, a script wherever it likes.
Sensible(p) == p.deps # {} => p.into = Detect(p).dir

Init ==
  /\ pkg \in {p \in Packages : Sensible(p) /\ Cardinality(p.deps) < 2}
  /\ src = 1 /\ out = [d \in Dirs |-> Nothing] /\ box = NoBox
  /\ branch = Nothing /\ pages = [on |-> FALSE, live |-> Nothing, st |-> "built"]
  /\ url = FALSE /\ snap = "none"
  /\ call = [t \in Tasks |-> Idle] /\ calls = 0 /\ told = {} /\ mishaps = {}

Happen(S) == /\ S \subseteq Mishaps /\ mishaps' = mishaps \cup S
             /\ Cardinality(mishaps') <= MaxMishaps
On(t, label) == call[t].pc = label
Go(t, label) == call' = [call EXCEPT ![t].pc = label]
Done(t) == call' = [call EXCEPT ![t] = Idle]

Begin(t, c) ==
  /\ On(t, "idle") /\ calls < Calls /\ calls' = calls + 1
  /\ call' = [call EXCEPT ![t] = c]
  /\ Happen(IF \E u \in Tasks : call[u].pc # "idle" THEN {"both"} ELSE {})
  /\ UNCHANGED <<pkg, src, out, box, branch, pages, url, snap, told>>

-----------------------------------------------------------------------------
(* The project, its syncer and the container of its build                   *)

Edit ==
  /\ src <= Edits /\ src' = src + 1
  /\ UNCHANGED <<pkg, out, box, branch, pages, url, snap, call, calls, told, mishaps>>

SyncReads ==
  /\ snap = "none" /\ snap' = (IF url THEN "url" ELSE "no url")
  /\ UNCHANGED <<pkg, src, out, box, branch, pages, url, call, calls, told, mishaps>>

SyncWrites ==
  /\ snap # "none" /\ snap' = "none" /\ url' = (snap = "url")
  /\ Happen(IF url' # url THEN {"sync"} ELSE {})
  /\ UNCHANGED <<pkg, src, out, box, branch, pages, call, calls, told>>

\* The command removes the directory, builds, and adds to the index what a site
\* of one page needs, which fails when the build did or there is no index.
Clean ==
  /\ box.st = "running" /\ box.step = "clean"
  /\ out' = [out EXCEPT ![box.dir] = Nothing] /\ box' = [box EXCEPT !.step = "build"]
  /\ UNCHANGED <<pkg, src, branch, pages, url, snap, call, calls, told, mishaps>>

\* A build that fails may have written some of it.
Compile ==
  /\ box.st = "running" /\ box.step = "build"
  /\ out' \in {out, [out EXCEPT ![pkg.into] = [v |-> src, whole |-> FALSE]]}
  /\ \E step \in {"inject", "skip"} : box' = [box EXCEPT !.step = step]
  /\ UNCHANGED <<pkg, src, branch, pages, url, snap, call, calls, told, mishaps>>

Inject ==
  /\ box.st = "running" /\ box.step \in {"inject", "skip"}
  /\ LET ok == box.step = "inject" /\ out[box.dir] # Nothing IN
       /\ box' = [box EXCEPT !.st = "exited", !.ok = ok]
       /\ out' = IF ok THEN [out EXCEPT ![box.dir].whole = TRUE] ELSE out
  /\ UNCHANGED <<pkg, src, branch, pages, url, snap, call, calls, told, mishaps>>

-----------------------------------------------------------------------------
(* publish *)

\* From the command, and from the tool.
Ask(t) == \E tool \in BOOLEAN : Begin(t, [Idle EXCEPT !.pc = "detect", !.tool = tool])

\* Framework, token and visibility, each of which may end it.
Prepare(t) ==
  /\ On(t, "detect")
  /\ \/ Done(t)
     \/ Detect(pkg).ok /\ call' = [call EXCEPT ![t].pc = "start", ![t].dir = Detect(pkg).dir]
  /\ UNCHANGED <<pkg, src, out, box, branch, pages, url, snap, calls, told, mishaps>>

\* A container of the name is taken, and started again when it has exited.
StartBuild(t) ==
  /\ On(t, "start")
  /\ \/ Done(t) /\ UNCHANGED box
     \/ /\ Go(t, "poll")
        /\ box' = IF box.st = "none" THEN [NoBox EXCEPT !.st = "running", !.dir = call[t].dir]
                  ELSE [box EXCEPT !.st = "running", !.step = IF box.st = "exited" THEN "clean" ELSE @]
  /\ UNCHANGED <<pkg, src, out, branch, pages, url, snap, calls, told, mishaps>>

\* Anything but "running" is the end.  After ten minutes it is given up.
Poll(t) ==
  /\ On(t, "poll")
  /\ \/ box.st # "running" /\ Go(t, "code") /\ UNCHANGED <<box, mishaps>>
     \/ box.st = "running" /\ Go(t, "code") /\ Happen({"poll"}) /\ UNCHANGED box
     \/ Done(t) /\ box' = NoBox /\ UNCHANGED mishaps
  /\ UNCHANGED <<pkg, src, out, branch, pages, url, snap, calls, told>>

\* Mutant: the exit code is not asked for.
CodeBlind(t) ==
  /\ On(t, "code") /\ box' = NoBox /\ IF out[call[t].dir] # Nothing THEN Go(t, "push") ELSE Done(t)
  /\ UNCHANGED <<pkg, src, out, branch, pages, url, snap, calls, told, mishaps>>

\* The code of a container that has not exited is 0, that of none an error.
\* The directory must be there; a script's other directories never are, since
\* what is added to the index has failed by then.
Code(t) ==
  /\ On(t, "code") /\ box' = NoBox
  /\ IF box.st # "none" /\ (box.st = "exited" => box.ok) /\ out[call[t].dir] # Nothing
     THEN Go(t, "push") ELSE Done(t)
  /\ UNCHANGED <<pkg, src, out, branch, pages, url, snap, calls, told, mishaps>>

\* The branch is replaced.  GitHub may take it for a site by itself.
Push(t) ==
  /\ On(t, "push")
  /\ \/ Done(t) /\ UNCHANGED <<branch, pages>>
     \/ LET c == out[call[t].dir] IN
        /\ c # Nothing /\ branch' = c
        /\ call' = [call EXCEPT ![t].pc = "enable", ![t].pushed = c, ![t].was = pages.on]
        /\ \E on \in {pages.on, TRUE} : pages' = [pages EXCEPT !.on = on, !.st = IF on # pages.on THEN "building" ELSE @]
  /\ UNCHANGED <<pkg, src, out, box, url, snap, calls, told, mishaps>>

Fails(t) == Done(t) /\ Happen({"api"})

Enable(t) ==
  /\ On(t, "enable")
  /\ \/ pages.on /\ Go(t, "wait") /\ UNCHANGED mishaps
     \/ ~pages.on /\ Go(t, "create") /\ UNCHANGED mishaps
     \/ Fails(t)
  /\ UNCHANGED <<pkg, src, out, box, branch, pages, url, snap, calls, told>>

\* One that is there already is an error, and found by the second look.
Create(t) ==
  /\ On(t, "create")
  /\ \/ /\ ~pages.on /\ branch # Nothing /\ Go(t, "wait")
        /\ pages' = [pages EXCEPT !.on = TRUE, !.st = "building"]
     \/ Go(t, "again") /\ UNCHANGED pages
  /\ UNCHANGED <<pkg, src, out, box, branch, url, snap, calls, told, mishaps>>

Again(t) ==
  /\ On(t, "again") /\ IF pages.on THEN Go(t, "wait") ELSE Done(t)
  /\ UNCHANGED <<pkg, src, out, box, branch, pages, url, snap, calls, told, mishaps>>

\* wait_for_deployment: an answer that is not a success is as good as none.
Await(t) ==
  /\ On(t, "wait")
  /\ \/ pages.on /\ pages.st = "built" /\ Go(t, "persist") /\ UNCHANGED mishaps
     \/ Go(t, "persist") /\ Happen({"late"})
     \/ Fails(t)
  /\ UNCHANGED <<pkg, src, out, box, branch, pages, url, snap, calls, told>>

Persist(t) ==
  /\ On(t, "persist") /\ Done(t) /\ url' = TRUE
  /\ told' = told \cup {[pushed |-> call[t].pushed, live |-> pages.live, was |-> call[t].was]}
  /\ UNCHANGED <<pkg, src, out, box, branch, pages, snap, calls, mishaps>>

\* The tool's call is dropped where it waits, what it has started is not.
Deadline(t) ==
  /\ call[t].tool /\ call[t].pc \notin {"idle", "detect"} /\ Done(t) /\ Happen({"deadline"})
  /\ UNCHANGED <<pkg, src, out, box, branch, pages, url, snap, calls, told>>

-----------------------------------------------------------------------------
(* unpublish: what fails is passed over *)

Unpublish(t) == Begin(t, [Idle EXCEPT !.pc = "disable"])

Disable(t) ==
  /\ On(t, "disable") /\ Go(t, "delete")
  /\ \/ pages' = [on |-> FALSE, live |-> Nothing, st |-> "built"] /\ UNCHANGED mishaps
     \/ Happen({"api"}) /\ UNCHANGED pages
  /\ UNCHANGED <<pkg, src, out, box, branch, url, snap, calls, told>>

Delete(t) ==
  /\ On(t, "delete") /\ Go(t, "clear")
  /\ \/ branch' = Nothing /\ UNCHANGED mishaps
     \/ Happen({"api"}) /\ UNCHANGED branch
  /\ UNCHANGED <<pkg, src, out, box, pages, url, snap, calls, told>>

Clear(t) ==
  /\ On(t, "clear") /\ Done(t) /\ url' = FALSE
  /\ UNCHANGED <<pkg, src, out, box, branch, pages, snap, calls, told, mishaps>>

-----------------------------------------------------------------------------
(* GitHub, and the end of the launcher                                      *)

\* A push to the branch of a site makes it build again, some time later.
Deploy ==
  /\ pages.on /\ branch # Nothing
  /\ \/ pages.st = "built" /\ pages.live # branch /\ pages' = [pages EXCEPT !.st = "building"]
     \/ pages.st = "building" /\ pages' = [pages EXCEPT !.st = "built", !.live = branch]
  /\ UNCHANGED <<pkg, src, out, box, branch, url, snap, call, calls, told, mishaps>>

Quit ==
  /\ \E t \in Tasks : call[t].pc # "idle"
  /\ Happen({"quit"}) /\ "quit" \notin mishaps
  /\ call' = [t \in Tasks |-> Idle] /\ box' = NoBox /\ snap' = "none"
  /\ UNCHANGED <<pkg, src, out, branch, pages, url, calls, told>>

-----------------------------------------------------------------------------
Task(t) ==
  \/ Prepare(t) \/ StartBuild(t) \/ Poll(t) \/ Code(t) \/ Push(t) \/ Enable(t) \/ Create(t) \/ Again(t)
  \/ Await(t) \/ Persist(t) \/ Disable(t) \/ Delete(t) \/ Clear(t)

Next ==
  \/ Edit \/ SyncReads \/ SyncWrites \/ Clean \/ Compile \/ Inject \/ Deploy \/ Quit
  \/ \E t \in Tasks : Ask(t) \/ Unpublish(t) \/ Task(t) \/ Deadline(t)

Spec == Init /\ [][Next]_vars

-----------------------------------------------------------------------------
(* Properties *)

AllIdle == \A t \in Tasks : call[t].pc = "idle"
Free(S) == mishaps \cap S = {}

TypeOK ==
  /\ \A d \in Dirs : out[d].v \in 0..src
  /\ branch.v \in 0..src /\ pages.live.v \in 0..src
  /\ \A t \in Tasks : call[t].pc \in {"enable", "create", "again", "wait", "persist"} <=> call[t].pushed # Nothing
  /\ box.st = "none" => box = NoBox

\* The project is said to be published only when it is, whatever fails.
SaidIsServed == AllIdle /\ snap = "none" /\ Free({"both", "sync", "quit"}) => (url => pages.on)

\* It is served only when it is said to be, unless a call failed or was dropped
\* half-way.
ServedIsSaid ==
  AllIdle /\ snap = "none" /\ Free({"api", "deadline", "quit", "both", "sync"}) => (pages.on => url)

\* What is pushed and served is a build that came to its end, whatever the
\* project is and however many builds came before.
SitesAreWhole ==
  Free({"poll", "both"}) =>
    \A c \in {branch, pages.live} : c = Nothing \/ c.whole

\* What the user is told is online is, on a first publish.
FirstIsLive ==
  Free({"late", "both"}) => \A a \in told : a.was \/ a.live = a.pushed

\* The same of every publish.
ToldIsLive ==
  Free({"late", "both", "api"}) => \A a \in told : a.live = a.pushed

\* No build container is left when nobody waits for it.
NoBuildLeft == AllIdle /\ Free({"deadline", "both"}) => box.st = "none"

\* What is recorded is kept until somebody unpublishes.
RecordIsKept == AllIdle /\ Free({"quit", "api", "deadline", "both"}) => (pages.on => url \/ snap # "none")

\* The record, the site and the builds fit whenever nothing is under way.
SiteIsRecorded ==
  TypeOK /\ SaidIsServed /\ ServedIsSaid /\ SitesAreWhole /\ FirstIsLive /\ NoBuildLeft
=============================================================================
