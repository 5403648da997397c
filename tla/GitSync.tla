-------------------------------- MODULE GitSync --------------------------------
(***************************************************************************)
(* The working trees and their remotes: the git client                     *)
(* (src/src/tauri/src/infrastructure/git.rs), the syncer that commits and  *)
(* pushes behind the user's back (projects/syncer.rs), and the tools that  *)
(* pull, switch and push (mcp/tools/discovery.rs, auth/github_repos.rs).   *)
(*                                                                         *)
(* A commit is [p, t, by, of]: its parent, its tree, who made it, and the  *)
(* files its maker had edited.  A tree gives each file the number of the   *)
(* edit that wrote it.  cur is where HEAD is.  A call of the client is one *)
(* step, but for a pull, which waits for the fetch.                        *)
(***************************************************************************)
EXTENDS Naturals, Sequences, FiniteSets

CONSTANTS Files, Branches, Main,
          Tasks,      \* bound: syncs, pulls and pushes at once
          Calls,      \* bound: how many in all
          Edits,      \* bound: edits, of the user and of others
          Mishaps

\* pull: a pull moves the branch.  refused: the host takes the push and
\* declines the branch, which the client does not hear of.  others: a repo of
\* the same name is there that is none of this project's.  late: another task
\* commits, or the branch changes, between a push and the answer about it.
\* detached: what is switched to is not a branch of the user's.
MishapNames == {"pull", "refused", "others", "late", "detached"}

Detached == "detached"
Refs == Branches \cup {Detached}

GitAssumption ==
  /\ Main \in Branches /\ Detached \notin Branches
  /\ Calls \in Nat /\ Edits \in Nat /\ Mishaps \subseteq MishapNames

VARIABLES commits, heads, cur, work, touched, mine, remote, track, origin, repo, edits, calls, task, promised, mishaps

vars == <<commits, heads, cur, work, touched, mine, remote, track, origin, repo, edits, calls, task, promised, mishaps>>

Empty == [f \in Files |-> 0]
TreeOf(c) == IF c = 0 THEN Empty ELSE commits[c].t
History(c) ==
  LET h[i \in 0..Len(commits)] == IF i = 0 THEN {} ELSE {i} \cup h[commits[i].p] IN h[c]
At(b, c) == [x \in Refs |-> IF x = b THEN c ELSE 0]
NoTask == [pc |-> "idle", at |-> 0, br |-> Main, create |-> FALSE]

\* An imported project, or one without a remote; the name of the latter may be
\* taken on the host.
Init ==
  /\ origin \in BOOLEAN
  /\ repo \in (IF origin THEN {"ours"} ELSE {"none"} \cup ({"others"} \cap Mishaps))
  /\ commits = <<[p |-> 0, t |-> Empty, by |-> "user", of |-> Files]>> \o
               (IF repo = "others" THEN <<[p |-> 0, t |-> Empty, by |-> "others", of |-> Files]>> ELSE <<>>)
  /\ heads = At(Main, 1) /\ cur = Main /\ work = Empty /\ touched = {} /\ mine = Empty
  /\ remote = At(Main, CASE repo = "ours" -> 1 [] repo = "others" -> 2 [] OTHER -> 0)
  /\ track = At(Main, IF origin THEN 1 ELSE 0)
  /\ edits = 0 /\ calls = 0 /\ promised = {}
  /\ task = [t \in Tasks |-> NoTask]
  /\ mishaps = {"others"} \cap {repo}

Happen(m) == m \in Mishaps /\ mishaps' = mishaps \cup {m}

-----------------------------------------------------------------------------
(* The user, and the others who push to the remote                          *)

Edit(f) ==
  /\ edits < Edits /\ edits' = edits + 1
  /\ work' = [work EXCEPT ![f] = edits + 1] /\ touched' = touched \cup {f}
  /\ mine' = [mine EXCEPT ![f] = edits + 1]
  /\ UNCHANGED <<commits, heads, cur, remote, track, origin, repo, calls, task, promised, mishaps>>

OthersPush(f) ==
  /\ repo = "ours" /\ edits < Edits /\ edits' = edits + 1 /\ remote[Main] # 0
  /\ commits' = Append(commits, [p |-> remote[Main], t |-> [TreeOf(remote[Main]) EXCEPT ![f] = edits + 1],
                                 by |-> "others", of |-> {f}])
  /\ remote' = [remote EXCEPT ![Main] = Len(commits) + 1]
  /\ UNCHANGED <<heads, cur, work, touched, mine, track, origin, repo, calls, task, promised, mishaps>>

\* A name is looked up: a branch, a new one from HEAD, or a branch of the remote.
Target(b) == CASE b = Detached -> track[Main]
               [] b # Detached /\ heads[b] = 0 -> heads[cur]
               [] OTHER -> heads[b]

Switched(b) ==
  /\ b # cur /\ Target(b) # 0 /\ calls < Calls /\ calls' = calls + 1
  /\ cur' = b /\ heads' = [heads EXCEPT ![b] = Target(b)]
  /\ IF b = Detached THEN Happen("detached") ELSE UNCHANGED mishaps
  /\ UNCHANGED <<commits, touched, mine, remote, track, origin, repo, edits, task, promised>>

\* Mutant: the files are replaced, those that were edited too.
CheckoutHard(b) == work' = TreeOf(Target(b))

\* A safe checkout leaves what is the same in both commits, and fails on an
\* edit of what is not.
Checkout(b) ==
  LET old == TreeOf(heads[cur])  new == TreeOf(Target(b)) IN
  /\ \A f \in Files : old[f] # new[f] => work[f] \in {old[f], new[f]}
  /\ work' = [f \in Files |-> IF old[f] = new[f] THEN work[f] ELSE new[f]]

Switch(b) == Switched(b) /\ Checkout(b)

-----------------------------------------------------------------------------
(* The calls of the client *)

\* commit_auto.
Dirty == work # TreeOf(heads[cur])
Commit ==
  IF ~Dirty THEN UNCHANGED <<commits, heads, touched>>
  ELSE /\ commits' = Append(commits, [p |-> heads[cur], t |-> work, by |-> "user", of |-> touched])
       /\ heads' = [heads EXCEPT ![cur] = Len(commits) + 1]
       /\ touched' = {}

\* The client declines what is no fast forward.
Descends(new, old) == old = 0 \/ old \in History(new)

\* push_current_branch: "same", "failed", "pushed", and what the host does.
Push(ans) ==
  LET c == heads[cur] IN
  CASE ans = "same" -> c = track[cur] /\ UNCHANGED <<remote, track, mishaps>>
    [] ans = "failed" -> c # track[cur] /\ UNCHANGED <<remote, track, mishaps>>
    [] ans = "pushed" ->
         /\ cur # Detached /\ c # track[cur] /\ Descends(c, remote[cur])
         /\ \/ /\ remote' = [remote EXCEPT ![cur] = c] /\ track' = [track EXCEPT ![cur] = c]
               /\ UNCHANGED mishaps
            \/ Happen("refused") /\ UNCHANGED <<remote, track>>

Begin(t, label, create) ==
  /\ task[t].pc = "idle" /\ calls < Calls /\ calls' = calls + 1
  /\ task' = [task EXCEPT ![t] = [NoTask EXCEPT !.pc = label, !.br = cur, !.create = create]]
  /\ UNCHANGED <<commits, heads, cur, work, touched, mine, remote, track, origin, repo, edits, promised, mishaps>>

On(t, label) == task[t].pc = label
Go(t, label) == task' = [task EXCEPT ![t].pc = label]
Done(t) == task' = [task EXCEPT ![t] = NoTask]

-----------------------------------------------------------------------------
(* sync_on_stop, from the periodic worker or at the end of a run            *)

Sync(t) == Begin(t, "sync", FALSE)

SyncCommit(t) ==
  /\ On(t, "sync") /\ Commit /\ Go(t, "push")
  /\ UNCHANGED <<cur, work, mine, remote, track, origin, repo, edits, calls, promised, mishaps>>

\* No token ends it quietly; no remote is an error.
SyncSkip(t) ==
  /\ On(t, "push") /\ Done(t)
  /\ UNCHANGED <<commits, heads, cur, work, touched, mine, remote, track, origin, repo, edits, calls, promised, mishaps>>

\* Mutant: what the push has come to is not looked at.
SyncPushBlind(t) ==
  /\ On(t, "push") /\ origin
  /\ \E ans \in {"same", "failed", "pushed"} :
       /\ Push(ans) /\ promised' = promised \cup {<<cur, heads[cur]>>}
       /\ task' = [task EXCEPT ![t].pc = "status"]
  /\ UNCHANGED <<commits, heads, cur, work, touched, mine, origin, repo, edits, calls>>

\* last_synced_at is written with the record.
SyncPush(t) ==
  /\ On(t, "push") /\ origin
  /\ \E ans \in {"same", "failed", "pushed"} :
       /\ Push(ans)
       /\ IF ans = "failed" THEN Done(t) /\ UNCHANGED promised
          ELSE /\ promised' = promised \cup {<<cur, heads[cur]>>}
               /\ task' = [task EXCEPT ![t].pc = "status"]
  /\ UNCHANGED <<commits, heads, cur, work, touched, mine, origin, repo, edits, calls>>

\* Only a branch that is where its upstream is is synced.
Clean == heads[cur] = track[cur]

SyncStatus(t) ==
  /\ On(t, "status") /\ Done(t)
  /\ promised' = IF Clean THEN promised \cup {<<cur, heads[cur]>>} ELSE promised
  /\ UNCHANGED <<commits, heads, cur, work, touched, mine, remote, track, origin, repo, edits, calls, mishaps>>

-----------------------------------------------------------------------------
(* pull *)

Pull(t) == cur # Detached /\ Begin(t, "fetch", FALSE)

Fetch(t) ==
  /\ On(t, "fetch")
  /\ \/ origin /\ track' = remote /\ Go(t, "merge")
     \/ Done(t) /\ UNCHANGED track
  /\ UNCHANGED <<commits, heads, cur, work, touched, mine, remote, origin, repo, edits, calls, promised, mishaps>>

\* The branch is moved first and the tree is then checked out against its new
\* head: a safe checkout takes every file that differs for an edit.
Forward(t) ==
  LET b == task[t].br  c == track[b] IN
  /\ On(t, "merge") /\ Done(t)
  /\ IF c # 0 /\ heads[b] \in History(c) \ {c}
     THEN heads' = [heads EXCEPT ![b] = c] /\ cur' = b /\ Happen("pull")
     ELSE UNCHANGED <<heads, cur, mishaps>>
  /\ UNCHANGED <<commits, work, touched, mine, remote, track, origin, repo, edits, calls, promised>>

-----------------------------------------------------------------------------
(* github_push *)

GithubPush(t) == \E create \in BOOLEAN : Begin(t, "remote", create)

FindRemote(t) ==
  /\ On(t, "remote")
  /\ IF origin THEN Go(t, "commit") ELSE IF task[t].create THEN Go(t, "create") ELSE Done(t)
  /\ UNCHANGED <<commits, heads, cur, work, touched, mine, remote, track, origin, repo, edits, calls, promised, mishaps>>

\* One that is there, from a call that failed half-way or not, is taken.
RepoAfter == IF repo = "none" THEN "ours" ELSE repo

CreateRepo(t) ==
  /\ On(t, "create")
  /\ \/ repo' = RepoAfter /\ (Go(t, "add") \/ Done(t))
     \/ Done(t) /\ UNCHANGED repo
  /\ UNCHANGED <<commits, heads, cur, work, touched, mine, remote, track, origin, edits, calls, promised, mishaps>>

AddRemote(t) ==
  /\ On(t, "add")
  /\ \/ ~origin /\ origin' = TRUE /\ Go(t, "commit")
     \/ Done(t) /\ UNCHANGED origin
  /\ UNCHANGED <<commits, heads, cur, work, touched, mine, remote, track, repo, edits, calls, promised, mishaps>>

PushCommit(t) ==
  /\ On(t, "commit") /\ Commit /\ Go(t, "send")
  /\ UNCHANGED <<cur, work, mine, remote, track, origin, repo, edits, calls, promised, mishaps>>

PushSend(t) ==
  /\ On(t, "send")
  /\ \E ans \in {"same", "failed", "pushed"} :
       /\ Push(ans)
       /\ IF ans = "failed" THEN Done(t)
          ELSE task' = [task EXCEPT ![t].pc = "sha", ![t].br = cur, ![t].at = heads[cur]]
  /\ UNCHANGED <<commits, heads, cur, work, touched, mine, origin, repo, edits, calls, promised>>

\* The commit the answer names is that of HEAD by then.
PushAnswer(t) ==
  /\ On(t, "sha") /\ Done(t)
  /\ promised' = promised \cup {<<cur, heads[cur]>>}
  /\ IF <<cur, heads[cur]>> = <<task[t].br, task[t].at>> THEN UNCHANGED mishaps ELSE Happen("late")
  /\ UNCHANGED <<commits, heads, cur, work, touched, mine, remote, track, origin, repo, edits, calls>>

-----------------------------------------------------------------------------
Task(t) ==
  \/ Sync(t) \/ SyncCommit(t) \/ SyncSkip(t) \/ SyncPush(t) \/ SyncStatus(t)
  \/ Pull(t) \/ Fetch(t) \/ Forward(t)
  \/ GithubPush(t) \/ FindRemote(t) \/ CreateRepo(t) \/ AddRemote(t) \/ PushCommit(t) \/ PushSend(t) \/ PushAnswer(t)

Next ==
  \/ \E f \in Files : Edit(f) \/ OthersPush(f)
  \/ \E b \in Refs : Switch(b)
  \/ \E t \in Tasks : Task(t)

Spec == Init /\ [][Next]_vars

-----------------------------------------------------------------------------
(* Properties *)

TypeOK ==
  /\ \A c \in 1..Len(commits) : commits[c].p \in 0..(c - 1)
  /\ \A b \in Branches : {heads[b], remote[b], track[b]} \subseteq 0..Len(commits)
  /\ heads[cur] # 0
  /\ origin => repo # "none"

\* What the user is told to be synced, or an agent to have pushed, is in the
\* history of the remote branch, with two calls and others' pushes mixed.
ToldIsThere ==
  mishaps \cap {"refused", "late"} = {} => \A x \in promised : x[2] \in History(remote[x[1]])

\* What is known of the remote is a past of it.
TrackIsPast == \A b \in Branches : track[b] = 0 \/ track[b] \in History(remote[b])

\* The last thing the user wrote in a file is in the tree, or in a commit of one
\* of his branches: no pull and no change of branch loses it.
NothingIsLost ==
  \A f \in Files : \/ mine[f] = 0 \/ work[f] = mine[f]
                   \/ \E b \in Branches \cup {cur} : \E c \in History(heads[b]) : TreeOf(c)[f] = mine[f]
EditsSurvive == "detached" \notin mishaps => NothingIsLost

\* The remote and what is known and told of it fit.
PushedIsThere == TypeOK /\ ToldIsThere /\ TrackIsPast

\* A commit the launcher makes changes what the user has edited, and nothing
\* else.
CommitsAreEdits ==
  \A c \in 1..Len(commits) :
    commits[c].by = "user" => {f \in Files : commits[c].t[f] # TreeOf(commits[c].p)[f]} \subseteq commits[c].of
EditsOnly == "pull" \notin mishaps => CommitsAreEdits

\* What the user wrote stays, and only that is committed in his name.
EditsAreKept == EditsSurvive /\ EditsOnly
=============================================================================
