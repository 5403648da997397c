------------------------------ MODULE WorkTrees ------------------------------
(***************************************************************************)
(* The tools that change a project's working tree on the host              *)
(* (src/src/tauri/src/mcp/tools/discovery.rs): write_file, snapshot,       *)
(* rollback and fork, with the removal of a project and the start of its   *)
(* server beside them.  Calls of several agents run at once, and each does *)
(* its work on the disk in steps.                                          *)
(*                                                                         *)
(* A tree is what its files hold; a file is an inode and the set of the    *)
(* writes whose bytes are in it.  The two files have names that differ in  *)
(* their extension only, as index.html and index.css do.                   *)
(***************************************************************************)
EXTENDS Integers, Sequences, FiniteSets

CONSTANTS Roots,      \* projects that were imported
          Forks,      \* bound: ids for the projects forks make
          Snaps,      \* bound: ids for snapshots
          Callers,    \* bound: tool calls under way
          Calls,      \* bound: tool calls, and the writes among them, 1..Calls
          Cap,        \* snapshots a project keeps in the store
          Mishaps, MaxMishaps, None

\* stem: a file is written while another write in its project is under way.
\* swap: a call in a project begins during a rollback of it, or a rollback
\* during another call.  milli: two forks draw their ids in one millisecond.
\* disk: an operation on the disk fails.  crash: the launcher dies.
MishapNames == {"stem", "swap", "milli", "disk", "crash"}

Projects == Roots \cup Forks
Paths == Projects \cup Snaps

ASSUME TreesAssumption ==
  /\ None \notin Paths /\ Projects \cap Snaps = {} /\ Roots \cap Forks = {}
  /\ Calls \in Nat /\ Cap \in Nat \ {0} /\ Mishaps \subseteq MishapNames

VARIABLES tree,     \* what is on the disk, by path
          store,    \* the projects of the store
          records,  \* the snapshot records of the store, oldest first
          server,   \* the projects whose container runs
          call,     \* the calls under way
          used,     \* calls made and ids given out so far
          mishaps   \* ghost: what has gone wrong so far

vars == <<tree, store, records, server, call, used, mishaps>>

Files == {"html", "css"}
Names == Files \cup {"tmp"}
NoFile == [ino |-> -1, by |-> {}]
NoTree == [n \in Names |-> NoFile]
Whole(t) == \A f \in Files : t[f] # NoFile
Idle == [op |-> "none", pc |-> "idle", p |-> None, id |-> None, f |-> "tmp", w |-> 0, ino |-> 0]

Init ==
  /\ tree = [q \in Paths |->
       IF q \in Roots THEN [n \in Names |-> IF n = "tmp" THEN NoFile ELSE [ino |-> 0, by |-> {q}]]
       ELSE NoTree]
  /\ store = Roots /\ records = <<>> /\ server = {}
  /\ call = [c \in Callers |-> Idle]
  /\ used = [calls |-> 0, ids |-> {}]
  /\ mishaps = {}

Happen(kinds) ==
  /\ kinds \subseteq Mishaps /\ Cardinality(mishaps \cup kinds) <= MaxMishaps
  /\ mishaps' = mishaps \cup kinds
Fine == UNCHANGED mishaps

At(c, label) == call[c].pc = label
Go(c, label) == call' = [call EXCEPT ![c].pc = label]
Back(c) == call' = [call EXCEPT ![c] = Idle]
InProject(p) == {c \in Callers : call[c].p = p}

\* What a call that begins in a project runs into there.
Clash(p, op) ==
  LET ops == {call[c].op : c \in InProject(p)}
  IN (IF op = "write" /\ "write" \in ops THEN {"stem"} ELSE {})
       \cup (IF ops # {} /\ (op = "rollback" \/ "rollback" \in ops) THEN {"swap"} ELSE {})

Begin(c, op, pc, p, id, f) ==
  /\ At(c, "idle") /\ used.calls < Calls
  /\ used' = [calls |-> used.calls + 1, ids |-> used.ids \cup ({id} \ {None})]
  /\ call' = [call EXCEPT ![c] = [op |-> op, pc |-> pc, p |-> p, id |-> id, f |-> f, ino |-> 0,
                                  w |-> IF op = "write" THEN used.calls + 1 ELSE 0]]

-----------------------------------------------------------------------------
(* write_file *)

\* A file's temporary name is its own with another extension.
BeginWrite(c) ==
  /\ \E p \in store, f \in Files : Begin(c, "write", "create", p, None, f) /\ Happen(Clash(p, "write"))
  /\ UNCHANGED <<tree, store, records, server>>

\* The bytes of the inode, wherever it is in the tree.
Put(t, ino, by) == [n \in Names |-> IF t[n].ino = ino THEN [ino |-> ino, by |-> by] ELSE t[n]]

\* One that is there is truncated, under the hands of another writer too; the
\* directory is made if it is not there.
CreateTemp(c) ==
  LET p == call[c].p  t == tree[p]
      ino == IF t["tmp"].ino > 0 THEN t["tmp"].ino ELSE call[c].w
  IN /\ At(c, "create")
     /\ tree' = [tree EXCEPT ![p] = Put([t EXCEPT !["tmp"] = [ino |-> ino, by |-> {}]], ino, {})]
     /\ call' = [call EXCEPT ![c].pc = "fill", ![c].ino = ino]
     /\ UNCHANGED <<store, records, server, used, mishaps>>

FillTemp(c) ==
  LET p == call[c].p  t == tree[p]
      now == UNION {t[n].by : n \in {m \in Names : t[m].ino = call[c].ino}}
  IN /\ At(c, "fill")
     /\ tree' = [tree EXCEPT ![p] = Put(t, call[c].ino, now \cup {call[c].w})]
     /\ Go(c, "rename")
     /\ UNCHANGED <<store, records, server, used, mishaps>>

\* The file of that name is taken, whoever wrote it; with none, the call fails.
RenameTemp(c) ==
  LET p == call[c].p
  IN /\ At(c, "rename")
     /\ tree' = IF tree[p]["tmp"] = NoFile THEN tree
                ELSE [tree EXCEPT ![p][call[c].f] = tree[p]["tmp"], ![p]["tmp"] = NoFile]
     /\ Back(c)
     /\ UNCHANGED <<store, records, server, used, mishaps>>

-----------------------------------------------------------------------------
(* The copy of a tree, of the project's for a snapshot or a fork, of the    *)
(* snapshot's for a rollback.  It is made one file after another.           *)

Copied(file) == IF file = NoFile THEN NoFile ELSE [file EXCEPT !.ino = 0]
Source(c) == IF call[c].op = "rollback" THEN call[c].id ELSE call[c].p
Target(c) == IF call[c].op = "rollback" THEN call[c].p ELSE call[c].id

\* A tree that is there is removed first.
BeginCopy(c) ==
  /\ At(c, "copy")
  /\ IF tree[Source(c)] = NoTree THEN Back(c) /\ UNCHANGED <<tree, mishaps>>
     ELSE /\ tree' = [tree EXCEPT ![Target(c)] = [NoTree EXCEPT !["html"] = Copied(tree[Source(c)]["html"])]]
          /\ \/ Go(c, "copy on") /\ Fine
             \/ Back(c) /\ Happen({"disk"})
  /\ UNCHANGED <<store, records, server, used>>

\* Mutant: the snapshot's tree is moved, not copied.
MoveTree(c) ==
  /\ At(c, "copy on")
  /\ tree' = [tree EXCEPT ![Target(c)] = tree[Source(c)],
                          ![Source(c)] = IF call[c].op = "rollback" THEN NoTree ELSE @]
  /\ Go(c, IF call[c].op = "rollback" THEN "start" ELSE "add")
  /\ UNCHANGED <<store, records, server, used, mishaps>>

EndCopy(c) ==
  /\ At(c, "copy on")
  /\ tree' = [tree EXCEPT ![Target(c)]["css"] = Copied(tree[Source(c)]["css"]),
                          ![Target(c)]["tmp"] = Copied(tree[Source(c)]["tmp"])]
  /\ Go(c, IF call[c].op = "rollback" THEN "start" ELSE "add")
  /\ UNCHANGED <<store, records, server, used, mishaps>>

-----------------------------------------------------------------------------
(* snapshot_project *)

BeginSnapshot(c) ==
  /\ \E p \in store, s \in Snaps \ used.ids :
       Begin(c, "snapshot", "copy", p, s, "tmp") /\ Happen(Clash(p, "snapshot"))
  /\ UNCHANGED <<tree, store, records, server>>

\* add_snapshot: beyond the cap the oldest record of the project goes; its
\* tree stays on the disk.
Evict(rows, p) ==
  LET own == {i \in DOMAIN rows : rows[i].p = p}
      oldest == CHOOSE i \in own : \A j \in own : i <= j
  IN IF Cardinality(own) > Cap
     THEN [i \in 1..(Len(rows) - 1) |-> rows[IF i < oldest THEN i ELSE i + 1]]
     ELSE rows

AddRecord(c) ==
  /\ At(c, "add") /\ call[c].op = "snapshot"
  /\ records' = Evict(Append(records, [id |-> call[c].id, p |-> call[c].p]), call[c].p)
  /\ Back(c)
  /\ UNCHANGED <<tree, store, server, used, mishaps>>

-----------------------------------------------------------------------------
(* rollback_project *)

\* Only to a snapshot of the same project, whose tree is there.
BeginRollback(c) ==
  /\ \E i \in DOMAIN records :
       /\ tree[records[i].id] # NoTree
       /\ Begin(c, "rollback", "stop", records[i].p, records[i].id, "tmp")
       /\ records[i].p \in store /\ Happen(Clash(records[i].p, "rollback"))
  /\ UNCHANGED <<tree, store, records, server>>

StopServer(c) ==
  /\ At(c, "stop")
  /\ server' = server \ {call[c].p} /\ Go(c, "remove")
  /\ UNCHANGED <<tree, store, records, used, mishaps>>

RemoveTree(c) ==
  /\ At(c, "remove")
  /\ tree' = [tree EXCEPT ![call[c].p] = NoTree]
  /\ \/ Go(c, "copy") /\ Fine
     \/ Back(c) /\ Happen({"disk"})
  /\ UNCHANGED <<store, records, server, used>>

\* A server is started for a project that had a port, if it is still there.
StartServer(c) ==
  /\ At(c, "start")
  /\ server' = IF call[c].p \in store THEN server \cup {call[c].p} ELSE server
  /\ Back(c)
  /\ UNCHANGED <<tree, store, records, used, mishaps>>

-----------------------------------------------------------------------------
(* fork_project *)

\* The id is the time in milliseconds: two forks may draw the same.
Drawn(c, id) == id \notin used.ids \/ \E d \in Callers \ {c} : call[d].op = "fork" /\ call[d].id = id

\* Only of a project whose server is up.
BeginFork(c) ==
  /\ \E p \in store \cap server, id \in Forks :
       /\ Drawn(c, id) /\ Begin(c, "fork", "copy", p, id, "tmp")
       /\ Happen(Clash(p, "fork") \cup (IF id \in used.ids THEN {"milli"} ELSE {}))
  /\ UNCHANGED <<tree, store, records, server>>

\* The store takes an id once; a fork that is refused leaves its tree.
AddProject(c) ==
  /\ At(c, "add") /\ call[c].op = "fork"
  /\ store' = store \cup {call[c].id}
  /\ server' = IF call[c].id \in store THEN server ELSE server \cup {call[c].id}
  /\ Back(c)
  /\ UNCHANGED <<tree, records, used, mishaps>>

-----------------------------------------------------------------------------
(* Around the tools *)

\* start_project: the agent mounts a tree that is there.
Start(p) ==
  /\ p \in store \ server /\ tree[p] # NoTree
  /\ Happen(Clash(p, "start"))
  /\ server' = server \cup {p}
  /\ UNCHANGED <<tree, store, records, call, used>>

\* remove_project_with_cleanup leaves the project's snapshots.
RemoveProject(p) ==
  /\ p \in store
  /\ Happen(IF InProject(p) = {} THEN {} ELSE {"swap"})
  /\ server' = server \ {p} /\ store' = store \ {p}
  /\ tree' = [tree EXCEPT ![p] = NoTree]
  /\ UNCHANGED <<records, call, used>>

Crash ==
  /\ \E c \in Callers : ~At(c, "idle")
  /\ Happen({"crash"})
  /\ call' = [c \in Callers |-> Idle] /\ server' = {}
  /\ UNCHANGED <<tree, store, records, used>>

Step(c) ==
  \/ CreateTemp(c) \/ FillTemp(c) \/ RenameTemp(c) \/ BeginCopy(c) \/ EndCopy(c)
  \/ AddRecord(c) \/ StopServer(c) \/ RemoveTree(c) \/ StartServer(c) \/ AddProject(c)

Next ==
  \/ \E c \in Callers :
       BeginWrite(c) \/ BeginSnapshot(c) \/ BeginRollback(c) \/ BeginFork(c) \/ Step(c)
  \/ \E p \in Projects : Start(p) \/ RemoveProject(p)
  \/ Crash

Spec == Init /\ [][Next]_vars

-----------------------------------------------------------------------------
(* Properties *)

Without(kinds) == mishaps \cap kinds = {}

TypeOK ==
  /\ \A q \in Paths, n \in Names :
       tree[q][n].ino \in -1..Calls /\ tree[q][n].by \subseteq (Roots \cup 1..Calls)
  /\ store \subseteq Projects /\ server \subseteq store
  /\ \A p \in Projects : Cardinality({i \in DOMAIN records : records[i].p = p}) <= Cap

\* A file holds what one write of it wrote, whatever other calls and crashes
\* did in between: but for two writes that share a temporary name.
FileIsOneWrite ==
  Without({"stem"}) =>
    \A q \in Paths, f \in Files : Cardinality(tree[q][f].by) <= 1

\* A snapshot that the store knows can be rolled back to, its tree is whole:
\* but one of a tree that a rollback was putting back, or had left broken.
RecordIsWhole ==
  Without({"swap", "disk", "crash", "milli"}) =>
    \A i \in DOMAIN records : Whole(tree[records[i].id])

\* A tree that a rollback broke, or the end of the launcher during one, is
\* still whole in a snapshot on the disk.
LostTreeIsKept ==
  Without({"swap", "milli"}) =>
    \A p \in store : Whole(tree[p]) \/ \E s \in Snaps : Whole(tree[s])

\* A server runs on a whole tree, but one started where a rollback had left a
\* broken one.
ServesWholeTree ==
  Without({"swap", "disk", "crash", "milli"}) => \A p \in server : Whole(tree[p])

\* What is written, kept and served is whole.
TreesAreWhole == TypeOK /\ FileIsOneWrite /\ RecordIsWhole /\ LostTreeIsKept /\ ServesWholeTree

\* A write is of one file: what its tool promises.
WriteIsAtomic ==
  \A q \in Paths, f \in Files : Cardinality(tree[q][f].by) <= 1
=============================================================================
