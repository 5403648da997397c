------------------------------ MODULE EditorFiles ------------------------------
(***************************************************************************)
(* What the launcher writes into the working trees for the editor: the     *)
(* entry of its MCP server in .cursor/mcp.json with the token of the       *)
(* listener (src/src/tauri/src/mcp/install.rs, mcp/auth.rs), the rule file *)
(* and .vscode/settings.json (projects/cursor.rs).  An import and an open  *)
(* in the editor are commands of the main thread, one at a time; a fork    *)
(* is a call of the MCP server and a rotation of the token a command with  *)
(* a task of its own.  A file is read, truncated and filled in three       *)
(* steps, and the user saves the same files.                               *)
(***************************************************************************)
EXTENDS Naturals, Sequences, FiniteSets, SequencesExt, FiniteSetsExt

CONSTANTS Projects, Old,  \* the project that is imported already
          Ports,
          Calls, Saves,   \* bounds: commands and calls, saves of the user
          Mishaps, MaxMishaps

\* race: a file is read while another writer has truncated it, or saved by the
\* user between the read and the write of the launcher, or a tree is copied
\* while its files are written.  behind: the token is
\* rotated between the read of the token and the write of an entry, or of the
\* list of the projects.  twice: two rotations at once.  crash: the launcher
\* ends with work under way.  torn: it ends between a truncation and its write.
\* gone: the token's file is removed while the listener runs.  fail: a file
\* cannot be written.  bad: the user leaves a file that does not parse.
MishapNames == {"race", "behind", "twice", "crash", "torn", "gone", "fail", "bad"}

VARIABLES file,     \* the token in ~/.opnble/mcp.json, 0 when there is none
          live,     \* the token the listener accepts, 0 when it does not run
          minted, listed, slug, disk, rule, job, calls, saves, mishaps

vars == <<file, live, minted, listed, slug, disk, rule, job, calls, saves, mishaps>>

\* Of the instance: "s" stands for a name that is derived, "" for none, and 0
\* for the port of a project that does not run.
EditorAssumption ==
  /\ Old \in Projects /\ IsFiniteSet(Projects) /\ {"", "s"} \cap Projects = {}
  /\ Ports \subseteq Nat \ {0} /\ \E last \in Ports : \A port \in Ports : port <= last
  /\ Mishaps \subseteq MishapNames

Rotations == {"r1", "r2"}
Tasks == {"main", "tool"} \cup Rotations
Kinds == {"mcp", "settings"}

\* A file: whether it parses, the user's part, and the launcher's: the token,
\* or the ports that have a label.
Absent == [text |-> "none", own |-> FALSE, ours |-> {}]
Empty == [Absent EXCEPT !.text = "empty"]
Whole(own, ours) == [text |-> "object", own |-> own, ours |-> ours]

NoRule == 1 + Max(Ports)
NoJob == [todo |-> <<>>, tok |-> 0, port |-> 0, at |-> "read", buf |-> Absent, failed |-> FALSE]
Idle(t) == job[t].todo = <<>>
Quiet == \A t \in Tasks : Idle(t)
Slug(base, n) == <<base, n>>

Happen(kinds) ==
  /\ kinds \subseteq Mishaps /\ Cardinality(mishaps \cup kinds) <= MaxMishaps
  /\ mishaps' = mishaps \cup kinds

\* On the first launch there is no token yet, and the project of an older
\* version has no entry.
Init ==
  /\ file \in {0, 1} /\ live = 0 /\ minted = file
  /\ listed = <<Old>> /\ slug = [p \in Projects |-> IF p = Old THEN Slug("s", 1) ELSE Slug("", 0)]
  /\ \E settings \in {Absent, Whole(TRUE, {})} :
       disk = [p \in Projects |-> [k \in Kinds |-> IF p # Old THEN Absent ELSE IF k = "settings" THEN settings
                                                   ELSE Whole(TRUE, IF file = 0 THEN {} ELSE {file})]]
  /\ rule = [p \in Projects |-> NoRule]
  /\ job = [t \in Tasks |-> NoJob] /\ calls = 0 /\ saves = 0 /\ mishaps = {}

Doing(t, op, p) == ~Idle(t) /\ Head(job[t].todo) = <<op, p>>
KindOf(op) == IF op = "entry" THEN "mcp" ELSE "settings"
Writers(k, p) == {t \in Tasks : \E op \in {"entry", "settings"} : KindOf(op) = k /\ Doing(t, op, p)}
Torn(k, p) == \E t \in Writers(k, p) : job[t].at = "fill"

Cloned(p) == slug[p] # Slug("", 0)

-----------------------------------------------------------------------------
(* The token                                                                *)

\* TokenFile::current makes the token when there is none.
Current == IF file = 0 THEN minted + 1 ELSE file
ReadToken == file' = Current /\ minted' = (IF file = 0 THEN minted + 1 ELSE minted)

\* spawn
Spawn ==
  /\ live = 0 /\ ReadToken /\ live' = Current
  /\ UNCHANGED <<listed, slug, disk, rule, job, calls, saves, mishaps>>

\* Mutant: the listener is not told.
RotateOnDisk == minted' = minted + 1 /\ file' = minted + 1 /\ live' = live

\* rotate_token: the file and the listener under one lock.
Rotate == minted' = minted + 1 /\ file' = minted + 1 /\ live' = minted + 1

-----------------------------------------------------------------------------
(* The commands and calls                                                   *)

Begin(t, todo, port, tok) ==
  /\ Idle(t) /\ calls < Calls /\ calls' = calls + 1
  /\ job' = [job EXCEPT ![t] = [NoJob EXCEPT !.todo = todo, !.port = port, !.tok = tok]]

Install(p) == <<<<"token", p>>, <<"entry", p>>>>

\* import: the clone brings what is committed.
Import(p) ==
  /\ ~Cloned(p) /\ Begin("main", <<<<"slug", p>>>> \o Install(p) \o <<<<"add", p>>>>, 0, 0)
  /\ \E own \in BOOLEAN : disk' = [disk EXCEPT ![p]["settings"] = IF own THEN Whole(TRUE, {}) ELSE Absent]
  /\ slug' = [slug EXCEPT ![p] = Slug(p, 0)]
  /\ UNCHANGED <<file, live, minted, listed, rule, saves, mishaps>>

Artifacts(p) == <<<<"rule", p>>, <<"settings", p>>>>

\* open_in_cursor
Open(p) ==
  /\ p \in ToSet(listed) /\ \E port \in Ports \cup {0} : Begin("main", Artifacts(p) \o Install(p), port, 0)
  /\ UNCHANGED <<file, live, minted, listed, slug, disk, rule, saves, mishaps>>

\* fork_project: the child starts with a copy of the tree.
Fork(p, q) ==
  /\ live # 0 /\ p \in ToSet(listed) /\ ~Cloned(q) /\ Begin("tool", <<<<"mark", q>>>> \o Install(q) \o <<<<"add", q>>>>, 0, 0)
  /\ disk' = [disk EXCEPT ![q] = disk[p]] /\ rule' = [rule EXCEPT ![q] = rule[p]]
  /\ slug' = [slug EXCEPT ![q] = Slug(q, 0)] /\ Happen(IF \E t \in Tasks : ~Idle(t) /\ Head(job[t].todo)[2] = p THEN {"race"} ELSE {})
  /\ UNCHANGED <<file, live, minted, listed, saves>>

\* mcp_rotate_token: an install under way may hold the token before.
BeginRotation(t) ==
  /\ live # 0 /\ Begin(t, <<<<"list", Old>>>>, 0, minted + 1) /\ Rotate
  /\ Happen((IF \E u \in Rotations : ~Idle(u) THEN {"twice"} ELSE {})
            \cup (IF \E u \in {"main", "tool"} : ~Idle(u) THEN {"behind"} ELSE {}))
  /\ UNCHANGED <<listed, slug, disk, rule, saves>>

-----------------------------------------------------------------------------
(* Their steps                                                              *)

Next1(j) ==
  IF Len(j.todo) = 1 THEN [NoJob EXCEPT !.failed = j.failed]
  ELSE [j EXCEPT !.todo = Tail(@), !.at = "read", !.buf = Absent]
Failed(t, j) == [Next1(j) EXCEPT !.failed = t \in Rotations]
Step(t) == job' = [job EXCEPT ![t] = Next1(@)]

\* derive_slug_unique: the first number no project of the list has.
Derive == Slug("s", CHOOSE n \in 1..(Cardinality(Projects) + 1) :
                      /\ \A q \in ToSet(listed) : slug[q] # Slug("s", n)
                      /\ \A m \in 1..(n - 1) : \E q \in ToSet(listed) : slug[q] = Slug("s", m))

Name(t, p) ==
  /\ \/ Doing(t, "slug", p) /\ slug' = [slug EXCEPT ![p] = Derive]
     \/ Doing(t, "mark", p) /\ slug' = [slug EXCEPT ![p] = Slug(p, 1)]
  /\ Step(t)
  /\ UNCHANGED <<file, live, minted, listed, disk, rule, calls, saves, mishaps>>

TakeToken(t, p) ==
  /\ Doing(t, "token", p) /\ ReadToken
  /\ job' = [job EXCEPT ![t] = [Next1(@) EXCEPT !.tok = Current]]
  /\ UNCHANGED <<live, listed, slug, disk, rule, calls, saves, mishaps>>

\* sweep_token: the projects with a slug whose tree is there.
List(t, p) ==
  /\ Doing(t, "list", p)
  /\ job' = [job EXCEPT ![t].todo = [i \in 1..Len(listed) |-> <<"entry", listed[i]>>]]
  /\ UNCHANGED <<file, live, minted, listed, slug, disk, rule, calls, saves, mishaps>>

\* What the rule file tells the agent: the address, or that nothing runs.
RuleOf(j) == j.port

\* The rule file is written whole; when it cannot be, the settings are left.
WriteRule(t, p) ==
  /\ Doing(t, "rule", p)
  /\ \/ rule' = [rule EXCEPT ![p] = RuleOf(job[t])] /\ Step(t) /\ UNCHANGED mishaps
     \/ Happen({"fail"}) /\ job' = [job EXCEPT ![t] = Next1(Next1(@))] /\ UNCHANGED rule
  /\ UNCHANGED <<file, live, minted, listed, slug, disk, calls, saves>>

\* read_existing_config takes an empty file for an empty object, which the
\* settings' reader does not.
Readable(k, f) == f.text \in {"none", "object"} \cup (IF k = "mcp" THEN {"empty"} ELSE {})

\* Mutant: the entry replaces the file.
MergedAlone(k, f, j) == Whole(FALSE, IF k = "mcp" THEN {j.tok} ELSE f.ours \cup {j.port})

\* merge_json keeps the labels of other ports.
Labelled(f, port) == f.ours \cup {port}

\* set_opnble_entry keeps the other servers.
Merged(k, f, j) == Whole(f.own, IF k = "mcp" THEN {j.tok} ELSE Labelled(f, j.port))

\* What cannot be read is left as it is, and the sweep counts it; settings that
\* would not change are not written.
ReadFile(t, p, op) ==
  LET k == KindOf(op)  f == disk[p][k] IN
  /\ Doing(t, op, p) /\ job[t].at = "read"
  /\ Happen(IF Torn(k, p) THEN {"race"} ELSE {})
  /\ job' = [job EXCEPT ![t] =
       IF op = "settings" /\ (job[t].port = 0 \/ Merged(k, f, @) = f) THEN Next1(@)
       ELSE IF Readable(k, f) THEN [@ EXCEPT !.at = "truncate", !.buf = f]
       ELSE Failed(t, @)]
  /\ UNCHANGED <<file, live, minted, listed, slug, disk, rule, calls, saves>>

Truncate(t, p, op) ==
  LET k == KindOf(op) IN
  /\ Doing(t, op, p) /\ job[t].at = "truncate"
  /\ \/ disk' = [disk EXCEPT ![p][k] = Empty] /\ job' = [job EXCEPT ![t].at = "fill"] /\ UNCHANGED mishaps
     \/ Happen({"fail"}) /\ job' = [job EXCEPT ![t] = Failed(t, @)] /\ UNCHANGED disk
  /\ UNCHANGED <<file, live, minted, listed, slug, rule, calls, saves>>

Fill(t, p, op) ==
  LET k == KindOf(op) IN
  /\ Doing(t, op, p) /\ job[t].at = "fill"
  /\ disk' = [disk EXCEPT ![p][k] = Merged(k, job[t].buf, job[t])] /\ Step(t)
  /\ UNCHANGED <<file, live, minted, listed, slug, rule, calls, saves, mishaps>>

Add(t, p) ==
  /\ Doing(t, "add", p) /\ listed' = Append(listed, p) /\ Step(t)
  /\ UNCHANGED <<file, live, minted, slug, disk, rule, calls, saves, mishaps>>

-----------------------------------------------------------------------------
(* The user, and the end of the launcher                                    *)

\* The user adds something of their own, or leaves the file empty or broken.
Save(p, k) ==
  /\ Cloned(p) /\ saves < Saves /\ saves' = saves + 1
  /\ \/ disk[p][k].text # "bad" /\ disk' = [disk EXCEPT ![p][k] = Whole(TRUE, @.ours)]
        /\ Happen(IF \E t \in Writers(k, p) : job[t].at # "read" THEN {"race"} ELSE {})
     \/ disk' = [disk EXCEPT ![p][k] = [Absent EXCEPT !.text = "bad", !.own = TRUE]] /\ Happen({"bad"})
        /\ \A t \in Writers(k, p) : job[t].at = "read"
     \/ disk' = [disk EXCEPT ![p][k] = Empty] /\ k = "mcp" /\ Writers(k, p) = {} /\ UNCHANGED mishaps
  /\ UNCHANGED <<file, live, minted, listed, slug, rule, job, calls>>

LoseToken ==
  /\ live # 0 /\ file # 0 /\ "gone" \notin mishaps /\ file' = 0 /\ Happen({"gone"})
  /\ UNCHANGED <<live, minted, listed, slug, disk, rule, job, calls, saves>>

Quit ==
  /\ live # 0 /\ live' = 0 /\ job' = [t \in Tasks |-> [NoJob EXCEPT !.failed = job[t].failed /\ t \in Rotations]]
  /\ Happen(IF \E p \in Projects, k \in Kinds : Torn(k, p) THEN {"torn"} ELSE IF ~Quiet THEN {"crash"} ELSE {})
  /\ UNCHANGED <<file, minted, listed, slug, disk, rule, calls, saves>>

Next ==
  \/ Spawn \/ LoseToken \/ Quit
  \/ \E p \in Projects :
       \/ Import(p) \/ Open(p) \/ \E q \in Projects : Fork(p, q)
       \/ \E k \in Kinds : Save(p, k)
       \/ \E t \in Tasks : \/ Name(t, p) \/ TakeToken(t, p) \/ List(t, p) \/ WriteRule(t, p) \/ Add(t, p)
                           \/ \E op \in {"entry", "settings"} : ReadFile(t, p, op) \/ Truncate(t, p, op) \/ Fill(t, p, op)
  \/ \E t \in Rotations : BeginRotation(t)

Spec == Init /\ [][Next]_vars

-----------------------------------------------------------------------------
(* Properties                                                               *)

\* The types of the variables.
TypeOK ==
  /\ {file, live} \subseteq 0..minted /\ ToSet(listed) \subseteq Projects /\ mishaps \subseteq MishapNames
  /\ disk \in [Projects -> [Kinds -> [text : {"none", "empty", "object", "bad"}, own : BOOLEAN, ours : SUBSET (0..(NoRule + minted))]]]
  /\ rule \in [Projects -> 0..NoRule]
  /\ \A t \in Tasks : job[t].at \in {"read", "truncate", "fill"} /\ (Idle(t) => job[t].at = "read") /\ job[t].tok <= minted

\* When nothing is under way, the entry of every project of the list that has
\* one holds the token the listener accepts, whatever imports, opens, forks,
\* rotations and restarts came before: as long as no rotation overtook one of
\* them or another rotation, and none has reported a failure
\* (mcp_rotate_token, sweep_token, install_project_entry).
EntriesAgree ==
  Quiet /\ live # 0 /\ mishaps \subseteq {"race", "bad"} /\ (\A t \in Rotations : ~job[t].failed)
  => \A p \in ToSet(listed) : disk[p]["mcp"].ours \subseteq {live}

\* What the user has put into mcp.json or settings.json is still there, or in
\* the hands of the task that is writing the file, until the user removes it
\* (write_mcp_config_at, write_settings_file).
Held(p, k) == disk[p][k].own \/ \E t \in Writers(k, p) : job[t].at = "fill" /\ job[t].buf.own
KeepOwn ==
  \A p \in Projects, k \in Kinds :
    Held(p, k) /\ saves' = saves /\ mishaps' \cap {"race", "torn"} = {} => Held(p, k)'
OwnIsKept == [][KeepOwn]_vars

\* The same, whatever happens: "user-added mcpServers.* entries always
\* survive" (mcp/install.rs).
OwnAlwaysKept ==
  [][\A p \in Projects : Held(p, "mcp") /\ saves' = saves => Held(p, "mcp")']_vars

\* The port the rule file tells the agent has its label in the settings, when
\* those can be read (materialize_cursor_artifacts).
FilesAgree ==
  Quiet /\ mishaps \cap {"race", "fail", "crash", "torn"} = {}
  => \A p \in Projects : rule[p] \in Ports /\ disk[p]["settings"].text = "object" /\ saves = 0
                           => rule[p] \in disk[p]["settings"].ours

\* No two projects of the list have the same slug, which is all the tools
\* know a project by (derive_slug_unique, fork_project).
SlugsDiffer == \A p, q \in ToSet(listed) : p # q => slug[p] # slug[q]

\* What the launcher told the editors of a project is so: the token, the port
\* and the slug.
EditorsAgree == TypeOK /\ EntriesAgree /\ FilesAgree /\ SlugsDiffer
=============================================================================
