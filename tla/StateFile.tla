------------------------------ MODULE StateFile ------------------------------
(***************************************************************************)
(* state.json and the stores that share it: AtomicJsonFile                 *)
(* (src/src/tauri/src/infrastructure/atomic_json.rs) under                 *)
(* JsonProjectStore.save_to_disk (projects/store.rs) and                   *)
(* JsonSettingsStore.save_to_disk (settings/store.rs).                     *)
(*                                                                         *)
(* Each store owns one section of the document.  To save, it reads the     *)
(* whole document back, replaces its section and writes the result to      *)
(* state.json.tmp, renames state.json to state.json.bak and the temporary  *)
(* file to state.json.  A store serialises its own saves with a mutex; no  *)
(* lock covers both stores.  Every file system call is a step of its own.  *)
(*                                                                         *)
(* A section is abstracted to the number of the save that wrote it (0: the *)
(* section is absent and loads as its default).  Files are inodes, so that *)
(* a writer keeps writing the file it opened after another one renames it. *)
(***************************************************************************)
EXTENDS Naturals, FiniteSets

CONSTANTS Sections,      \* one per store
          Inodes,        \* bound: files that exist or are open at a time
          MaxVersion,    \* bound: saves per store and session
          Mishaps,       \* what may go wrong, see MishapNames
          MaxMishaps,    \* bound: kinds of mishap in one behaviour
          Empty, Garbage, None

\* write: the temporary file cannot be written.  crash: the process is killed.
\* power: the machine stops and data is lost; nothing here calls fsync.
\* overlap: a save begins while a save of the other store is under way.
MishapNames == {"write", "crash", "power", "overlap"}

\* What the constants are.
StateFileAssumption ==
  /\ MaxVersion \in Nat
  /\ MaxMishaps \in Nat
  /\ Mishaps \subseteq MishapNames
  /\ None \notin Inodes
  /\ None \notin {Empty, Garbage}
  /\ {None, Empty, Garbage} \cap [Sections -> 0..MaxVersion] = {}

VARIABLES dir,        \* the inode behind each of the three names
          data,       \* what each inode holds
          synced,     \* inodes whose data has reached the disk
          up,         \* the launcher runs
          mem,        \* each store's in-memory section
          pc,         \* where each store's save is
          obj,        \* the document a save has merged and will write
          fd,         \* the temporary file a save has open
          committed,  \* ghost: the document most recently renamed into place,
                      \* or promoted from the backup by a restart
          mishaps     \* ghost: what has gone wrong so far

vars == <<dir, data, synced, up, mem, pc, obj, fd, committed, mishaps>>

Names == {"primary", "backup", "tmp"}
Docs == [Sections -> 0..MaxVersion]
Default == [s \in Sections |-> 0]

\* An empty or half-written file does not parse.
Unparsable == {Empty, Garbage}
IsDoc(i) == i # None /\ data[i] \notin Unparsable
Unused(i) == (\A n \in Names : dir[n] # i) /\ (\A s \in Sections : fd[s] # i)

\* Which of them a new file gets is of no consequence.
Fresh(i) == Unused(i) /\ i = CHOOSE j \in Inodes : Unused(j)

\* What a file without a name or an open handle held is gone.
Free(contents) ==
  LET kept == {i \in Inodes : (\E n \in Names : dir'[n] = i) \/ \E s \in Sections : fd'[s] = i}
  IN /\ data' = [i \in Inodes |-> IF i \in kept THEN contents[i] ELSE Empty]
     /\ synced' = synced \cap kept

Holds(name) == IF IsDoc(dir[name]) THEN data[dir[name]] ELSE None

Init ==
  /\ dir = [n \in Names |-> None]
  /\ data = [i \in Inodes |-> Empty]
  /\ synced = {}
  /\ up = TRUE
  /\ mem = Default
  /\ pc = [s \in Sections |-> "idle"]
  /\ obj = [s \in Sections |-> Default]
  /\ fd = [s \in Sections |-> None]
  /\ committed = None
  /\ mishaps = {}

Idle(s) == pc[s] = "idle"

MayGoWrong(kind) == kind \in Mishaps /\ Cardinality(mishaps \cup {kind}) <= MaxMishaps
Note(kind) == mishaps' = mishaps \cup {kind}

Goto(s, label) == pc' = [pc EXCEPT ![s] = label]

-----------------------------------------------------------------------------
(* load *)

\* Mutant: the backup is never looked at.
RecoverWithoutBackup(doc) ==
  /\ doc = Default
  /\ dir' = [dir EXCEPT !["primary"] = None, !["backup"] = None]
  /\ UNCHANGED <<data, synced>>

\* The outcome of parsing the primary: the document to use and what recovery
\* does to the files.  A good backup is copied over the primary, in place;
\* without one everything present is moved aside and the default is used.
Recover(doc) ==
  \/ /\ IsDoc(dir["backup"])
     /\ doc = data[dir["backup"]]
     /\ \E copy \in Inodes :
          /\ IF dir["primary"] # None THEN copy = dir["primary"] ELSE Fresh(copy)
          /\ data' = [data EXCEPT ![copy] = doc]
          /\ dir' = [dir EXCEPT !["primary"] = copy]
          /\ synced' = synced \ {copy}
  \/ /\ ~IsDoc(dir["backup"])
     /\ doc = Default
     /\ dir' = [dir EXCEPT !["primary"] = None, !["backup"] = None]
     /\ UNCHANGED <<data, synced>>

Parse(doc) ==
  \/ /\ IsDoc(dir["primary"])
     /\ doc = data[dir["primary"]]
     /\ UNCHANGED <<dir, data, synced>>
  \/ /\ ~IsDoc(dir["primary"])
     /\ Recover(doc)

-----------------------------------------------------------------------------
(* save_to_disk, called with the store's section already changed in memory *)

\* add, update, remove, allocate_port, add_snapshot, ... or save_settings.
StartSave(s) ==
  /\ up /\ Idle(s)
  /\ mem[s] < MaxVersion
  /\ mem' = [mem EXCEPT ![s] = @ + 1]
  /\ Goto(s, "exists")
  /\ IF \A t \in Sections : Idle(t) THEN UNCHANGED mishaps
     ELSE MayGoWrong("overlap") /\ Note("overlap")
  /\ UNCHANGED <<dir, data, synced, up, obj, fd, committed>>

Merge(s, doc) ==
  /\ obj' = [obj EXCEPT ![s] = [doc EXCEPT ![s] = mem[s]]]
  /\ Goto(s, "open")

\* read_raw: a missing primary is a fresh install, whatever the backup holds.
CheckExists(s) ==
  /\ pc[s] = "exists"
  /\ \/ /\ dir["primary"] = None
        /\ Merge(s, Default)
     \/ /\ dir["primary"] # None
        /\ Goto(s, "parse")
        /\ UNCHANGED obj
  /\ UNCHANGED <<dir, data, synced, up, mem, fd, committed, mishaps>>

ReadDocument(s) ==
  /\ pc[s] = "parse"
  /\ \E doc \in Docs : Parse(doc) /\ Merge(s, doc)
  /\ UNCHANGED <<up, mem, fd, committed, mishaps>>

\* fs::write(tmp): open and truncate, then write.
OpenTmp(s) ==
  /\ pc[s] = "open"
  /\ \E i \in Inodes :
       /\ IF dir["tmp"] # None THEN i = dir["tmp"]
          ELSE Fresh(i)
       /\ dir' = [dir EXCEPT !["tmp"] = i]
       /\ data' = [data EXCEPT ![i] = Empty]
       /\ synced' = synced \ {i}
       /\ fd' = [fd EXCEPT ![s] = i]
  /\ Goto(s, "write")
  /\ UNCHANGED <<up, mem, obj, committed, mishaps>>

\* Both stores may have opened the same inode: the second write lands on top
\* of the first and leaves its tail when it is shorter.
WriteTmp(s) ==
  /\ pc[s] = "write"
  /\ \E content \in IF data[fd[s]] = Empty THEN {obj[s]} ELSE {obj[s], Garbage} :
       data' = [data EXCEPT ![fd[s]] = content]
  /\ fd' = [fd EXCEPT ![s] = None]
  /\ synced' = synced \ {fd[s]}
  /\ obj' = [obj EXCEPT ![s] = Default]
  /\ Goto(s, "rotate")
  /\ UNCHANGED <<dir, up, mem, committed, mishaps>>

\* The disk is full: save fails, the section stays changed in memory.
FailWrite(s) ==
  /\ MayGoWrong("write")
  /\ pc[s] = "write"
  /\ data' = [data EXCEPT ![fd[s]] = Garbage]
  /\ fd' = [fd EXCEPT ![s] = None]
  /\ Goto(s, "idle")
  /\ obj' = [obj EXCEPT ![s] = Default]
  /\ Note("write")
  /\ UNCHANGED <<dir, synced, up, mem, committed>>

\* Mutant: the primary is removed, not kept as the backup.
RotateRemoves(s) ==
  /\ pc[s] = "rotate"
  /\ dir' = [dir EXCEPT !["primary"] = None]
  /\ Goto(s, "install")
  /\ UNCHANGED <<data, synced, up, mem, obj, fd, committed, mishaps>>

Rotate(s) ==
  /\ pc[s] = "rotate"
  /\ dir' = IF dir["primary"] = None THEN dir
            ELSE [dir EXCEPT !["backup"] = dir["primary"], !["primary"] = None]
  /\ Goto(s, "install")
  /\ UNCHANGED <<up, mem, obj, fd, committed, mishaps>>
  /\ Free(data)

\* The rename fails, and save with it, when the other store took the file.
Install(s) ==
  /\ pc[s] = "install"
  /\ dir' = IF dir["tmp"] = None THEN dir
            ELSE [dir EXCEPT !["primary"] = dir["tmp"], !["tmp"] = None]
  /\ committed' = IF Holds("tmp") = None THEN committed ELSE Holds("tmp")
  /\ Goto(s, "idle")
  /\ UNCHANGED <<up, mem, obj, fd, mishaps>>
  /\ Free(data)

-----------------------------------------------------------------------------
(* The process and the machine *)

Stop ==
  /\ up' = FALSE
  /\ mem' = Default
  /\ pc' = [s \in Sections |-> "idle"]
  /\ obj' = [s \in Sections |-> Default]
  /\ fd' = [s \in Sections |-> None]

Crash ==
  /\ MayGoWrong("crash") /\ up
  /\ Stop
  /\ Note("crash")
  /\ UNCHANGED <<dir, data, synced, committed>>

\* The operating system writes a file back at some time of its own choosing.
WriteBack(i) ==
  /\ MayGoWrong("power") /\ up
  /\ i \notin synced /\ \E n \in Names : dir[n] = i
  /\ synced' = synced \cup {i}
  /\ UNCHANGED <<dir, data, up, mem, pc, obj, fd, committed, mishaps>>

\* Renames are journalled, data that was not written back may be gone.
PowerLoss ==
  /\ MayGoWrong("power") /\ up
  /\ Stop
  /\ Note("power")
  /\ \E lost \in SUBSET {i \in Inodes \ synced : \E n \in Names : dir[n] = i} :
       /\ lost # {}
       /\ data' = [i \in Inodes |-> IF i \in lost THEN Empty ELSE data[i]]
  /\ UNCHANGED <<dir, synced, committed>>

\* Both stores load the document, one after the other, before anything else
\* runs; the second load sees what the first one recovered.
Restart ==
  /\ ~up
  /\ up' = TRUE
  /\ \E doc \in Docs :
       /\ mem' = doc
       /\ \/ /\ dir["primary"] = None
             /\ doc = Default
             /\ UNCHANGED <<dir, data, synced, committed>>
          \/ /\ dir["primary"] # None
             /\ Parse(doc)
             /\ committed' = IF dir'["primary"] = None THEN None ELSE doc
  /\ UNCHANGED <<pc, obj, fd, mishaps>>

-----------------------------------------------------------------------------
Save(s) ==
  \/ StartSave(s) \/ CheckExists(s) \/ ReadDocument(s)
  \/ OpenTmp(s) \/ WriteTmp(s) \/ FailWrite(s) \/ Rotate(s) \/ Install(s)

Next ==
  \/ \E s \in Sections : Save(s)
  \/ Crash \/ PowerLoss \/ Restart
  \/ \E i \in Inodes : WriteBack(i)

Spec == Init /\ [][Next]_vars

-----------------------------------------------------------------------------
(* Properties *)

\* The shape of the state.
TypeOK ==
  /\ dir \in [Names -> Inodes \cup {None}]
  /\ data \in [Inodes -> Docs \cup Unparsable]
  /\ synced \subseteq Inodes
  /\ up \in BOOLEAN /\ mishaps \subseteq MishapNames
  /\ mem \in Docs
  /\ pc \in [Sections -> {"idle", "exists", "parse", "open", "write", "rotate", "install"}]
  /\ obj \in [Sections -> Docs]
  /\ fd \in [Sections -> Inodes \cup {None}]
  /\ committed \in Docs \cup {None}

\* Unless the power fails or saves of the two stores overlap, the last document
\* saved is intact in the primary, or in the backup while there is no primary,
\* whatever saves fail and wherever the process is killed (save and load).
CommittedSurvives ==
  committed # None /\ mishaps \cap {"power", "overlap"} = {} =>
    \/ Holds("primary") = committed
    \/ dir["primary"] = None /\ Holds("backup") = committed

\* The claim of atomic_json.rs:1 ("Atomic JSON file persistence"), with both
\* stores saving: once a document has been saved, a whole one remains in the
\* primary or the backup.
WholeDocumentRemains ==
  committed # None => Holds("primary") # None \/ Holds("backup") # None

\* Saves of the two stores that do not overlap lose nothing of each other: the
\* file then holds both stores' sections as they are in memory.
SeparateSavesMerge ==
  mishaps = {} /\ committed # None /\ (\A s \in Sections : Idle(s)) => Holds("primary") = mem

\* A document that was saved survives failed saves and the end of the process,
\* and saves that do not overlap keep each other's section.
DocumentSurvives == TypeOK /\ CommittedSurvives /\ SeparateSavesMerge

\* Unless saves overlapped, a primary that had reached the disk is what the next
\* start loads, even after a power loss; and whatever happened, a primary that
\* was lost is replaced by a backup that was not (load, recover_from_corruption).
SurvivingFileIsLoaded ==
  [][~up /\ up' /\ dir["primary"] # None =>
       /\ dir["primary"] \in synced /\ "overlap" \notin mishaps => mem' = committed
       /\ Holds("primary") = None /\ Holds("backup") # None
            => mem' = Holds("backup") /\ Holds("primary")' = mem']_vars

\* The claim of atomic_json.rs:3-5 ("so a torn write never wipes data"): a
\* restart loads the document that was saved last.
RestartLoadsCommitted ==
  [][~up /\ up' /\ committed # None => mem' = committed]_vars

\* The claim of projects/store.rs:177 ("merging with latest on-disk state to
\* avoid stomping settings"): with no save under way the file holds both
\* stores' sections.
DiskMatchesMemory ==
  committed # None /\ (\A s \in Sections : Idle(s)) => Holds("primary") = mem
=============================================================================
