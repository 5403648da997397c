---------------------------- MODULE ImageDownload ----------------------------
(***************************************************************************)
(* The download of the VM's base image (src/src/tauri/src/vm/              *)
(* image_downloader.rs): a compressed file is streamed and resumed, its    *)
(* hash is compared with the manifest's, it is unpacked, the image's hash  *)
(* is compared, the image is renamed into place and a stamp is written.    *)
(* The command may be cancelled at any of these steps, and the launcher    *)
(* may die.  A cancelled task leaves behind what it runs on a blocking     *)
(* thread: the unpacking, a rename or a write of the stamp.                *)
(*                                                                         *)
(* A compressed file is a sequence of chunks <<version, index>>.  An image *)
(* file is what was written to its inode: the versions whose bytes it has  *)
(* and whether the whole of one was written.                               *)
(***************************************************************************)
EXTENDS Naturals, Sequences, FiniteSets

CONSTANTS Versions,  \* bound: the versions published, 1..Versions
          Chunks,    \* bound: chunks of a compressed image
          Mishaps,   \* what may go wrong, see MishapNames
          MaxMishaps,\* bound: mishaps in one behaviour
          Spelling   \* of the manifest's fields, as it is published

\* net: a request fails, or its answer breaks off.  whole: the server ignores
\* the Range header.  cancel, crash.  late: an unpacking that a cancelled task
\* left is still at work when the download of the next version begins.
MishapNames == {"net", "whole", "cancel", "crash", "late"}

ASSUME ImageAssumption ==
  /\ Versions \in Nat /\ Chunks \in Nat \ {0} /\ MaxMishaps \in Nat
  /\ Mishaps \subseteq MishapNames /\ Spelling \in {"camelCase", "snake_case"}

Inodes == 1..3
Gone == 0

VARIABLES manifest,  \* the version the manifest names, 0 before the first
          zst,       \* .alpine-base.partial.zst, empty where there is none
          partial,   \* inode of .alpine-base.partial.img
          target,    \* inode of the base image
          data,      \* what the inodes hold
          stamp,     \* image-version.json, 0 for none or unreadable
          task,      \* the task of VmImageDownloader::handle
          orphan,    \* what a cancelled task left on a blocking thread
          clone,     \* the image a VM booted from
          mishaps    \* ghost: how many mishaps, and whether one was late

vars == <<manifest, zst, partial, target, data, stamp, task, orphan, clone, mishaps>>

Blank == [by |-> {}, full |-> FALSE]
NoTask == [pc |-> "idle", v |-> 0, next |-> 0, ino |-> Gone, cut |-> FALSE]
Whole(content, v) == content = [by |-> {v}, full |-> TRUE]

Init ==
  /\ manifest = 0 /\ zst = <<>> /\ partial = Gone /\ target = Gone
  /\ data = [i \in Inodes |-> Blank]
  /\ stamp = 0 /\ task = NoTask /\ orphan = NoTask /\ clone = Blank
  /\ mishaps = [count |-> 0, late |-> FALSE]

Fine == UNCHANGED mishaps
Mishap(kind) ==
  /\ kind \in Mishaps /\ mishaps.count < MaxMishaps
  /\ mishaps' = [count |-> mishaps.count + 1, late |-> mishaps.late \/ kind = "late"]

At(label) == task.pc = label
Go(label) == task' = [task EXCEPT !.pc = label]
Fail == task' = NoTask

-----------------------------------------------------------------------------
(* Publication, and what the launcher asks of the manifest *)

Publish ==
  /\ manifest < Versions /\ manifest' = manifest + 1
  /\ UNCHANGED <<zst, partial, target, data, stamp, task, orphan, clone, mishaps>>

\* The fields of Manifest are read under the names they have in the code.
Readable == manifest # 0 /\ Spelling = "snake_case"

\* status: whether a download is needed; one that cannot read the manifest
\* does not ask for one.
Needed ==
  Readable /\ (stamp # manifest \/ target = Gone)

-----------------------------------------------------------------------------
(* The task *)

\* download: not while the task of an earlier one runs.  A rename and a write
\* of the stamp are over before the user asks again.
Download ==
  /\ At("idle") /\ Needed /\ orphan.pc \in {"idle", "write"}
  /\ task' = [NoTask EXCEPT !.pc = "manifest"]
  /\ UNCHANGED <<manifest, zst, partial, target, data, stamp, orphan, clone, mishaps>>

FetchManifest ==
  /\ At("manifest")
  /\ \/ /\ Readable /\ task' = [task EXCEPT !.pc = "request", !.v = manifest]
        /\ IF orphan.pc = "write" /\ orphan.v # manifest THEN Mishap("late") ELSE Fine
     \/ ~Readable /\ Fail /\ Fine
     \/ Fail /\ Mishap("net")
  /\ UNCHANGED <<manifest, zst, partial, target, data, stamp, orphan, clone>>

\* Mutant: a partial file that is long enough is kept.
RequestOnly ==
  /\ At("request")
  /\ task' = [task EXCEPT !.pc = "stream", !.next = Len(zst) + 1]
  /\ UNCHANGED <<manifest, zst, partial, target, data, stamp, orphan, clone, mishaps>>

\* A partial file is resumed by its length alone, whichever version it is of;
\* one that is long enough is removed.
Request ==
  LET existing == Len(zst)
  IN /\ At("request")
     /\ zst' = IF existing >= Chunks THEN <<>> ELSE zst
     /\ \/ /\ task' = [task EXCEPT !.pc = "stream",
                                   !.next = IF existing < Chunks THEN existing + 1 ELSE 1]
           /\ Fine
        \/ /\ existing \in 1..(Chunks - 1) /\ Mishap("whole")
           /\ task' = [task EXCEPT !.pc = "stream", !.next = 1]
        \/ Fail /\ Mishap("net")
     /\ UNCHANGED <<manifest, partial, target, data, stamp, orphan, clone>>

\* Chunks are appended as they come.
StreamChunk ==
  /\ At("stream") /\ task.next <= Chunks
  /\ \/ /\ zst' = Append(zst, <<task.v, task.next>>)
        /\ task' = [task EXCEPT !.next = @ + 1] /\ Fine
     \/ UNCHANGED zst /\ Fail /\ Mishap("net")
  /\ UNCHANGED <<manifest, partial, target, data, stamp, orphan, clone>>

VerifyCompressed ==
  /\ At("stream") /\ task.next > Chunks
  /\ IF zst = [i \in 1..Chunks |-> <<task.v, i>>] THEN Go("unpack") ELSE Fail
  /\ UNCHANGED <<manifest, zst, partial, target, data, stamp, orphan, clone, mishaps>>

\* Mutant: the image is unpacked in place.
UnpackInPlace ==
  /\ At("unpack")
  /\ \E i \in IF target = Gone THEN {CHOOSE j \in Inodes : j # orphan.ino} ELSE {target} :
       /\ target' = i /\ partial' = Gone
       /\ data' = [data EXCEPT ![i] = Blank]
       /\ task' = [task EXCEPT !.pc = "write", !.ino = i]
  /\ UNCHANGED <<manifest, zst, stamp, orphan, clone, mishaps>>

\* File::create makes the partial image or truncates it, under the hands of
\* an unpacking that a cancelled task left.
BeginUnpack ==
  /\ At("unpack")
  /\ \E i \in IF partial = Gone THEN {CHOOSE j \in Inodes : j \notin {target, orphan.ino}}
              ELSE {partial} :
       /\ partial' = i
       /\ data' = [data EXCEPT ![i] = Blank]
       /\ task' = [task EXCEPT !.pc = "write", !.ino = i]
       /\ orphan' = IF orphan.ino = i THEN [orphan EXCEPT !.cut = TRUE] ELSE orphan
  /\ UNCHANGED <<manifest, zst, target, stamp, clone, mishaps>>

\* All the writer's bytes are in the file, but for those a truncation took.
Written(content, writer) ==
  LET by == content.by \cup {writer.v}
  IN [by |-> by, full |-> by = {writer.v} /\ (content.full \/ ~writer.cut)]

EndUnpack ==
  /\ At("write")
  /\ data' = [data EXCEPT ![task.ino] = Written(@, task)]
  /\ Go("verify")
  /\ UNCHANGED <<manifest, zst, partial, target, stamp, orphan, clone, mishaps>>

VerifyImage ==
  /\ At("verify")
  /\ IF partial # Gone /\ Whole(data[partial], task.v) THEN Go("rename") ELSE Fail
  /\ UNCHANGED <<manifest, zst, partial, target, data, stamp, orphan, clone, mishaps>>

\* finalize: the rename, then the removal of the compressed file.
Rename ==
  /\ At("rename")
  /\ IF partial = Gone THEN Fail /\ UNCHANGED <<partial, target>>
     ELSE Go("remove") /\ target' = partial /\ partial' = Gone
  /\ UNCHANGED <<manifest, zst, data, stamp, orphan, clone, mishaps>>

RemoveCompressed ==
  /\ At("remove")
  /\ zst' = <<>> /\ Go("stamp")
  /\ UNCHANGED <<manifest, partial, target, data, stamp, orphan, clone, mishaps>>

\* Mutant: the stamp names what the manifest names by now.
StampPublished ==
  /\ At("stamp")
  /\ stamp' = manifest /\ Fail
  /\ UNCHANGED <<manifest, zst, partial, target, data, orphan, clone, mishaps>>

WriteStamp ==
  /\ At("stamp")
  /\ stamp' = task.v /\ Fail
  /\ UNCHANGED <<manifest, zst, partial, target, data, orphan, clone, mishaps>>

-----------------------------------------------------------------------------
(* Cancel, and the end of the launcher *)

\* The task is aborted where it awaits.  What it has on a blocking thread is
\* not: an unpacking always, a rename or a write of the stamp if it has begun.
Cancel ==
  /\ ~At("idle") /\ orphan.pc = "idle" /\ Mishap("cancel")
  /\ Fail
  /\ \/ task.pc \in {"write", "rename", "stamp"} /\ orphan' = task
     \/ task.pc # "write" /\ UNCHANGED orphan
  /\ UNCHANGED <<manifest, zst, partial, target, data, stamp, clone>>

OrphanEnds ==
  /\ orphan.pc # "idle" /\ orphan' = NoTask
  /\ CASE orphan.pc = "write" ->
            /\ data' = [data EXCEPT ![orphan.ino] = Written(@, orphan)]
            /\ UNCHANGED <<partial, target, stamp>>
       [] orphan.pc = "rename" ->
            /\ IF partial = Gone THEN UNCHANGED <<partial, target>>
               ELSE target' = partial /\ partial' = Gone
            /\ UNCHANGED <<data, stamp>>
       [] orphan.pc = "stamp" ->
            /\ stamp' = orphan.v /\ UNCHANGED <<data, partial, target>>
  /\ UNCHANGED <<manifest, zst, task, clone, mishaps>>

\* A stamp that is being written may be left empty, which reads as none.
Crash ==
  /\ Mishap("crash") /\ (task.pc # "idle" \/ orphan.pc # "idle")
  /\ task' = NoTask /\ orphan' = NoTask
  /\ \/ UNCHANGED stamp
     \/ "stamp" \in {task.pc, orphan.pc} /\ stamp' = 0
  /\ UNCHANGED <<manifest, zst, partial, target, data, clone>>

\* VmLifecycle::start_inner: each boot begins with a new clone of the image.
CloneImage ==
  /\ target # Gone
  /\ clone' = data[target]
  /\ UNCHANGED <<manifest, zst, partial, target, data, stamp, task, orphan, mishaps>>

Step ==
  \/ FetchManifest \/ Request \/ StreamChunk \/ VerifyCompressed \/ BeginUnpack
  \/ EndUnpack \/ VerifyImage \/ Rename \/ RemoveCompressed \/ WriteStamp

Next ==
  \/ Publish \/ Download \/ Step \/ Cancel \/ OrphanEnds \/ Crash \/ CloneImage

Spec == Init /\ [][Next]_vars

\* A task runs on, a blocking thread ends its work, and a user whose image is
\* not the published one asks for it again.
FairSpec == Spec /\ WF_vars(Download) /\ WF_vars(Step) /\ WF_vars(OrphanEnds)

-----------------------------------------------------------------------------
(* Properties *)

TypeOK ==
  /\ manifest \in 0..Versions /\ stamp \in 0..Versions
  /\ partial \in Inodes \cup {Gone} /\ target \in Inodes \cup {Gone}
  /\ partial # Gone => partial # target
  /\ \A i \in Inodes : data[i] \in [by : SUBSET (1..Versions), full : BOOLEAN]
  /\ Len(zst) \in 0..(2 * Chunks - 1)

\* A stamp is never ahead of its image: the image in place is that version or
\* a later one, and whole.  The unpacking of a cancelled download of an
\* earlier version may break this.
StampIsCovered ==
  (stamp # 0 /\ ~mishaps.late) =>
    target # Gone /\ \E v \in stamp..Versions : Whole(data[target], v)

\* A VM boots from a whole image, even while a later one is downloaded.
CloneIsWhole ==
  (clone # Blank /\ ~mishaps.late) => \E v \in 1..Versions : Whole(clone, v)

\* No image is used or vouched for that is not whole.
ImageIsWhole == TypeOK /\ StampIsCovered /\ CloneIsWhole

\* The published version is installed in the end and for good, by a user who
\* goes on asking for it, whatever earlier attempts have left on the disk.
ImageArrives ==
  \A v \in 1..Versions :
    (<>[](manifest = v) /\ []~mishaps.late) => <>[](stamp = v /\ target # Gone /\ Whole(data[target], v))

\* Seen from its users the image is one cell that changes at once.
InstalledVersion ==
  IF target = Gone THEN 0
  ELSE IF \E v \in 1..Versions : Whole(data[target], v)
       THEN CHOOSE v \in 1..Versions : Whole(data[target], v)
       ELSE Versions + 1
Cell == INSTANCE ImageCell WITH image <- InstalledVersion, overlap <- mishaps.late
ReplacedAtOnce == Cell!Spec
=============================================================================
