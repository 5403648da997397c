--------------------------- MODULE ServicesProofs ---------------------------
(***************************************************************************)
(* Of the services: the image of the virtual machine, the launch gate and  *)
(* a connection forwarded to an environment.                               *)
(*                                                                         *)
(* No image is used or vouched for that is not whole, and to its users the *)
(* image is one cell, for any number of versions and chunks and however    *)
(* downloads are cut off.  The invariant says which version each of the    *)
(* image, the stamp, the task and what a cancelled task left is of, and    *)
(* that the two writers of a file are of one version, until a download     *)
(* begins with an unpacking of an earlier version still at work.           *)
(*                                                                         *)
(* What the gate shows is backed by what is there: the mutex of init_wsl   *)
(* is held by whoever imports, and the handle outlives the page.           *)
(*                                                                         *)
(* What the two ends of a connection see is a stream each way.  A channel  *)
(* holds, in order, the bytes that come after the ones beyond it, as long  *)
(* as the way from it on is open; a channel is shut, on a connection that  *)
(* was not cut, only behind everything its end has sent.                   *)
(***************************************************************************)
EXTENDS ServicesMC, TLAPS

Contents == [by : SUBSET (1..Versions), full : BOOLEAN]
TaskSteps == {"idle", "manifest", "request", "stream", "unpack", "write", "verify", "rename",
              "remove", "stamp"}
Fetched == TaskSteps \ {"idle", "manifest"}

Tasks == [pc : TaskSteps, v : 0..Versions, next : 0..(Chunks + 1), ino : Inodes \cup {Gone},
          cut : BOOLEAN]
Counts == [count : Nat, late : BOOLEAN]

Typed ==
  /\ task \in Tasks /\ orphan \in Tasks /\ mishaps \in Counts
  /\ data \in [Inodes -> Contents] /\ clone \in Contents
  /\ zst \in Seq((1..Versions) \X (1..Chunks))

\* A task, and what a cancelled one left.
TasksTyped ==
  /\ Typed /\ ~task.cut /\ orphan.pc \in {"idle", "write", "rename", "stamp"}
  /\ task.pc \in Fetched => task.v \in 1..manifest
  /\ orphan.pc # "idle" => orphan.v \in 1..manifest
  /\ task.pc = "write" => task.ino \in Inodes /\ task.ino = partial
  /\ orphan.pc = "write" => orphan.ino \in Inodes
  /\ orphan.pc \in {"rename", "stamp"} => task.pc = "idle"
  /\ task.pc = "stream" => task.next >= 1 /\ Len(zst) <= Chunks + task.next - 2

\* What is installed is whole and of a version between the stamp and the task.
ImageInPlace ==
  target # Gone =>
    \E v \in 1..manifest :
      /\ Whole(data[target], v) /\ stamp <= v
      /\ task.pc \in Fetched => v <= task.v
      /\ orphan.pc = "rename" => v <= orphan.v
      /\ orphan.pc = "write" /\ orphan.ino = target => v = orphan.v

\* What a step that is to come relies on.
StepsReady ==
  /\ stamp # 0 => target # Gone
  /\ task.pc \in Fetched /\ orphan.pc = "write" => orphan.v = task.v
  /\ task.pc = "rename" => partial # Gone /\ Whole(data[partial], task.v)
  /\ task.pc \in {"remove", "stamp"} => target # Gone /\ Whole(data[target], task.v)
  /\ orphan.pc = "rename" => partial # Gone /\ Whole(data[partial], orphan.v)
  /\ orphan.pc = "stamp" => target # Gone /\ Whole(data[target], orphan.v)

ImageInv ==
  /\ TypeOK /\ TasksTyped
  /\ ~mishaps.late => ImageInPlace /\ StepsReady /\ CloneIsWhole

\* Of the launch gate: who is in init_wsl has its mutex, and the page that is
\* ready on Windows has been answered by a call of init_wsl.
CallStates == [at : {"none", "wait", "import", "podman"}, page : BOOLEAN]

CallsTyped ==
  /\ init \in [Gate!Calls -> CallStates]
  /\ starter = "page" => os = "macos"
  /\ run = "image" => os = "linux"
  /\ status = "needs-wsl-enable" => os = "windows"

WslMutex == \A i \in Gate!Calls : init[i].at \in {"import", "podman"} => lock = i

ReadyHasHandle ==
  /\ handle => distro \/ "removed" \in launchMishaps
  /\ os = "windows" /\ phase = "ready" => handle

GateInv ==
  Gate!TypeOK /\ CallsTyped /\ WslMutex /\ Gate!ImportedOnce /\ ReadyHasHandle /\ Gate!LoadingIsBusy

-----------------------------------------------------------------------------
LEMMA OneVersion ==
  ASSUME NEW content, NEW v, NEW w, Whole(content, v), Whole(content, w)
  PROVE  v = w
  BY DEF Whole

LEMMA BlankIsContent == Blank \in Contents
  BY DEF Blank, Contents

\* What a writer of the same version adds to a whole image is nothing.
LEMMA WholeStays ==
  ASSUME NEW content \in Contents, NEW writer, NEW v \in 1..Versions,
         writer.v = v, writer.cut \in BOOLEAN,
         Whole(content, v)
  PROVE  Whole(Written(content, writer), v)
  BY DEF Whole, Written

LEMMA WrittenIsContent ==
  ASSUME NEW content \in Contents, NEW writer, writer.v \in 1..Versions, writer.cut \in BOOLEAN
  PROVE  Written(content, writer) \in Contents
  BY DEF Written, Contents

LEMMA InitImageInv == Init => ImageInv
<1>1. Init => Typed
  BY ImageAssumption, BlankIsContent DEF Init, Typed, Tasks, Counts, NoTask, TaskSteps, Inodes, Gone
<1>2. Init => TypeOK
  BY ImageAssumption, BlankIsContent DEF Init, TypeOK, Contents, Inodes, Gone
<1>3. QED
  BY <1>1, <1>2, ImageAssumption
  DEF Init, ImageInv, TasksTyped, ImageInPlace, StepsReady, CloneIsWhole, NoTask, TaskSteps, Fetched

LEMMA NoTaskIsTask ==
  NoTask \in Tasks /\ ~NoTask.cut /\ NoTask.pc = "idle" /\ NoTask.pc \notin Fetched
  BY ImageAssumption DEF NoTask, Tasks, TaskSteps, Fetched, Gone

\* The type of the rest follows where the files and the chunks keep theirs.
LEMMA TypeStays ==
  ASSUME ImageInv, UNCHANGED <<manifest, partial, target, data, stamp>>,
         Len(zst') \in 0..(2 * Chunks - 1)
  PROVE  TypeOK'
  BY DEF ImageInv, TypeOK

\* Whatever goes wrong but an unpacking that is late only counts.
LEMMA MishapCounts ==
  ASSUME ImageInv, NEW what, what # "late", Fine \/ Mishap(what)
  PROVE  mishaps' \in Counts /\ mishaps'.late = mishaps.late
  BY DEF Mishap, Fine, ImageInv, TasksTyped, Typed, Counts

LEMMA LateCounts ==
  ASSUME ImageInv, NEW what, Mishap(what)
  PROVE  mishaps' \in Counts /\ (mishaps.late => mishaps'.late)
  BY DEF Mishap, ImageInv, TasksTyped, Typed, Counts

\* A step of the task that moves no file.
LEMMA TaskMoves ==
  ASSUME ImageInv, UNCHANGED <<manifest, partial, target, data, stamp, orphan, clone>>,
         task' \in Tasks, ~task'.cut, mishaps' \in Counts, mishaps'.late = mishaps.late,
         zst' \in Seq((1..Versions) \X (1..Chunks)), Len(zst') \in 0..(2 * Chunks - 1),
         task'.pc \notin {"write", "rename", "remove", "stamp"},
         task'.pc \in Fetched => task.pc \in Fetched /\ task'.v = task.v,
         task'.pc # "idle" => orphan.pc \notin {"rename", "stamp"},
         task'.pc = "stream" => task'.next >= 1 /\ Len(zst') <= Chunks + task'.next - 2
  PROVE  ImageInv'
<1>1. TypeOK'
  BY TypeStays
<1>2. TasksTyped'
  BY DEF ImageInv, TasksTyped, Typed
<1>3. ~mishaps'.late => ImageInPlace' /\ StepsReady' /\ CloneIsWhole'
  BY DEF ImageInv, ImageInPlace, StepsReady, CloneIsWhole
<1>4. QED
  BY <1>1, <1>2, <1>3 DEF ImageInv

LEMMA LengthOfChunks == ImageInv => Len(zst) \in 0..(2 * Chunks - 1) /\ Len(zst) \in Nat
  BY ImageAssumption DEF ImageInv, TypeOK

LEMMA PublishStep ==
  ASSUME ImageInv, Publish
  PROVE  ImageInv'
<1>1. manifest < Versions /\ manifest' = manifest + 1
      /\ UNCHANGED <<zst, partial, target, data, stamp, task, orphan, clone, mishaps>>
  BY DEF Publish
<1>2. TypeOK' /\ TasksTyped'
  BY <1>1, ImageAssumption DEF ImageInv, TypeOK, TasksTyped, Typed
<1>3. ~mishaps'.late => ImageInPlace' /\ StepsReady' /\ CloneIsWhole'
  BY <1>1, ImageAssumption DEF ImageInv, TypeOK, ImageInPlace, StepsReady, CloneIsWhole
<1>4. QED
  BY <1>2, <1>3 DEF ImageInv

LEMMA DownloadStep ==
  ASSUME ImageInv, Download
  PROVE  ImageInv'
<1>1. /\ task.pc = "idle" /\ orphan.pc \in {"idle", "write"}
      /\ task' = [NoTask EXCEPT !.pc = "manifest"]
      /\ UNCHANGED <<manifest, zst, partial, target, data, stamp, orphan, clone, mishaps>>
  BY DEF Download, At
<1>2. task' \in Tasks /\ ~task'.cut /\ task'.pc = "manifest" /\ task'.pc \notin Fetched
  BY <1>1, NoTaskIsTask DEF Tasks, TaskSteps, Fetched
<1>3. mishaps' \in Counts /\ zst' \in Seq((1..Versions) \X (1..Chunks))
  BY <1>1 DEF ImageInv, TasksTyped, Typed
<1>4. QED
  BY <1>1, <1>2, <1>3, TaskMoves, LengthOfChunks

\* A task that fails leaves what is on the disk.
LEMMA FailStep ==
  ASSUME ImageInv, Fail, UNCHANGED <<manifest, partial, target, data, stamp, orphan, clone>>,
         NEW what, what # "late", Fine \/ Mishap(what),
         zst' \in Seq((1..Versions) \X (1..Chunks)), Len(zst') \in 0..(2 * Chunks - 1)
  PROVE  ImageInv'
<1>1. task' = NoTask
  BY DEF Fail
<1>2. task' \in Tasks /\ ~task'.cut /\ task'.pc = "idle" /\ task'.pc \notin Fetched
  BY <1>1, NoTaskIsTask
<1>3. mishaps' \in Counts /\ mishaps'.late = mishaps.late
  BY MishapCounts
<1>4. QED
  BY <1>2, <1>3, TaskMoves

\* The version is fetched: no later one is installed, and an unpacking that is
\* still at work is of the same or makes the download late.
LEMMA FetchManifestStep ==
  ASSUME ImageInv, FetchManifest
  PROVE  ImageInv'
<1>1. /\ task.pc = "manifest"
      /\ UNCHANGED <<manifest, zst, partial, target, data, stamp, orphan, clone>>
  BY DEF FetchManifest, At
<1>0. zst' \in Seq((1..Versions) \X (1..Chunks)) /\ Len(zst') \in 0..(2 * Chunks - 1)
  BY <1>1, LengthOfChunks DEF ImageInv, TasksTyped, Typed
<1>2. CASE Fail /\ (Fine \/ Mishap("net"))
  BY <1>1, <1>2, <1>0, FailStep
<1>3. CASE /\ Readable /\ task' = [task EXCEPT !.pc = "request", !.v = manifest]
           /\ IF orphan.pc = "write" /\ orphan.v # manifest THEN Mishap("late") ELSE Fine
  <2>1. manifest \in 1..manifest /\ manifest \in 0..Versions /\ task \in Tasks /\ ~task.cut
    BY <1>1, <1>3, ImageAssumption DEF ImageInv, TypeOK, TasksTyped, Typed, Readable
  <2>2. task' \in Tasks /\ ~task'.cut /\ task'.pc = "request" /\ task'.v = manifest
    BY <1>3, <2>1 DEF Tasks, TaskSteps
  <2>3. mishaps' \in Counts
    BY <1>3, LateCounts DEF ImageInv, TasksTyped, Typed, Fine
  <2>4. ~mishaps'.late => ~mishaps.late /\ (orphan.pc = "write" => orphan.v = manifest)
    <3>1. CASE orphan.pc = "write" /\ orphan.v # manifest
      <4>1. mishaps' = [count |-> mishaps.count + 1, late |-> mishaps.late \/ "late" = "late"]
        BY <1>3, <3>1 DEF Mishap
      <4>2. mishaps'.late = (mishaps.late \/ "late" = "late")
        BY <4>1
      <4>3. QED
        BY <4>2
    <3>2. CASE ~(orphan.pc = "write" /\ orphan.v # manifest)
      BY <1>3, <3>2 DEF Fine
    <3>3. QED
      BY <3>1, <3>2
  <2>5. TypeOK'
    BY <1>1, <1>0, TypeStays
  <2>6. TasksTyped'
    BY <1>1, <1>0, <2>1, <2>2, <2>3 DEF ImageInv, TasksTyped, Typed
  <2>7. orphan.pc \notin {"rename", "stamp"}
    BY <1>1 DEF ImageInv, TasksTyped
  <2>8. ~mishaps'.late => ImageInPlace' /\ StepsReady' /\ CloneIsWhole'
    <3>1. SUFFICES ASSUME ~mishaps'.late
                   PROVE  ImageInPlace' /\ StepsReady' /\ CloneIsWhole'
      OBVIOUS
    <3>2. ImageInPlace /\ StepsReady /\ CloneIsWhole
      BY <2>4, <3>1 DEF ImageInv
    <3>3. ImageInPlace'
      BY <1>1, <2>2, <2>7, <3>2, ImageAssumption DEF ImageInPlace, ImageInv, TypeOK
    <3>4. StepsReady' /\ CloneIsWhole'
      BY <1>1, <2>2, <2>4, <2>7, <3>1, <3>2 DEF StepsReady, CloneIsWhole
    <3>5. QED
      BY <3>3, <3>4
  <2>9. QED
    BY <2>5, <2>6, <2>8 DEF ImageInv
<1>4. QED
  BY <1>2, <1>3 DEF FetchManifest

LEMMA RequestStep ==
  ASSUME ImageInv, Request
  PROVE  ImageInv'
<1>1. /\ task.pc = "request" /\ UNCHANGED <<manifest, partial, target, data, stamp, orphan, clone>>
      /\ zst' = IF Len(zst) >= Chunks THEN <<>> ELSE zst
  BY DEF Request, At
<1>2. /\ zst' \in Seq((1..Versions) \X (1..Chunks)) /\ Len(zst') <= Chunks - 1
      /\ Len(zst') = IF Len(zst) >= Chunks THEN 0 ELSE Len(zst)
      /\ Len(zst') \in 0..(2 * Chunks - 1) /\ Len(zst) \in Nat
  BY <1>1, ImageAssumption, LengthOfChunks DEF ImageInv, TasksTyped, Typed
<1>3. CASE Fail /\ Mishap("net")
  BY <1>1, <1>2, <1>3, FailStep
<1>4. ASSUME NEW next \in 1..Chunks, task' = [task EXCEPT !.pc = "stream", !.next = next],
             Fine \/ Mishap("whole")
      PROVE  ImageInv'
  <2>1. task \in Tasks /\ ~task.cut /\ task.pc \in Fetched /\ orphan.pc \notin {"rename", "stamp"}
    BY <1>1 DEF ImageInv, TasksTyped, Typed, Fetched, TaskSteps
  <2>0. next \in 0..(Chunks + 1)
    BY ImageAssumption
  <2>2. /\ task' \in Tasks /\ ~task'.cut /\ task'.pc = "stream"
        /\ task'.v = task.v /\ task'.next = next
    BY <1>4, <2>1, <2>0 DEF Tasks, TaskSteps
  <2>3. mishaps' \in Counts /\ mishaps'.late = mishaps.late
    BY <1>4, MishapCounts
  <2>4. task'.next >= 1 /\ Len(zst') <= Chunks + task'.next - 2
    BY <1>2, <1>4, <2>2, ImageAssumption
  <2>5. QED
    BY <1>1, <1>2, <2>1, <2>2, <2>3, <2>4, TaskMoves
<1>5. CASE /\ task' = [task EXCEPT !.pc = "stream",
                                   !.next = IF Len(zst) < Chunks THEN Len(zst) + 1 ELSE 1]
           /\ Fine
  <2>1. (IF Len(zst) < Chunks THEN Len(zst) + 1 ELSE 1) \in 1..Chunks
    BY <1>2, ImageAssumption
  <2>2. QED
    BY <1>4, <1>5, <2>1
<1>6. CASE Mishap("whole") /\ task' = [task EXCEPT !.pc = "stream", !.next = 1]
  <2>1. 1 \in 1..Chunks
    BY ImageAssumption
  <2>2. QED
    BY <1>4, <1>6, <2>1
<1>7. QED
  BY <1>3, <1>5, <1>6 DEF Request

LEMMA StreamChunkStep ==
  ASSUME ImageInv, StreamChunk
  PROVE  ImageInv'
<1>1. /\ task.pc = "stream" /\ task.next <= Chunks
      /\ UNCHANGED <<manifest, partial, target, data, stamp, orphan, clone>>
  BY DEF StreamChunk, At
<1>2. /\ task \in Tasks /\ ~task.cut /\ task.pc \in Fetched /\ orphan.pc \notin {"rename", "stamp"}
      /\ zst \in Seq((1..Versions) \X (1..Chunks)) /\ task.v \in 1..manifest
      /\ task.next >= 1 /\ Len(zst) <= Chunks + task.next - 2
  BY <1>1 DEF ImageInv, TasksTyped, Typed, Fetched, TaskSteps
<1>3. CASE UNCHANGED zst /\ Fail /\ Mishap("net")
  BY <1>1, <1>2, <1>3, LengthOfChunks, FailStep
<1>4. CASE /\ zst' = Append(zst, <<task.v, task.next>>)
           /\ task' = [task EXCEPT !.next = @ + 1] /\ Fine
  <2>1. task.v \in 1..Versions /\ task.next \in 1..Chunks /\ task.next \in Nat
    BY <1>1, <1>2, ImageAssumption DEF ImageInv, TypeOK, Tasks
  <2>2. zst' \in Seq((1..Versions) \X (1..Chunks)) /\ Len(zst') = Len(zst) + 1
    BY <1>2, <1>4, <2>1
  <2>3. Len(zst') \in 0..(2 * Chunks - 1)
    <3>1. Len(zst) \in Nat /\ Chunks \in Nat /\ task.next \in Nat
          /\ Len(zst) <= Chunks + task.next - 2 /\ task.next <= Chunks
      BY <1>1, <1>2, <2>1, LengthOfChunks, ImageAssumption
    <3>2. Len(zst) + 1 \in 0..(2 * Chunks - 1)
      BY <3>1
    <3>3. QED
      BY <2>2, <3>2
  <2>0. task.next + 1 \in 0..(Chunks + 1)
    BY <2>1, ImageAssumption
  <2>4. /\ task' \in Tasks /\ ~task'.cut /\ task'.pc = "stream"
        /\ task'.v = task.v /\ task'.next = task.next + 1
    BY <1>1, <1>2, <1>4, <2>0 DEF Tasks
  <2>5. mishaps' \in Counts /\ mishaps'.late = mishaps.late
    BY <1>4 DEF Fine, ImageInv, TasksTyped, Typed
  <2>6. task'.next >= 1 /\ Len(zst') <= Chunks + task'.next - 2
    <3>1. Len(zst) \in Nat /\ Chunks \in Nat /\ task.next \in Nat
          /\ Len(zst) <= Chunks + task.next - 2 /\ task.next >= 1
      BY <1>2, <2>1, LengthOfChunks, ImageAssumption
    <3>2. Len(zst) + 1 <= Chunks + (task.next + 1) - 2 /\ task.next + 1 >= 1
      BY <3>1
    <3>3. QED
      BY <2>2, <2>4, <3>2
  <2>7. QED
    BY <1>1, <1>2, <2>2, <2>3, <2>4, <2>5, <2>6, TaskMoves
<1>5. QED
  BY <1>3, <1>4 DEF StreamChunk

LEMMA VerifyCompressedStep ==
  ASSUME ImageInv, VerifyCompressed
  PROVE  ImageInv'
<1>1. /\ task.pc = "stream" /\ (Go("unpack") \/ Fail)
      /\ UNCHANGED <<manifest, zst, partial, target, data, stamp, orphan, clone, mishaps>>
  BY DEF VerifyCompressed, At
<1>2. /\ task \in Tasks /\ ~task.cut /\ task.pc \in Fetched /\ orphan.pc \notin {"rename", "stamp"}
      /\ zst \in Seq((1..Versions) \X (1..Chunks)) /\ mishaps \in Counts
  BY <1>1 DEF ImageInv, TasksTyped, Typed, Fetched, TaskSteps
<1>3. CASE Fail
  <2>1. Fine \/ Mishap("net")
    BY <1>1 DEF Fine
  <2>2. QED
    BY <1>1, <1>2, <1>3, <2>1, LengthOfChunks, FailStep
<1>4. CASE Go("unpack")
  <2>1. task' \in Tasks /\ ~task'.cut /\ task'.pc = "unpack" /\ task'.v = task.v
    BY <1>2, <1>4 DEF Go, Tasks, TaskSteps
  <2>2. QED
    BY <1>1, <1>2, <2>1, LengthOfChunks, TaskMoves
<1>5. QED
  BY <1>1, <1>3, <1>4

\* An unpacking begins in a file that is not the image.
LEMMA BeginUnpackStep ==
  ASSUME ImageInv, BeginUnpack
  PROVE  ImageInv'
<1>1. task.pc = "unpack" /\ UNCHANGED <<manifest, zst, target, stamp, clone, mishaps>>
  BY DEF BeginUnpack, At
<1>2. PICK i \in (IF partial = Gone THEN {CHOOSE j \in Inodes : j \notin {target, orphan.ino}}
                  ELSE {partial}) :
        /\ partial' = i
        /\ data' = [data EXCEPT ![i] = Blank]
        /\ task' = [task EXCEPT !.pc = "write", !.ino = i]
        /\ orphan' = IF orphan.ino = i THEN [orphan EXCEPT !.cut = TRUE] ELSE orphan
  BY DEF BeginUnpack
<1>3. i \in Inodes /\ i # target
  <2>1. \E j \in Inodes : j \notin {target, orphan.ino}
    <3>1. 1 \in Inodes /\ 2 \in Inodes /\ 3 \in Inodes
      BY DEF Inodes
    <3>2. 1 # 2 /\ 2 # 3 /\ 1 # 3
      OBVIOUS
    <3>3. QED
      BY <3>1, <3>2
  <2>2. (CHOOSE j \in Inodes : j \notin {target, orphan.ino}) \in Inodes \ {target}
    BY <2>1
  <2>3. CASE partial = Gone
    BY <1>2, <2>2, <2>3
  <2>4. CASE partial # Gone
    BY <1>2, <2>4 DEF ImageInv, TypeOK
  <2>5. QED
    BY <2>3, <2>4
<1>4. /\ task \in Tasks /\ ~task.cut /\ task.pc \in Fetched /\ orphan.pc \in {"idle", "write"}
      /\ orphan \in Tasks /\ mishaps \in Counts /\ data \in [Inodes -> Contents]
      /\ zst \in Seq((1..Versions) \X (1..Chunks)) /\ clone \in Contents /\ task.v \in 1..manifest
  BY <1>1 DEF ImageInv, TasksTyped, Typed, Fetched, TaskSteps
<1>5. task' \in Tasks /\ ~task'.cut /\ task'.pc = "write" /\ task'.v = task.v /\ task'.ino = i
  BY <1>2, <1>3, <1>4 DEF Tasks, TaskSteps
<1>6. /\ orphan' \in Tasks /\ orphan'.pc = orphan.pc
      /\ orphan'.v = orphan.v /\ orphan'.ino = orphan.ino
  BY <1>2, <1>4 DEF Tasks
<1>7. data' \in [Inodes -> Contents] /\ (target # Gone => data'[target] = data[target])
  BY <1>2, <1>3, <1>4, BlankIsContent DEF ImageInv, TypeOK
<1>8. TypeOK'
  BY <1>1, <1>2, <1>3, <1>7 DEF ImageInv, TypeOK, Contents
<1>9. TasksTyped'
  BY <1>1, <1>2, <1>3, <1>4, <1>5, <1>6, <1>7 DEF ImageInv, TasksTyped, Typed
<1>10. ~mishaps'.late => ImageInPlace' /\ StepsReady' /\ CloneIsWhole'
  BY <1>1, <1>4, <1>5, <1>6, <1>7 DEF ImageInv, ImageInPlace, StepsReady, CloneIsWhole
<1>11. QED
  BY <1>8, <1>9, <1>10 DEF ImageInv

\* The bytes go to the partial image, which is not the image.
LEMMA EndUnpackStep ==
  ASSUME ImageInv, EndUnpack
  PROVE  ImageInv'
<1>1. /\ task.pc = "write" /\ Go("verify") /\ data' = [data EXCEPT ![task.ino] = Written(@, task)]
      /\ UNCHANGED <<manifest, zst, partial, target, stamp, orphan, clone, mishaps>>
  BY DEF EndUnpack, At
<1>2. /\ task \in Tasks /\ ~task.cut /\ task.pc \in Fetched /\ orphan.pc \in {"idle", "write"}
      /\ orphan \in Tasks /\ mishaps \in Counts /\ data \in [Inodes -> Contents]
      /\ task.v \in 1..manifest /\ task.ino \in Inodes /\ task.ino = partial
  BY <1>1 DEF ImageInv, TasksTyped, Typed, Fetched, TaskSteps
<1>3. task' \in Tasks /\ ~task'.cut /\ task'.pc = "verify" /\ task'.v = task.v
  BY <1>1, <1>2 DEF Go, Tasks, TaskSteps
<1>4. task.v \in 1..Versions /\ task.cut \in BOOLEAN /\ partial # Gone /\ partial # target
  BY <1>2, ImageAssumption DEF ImageInv, TypeOK, Inodes, Gone, Tasks
<1>5. Written(data[task.ino], task) \in Contents
  BY <1>2, <1>4, WrittenIsContent
<1>6. data' \in [Inodes -> Contents] /\ (target # Gone => data'[target] = data[target])
  BY <1>1, <1>2, <1>4, <1>5 DEF ImageInv, TypeOK
<1>7. TypeOK'
  BY <1>1, <1>6 DEF ImageInv, TypeOK, Contents
<1>8. TasksTyped'
  BY <1>1, <1>2, <1>3, <1>6 DEF ImageInv, TasksTyped, Typed
<1>9. ~mishaps'.late => ImageInPlace' /\ StepsReady' /\ CloneIsWhole'
  BY <1>1, <1>2, <1>3, <1>6 DEF ImageInv, ImageInPlace, StepsReady, CloneIsWhole
<1>10. QED
  BY <1>7, <1>8, <1>9 DEF ImageInv

LEMMA VerifyImageStep ==
  ASSUME ImageInv, VerifyImage
  PROVE  ImageInv'
<1>1. /\ task.pc = "verify"
      /\ UNCHANGED <<manifest, zst, partial, target, data, stamp, orphan, clone, mishaps>>
  BY DEF VerifyImage, At
<1>2. /\ task \in Tasks /\ ~task.cut /\ task.pc \in Fetched /\ orphan.pc \in {"idle", "write"}
      /\ zst \in Seq((1..Versions) \X (1..Chunks)) /\ task.v \in 1..manifest
  BY <1>1 DEF ImageInv, TasksTyped, Typed, Fetched, TaskSteps
<1>3. CASE Fail
  <2>1. Fine \/ Mishap("net")
    BY <1>1 DEF Fine
  <2>2. QED
    BY <1>1, <1>2, <1>3, <2>1, LengthOfChunks, FailStep
<1>4. CASE Go("rename") /\ partial # Gone /\ Whole(data[partial], task.v)
  <2>1. task' \in Tasks /\ ~task'.cut /\ task'.pc = "rename" /\ task'.v = task.v
    BY <1>2, <1>4 DEF Go, Tasks, TaskSteps
  <2>2. TypeOK'
    BY <1>1 DEF ImageInv, TypeOK
  <2>3. TasksTyped'
    BY <1>1, <1>2, <2>1 DEF ImageInv, TasksTyped, Typed
  <2>4. ~mishaps'.late => ImageInPlace' /\ StepsReady' /\ CloneIsWhole'
    BY <1>1, <1>2, <1>4, <2>1 DEF ImageInv, ImageInPlace, StepsReady, CloneIsWhole
  <2>5. QED
    BY <2>2, <2>3, <2>4 DEF ImageInv
<1>5. QED
  BY <1>3, <1>4 DEF VerifyImage

\* A version no earlier than the stamp's takes the place of the image.
LEMMA RenameStep ==
  ASSUME ImageInv, Rename
  PROVE  ImageInv'
<1>1. task.pc = "rename" /\ UNCHANGED <<manifest, zst, data, stamp, orphan, clone, mishaps>>
  BY DEF Rename, At
<1>2. /\ task \in Tasks /\ ~task.cut /\ task.pc \in Fetched /\ orphan.pc \in {"idle", "write"}
      /\ zst \in Seq((1..Versions) \X (1..Chunks)) /\ task.v \in 1..manifest /\ task.v \in Nat
      /\ manifest \in Nat /\ stamp \in Nat
  BY <1>1 DEF ImageInv, TypeOK, TasksTyped, Typed, Fetched, TaskSteps
<1>3. CASE partial = Gone
  <2>1. Fine \/ Mishap("net")
    BY <1>1 DEF Fine
  <2>2. QED
    BY <1>1, <1>2, <1>3, <2>1, LengthOfChunks, FailStep DEF Rename
<1>4. CASE partial # Gone
  <2>1. Go("remove") /\ target' = partial /\ partial' = Gone
    BY <1>4 DEF Rename
  <2>2. task' \in Tasks /\ ~task'.cut /\ task'.pc = "remove" /\ task'.v = task.v
    BY <1>2, <2>1 DEF Go, Tasks, TaskSteps
  <2>3. TypeOK'
    BY <1>1, <2>1 DEF ImageInv, TypeOK
  <2>4. TasksTyped'
    BY <1>1, <1>2, <2>2 DEF ImageInv, TasksTyped, Typed
  <2>5. ~mishaps'.late => ImageInPlace' /\ StepsReady' /\ CloneIsWhole'
    <3>1. SUFFICES ASSUME ~mishaps.late
                   PROVE  ImageInPlace' /\ StepsReady' /\ CloneIsWhole'
      BY <1>1
    <3>2. ImageInPlace /\ StepsReady /\ CloneIsWhole
      BY <3>1 DEF ImageInv
    <3>3. Whole(data[partial], task.v) /\ (orphan.pc = "write" => orphan.v = task.v)
      BY <1>1, <1>2, <3>2 DEF StepsReady
    <3>4. stamp <= task.v
      BY <1>2, <3>2, OneVersion DEF ImageInPlace, StepsReady
    <3>5. ImageInPlace'
      <4>1. Whole(data'[target'], task'.v) /\ task'.v \in 1..manifest'
        BY <1>1, <1>2, <2>1, <2>2, <3>3
      <4>2. stamp' <= task'.v /\ task'.v <= task'.v /\ orphan'.pc # "rename"
        BY <1>1, <1>2, <2>2, <3>4
      <4>3. orphan'.pc = "write" => task'.v = orphan'.v
        BY <1>1, <2>2, <3>3
      <4>4. QED
        BY <4>1, <4>2, <4>3 DEF ImageInPlace
    <3>6. StepsReady' /\ CloneIsWhole'
      BY <1>1, <1>2, <1>4, <2>1, <2>2, <3>1, <3>2, <3>3 DEF StepsReady, CloneIsWhole
    <3>7. QED
      BY <3>5, <3>6
  <2>6. QED
    BY <2>3, <2>4, <2>5 DEF ImageInv
<1>5. QED
  BY <1>3, <1>4

LEMMA RemoveCompressedStep ==
  ASSUME ImageInv, RemoveCompressed
  PROVE  ImageInv'
<1>1. /\ task.pc = "remove" /\ zst' = <<>> /\ Go("stamp")
      /\ UNCHANGED <<manifest, partial, target, data, stamp, orphan, clone, mishaps>>
  BY DEF RemoveCompressed, At
<1>2. /\ task \in Tasks /\ ~task.cut /\ task.pc \in Fetched /\ orphan.pc \in {"idle", "write"}
      /\ task.v \in 1..manifest
  BY <1>1 DEF ImageInv, TasksTyped, Typed, Fetched, TaskSteps
<1>3. task' \in Tasks /\ ~task'.cut /\ task'.pc = "stamp" /\ task'.v = task.v
  BY <1>1, <1>2 DEF Go, Tasks, TaskSteps
<1>4. zst' \in Seq((1..Versions) \X (1..Chunks)) /\ Len(zst') \in 0..(2 * Chunks - 1)
  BY <1>1, ImageAssumption
<1>5. TypeOK'
  BY <1>1, <1>4 DEF ImageInv, TypeOK
<1>6. TasksTyped'
  BY <1>1, <1>2, <1>3, <1>4 DEF ImageInv, TasksTyped, Typed
<1>7. ~mishaps'.late => ImageInPlace' /\ StepsReady' /\ CloneIsWhole'
  BY <1>1, <1>2, <1>3 DEF ImageInv, ImageInPlace, StepsReady, CloneIsWhole
<1>8. QED
  BY <1>5, <1>6, <1>7 DEF ImageInv

\* The stamp that is written is the version of the image.
LEMMA WriteStampStep ==
  ASSUME ImageInv, WriteStamp
  PROVE  ImageInv'
<1>1. /\ task.pc = "stamp" /\ stamp' = task.v /\ task' = NoTask
      /\ UNCHANGED <<manifest, zst, partial, target, data, orphan, clone, mishaps>>
  BY DEF WriteStamp, At, Fail
<1>2. task.v \in 1..manifest /\ task.pc \in Fetched /\ orphan.pc \in {"idle", "write"}
  BY <1>1 DEF ImageInv, TasksTyped, Typed, Fetched, TaskSteps
<1>3. task' \in Tasks /\ ~task'.cut /\ task'.pc = "idle" /\ task'.pc \notin Fetched
  BY <1>1, NoTaskIsTask
<1>4. TypeOK'
  BY <1>1, <1>2, ImageAssumption DEF ImageInv, TypeOK
<1>5. TasksTyped'
  BY <1>1, <1>2, <1>3 DEF ImageInv, TasksTyped, Typed
<1>6. ~mishaps'.late => ImageInPlace' /\ StepsReady' /\ CloneIsWhole'
  <2>1. SUFFICES ASSUME ~mishaps.late
                 PROVE  ImageInPlace' /\ StepsReady' /\ CloneIsWhole'
    BY <1>1
  <2>2. ImageInPlace /\ StepsReady /\ CloneIsWhole
    BY <2>1 DEF ImageInv
  <2>3. target # Gone /\ Whole(data[target], task.v)
    BY <1>1, <2>2 DEF StepsReady
  <2>4. orphan.pc = "write" => orphan.v = task.v
    BY <1>2, <2>2 DEF StepsReady
  <2>5. task.v <= task.v
    BY <1>2
  <2>6. ImageInPlace'
    BY <1>1, <1>2, <1>3, <2>3, <2>4, <2>5 DEF ImageInPlace
  <2>7. StepsReady' /\ CloneIsWhole'
    BY <1>1, <1>2, <1>3, <2>1, <2>2, <2>3 DEF StepsReady, CloneIsWhole
  <2>8. QED
    BY <2>6, <2>7
<1>7. QED
  BY <1>4, <1>5, <1>6 DEF ImageInv

\* What a cancelled task leaves goes on with what the task had.
LEMMA CancelStep ==
  ASSUME ImageInv, Cancel
  PROVE  ImageInv'
<1>1. /\ task.pc # "idle" /\ orphan.pc = "idle" /\ task' = NoTask
      /\ Mishap("cancel") /\ UNCHANGED <<manifest, zst, partial, target, data, stamp, clone>>
  BY DEF Cancel, At, Fail
<1>2. mishaps' \in Counts /\ mishaps'.late = mishaps.late
  BY <1>1, MishapCounts
<1>3. task' \in Tasks /\ ~task'.cut /\ task'.pc = "idle" /\ task'.pc \notin Fetched
  BY <1>1, NoTaskIsTask
<1>4. CASE UNCHANGED orphan
  BY <1>1, <1>4, LengthOfChunks, FailStep DEF Cancel, ImageInv, TasksTyped, Typed
<1>5. CASE task.pc \in {"write", "rename", "stamp"} /\ orphan' = task
  <2>1. task \in Tasks /\ task.pc \in Fetched /\ task.v \in 1..manifest
        /\ (task.pc = "write" => task.ino \in Inodes /\ task.ino = partial)
    BY <1>5 DEF ImageInv, TasksTyped, Typed, Fetched, TaskSteps
  <2>2. TypeOK'
    BY <1>1 DEF ImageInv, TypeOK
  <2>3. TasksTyped'
    BY <1>1, <1>2, <1>3, <1>5, <2>1 DEF ImageInv, TasksTyped, Typed
  <2>4. ~mishaps'.late => ImageInPlace' /\ StepsReady' /\ CloneIsWhole'
    <3>1. SUFFICES ASSUME ~mishaps'.late
                   PROVE  ImageInPlace' /\ StepsReady' /\ CloneIsWhole'
      OBVIOUS
    <3>2. ImageInPlace /\ StepsReady /\ CloneIsWhole
      BY <1>2, <3>1 DEF ImageInv
    <3>3. task.pc = "write" => task.ino # target
      BY <2>1 DEF ImageInv, TypeOK, Inodes, Gone
    <3>4. ImageInPlace'
      BY <1>1, <1>3, <1>5, <2>1, <3>2, <3>3 DEF ImageInPlace
    <3>5. StepsReady' /\ CloneIsWhole'
      BY <1>1, <1>3, <1>5, <2>1, <3>1, <3>2, <1>2 DEF StepsReady, CloneIsWhole
    <3>6. QED
      BY <3>4, <3>5
  <2>5. QED
    BY <2>2, <2>3, <2>4 DEF ImageInv
<1>6. QED
  BY <1>4, <1>5 DEF Cancel

\* What is left of an unpacking writes into the partial image, or into the
\* image where that was made of the same version.
LEMMA OrphanWriteStep ==
  ASSUME ImageInv, OrphanEnds, orphan.pc = "write"
  PROVE  ImageInv'
<1>1. /\ orphan' = NoTask /\ data' = [data EXCEPT ![orphan.ino] = Written(@, orphan)]
      /\ UNCHANGED <<manifest, zst, partial, target, stamp, task, clone, mishaps>>
  BY DEF OrphanEnds
<1>2. /\ orphan \in Tasks /\ orphan.v \in 1..manifest /\ orphan.ino \in Inodes
      /\ orphan.cut \in BOOLEAN /\ data \in [Inodes -> Contents]
      /\ orphan.v \in 1..Versions
  BY ImageAssumption DEF ImageInv, TypeOK, TasksTyped, Typed, Tasks
<1>3. orphan' \in Tasks /\ orphan'.pc = "idle"
  BY <1>1, NoTaskIsTask
<1>4. data' \in [Inodes -> Contents]
  <2>1. Written(data[orphan.ino], orphan) \in Contents
    BY <1>2, WrittenIsContent
  <2>2. QED
    BY <1>1, <1>2, <2>1
<1>5. TypeOK'
  BY <1>1, <1>4 DEF ImageInv, TypeOK, Contents
<1>6. TasksTyped'
  BY <1>1, <1>3, <1>4 DEF ImageInv, TasksTyped, Typed
<1>7. ASSUME NEW i \in Inodes, NEW v, Whole(data[i], v), i = orphan.ino => v = orphan.v
      PROVE  Whole(data'[i], v)
  <2>1. CASE i = orphan.ino
    <3>1. data[i] \in Contents /\ v \in 1..Versions /\ orphan.v = v
      BY <1>2, <1>7, <2>1
    <3>2. Whole(Written(data[i], orphan), v)
      BY <1>2, <1>7, <3>1, WholeStays
    <3>3. data'[i] = Written(data[i], orphan)
      BY <1>1, <1>2, <2>1
    <3>4. QED
      BY <3>2, <3>3
  <2>2. CASE i # orphan.ino
    BY <1>1, <1>2, <1>7, <2>2
  <2>3. QED
    BY <2>1, <2>2
<1>8. ~mishaps'.late => ImageInPlace' /\ StepsReady' /\ CloneIsWhole'
  <2>1. SUFFICES ASSUME ~mishaps.late
                 PROVE  ImageInPlace' /\ StepsReady' /\ CloneIsWhole'
    BY <1>1
  <2>2. ImageInPlace /\ StepsReady /\ CloneIsWhole
    BY <2>1 DEF ImageInv
  <2>3. /\ partial # Gone => partial \in Inodes
        /\ target # Gone => target \in Inodes
    BY DEF ImageInv, TypeOK
  <2>4. ImageInPlace'
    <3>1. SUFFICES ASSUME target # Gone
                   PROVE  ImageInPlace'
      BY <1>1 DEF ImageInPlace
    <3>2. PICK v \in 1..manifest : /\ Whole(data[target], v) /\ stamp <= v
                                   /\ task.pc \in Fetched => v <= task.v
                                   /\ orphan.ino = target => v = orphan.v
      BY <2>2, <3>1 DEF ImageInPlace
    <3>3. Whole(data'[target], v)
      BY <1>7, <2>3, <3>1, <3>2
    <3>4. QED
      BY <1>1, <1>3, <3>2, <3>3 DEF ImageInPlace
  <2>5. task.pc = "rename" => partial # Gone /\ Whole(data'[partial], task.v)
    <3>1. SUFFICES ASSUME task.pc = "rename"
                   PROVE  partial # Gone /\ Whole(data'[partial], task.v)
      OBVIOUS
    <3>2. partial # Gone /\ Whole(data[partial], task.v) /\ task.v = orphan.v
      BY <2>2, <3>1 DEF StepsReady, Fetched, TaskSteps
    <3>3. QED
      BY <1>7, <2>3, <3>2
  <2>6. task.pc \in {"remove", "stamp"} => target # Gone /\ Whole(data'[target], task.v)
    <3>1. SUFFICES ASSUME task.pc \in {"remove", "stamp"}
                   PROVE  target # Gone /\ Whole(data'[target], task.v)
      OBVIOUS
    <3>2. target # Gone /\ Whole(data[target], task.v) /\ task.v = orphan.v
      BY <2>2, <3>1 DEF StepsReady, Fetched, TaskSteps
    <3>3. QED
      BY <1>7, <2>3, <3>2
  <2>7. StepsReady' /\ CloneIsWhole'
    BY <1>1, <1>3, <2>2, <2>5, <2>6 DEF StepsReady, CloneIsWhole
  <2>8. QED
    BY <2>4, <2>7
<1>9. QED
  BY <1>5, <1>6, <1>8 DEF ImageInv

LEMMA OrphanRenameStep ==
  ASSUME ImageInv, OrphanEnds, orphan.pc = "rename"
  PROVE  ImageInv'
<1>1. /\ orphan' = NoTask /\ UNCHANGED <<manifest, zst, data, stamp, task, clone, mishaps>>
      /\ IF partial = Gone THEN UNCHANGED <<partial, target>>
         ELSE target' = partial /\ partial' = Gone
  BY DEF OrphanEnds
<1>2. /\ orphan.v \in 1..manifest /\ task.pc = "idle" /\ task.pc \notin Fetched
      /\ stamp \in Nat /\ manifest \in Nat
  BY DEF ImageInv, TypeOK, TasksTyped, Fetched
<1>3. orphan' \in Tasks /\ orphan'.pc = "idle"
  BY <1>1, NoTaskIsTask
<1>4. TypeOK'
  BY <1>1 DEF ImageInv, TypeOK
<1>5. TasksTyped'
  BY <1>1, <1>2, <1>3 DEF ImageInv, TasksTyped, Typed
<1>6. ~mishaps'.late => ImageInPlace' /\ StepsReady' /\ CloneIsWhole'
  <2>1. SUFFICES ASSUME ~mishaps.late
                 PROVE  ImageInPlace' /\ StepsReady' /\ CloneIsWhole'
    BY <1>1
  <2>2. ImageInPlace /\ StepsReady /\ CloneIsWhole
    BY <2>1 DEF ImageInv
  <2>3. Whole(data[partial], orphan.v) /\ target' = partial /\ target' # Gone
    BY <1>1, <2>2 DEF StepsReady
  <2>4. stamp <= orphan.v
    BY <1>2, <2>2 DEF ImageInPlace, StepsReady
  <2>5. ImageInPlace'
    BY <1>1, <1>2, <1>3, <2>3, <2>4 DEF ImageInPlace
  <2>6. StepsReady' /\ CloneIsWhole'
    BY <1>1, <1>2, <1>3, <2>1, <2>2, <2>3 DEF StepsReady, CloneIsWhole, Fetched
  <2>7. QED
    BY <2>5, <2>6
<1>7. QED
  BY <1>4, <1>5, <1>6 DEF ImageInv

LEMMA OrphanStampStep ==
  ASSUME ImageInv, OrphanEnds, orphan.pc = "stamp"
  PROVE  ImageInv'
<1>1. /\ orphan' = NoTask /\ stamp' = orphan.v
      /\ UNCHANGED <<manifest, zst, partial, target, data, task, clone, mishaps>>
  BY DEF OrphanEnds
<1>2. orphan.v \in 1..manifest /\ task.pc = "idle" /\ task.pc \notin Fetched /\ manifest \in Nat
  BY DEF ImageInv, TypeOK, TasksTyped, Fetched
<1>3. orphan' \in Tasks /\ orphan'.pc = "idle"
  BY <1>1, NoTaskIsTask
<1>4. TypeOK'
  BY <1>1, <1>2, ImageAssumption DEF ImageInv, TypeOK
<1>5. TasksTyped'
  BY <1>1, <1>2, <1>3 DEF ImageInv, TasksTyped, Typed
<1>6. ~mishaps'.late => ImageInPlace' /\ StepsReady' /\ CloneIsWhole'
  <2>1. SUFFICES ASSUME ~mishaps.late
                 PROVE  ImageInPlace' /\ StepsReady' /\ CloneIsWhole'
    BY <1>1
  <2>2. ImageInPlace /\ StepsReady /\ CloneIsWhole
    BY <2>1 DEF ImageInv
  <2>3. target # Gone /\ Whole(data[target], orphan.v) /\ orphan.v <= orphan.v
    BY <1>2, <2>2 DEF StepsReady
  <2>4. ImageInPlace'
    BY <1>1, <1>2, <1>3, <2>3 DEF ImageInPlace
  <2>5. StepsReady' /\ CloneIsWhole'
    BY <1>1, <1>2, <1>3, <2>1, <2>2, <2>3 DEF StepsReady, CloneIsWhole
  <2>6. QED
    BY <2>4, <2>5
<1>7. QED
  BY <1>4, <1>5, <1>6 DEF ImageInv

LEMMA CrashStep ==
  ASSUME ImageInv, Crash
  PROVE  ImageInv'
<1>1. /\ task' = NoTask /\ orphan' = NoTask /\ stamp' \in {stamp, 0} /\ Mishap("crash")
      /\ UNCHANGED <<manifest, zst, partial, target, data, clone>>
  BY DEF Crash
<1>2. mishaps' \in Counts /\ mishaps'.late = mishaps.late
  BY <1>1, MishapCounts
<1>3. /\ task' \in Tasks /\ ~task'.cut /\ task'.pc = "idle" /\ task'.pc \notin Fetched
      /\ orphan' \in Tasks /\ orphan'.pc = "idle"
  BY <1>1, NoTaskIsTask
<1>4. TypeOK'
  BY <1>1, ImageAssumption DEF ImageInv, TypeOK
<1>5. TasksTyped'
  BY <1>1, <1>2, <1>3 DEF ImageInv, TasksTyped, Typed
<1>6. ~mishaps'.late => ImageInPlace' /\ StepsReady' /\ CloneIsWhole'
  <2>1. stamp \in Nat /\ manifest \in Nat
    BY DEF ImageInv, TypeOK
  <2>2. QED
    BY <1>1, <1>2, <1>3, <2>1 DEF ImageInv, ImageInPlace, StepsReady, CloneIsWhole
<1>7. QED
  BY <1>4, <1>5, <1>6 DEF ImageInv

LEMMA CloneImageStep ==
  ASSUME ImageInv, CloneImage
  PROVE  ImageInv'
<1>1. /\ target # Gone /\ clone' = data[target]
      /\ UNCHANGED <<manifest, zst, partial, target, data, stamp, task, orphan, mishaps>>
  BY DEF CloneImage
<1>2. clone' \in Contents
  BY <1>1 DEF ImageInv, TypeOK, Contents
<1>3. TypeOK' /\ TasksTyped'
  BY <1>1, <1>2 DEF ImageInv, TypeOK, TasksTyped, Typed
<1>4. ~mishaps'.late => ImageInPlace' /\ StepsReady'
  BY <1>1 DEF ImageInv, ImageInPlace, StepsReady
<1>5. ~mishaps'.late => CloneIsWhole'
  BY <1>1, ImageAssumption DEF ImageInv, ImageInPlace, CloneIsWhole, TypeOK
<1>6. QED
  BY <1>3, <1>4, <1>5 DEF ImageInv

LEMMA StepImageInv == ImageInv /\ [Next]_vars => ImageInv'
<1>1. SUFFICES ASSUME ImageInv, [Next]_vars
               PROVE  ImageInv'
  OBVIOUS
<1>2. CASE UNCHANGED vars
  BY <1>1, <1>2
  DEF vars, ImageInv, TypeOK, TasksTyped, Typed, ImageInPlace, StepsReady, CloneIsWhole
<1>3. CASE Step
  BY <1>1, <1>3, FetchManifestStep, RequestStep, StreamChunkStep, VerifyCompressedStep,
     BeginUnpackStep, EndUnpackStep, VerifyImageStep, RenameStep, RemoveCompressedStep,
     WriteStampStep
  DEF Step
<1>4. CASE OrphanEnds
  <2>1. orphan.pc \in {"write", "rename", "stamp"}
    BY <1>1, <1>4 DEF OrphanEnds, ImageInv, TasksTyped
  <2>2. QED
    BY <1>1, <1>4, <2>1, OrphanWriteStep, OrphanRenameStep, OrphanStampStep
<1>5. CASE Publish \/ Download \/ Cancel \/ Crash \/ CloneImage
  BY <1>1, <1>5, PublishStep, DownloadStep, CancelStep, CrashStep, CloneImageStep
<1>6. QED
  BY <1>1, <1>2, <1>3, <1>4, <1>5 DEF Next

LEMMA ServicesLeaveImage == [ServicesNext]_all => [Next]_vars
  BY DEF ServicesNext, all

\* Between the download, its cancelled remains and a crash the invariant holds.
THEOREM ImageInvariant == ServicesSpec => []ImageInv
<1>1. ServicesInit => ImageInv
  BY InitImageInv DEF ServicesInit
<1>2. ImageInv /\ [ServicesNext]_all => ImageInv'
  BY StepImageInv, ServicesLeaveImage
<1>3. QED
  BY <1>1, <1>2, PTL DEF ServicesSpec

\* The stamp vouches for a whole image of its version or a later one, and a
\* machine boots from a whole one.
THEOREM ServicesKeepImage == ServicesSpec => []ImageIsWhole
<1>1. ImageInv => ImageIsWhole
  <2>1. SUFFICES ASSUME ImageInv
                 PROVE  StampIsCovered /\ CloneIsWhole
    BY DEF ImageInv, ImageIsWhole
  <2>2. StampIsCovered
    BY <2>1, ImageAssumption DEF ImageInv, TypeOK, ImageInPlace, StepsReady, StampIsCovered
  <2>3. CloneIsWhole
    BY <2>1 DEF ImageInv, CloneIsWhole
  <2>4. QED
    BY <2>2, <2>3
<1>2. QED
  BY <1>1, ImageInvariant, PTL

-----------------------------------------------------------------------------
(* The image as one cell *)

LEMMA InstalledIs ==
  ASSUME target # Gone, NEW v \in 1..Versions, Whole(data[target], v)
  PROVE  InstalledVersion = v
<1>1. \A w \in 1..Versions : Whole(data[target], w) => w = v
  BY OneVersion
<1>2. (CHOOSE w \in 1..Versions : Whole(data[target], w)) = v
  BY <1>1
<1>3. QED
  BY <1>2 DEF InstalledVersion

LEMMA InstalledType == InstalledVersion \in 0..(Versions + 1)
<1>1. CASE \E v \in 1..Versions : Whole(data[target], v)
  <2>1. (CHOOSE v \in 1..Versions : Whole(data[target], v)) \in 1..Versions
    BY <1>1
  <2>2. QED
    BY <1>1, <2>1, ImageAssumption DEF InstalledVersion
<1>2. CASE ~\E v \in 1..Versions : Whole(data[target], v)
  BY <1>2, ImageAssumption DEF InstalledVersion
<1>3. QED
  BY <1>1, <1>2

\* The version in place, by which the invariant speaks of it.
LEMMA InstalledInPlace ==
  ASSUME ImageInv, ~mishaps.late, target # Gone
  PROVE  /\ InstalledVersion \in 1..Versions /\ Whole(data[target], InstalledVersion)
         /\ task.pc \in Fetched => InstalledVersion <= task.v
         /\ orphan.pc = "rename" => InstalledVersion <= orphan.v
         /\ orphan.pc = "write" /\ orphan.ino = target => InstalledVersion = orphan.v
<1>1. PICK v \in 1..manifest : /\ Whole(data[target], v)
                               /\ task.pc \in Fetched => v <= task.v
                               /\ orphan.pc = "rename" => v <= orphan.v
                               /\ orphan.pc = "write" /\ orphan.ino = target => v = orphan.v
  BY DEF ImageInv, ImageInPlace
<1>2. v \in 1..Versions
  BY ImageAssumption DEF ImageInv, TypeOK
<1>3. InstalledVersion = v
  BY <1>1, <1>2, InstalledIs
<1>4. QED
  BY <1>1, <1>2, <1>3

LEMMA SameImage ==
  ASSUME UNCHANGED target, target # Gone => data'[target] = data[target]
  PROVE  UNCHANGED InstalledVersion
  BY DEF InstalledVersion

\* A rename puts a whole image of a version no earlier into place.
LEMMA RenameInstalls ==
  ASSUME ImageInv, ~mishaps.late, NEW v \in 1..Versions, partial # Gone, Whole(data[partial], v),
         target # Gone => InstalledVersion <= v,
         target' = partial, UNCHANGED <<data, mishaps>>
  PROVE  Cell!Install(v)
<1>1. InstalledVersion' = v
  <2>1. target' # Gone /\ Whole(data'[target'], v)
    OBVIOUS
  <2>2. \A w \in 1..Versions : Whole(data'[target'], w) => w = v
    BY <2>1, OneVersion
  <2>3. (CHOOSE w \in 1..Versions : Whole(data'[target'], w)) = v
    BY <2>1, <2>2
  <2>4. QED
    BY <2>1, <2>3 DEF InstalledVersion
<1>2. v >= InstalledVersion
  BY InstalledType, ImageAssumption DEF InstalledVersion
<1>3. QED
  BY <1>1, <1>2 DEF Cell!Install

\* Steps that leave the image be, of those that write or move a file.
LEMMA UnpackingLeavesImage ==
  ASSUME ImageInv, BeginUnpack \/ EndUnpack
  PROVE  UNCHANGED InstalledVersion
<1>1. CASE BeginUnpack
  <2>1. PICK i \in (IF partial = Gone THEN {CHOOSE j \in Inodes : j \notin {target, orphan.ino}}
                    ELSE {partial}) : data' = [data EXCEPT ![i] = Blank]
    BY <1>1 DEF BeginUnpack
  <2>2. \E j \in Inodes : j \notin {target, orphan.ino}
    <3>1. 1 \in Inodes /\ 2 \in Inodes /\ 3 \in Inodes
      BY DEF Inodes
    <3>2. 1 # 2 /\ 2 # 3 /\ 1 # 3
      OBVIOUS
    <3>3. QED
      BY <3>1, <3>2
  <2>3. (CHOOSE j \in Inodes : j \notin {target, orphan.ino}) # target
    BY <2>2
  <2>4. i # target
    BY <2>1, <2>3 DEF ImageInv, TypeOK
  <2>5. data \in [Inodes -> Contents] /\ (target # Gone => target \in Inodes)
    BY DEF ImageInv, TypeOK, TasksTyped, Typed
  <2>6. UNCHANGED target
    BY <1>1 DEF BeginUnpack
  <2>7. target # Gone => data'[target] = data[target]
    BY <2>1, <2>4, <2>5
  <2>8. QED
    BY <2>6, <2>7, SameImage
<1>2. CASE EndUnpack
  <2>1. data' = [data EXCEPT ![task.ino] = Written(@, task)] /\ UNCHANGED target
    BY <1>2 DEF EndUnpack
  <2>2. task.ino # target /\ (target # Gone => target \in Inodes) /\ data \in [Inodes -> Contents]
    BY <1>2 DEF EndUnpack, At, ImageInv, TypeOK, TasksTyped, Typed, Inodes, Gone
  <2>3. target # Gone => data'[target] = data[target]
    BY <2>1, <2>2
  <2>4. QED
    BY <2>1, <2>3, SameImage
<1>3. QED
  BY <1>1, <1>2

LEMMA OrphanWriteLeavesImage ==
  ASSUME ImageInv, ~mishaps.late, OrphanEnds, orphan.pc = "write"
  PROVE  UNCHANGED InstalledVersion
<1>1. data' = [data EXCEPT ![orphan.ino] = Written(@, orphan)] /\ UNCHANGED target
  BY DEF OrphanEnds
<1>2. /\ orphan.cut \in BOOLEAN /\ data \in [Inodes -> Contents] /\ orphan.ino \in Inodes
      /\ target # Gone => target \in Inodes
  BY DEF ImageInv, TypeOK, TasksTyped, Typed, Tasks
<1>3. CASE target = Gone
  BY <1>1, <1>3, SameImage
<1>4. CASE target # Gone
  <2>1. /\ InstalledVersion \in 1..Versions /\ Whole(data[target], InstalledVersion)
        /\ orphan.ino = target => InstalledVersion = orphan.v
    BY <1>4, InstalledInPlace
  <2>2. CASE orphan.ino = target
    <3>1. data[target] \in Contents /\ Whole(Written(data[target], orphan), InstalledVersion)
      BY <1>2, <2>1, <2>2, WholeStays
    <3>2. target' # Gone /\ Whole(data'[target'], InstalledVersion)
      BY <1>1, <1>2, <1>4, <2>2, <3>1
    <3>3. \A w \in 1..Versions : Whole(data'[target'], w) => w = InstalledVersion
      BY <3>2, OneVersion
    <3>4. (CHOOSE w \in 1..Versions : Whole(data'[target'], w)) = InstalledVersion
      BY <2>1, <3>2, <3>3
    <3>5. InstalledVersion' = CHOOSE w \in 1..Versions : Whole(data'[target'], w)
      BY <2>1, <3>2 DEF InstalledVersion
    <3>6. QED
      BY <3>4, <3>5
  <2>3. CASE orphan.ino # target
    BY <1>1, <1>2, <1>4, <2>3, SameImage
  <2>4. QED
    BY <2>2, <2>3
<1>5. QED
  BY <1>3, <1>4

\* The only step that makes a download late touches no file.
LEMMA LateStep ==
  ASSUME ImageInv, [Next]_vars
  PROVE  /\ mishaps.late => mishaps'.late
         /\ ~mishaps.late /\ mishaps'.late => UNCHANGED <<target, data>>
<1>1. CASE FetchManifest
  <2>1. UNCHANGED <<target, data>>
    BY <1>1 DEF FetchManifest
  <2>2. Fine \/ Mishap("late") \/ Mishap("net")
    BY <1>1 DEF FetchManifest
  <2>3. mishaps.late => mishaps'.late
    BY <2>2, LateCounts DEF Fine
  <2>4. QED
    BY <2>1, <2>3
<1>2. CASE ~FetchManifest
  <2>1. Fine \/ Mishap("net") \/ Mishap("whole") \/ Mishap("cancel") \/ Mishap("crash")
    BY <1>2
    DEF Next, Step, vars, Fine, Publish, Download, Request, StreamChunk, VerifyCompressed,
        BeginUnpack, EndUnpack, VerifyImage, Rename, RemoveCompressed, WriteStamp, Cancel,
        OrphanEnds, Crash, CloneImage
  <2>2. mishaps'.late = mishaps.late
    BY <2>1, MishapCounts
  <2>3. QED
    BY <2>2
<1>3. QED
  BY <1>1, <1>2

\* Until a download is late each step installs a version no earlier, at once,
\* or leaves the image.
LEMMA TimelyStep ==
  ASSUME ImageInv, [Next]_vars, ~mishaps.late, ~mishaps'.late
  PROVE  UNCHANGED InstalledVersion \/ \E v \in 1..Versions : Cell!Install(v)
<1>1. CASE Rename
  <2>1. CASE partial = Gone
    BY <1>1, <2>1, SameImage DEF Rename
  <2>2. CASE partial # Gone
    <3>1. /\ task.pc = "rename" /\ target' = partial /\ UNCHANGED <<data, mishaps>>
      BY <1>1, <2>2 DEF Rename, At
    <3>2. task.pc \in Fetched /\ Whole(data[partial], task.v) /\ task.v \in 1..Versions
      BY <3>1, ImageAssumption DEF ImageInv, TypeOK, TasksTyped, StepsReady, Fetched, TaskSteps
    <3>3. target # Gone => InstalledVersion <= task.v
      BY <3>2, InstalledInPlace
    <3>4. QED
      BY <2>2, <3>1, <3>2, <3>3, RenameInstalls
  <2>3. QED
    BY <2>1, <2>2
<1>2. CASE OrphanEnds
  <2>1. CASE orphan.pc = "write"
    BY <1>2, <2>1, OrphanWriteLeavesImage
  <2>2. CASE orphan.pc = "rename"
    <3>1. /\ partial # Gone /\ Whole(data[partial], orphan.v) /\ orphan.v \in 1..Versions
      BY <2>2, ImageAssumption DEF ImageInv, TypeOK, TasksTyped, StepsReady
    <3>2. target' = partial /\ UNCHANGED <<data, mishaps>>
      BY <1>2, <2>2, <3>1 DEF OrphanEnds
    <3>3. target # Gone => InstalledVersion <= orphan.v
      BY <2>2, InstalledInPlace
    <3>4. QED
      BY <3>1, <3>2, <3>3, RenameInstalls
  <2>3. CASE orphan.pc = "stamp"
    BY <1>2, <2>3, SameImage DEF OrphanEnds
  <2>4. QED
    BY <1>2, <2>1, <2>2, <2>3 DEF OrphanEnds, ImageInv, TasksTyped
<1>3. CASE BeginUnpack \/ EndUnpack
  BY <1>3, UnpackingLeavesImage
<1>4. CASE ~Rename /\ ~OrphanEnds /\ ~BeginUnpack /\ ~EndUnpack
  <2>1. UNCHANGED <<target, data>>
    BY <1>4
    DEF Next, Step, vars, Publish, Download, FetchManifest, Request, StreamChunk,
        VerifyCompressed, VerifyImage, RemoveCompressed, WriteStamp, Cancel, Crash, CloneImage
  <2>2. QED
    BY <2>1, SameImage
<1>5. QED
  BY <1>1, <1>2, <1>3, <1>4

LEMMA CellStep ==
  ASSUME ImageInv, ImageInv', [Next]_vars
  PROVE  [Cell!Next]_<<InstalledVersion, mishaps.late>>
<1>1. mishaps.late \in BOOLEAN /\ mishaps'.late \in BOOLEAN
  BY DEF ImageInv, TasksTyped, Typed, Counts
<1>2. CASE mishaps.late
  <2>1. mishaps'.late = mishaps.late
    BY <1>1, <1>2, LateStep
  <2>2. InstalledVersion' \in 0..(Versions + 1)
    <3>1. CASE \E v \in 1..Versions : Whole(data'[target'], v)
      <4>1. (CHOOSE v \in 1..Versions : Whole(data'[target'], v)) \in 1..Versions
        BY <3>1
      <4>2. QED
        BY <3>1, <4>1, ImageAssumption DEF InstalledVersion
    <3>2. CASE ~\E v \in 1..Versions : Whole(data'[target'], v)
      BY <3>2, ImageAssumption DEF InstalledVersion
    <3>3. QED
      BY <3>1, <3>2
  <2>3. Cell!Spoil
    BY <1>2, <2>1, <2>2 DEF Cell!Spoil
  <2>4. QED
    BY <2>3 DEF Cell!Next
<1>3. CASE ~mishaps.late /\ mishaps'.late
  <2>1. UNCHANGED InstalledVersion
    BY <1>3, LateStep, SameImage
  <2>2. mishaps'.late = TRUE
    BY <1>1, <1>3
  <2>3. Cell!Overlap
    BY <2>1, <2>2 DEF Cell!Overlap
  <2>4. QED
    BY <2>3 DEF Cell!Next
<1>4. CASE ~mishaps.late /\ ~mishaps'.late
  <2>1. mishaps'.late = mishaps.late
    BY <1>1, <1>4
  <2>2. CASE UNCHANGED InstalledVersion
    BY <2>1, <2>2
  <2>3. CASE \E v \in 1..Versions : Cell!Install(v)
    BY <2>3 DEF Cell!Next
  <2>4. QED
    BY <1>4, <2>2, <2>3, TimelyStep
<1>5. QED
  BY <1>2, <1>3, <1>4

\* To its users the image is one cell, replaced at once and by no earlier
\* version, however often a download is cut off.
THEOREM ServicesReplaceAtOnce == ServicesSpec => ReplacedAtOnce
<1>1. ServicesInit => Cell!Init
  BY DEF ServicesInit, Init, Cell!Init, InstalledVersion
<1>2. ImageInv /\ ImageInv' /\ [ServicesNext]_all => [Cell!Next]_<<InstalledVersion, mishaps.late>>
  BY ServicesLeaveImage, CellStep
<1>3. QED
  BY <1>1, <1>2, ImageInvariant, PTL DEF ServicesSpec, ReplacedAtOnce, Cell!Spec

-----------------------------------------------------------------------------
(* The launch gate *)

LEMMA GateMachines ==
  /\ Gate!Machines["windows"] = {"old", "absent", "novirt", "pending", "one", "two"}
  /\ Gate!Machines["linux"] = {"absent", "quiet", "ready"}
  BY DEF Gate!Machines

LEMMA GateOccurs ==
  ASSUME NEW m, Gate!Occurs(m) \/ UNCHANGED launchMishaps
  PROVE  "removed" \in launchMishaps => "removed" \in launchMishaps'
  BY DEF Gate!Occurs

LEMMA InitGateInv == Gate!Init => GateInv
<1>1. SUFFICES ASSUME Gate!Init
               PROVE  GateInv
  OBVIOUS
<1>2. Gate!TypeOK
  BY <1>1 DEF Gate!Init, Gate!TypeOK, Gate!Free
<1>3. CallsTyped
  BY <1>1, ServicesAssumption DEF Gate!Init, CallsTyped, CallStates, Gate!Free
<1>4. QED
  BY <1>1, <1>2, <1>3
  DEF Gate!Init, GateInv, WslMutex, Gate!ImportedOnce, ReadyHasHandle, Gate!LoadingIsBusy, Gate!Free

\* The end of a call of init_wsl: the page that waits for it is told.
LEMMA CallEndsFacts ==
  ASSUME GateInv, NEW i \in Gate!Calls, NEW ok \in BOOLEAN, Gate!CallEnds(i, ok)
  PROVE  /\ init' \in [Gate!Calls -> CallStates]
         /\ init'[i].at = "none" /\ \A j \in Gate!Calls \ {i} : init'[j] = init[j]
         /\ phase' \in {"launching", "ready"} /\ run' \in {"none", run}
         /\ phase' # phase => ok /\ phase' = "ready"
         /\ status' \in {status, "checking", "error"}
         /\ phase' = "launching" /\ status' \in Gate!Loading =>
              run' = run /\ status' = status /\ phase = "launching"
<1>1. init' = [init EXCEPT ![i] = Gate!Free] /\ init \in [Gate!Calls -> CallStates]
      /\ phase \in {"launching", "ready"}
  BY DEF Gate!CallEnds, GateInv, CallsTyped, Gate!TypeOK
<1>2. Gate!Free \in CallStates /\ Gate!Free.at = "none"
  BY DEF Gate!Free, CallStates
<1>3. /\ init' \in [Gate!Calls -> CallStates]
      /\ init'[i].at = "none" /\ \A j \in Gate!Calls \ {i} : init'[j] = init[j]
  BY <1>1, <1>2
<1>4. CASE UNCHANGED <<phase, status, run>>
  BY <1>1, <1>3, <1>4
<1>5. CASE run' = "none" /\ ok /\ phase' = "ready" /\ status' = "checking"
  BY <1>1, <1>3, <1>5
<1>6. CASE run' = "none" /\ status' = "error" /\ UNCHANGED phase
  BY <1>1, <1>3, <1>6 DEF Gate!Loading
<1>7. QED
  BY <1>4, <1>5, <1>6 DEF Gate!CallEnds, Gate!page

LEMMA GateStartStep ==
  ASSUME GateInv, Gate!Start
  PROVE  GateInv'
<1>1. Gate!TypeOK'
  BY GateMachines, ServicesAssumption
  DEF GateInv, Gate!TypeOK, CallsTyped, Gate!Start, Gate!Load, Gate!Runtime, Gate!world,
     Gate!backend, Gate!page, Gate!Occurs
<1>2. CallsTyped'
  BY ServicesAssumption DEF GateInv, Gate!TypeOK, CallsTyped, CallStates, Gate!Start, Gate!Load,
     Gate!Runtime, Gate!world, Gate!backend, Gate!page, Gate!Occurs
<1>3. WslMutex' /\ Gate!ImportedOnce'
  BY ServicesAssumption DEF GateInv, Gate!TypeOK, CallsTyped, WslMutex, Gate!ImportedOnce,
     Gate!Start, Gate!Load, Gate!Runtime, Gate!world, Gate!backend, Gate!page, Gate!Occurs
<1>4. ReadyHasHandle'
  BY ServicesAssumption DEF GateInv, Gate!TypeOK, CallsTyped, ReadyHasHandle, Gate!Start,
     Gate!Load, Gate!Runtime, Gate!world, Gate!backend, Gate!page, Gate!Occurs
<1>5. Gate!LoadingIsBusy'
  BY ServicesAssumption DEF GateInv, Gate!TypeOK, CallsTyped, Gate!LoadingIsBusy, Gate!Loading,
     Gate!Start, Gate!Load, Gate!Runtime, Gate!world, Gate!backend, Gate!page, Gate!Occurs
<1>6. QED
  BY <1>1, <1>2, <1>3, <1>4, <1>5 DEF GateInv

LEMMA GateEmitReportStep ==
  ASSUME GateInv, Gate!EmitReport
  PROVE  GateInv'
<1>1. Gate!TypeOK'
  BY GateMachines, ServicesAssumption
  DEF GateInv, Gate!TypeOK, CallsTyped, Gate!EmitReport, Gate!world, Gate!backend, Gate!page,
     Gate!Occurs
<1>2. CallsTyped'
  BY ServicesAssumption DEF GateInv, Gate!TypeOK, CallsTyped, CallStates, Gate!EmitReport,
     Gate!world, Gate!backend, Gate!page, Gate!Occurs
<1>3. WslMutex' /\ Gate!ImportedOnce'
  BY ServicesAssumption DEF GateInv, Gate!TypeOK, CallsTyped, WslMutex, Gate!ImportedOnce,
     Gate!EmitReport, Gate!world, Gate!backend, Gate!page, Gate!Occurs
<1>4. ReadyHasHandle'
  BY ServicesAssumption DEF GateInv, Gate!TypeOK, CallsTyped, ReadyHasHandle, Gate!EmitReport,
     Gate!world, Gate!backend, Gate!page, Gate!Occurs
<1>5. Gate!LoadingIsBusy'
  BY ServicesAssumption DEF GateInv, Gate!TypeOK, CallsTyped, Gate!LoadingIsBusy, Gate!Loading,
     Gate!EmitReport, Gate!world, Gate!backend, Gate!page, Gate!Occurs
<1>6. QED
  BY <1>1, <1>2, <1>3, <1>4, <1>5 DEF GateInv

LEMMA GateExitStep ==
  ASSUME GateInv, Gate!Exit
  PROVE  GateInv'
<1>1. Gate!TypeOK'
  BY GateMachines, ServicesAssumption
  DEF GateInv, Gate!TypeOK, CallsTyped, Gate!Exit, Gate!Gone, Gate!Free, Gate!world, Gate!backend,
     Gate!page, Gate!Occurs
<1>2. CallsTyped'
  BY ServicesAssumption DEF GateInv, Gate!TypeOK, CallsTyped, CallStates, Gate!Exit, Gate!Gone,
     Gate!Free, Gate!world, Gate!backend, Gate!page, Gate!Occurs
<1>3. WslMutex' /\ Gate!ImportedOnce'
  BY ServicesAssumption DEF GateInv, Gate!TypeOK, CallsTyped, WslMutex, Gate!ImportedOnce,
     Gate!Exit, Gate!Gone, Gate!Free, Gate!world, Gate!backend, Gate!page, Gate!Occurs
<1>4. ReadyHasHandle'
  BY ServicesAssumption DEF GateInv, Gate!TypeOK, CallsTyped, ReadyHasHandle, Gate!Exit, Gate!Gone,
     Gate!Free, Gate!world, Gate!backend, Gate!page, Gate!Occurs
<1>5. Gate!LoadingIsBusy'
  BY ServicesAssumption DEF GateInv, Gate!TypeOK, CallsTyped, Gate!LoadingIsBusy, Gate!Loading,
     Gate!Exit, Gate!Gone, Gate!Free, Gate!world, Gate!backend, Gate!page, Gate!Occurs
<1>6. QED
  BY <1>1, <1>2, <1>3, <1>4, <1>5 DEF GateInv

LEMMA GateRebootWindowsStep ==
  ASSUME GateInv, Gate!RebootWindows
  PROVE  GateInv'
<1>1. Gate!TypeOK'
  BY GateMachines, ServicesAssumption
  DEF GateInv, Gate!TypeOK, CallsTyped, Gate!RebootWindows, Gate!Gone, Gate!Free, Gate!world,
     Gate!backend, Gate!page, Gate!Occurs
<1>2. CallsTyped'
  BY ServicesAssumption DEF GateInv, Gate!TypeOK, CallsTyped, CallStates, Gate!RebootWindows,
     Gate!Gone, Gate!Free, Gate!world, Gate!backend, Gate!page, Gate!Occurs
<1>3. WslMutex' /\ Gate!ImportedOnce'
  BY ServicesAssumption DEF GateInv, Gate!TypeOK, CallsTyped, WslMutex, Gate!ImportedOnce,
     Gate!RebootWindows, Gate!Gone, Gate!Free, Gate!world, Gate!backend, Gate!page, Gate!Occurs
<1>4. ReadyHasHandle'
  BY ServicesAssumption DEF GateInv, Gate!TypeOK, CallsTyped, ReadyHasHandle, Gate!RebootWindows,
     Gate!Gone, Gate!Free, Gate!world, Gate!backend, Gate!page, Gate!Occurs
<1>5. Gate!LoadingIsBusy'
  BY ServicesAssumption DEF GateInv, Gate!TypeOK, CallsTyped, Gate!LoadingIsBusy, Gate!Loading,
     Gate!RebootWindows, Gate!Gone, Gate!Free, Gate!world, Gate!backend, Gate!page, Gate!Occurs
<1>6. QED
  BY <1>1, <1>2, <1>3, <1>4, <1>5 DEF GateInv

LEMMA GateVmStartsStep ==
  ASSUME GateInv, Gate!VmStarts
  PROVE  GateInv'
<1>1. Gate!TypeOK'
  BY GateMachines, ServicesAssumption
  DEF GateInv, Gate!TypeOK, CallsTyped, Gate!VmStarts, Gate!world, Gate!backend, Gate!page,
     Gate!Occurs
<1>2. CallsTyped'
  BY ServicesAssumption DEF GateInv, Gate!TypeOK, CallsTyped, CallStates, Gate!VmStarts,
     Gate!world, Gate!backend, Gate!page, Gate!Occurs
<1>3. WslMutex' /\ Gate!ImportedOnce'
  BY ServicesAssumption DEF GateInv, Gate!TypeOK, CallsTyped, WslMutex, Gate!ImportedOnce,
     Gate!VmStarts, Gate!world, Gate!backend, Gate!page, Gate!Occurs
<1>4. ReadyHasHandle'
  BY ServicesAssumption DEF GateInv, Gate!TypeOK, CallsTyped, ReadyHasHandle, Gate!VmStarts,
     Gate!world, Gate!backend, Gate!page, Gate!Occurs
<1>5. Gate!LoadingIsBusy'
  BY ServicesAssumption DEF GateInv, Gate!TypeOK, CallsTyped, Gate!LoadingIsBusy, Gate!Loading,
     Gate!VmStarts, Gate!world, Gate!backend, Gate!page, Gate!Occurs
<1>6. QED
  BY <1>1, <1>2, <1>3, <1>4, <1>5 DEF GateInv

LEMMA GateEnsureImageStep ==
  ASSUME GateInv, Gate!EnsureImage
  PROVE  GateInv'
<1>1. Gate!TypeOK'
  BY GateMachines, ServicesAssumption
  DEF GateInv, Gate!TypeOK, CallsTyped, Gate!EnsureImage, Gate!world, Gate!backend, Gate!page,
     Gate!Occurs
<1>2. CallsTyped'
  BY ServicesAssumption DEF GateInv, Gate!TypeOK, CallsTyped, CallStates, Gate!EnsureImage,
     Gate!world, Gate!backend, Gate!page, Gate!Occurs
<1>3. WslMutex' /\ Gate!ImportedOnce'
  BY ServicesAssumption DEF GateInv, Gate!TypeOK, CallsTyped, WslMutex, Gate!ImportedOnce,
     Gate!EnsureImage, Gate!world, Gate!backend, Gate!page, Gate!Occurs
<1>4. ReadyHasHandle'
  BY ServicesAssumption DEF GateInv, Gate!TypeOK, CallsTyped, ReadyHasHandle, Gate!EnsureImage,
     Gate!world, Gate!backend, Gate!page, Gate!Occurs
<1>5. Gate!LoadingIsBusy'
  BY ServicesAssumption DEF GateInv, Gate!TypeOK, CallsTyped, Gate!LoadingIsBusy, Gate!Loading,
     Gate!EnsureImage, Gate!world, Gate!backend, Gate!page, Gate!Occurs
<1>6. QED
  BY <1>1, <1>2, <1>3, <1>4, <1>5 DEF GateInv

LEMMA GateCheckDataIntegrityStep ==
  ASSUME GateInv, Gate!CheckDataIntegrity
  PROVE  GateInv'
<1>1. Gate!TypeOK'
  BY GateMachines, ServicesAssumption
  DEF GateInv, Gate!TypeOK, CallsTyped, Gate!CheckDataIntegrity, Gate!world, Gate!backend,
     Gate!page, Gate!Occurs
<1>2. CallsTyped'
  BY ServicesAssumption DEF GateInv, Gate!TypeOK, CallsTyped, CallStates, Gate!CheckDataIntegrity,
     Gate!world, Gate!backend, Gate!page, Gate!Occurs
<1>3. WslMutex' /\ Gate!ImportedOnce'
  BY ServicesAssumption DEF GateInv, Gate!TypeOK, CallsTyped, WslMutex, Gate!ImportedOnce,
     Gate!CheckDataIntegrity, Gate!world, Gate!backend, Gate!page, Gate!Occurs
<1>4. ReadyHasHandle'
  BY ServicesAssumption DEF GateInv, Gate!TypeOK, CallsTyped, ReadyHasHandle,
     Gate!CheckDataIntegrity, Gate!world, Gate!backend, Gate!page, Gate!Occurs
<1>5. Gate!LoadingIsBusy'
  BY ServicesAssumption DEF GateInv, Gate!TypeOK, CallsTyped, Gate!LoadingIsBusy, Gate!Loading,
     Gate!CheckDataIntegrity, Gate!world, Gate!backend, Gate!page, Gate!Occurs
<1>6. QED
  BY <1>1, <1>2, <1>3, <1>4, <1>5 DEF GateInv

LEMMA GateSetupWindowsStep ==
  ASSUME GateInv, Gate!SetupWindows
  PROVE  GateInv'
<1>1. /\ os = "windows" /\ UNCHANGED <<os, machine, distro, autoStart, up, launches, launchMishaps>>
      /\ machine \in {"old", "absent", "novirt", "pending", "one", "two"}
      /\ init \in [Gate!Calls -> CallStates]
  BY GateMachines DEF Gate!SetupWindows, Gate!world, GateInv, Gate!TypeOK, CallsTyped
<1>2. Gate!WslStatus \subseteq
        {"not-supported", "needs-wsl-enable", "needs-virtualization", "error", "ready"}
  BY <1>1 DEF Gate!WslStatus
<1>3. CASE \E s \in Gate!WslStatus : s # "ready" /\ Gate!Screen(s)
  <2>1. PICK s \in Gate!WslStatus : s # "ready" /\ Gate!Screen(s)
    BY <1>3
  <2>2. /\ status' = s /\ run' = "none" /\ UNCHANGED phase
        /\ UNCHANGED <<runtime, report, lock, handle, init, vm, starter>> /\ s \notin Gate!Loading
    BY <1>2, <2>1 DEF Gate!Screen, Gate!backend, Gate!Loading
  <2>3. Gate!TypeOK' /\ CallsTyped' /\ Gate!LoadingIsBusy'
    BY <1>1, <2>2 DEF GateInv, Gate!TypeOK, CallsTyped, Gate!LoadingIsBusy
  <2>4. WslMutex' /\ Gate!ImportedOnce' /\ ReadyHasHandle'
    BY <1>1, <2>2 DEF GateInv, WslMutex, Gate!ImportedOnce, ReadyHasHandle
  <2>5. QED
    BY <2>3, <2>4 DEF GateInv
<1>4. CASE \E i \in Gate!Calls :
             /\ init[i].at = "none" /\ init' = [init EXCEPT ![i] = [at |-> "wait", page |-> TRUE]]
             /\ status' = "setting-up" /\ run' = "init"
             /\ UNCHANGED <<phase, runtime, report, lock, handle, vm, starter>>
  <2>1. PICK i \in Gate!Calls : init' = [init EXCEPT ![i] = [at |-> "wait", page |-> TRUE]]
    BY <1>4
  <2>2. status' = "setting-up" /\ run' = "init"
        /\ UNCHANGED <<phase, runtime, report, lock, handle, vm, starter>>
    BY <1>4
  <2>3. [at |-> "wait", page |-> TRUE] \in CallStates
    BY DEF CallStates
  <2>4. init' \in [Gate!Calls -> CallStates] /\ init'[i].at = "wait"
        /\ \A j \in Gate!Calls \ {i} : init'[j] = init[j]
    BY <1>1, <2>1, <2>3
  <2>5. Gate!TypeOK' /\ CallsTyped' /\ Gate!LoadingIsBusy'
    BY <1>1, <2>2, <2>4 DEF GateInv, Gate!TypeOK, CallsTyped, CallStates, Gate!LoadingIsBusy
  <2>6. WslMutex' /\ Gate!ImportedOnce' /\ ReadyHasHandle'
    BY <1>1, <2>2, <2>4 DEF GateInv, WslMutex, Gate!ImportedOnce, ReadyHasHandle
  <2>7. QED
    BY <2>5, <2>6 DEF GateInv
<1>5. QED
  BY <1>3, <1>4 DEF Gate!SetupWindows

LEMMA GateSetupMacOSStep ==
  ASSUME GateInv, Gate!SetupMacOS
  PROVE  GateInv'
<1>1. Gate!TypeOK'
  BY GateMachines, ServicesAssumption
  DEF GateInv, Gate!TypeOK, CallsTyped, Gate!SetupMacOS, Gate!Ready, Gate!world, Gate!backend,
     Gate!page, Gate!Occurs
<1>2. CallsTyped'
  BY ServicesAssumption DEF GateInv, Gate!TypeOK, CallsTyped, CallStates, Gate!SetupMacOS,
     Gate!Ready, Gate!world, Gate!backend, Gate!page, Gate!Occurs
<1>3. WslMutex' /\ Gate!ImportedOnce'
  BY ServicesAssumption DEF GateInv, Gate!TypeOK, CallsTyped, WslMutex, Gate!ImportedOnce,
     Gate!SetupMacOS, Gate!Ready, Gate!world, Gate!backend, Gate!page, Gate!Occurs
<1>4. ReadyHasHandle'
  BY ServicesAssumption DEF GateInv, Gate!TypeOK, CallsTyped, ReadyHasHandle, Gate!SetupMacOS,
     Gate!Ready, Gate!world, Gate!backend, Gate!page, Gate!Occurs
<1>5. Gate!LoadingIsBusy'
  BY ServicesAssumption DEF GateInv, Gate!TypeOK, CallsTyped, Gate!LoadingIsBusy, Gate!Loading,
     Gate!SetupMacOS, Gate!Ready, Gate!world, Gate!backend, Gate!page, Gate!Occurs
<1>6. QED
  BY <1>1, <1>2, <1>3, <1>4, <1>5 DEF GateInv

LEMMA GateSetupLinuxStep ==
  ASSUME GateInv, Gate!SetupLinux
  PROVE  GateInv'
<1>1. Gate!TypeOK'
  BY GateMachines, ServicesAssumption
  DEF GateInv, Gate!TypeOK, CallsTyped, Gate!SetupLinux, Gate!Screen, Gate!world, Gate!backend,
     Gate!page, Gate!Occurs
<1>2. CallsTyped'
  BY ServicesAssumption DEF GateInv, Gate!TypeOK, CallsTyped, CallStates, Gate!SetupLinux,
     Gate!Screen, Gate!world, Gate!backend, Gate!page, Gate!Occurs
<1>3. WslMutex' /\ Gate!ImportedOnce'
  BY ServicesAssumption DEF GateInv, Gate!TypeOK, CallsTyped, WslMutex, Gate!ImportedOnce,
     Gate!SetupLinux, Gate!Screen, Gate!world, Gate!backend, Gate!page, Gate!Occurs
<1>4. ReadyHasHandle'
  BY ServicesAssumption DEF GateInv, Gate!TypeOK, CallsTyped, ReadyHasHandle, Gate!SetupLinux,
     Gate!Screen, Gate!world, Gate!backend, Gate!page, Gate!Occurs
<1>5. Gate!LoadingIsBusy'
  BY ServicesAssumption DEF GateInv, Gate!TypeOK, CallsTyped, Gate!LoadingIsBusy, Gate!Loading,
     Gate!SetupLinux, Gate!Screen, Gate!world, Gate!backend, Gate!page, Gate!Occurs
<1>6. QED
  BY <1>1, <1>2, <1>3, <1>4, <1>5 DEF GateInv

LEMMA GateRetryStep ==
  ASSUME GateInv, Gate!Retry
  PROVE  GateInv'
<1>1. Gate!TypeOK'
  BY GateMachines, ServicesAssumption
  DEF GateInv, Gate!TypeOK, CallsTyped, Gate!Retry, Gate!world, Gate!backend, Gate!page, Gate!Occurs
<1>2. CallsTyped'
  BY ServicesAssumption DEF GateInv, Gate!TypeOK, CallsTyped, CallStates, Gate!Retry, Gate!world,
     Gate!backend, Gate!page, Gate!Occurs
<1>3. WslMutex' /\ Gate!ImportedOnce'
  BY ServicesAssumption DEF GateInv, Gate!TypeOK, CallsTyped, WslMutex, Gate!ImportedOnce,
     Gate!Retry, Gate!world, Gate!backend, Gate!page, Gate!Occurs
<1>4. ReadyHasHandle'
  BY ServicesAssumption DEF GateInv, Gate!TypeOK, CallsTyped, ReadyHasHandle, Gate!Retry,
     Gate!world, Gate!backend, Gate!page, Gate!Occurs
<1>5. Gate!LoadingIsBusy'
  BY ServicesAssumption DEF GateInv, Gate!TypeOK, CallsTyped, Gate!LoadingIsBusy, Gate!Loading,
     Gate!Retry, Gate!world, Gate!backend, Gate!page, Gate!Occurs
<1>6. QED
  BY <1>1, <1>2, <1>3, <1>4, <1>5 DEF GateInv

LEMMA GateEnableWslStep ==
  ASSUME GateInv, Gate!EnableWsl
  PROVE  GateInv'
<1>1. Gate!TypeOK'
  BY GateMachines, ServicesAssumption
  DEF GateInv, Gate!TypeOK, CallsTyped, Gate!EnableWsl, Gate!Enabled, Gate!world, Gate!backend,
     Gate!page, Gate!Occurs
<1>2. CallsTyped'
  BY ServicesAssumption DEF GateInv, Gate!TypeOK, CallsTyped, CallStates, Gate!EnableWsl,
     Gate!Enabled, Gate!world, Gate!backend, Gate!page, Gate!Occurs
<1>3. WslMutex' /\ Gate!ImportedOnce'
  BY ServicesAssumption DEF GateInv, Gate!TypeOK, CallsTyped, WslMutex, Gate!ImportedOnce,
     Gate!EnableWsl, Gate!Enabled, Gate!world, Gate!backend, Gate!page, Gate!Occurs
<1>4. ReadyHasHandle'
  BY ServicesAssumption DEF GateInv, Gate!TypeOK, CallsTyped, ReadyHasHandle, Gate!EnableWsl,
     Gate!Enabled, Gate!world, Gate!backend, Gate!page, Gate!Occurs
<1>5. Gate!LoadingIsBusy'
  BY ServicesAssumption DEF GateInv, Gate!TypeOK, CallsTyped, Gate!LoadingIsBusy, Gate!Loading,
     Gate!EnableWsl, Gate!Enabled, Gate!world, Gate!backend, Gate!page, Gate!Occurs
<1>6. QED
  BY <1>1, <1>2, <1>3, <1>4, <1>5 DEF GateInv

LEMMA GateReloadStep ==
  ASSUME GateInv, Gate!Reload
  PROVE  GateInv'
<1>1. /\ init' = [i \in Gate!Calls |-> [init[i] EXCEPT !.page = FALSE]]
      /\ starter' = IF starter = "page" THEN "setup" ELSE starter
      /\ phase' = "launching" /\ status' = "checking" /\ run' = "files"
      /\ UNCHANGED <<os, machine, distro, autoStart, up, runtime, report, lock, handle, vm>>
      /\ UNCHANGED launches
      /\ launchMishaps' = launchMishaps \cup {"reload"}
  BY DEF Gate!Reload, Gate!Load, Gate!world, Gate!Occurs
<1>2. \A i \in Gate!Calls : init'[i] \in CallStates /\ init'[i].at = init[i].at
  BY <1>1 DEF GateInv, CallsTyped, CallStates
<1>3. init' \in [Gate!Calls -> CallStates]
  BY <1>1, <1>2
<1>4. Gate!TypeOK' /\ CallsTyped' /\ Gate!LoadingIsBusy'
  BY <1>1, <1>3 DEF GateInv, Gate!TypeOK, CallsTyped, CallStates, Gate!LoadingIsBusy
<1>5. WslMutex' /\ Gate!ImportedOnce' /\ ReadyHasHandle'
  BY <1>1, <1>2 DEF GateInv, WslMutex, Gate!ImportedOnce, ReadyHasHandle
<1>6. QED
  BY <1>4, <1>5 DEF GateInv

LEMMA GateChangeMachineStep ==
  ASSUME GateInv, Gate!ChangeMachine
  PROVE  GateInv'
<1>1. Gate!TypeOK'
  BY GateMachines, ServicesAssumption
  DEF GateInv, Gate!TypeOK, CallsTyped, Gate!ChangeMachine, Gate!world, Gate!backend, Gate!page,
     Gate!Occurs
<1>2. CallsTyped'
  BY ServicesAssumption DEF GateInv, Gate!TypeOK, CallsTyped, CallStates, Gate!ChangeMachine,
     Gate!world, Gate!backend, Gate!page, Gate!Occurs
<1>3. WslMutex' /\ Gate!ImportedOnce'
  BY ServicesAssumption DEF GateInv, Gate!TypeOK, CallsTyped, WslMutex, Gate!ImportedOnce,
     Gate!ChangeMachine, Gate!world, Gate!backend, Gate!page, Gate!Occurs
<1>4. ReadyHasHandle'
  BY ServicesAssumption DEF GateInv, Gate!TypeOK, CallsTyped, ReadyHasHandle, Gate!ChangeMachine,
     Gate!world, Gate!backend, Gate!page, Gate!Occurs
<1>5. Gate!LoadingIsBusy'
  BY ServicesAssumption DEF GateInv, Gate!TypeOK, CallsTyped, Gate!LoadingIsBusy, Gate!Loading,
     Gate!ChangeMachine, Gate!world, Gate!backend, Gate!page, Gate!Occurs
<1>6. QED
  BY <1>1, <1>2, <1>3, <1>4, <1>5 DEF GateInv

\* A call of init_wsl that has no more to do ends, and says how.
LEMMA GateCallEnds ==
  ASSUME GateInv, NEW i \in Gate!Calls, NEW ok \in BOOLEAN, Gate!CallEnds(i, ok),
         UNCHANGED <<os, machine, autoStart, up, runtime, report, vm, starter, launches>>,
         lock' \in {lock, None}, lock' # lock => lock = i,
         handle' \in BOOLEAN, handle => handle', ok => handle',
         distro' = distro, handle' => distro \/ "removed" \in launchMishaps',
         "removed" \in launchMishaps => "removed" \in launchMishaps'
  PROVE  GateInv'
<1>1. /\ init' \in [Gate!Calls -> CallStates]
      /\ init'[i].at = "none" /\ \A j \in Gate!Calls \ {i} : init'[j] = init[j]
  BY CallEndsFacts
<1>2. /\ phase' \in {"launching", "ready"} /\ run' \in {"none", run}
      /\ phase' # phase => ok /\ phase' = "ready"
      /\ status' \in {status, "checking", "error"}
      /\ phase' = "launching" /\ status' \in Gate!Loading =>
           run' = run /\ status' = status /\ phase = "launching"
  BY CallEndsFacts
<1>3. Gate!TypeOK'
  BY <1>1, <1>2 DEF GateInv, Gate!TypeOK, CallStates
<1>4. CallsTyped' /\ Gate!LoadingIsBusy'
  BY <1>1, <1>2 DEF GateInv, CallsTyped, Gate!LoadingIsBusy
<1>5. WslMutex' /\ Gate!ImportedOnce'
  BY <1>1 DEF GateInv, WslMutex, Gate!ImportedOnce
<1>6. ReadyHasHandle'
  BY <1>2 DEF GateInv, ReadyHasHandle
<1>7. QED
  BY <1>3, <1>4, <1>5, <1>6 DEF GateInv

\* A call that goes on holds the mutex, alone.
LEMMA GateCallGoesOn ==
  ASSUME GateInv, NEW i \in Gate!Calls, NEW at \in {"import", "podman"},
         init' = [init EXCEPT ![i].at = at], lock' = i, lock \in {None, i},
         UNCHANGED <<os, machine, autoStart, up, runtime, report, handle, vm, starter, launches>>,
         UNCHANGED <<phase, status, run, launchMishaps>>,
         distro' \in BOOLEAN, distro => distro', at = "import" => ~distro'
  PROVE  GateInv'
<1>1. init \in [Gate!Calls -> CallStates] /\ init[i] \in CallStates
  BY DEF GateInv, CallsTyped
<1>2. [init[i] EXCEPT !.at = at] \in CallStates /\ [init[i] EXCEPT !.at = at].at = at
  BY <1>1 DEF CallStates
<1>3. /\ init' \in [Gate!Calls -> CallStates] /\ init'[i].at = at
      /\ \A j \in Gate!Calls \ {i} : init'[j] = init[j]
  BY <1>1, <1>2
<1>4. \A j \in Gate!Calls \ {i} : init[j].at \notin {"import", "podman"}
  BY ServicesAssumption DEF GateInv, WslMutex, Gate!Calls
<1>5. Gate!TypeOK'
  BY <1>3 DEF GateInv, Gate!TypeOK, CallStates
<1>6. CallsTyped' /\ Gate!LoadingIsBusy'
  BY <1>3 DEF GateInv, CallsTyped, Gate!LoadingIsBusy
<1>7. WslMutex' /\ Gate!ImportedOnce' /\ ReadyHasHandle'
  BY <1>3, <1>4 DEF GateInv, WslMutex, Gate!ImportedOnce, ReadyHasHandle
<1>8. QED
  BY <1>5, <1>6, <1>7 DEF GateInv

LEMMA GateTakeWslStep ==
  ASSUME GateInv, NEW i \in Gate!Calls, Gate!TakeWsl(i)
  PROVE  GateInv'
<1>1. /\ init[i].at = "wait" /\ lock = None
      /\ UNCHANGED <<os, machine, distro, autoStart, up, runtime, report, handle, vm, starter>>
      /\ UNCHANGED <<launches, launchMishaps>>
  BY DEF Gate!TakeWsl, Gate!world
<1>2. handle \in BOOLEAN /\ distro \in BOOLEAN /\ (handle => distro \/ "removed" \in launchMishaps)
  BY DEF GateInv, Gate!TypeOK, ReadyHasHandle
<1>3. CASE handle /\ Gate!CallEnds(i, TRUE) /\ UNCHANGED lock
  BY <1>1, <1>2, <1>3, GateCallEnds
<1>4. CASE ~handle /\ Gate!CallEnds(i, FALSE) /\ UNCHANGED lock
  BY <1>1, <1>2, <1>4, GateCallEnds
<1>5. CASE /\ lock' = i /\ init' = [init EXCEPT ![i].at = IF distro THEN "podman" ELSE "import"]
           /\ UNCHANGED Gate!page
  <2>1. UNCHANGED <<phase, status, run>>
    BY <1>5 DEF Gate!page
  <2>2. CASE distro
    BY <1>1, <1>2, <1>5, <2>1, <2>2, GateCallGoesOn
  <2>3. CASE ~distro
    BY <1>1, <1>2, <1>5, <2>1, <2>3, GateCallGoesOn
  <2>4. QED
    BY <2>2, <2>3
<1>6. QED
  BY <1>3, <1>4, <1>5 DEF Gate!TakeWsl

LEMMA GateInstallDistroStep ==
  ASSUME GateInv, NEW i \in Gate!Calls, Gate!InstallDistro(i)
  PROVE  GateInv'
<1>1. /\ init[i].at = "import"
      /\ UNCHANGED <<os, machine, autoStart, up, runtime, report, handle, vm, starter, launches>>
  BY DEF Gate!InstallDistro
<1>2. lock = i
  BY <1>1 DEF GateInv, WslMutex
<1>3. handle \in BOOLEAN /\ distro \in BOOLEAN /\ (handle => distro \/ "removed" \in launchMishaps)
  BY DEF GateInv, Gate!TypeOK, ReadyHasHandle
<1>4. CASE /\ ~distro /\ distro' = TRUE /\ init' = [init EXCEPT ![i].at = "podman"]
           /\ UNCHANGED <<lock, phase, status, run, launchMishaps>>
  BY <1>1, <1>2, <1>4, GateCallGoesOn
<1>5. CASE /\ (distro /\ UNCHANGED launchMishaps) \/ Gate!Occurs("fails")
           /\ lock' = None /\ Gate!CallEnds(i, FALSE) /\ UNCHANGED distro
  <2>1. "removed" \in launchMishaps => "removed" \in launchMishaps'
    BY <1>5, GateOccurs
  <2>2. QED
    BY <1>1, <1>2, <1>3, <1>5, <2>1, GateCallEnds
<1>6. QED
  BY <1>4, <1>5 DEF Gate!InstallDistro, Gate!page

LEMMA GateProbePodmanStep ==
  ASSUME GateInv, NEW i \in Gate!Calls, Gate!ProbePodman(i)
  PROVE  GateInv'
<1>1. /\ init[i].at = "podman" /\ lock' = None
      /\ UNCHANGED <<os, machine, distro, autoStart, up, runtime, report, vm, starter, launches>>
  BY DEF Gate!ProbePodman, Gate!world
<1>2. lock = i
  BY <1>1 DEF GateInv, WslMutex
<1>3. handle \in BOOLEAN /\ (handle => distro \/ "removed" \in launchMishaps)
  BY DEF GateInv, Gate!TypeOK, ReadyHasHandle
<1>4. CASE distro /\ handle' = TRUE /\ Gate!CallEnds(i, TRUE) /\ UNCHANGED launchMishaps
  BY <1>1, <1>2, <1>4, GateCallEnds
<1>5. CASE /\ (~distro /\ UNCHANGED launchMishaps) \/ Gate!Occurs("fails")
           /\ Gate!CallEnds(i, FALSE) /\ UNCHANGED handle
  <2>1. "removed" \in launchMishaps => "removed" \in launchMishaps'
    BY <1>5, GateOccurs
  <2>2. QED
    BY <1>1, <1>2, <1>3, <1>5, <2>1, GateCallEnds
<1>6. QED
  BY <1>4, <1>5 DEF Gate!ProbePodman

LEMMA StepGateInv == GateInv /\ [Gate!Next]_gateVars => GateInv'
<1>1. SUFFICES ASSUME GateInv, [Gate!Next]_gateVars
               PROVE  GateInv'
  OBVIOUS
<1>2. CASE UNCHANGED gateVars
  BY <1>1, <1>2
  DEF gateVars, GateInv, Gate!TypeOK, CallsTyped, WslMutex, Gate!ImportedOnce, ReadyHasHandle,
      Gate!LoadingIsBusy
<1>3. CASE \E i \in Gate!Calls : Gate!TakeWsl(i) \/ Gate!InstallDistro(i) \/ Gate!ProbePodman(i)
  BY <1>1, <1>3, GateTakeWslStep, GateInstallDistroStep, GateProbePodmanStep
<1>4. CASE Gate!Start \/ Gate!EmitReport \/ Gate!Exit \/ Gate!RebootWindows \/ Gate!VmStarts
  BY <1>1, <1>4, GateStartStep, GateEmitReportStep, GateExitStep, GateRebootWindowsStep,
     GateVmStartsStep
<1>5. CASE Gate!EnsureImage \/ Gate!CheckDataIntegrity \/ Gate!SetupWindows \/ Gate!SetupMacOS
  BY <1>1, <1>5, GateEnsureImageStep, GateCheckDataIntegrityStep, GateSetupWindowsStep,
     GateSetupMacOSStep
<1>6. CASE Gate!SetupLinux \/ Gate!Retry \/ Gate!EnableWsl \/ Gate!Reload \/ Gate!ChangeMachine
  BY <1>1, <1>6, GateSetupLinuxStep, GateRetryStep, GateEnableWslStep, GateReloadStep,
     GateChangeMachineStep
<1>7. QED
  BY <1>1, <1>2, <1>3, <1>4, <1>5, <1>6 DEF Gate!Next

LEMMA ServicesLeaveGate == [ServicesNext]_all => [Gate!Next]_gateVars
  BY DEF ServicesNext, all

\* On Windows the library opens over a distribution in which podman answered,
\* none is imported over one that is there, and a loading screen has something
\* under way, whatever fails and however often the page is loaded again.
THEOREM ServicesGateIsTrue == ServicesSpec => []GateIsTrue
<1>1. ServicesInit => GateInv
  BY InitGateInv DEF ServicesInit
<1>2. GateInv /\ [ServicesNext]_all => GateInv'
  BY StepGateInv, ServicesLeaveGate
<1>3. GateInv => GateIsTrue
  BY DEF GateInv, GateIsTrue, Gate!GateIsTrue, ReadyHasHandle, Gate!ReadyIsBacked
<1>4. QED
  BY <1>1, <1>2, <1>3, PTL DEF ServicesSpec

-----------------------------------------------------------------------------
Bytes == (1..MuxBytes) \cup {Mux!Magic, Mux!Ok, Mux!No}
Channel == [q : Seq(Bytes), shut : BOOLEAN, gone : BOOLEAN]
Ends == [sent : 0..MuxBytes, got : 0..MuxBytes, ended : BOOLEAN, seen : BOOLEAN, wrong : {FALSE}]

Size(c) == Len(chan[c].q)
ChanTyped == chan \in [Mux!Chans -> Channel] /\ \A c \in Mux!Chans : Size(c) <= MuxRoom + 1

MuxTyped ==
  /\ kind \in {"forward", "rpc"} /\ host \in {"accepted", "status", "copying", "done"}
  /\ agent \in {"none", "first", "port", "bridge", "copying", "done", "refused"}
  /\ cut \in BOOLEAN
  /\ ChanTyped
  /\ copying \in [Mux!Copies -> {"off", "on", "ended", "failed"}]
  /\ client \in Ends /\ service \in Ends

\* q holds the bytes that come after the first a.
After(a, q) == \A i \in 1..Len(q) : q[i] = a + i

Forwards == kind = "forward"
Runs(t) == copying[t] \in {"off", "on"}
AgentUp == agent \notin {"done", "refused"}

\* What a channel of the VM's socket holds besides the handshake.
UpBytes == IF Forwards /\ agent = "first" THEN <<>> ELSE chan["vu"].q
DownBytes == IF Forwards /\ host = "status" /\ chan["vd"].q # <<>> THEN Tail(chan["vd"].q)
  ELSE chan["vd"].q

\* The way from a channel on is open.
OpenVu == ~chan["su"].gone /\ AgentUp /\ Runs("agentUp")
OpenCu == OpenVu /\ Forwards /\ ~chan["vu"].gone /\ host # "done" /\ Runs("hostUp")
OpenVd == Forwards /\ ~chan["cd"].gone /\ host # "done" /\ Runs("hostDown")
OpenSd == (IF Forwards THEN OpenVd ELSE TRUE) /\ ~chan["vd"].gone /\ AgentUp /\ Runs("agentDown")

\* The last byte that has come as far as the end's own channel, and as far as
\* the socket's.
UpTo == service.got + Size("su")
UpOn == UpTo + Len(UpBytes)
DownTo == client.got + Size(Mux!In)
DownOn == IF Forwards THEN DownTo + Len(DownBytes) ELSE DownTo

\* The bytes of an open way are in order, none is missing up to what its end
\* has sent, and none is there twice.
UpFlows ==
  /\ After(service.got, chan["su"].q) /\ UpTo <= client.sent
  /\ OpenVu => After(UpTo, UpBytes) /\ UpOn <= client.sent
  /\ OpenVu /\ ~Forwards /\ ~chan["vu"].gone => UpOn = client.sent
  /\ OpenCu => After(UpOn, chan["cu"].q) /\ UpOn + Size("cu") = client.sent

DownFlows ==
  /\ After(client.got, chan[Mux!In].q) /\ DownTo <= service.sent
  /\ OpenVd => After(DownTo, DownBytes) /\ DownOn <= service.sent
  /\ OpenSd => After(DownOn, chan["sd"].q) /\ DownOn + Size("sd") = service.sent

Unserved == {"none", "first", "port", "bridge"}
\* How far the host and the guest are with the connection, and what the
\* channels may then hold: the handshake first, nothing before it is served.
MuxShape ==
  /\ Forwards => agent # "bridge" /\ (agent \in {"first", "port"} => host \in {"status", "done"})
  /\ Forwards => (agent = "none" => host \in {"accepted", "done"})
  /\ ~Forwards => host \in {"accepted", "copying"} /\ agent # "port"
       /\ copying["hostUp"] = "off" /\ copying["hostDown"] = "off"
  /\ host = "accepted" => agent = "none"
  /\ agent \in Unserved => ~chan["su"].gone /\ ~chan["su"].shut /\ ~chan["sd"].shut
       /\ chan["sd"].q = <<>> /\ chan["vd"].q = <<>>
  /\ agent \in {"none", "first", "port"} => chan["su"].q = <<>>
  /\ Forwards /\ agent \in {"none", "port"} => chan["vu"].q = <<>>
  /\ Forwards /\ agent = "first" => chan["vu"].q \in {<<>>, <<Mux!Magic>>}
  /\ host # "copying" => copying["hostUp"] = "off" /\ copying["hostDown"] = "off"
  /\ host = "copying" /\ Forwards => copying["hostUp"] # "off" /\ copying["hostDown"] # "off"
  /\ agent # "copying" => copying["agentUp"] = "off" /\ copying["agentDown"] = "off"
  /\ agent = "copying" => copying["agentUp"] # "off" /\ copying["agentDown"] # "off"
  /\ host = "status" /\ agent = "copying" /\ ~chan["vd"].gone => chan["vd"].q # <<>>

\* A direction whose copying has ended.
HostUpOver == Forwards /\ (copying["hostUp"] = "ended" \/ host = "done")
HostDownOver == Forwards /\ (copying["hostDown"] = "ended" \/ host = "done")
AgentUpOver == copying["agentUp"] = "ended" \/ agent = "done"
AgentDownOver == copying["agentDown"] = "ended" \/ agent = "done"

\* A connection that nothing cut: no copying fails, an end of a channel goes
\* only with its task, and a shut channel has everything of its end before it.
Uncut ==
  ~cut =>
    /\ agent # "refused" /\ \A t \in Mux!Copies : copying[t] # "failed"
    /\ chan["su"].gone \/ chan["sd"].gone => agent = "done"
    /\ chan["cu"].gone \/ chan["cd"].gone => Forwards /\ host = "done"
    /\ chan["vu"].gone \/ chan["vd"].gone => agent = "done" \/ (Forwards /\ host = "done")
    /\ host = "status" /\ agent \in {"copying", "done"}
         => chan["vd"].q # <<>> /\ Head(chan["vd"].q) = Mux!Ok

UncutUp ==
  ~cut =>
    /\ chan["su"].shut => client.ended /\ UpTo = client.sent
    /\ chan["vu"].shut /\ ~AgentUpOver => client.ended /\ UpOn = client.sent
    /\ Forwards /\ chan["vu"].shut => HostUpOver
    /\ ~Forwards /\ chan["vu"].shut => client.ended
    /\ Forwards /\ chan["cu"].shut => client.ended
    /\ HostUpOver => chan["vu"].shut /\ client.ended
    /\ AgentUpOver => chan["su"].shut /\ chan["vu"].shut

UncutDown ==
  ~cut =>
    /\ chan[Mux!In].shut => service.ended /\ DownTo = service.sent
    /\ Forwards /\ chan["vd"].shut /\ ~HostDownOver => service.ended /\ DownOn = service.sent
    /\ chan["vd"].shut => AgentDownOver
    /\ chan["sd"].shut => service.ended
    /\ AgentDownOver => chan["vd"].shut /\ service.ended
    /\ HostDownOver => chan["cd"].shut /\ chan["vd"].shut

MuxInv == MuxTyped /\ MuxShape /\ UpFlows /\ DownFlows /\ Uncut /\ UncutUp /\ UncutDown

LEMMA AfterEmpty == \A a : After(a, <<>>)
  BY DEF After

LEMMA AfterAppend ==
  ASSUME NEW a \in Nat, NEW q \in Seq(Bytes), After(a, q)
  PROVE  After(a, Append(q, a + Len(q) + 1))
<1>1. Len(Append(q, a + Len(q) + 1)) = Len(q) + 1
  OBVIOUS
<1>2. \A i \in 1..(Len(q) + 1) : Append(q, a + Len(q) + 1)[i] = IF i <= Len(q) THEN q[i]
          ELSE a + Len(q) + 1
  OBVIOUS
<1>3. \A i \in 1..(Len(q) + 1) : i <= Len(q) \/ i = Len(q) + 1
  OBVIOUS
<1>4. QED
  BY <1>1, <1>2, <1>3 DEF After

LEMMA AfterTail ==
  ASSUME NEW a \in Nat, NEW q \in Seq(Bytes), After(a, q), q # <<>>
  PROVE  Head(q) = a + 1 /\ After(a + 1, Tail(q)) /\ Len(Tail(q)) = Len(q) - 1
<1>1. Len(q) > 0 /\ Len(Tail(q)) = Len(q) - 1 /\ Head(q) = q[1]
  OBVIOUS
<1>2. \A i \in 1..(Len(q) - 1) : Tail(q)[i] = q[i + 1]
  BY <1>1
<1>3. \A i \in 1..(Len(q) - 1) : i + 1 \in 1..Len(q) /\ a + (i + 1) = (a + 1) + i
  BY <1>1
<1>4. QED
  BY <1>1, <1>2, <1>3 DEF After

LEMMA QueueTypes ==
  ASSUME NEW q \in Seq(Bytes)
  PROVE  /\ Len(q) \in Nat /\ (q = <<>> <=> Len(q) = 0)
         /\ \A b \in Bytes : Append(q, b) \in Seq(Bytes) /\ Len(Append(q, b)) = Len(q) + 1
              /\ Append(q, b) # <<>>
         /\ q # <<>> => Head(q) \in Bytes /\ Tail(q) \in Seq(Bytes) /\ Len(Tail(q)) = Len(q) - 1
  OBVIOUS

KeepsEnds(c) == chan'[c].shut = chan[c].shut /\ chan'[c].gone = chan[c].gone
Keeps(c) == chan'[c].q = chan[c].q /\ KeepsEnds(c)

LEMMA ChanFields ==
  ASSUME ChanTyped, NEW c \in Mux!Chans
  PROVE  /\ chan[c] \in Channel /\ chan[c].q \in Seq(Bytes) /\ chan[c].shut \in BOOLEAN
         /\ chan[c].gone \in BOOLEAN
         /\ Size(c) \in Nat /\ (chan[c].q = <<>> <=> Size(c) = 0) /\ Size(c) <= MuxRoom + 1
  BY QueueTypes DEF ChanTyped, Channel, Size

LEMMA ChanSame ==
  ASSUME ChanTyped, chan' = chan
  PROVE  ChanTyped' /\ \A c \in Mux!Chans : Keeps(c) /\ Size(c)' = Size(c)
  BY DEF ChanTyped, Keeps, KeepsEnds, Size

LEMMA ChanOthers ==
  ASSUME MuxAssumption, ChanTyped, NEW s \in Mux!Chans, NEW ch \in Channel,
         chan' = [chan EXCEPT ![s] = ch],
         Len(ch.q) <= MuxRoom + 1
  PROVE  ChanTyped' /\ chan'[s] = ch /\ \A c \in Mux!Chans \ {s} : Keeps(c) /\ Size(c)' = Size(c)
<1>1. chan' \in [Mux!Chans -> Channel] /\ chan'[s] = ch
          /\ \A c \in Mux!Chans \ {s} : chan'[c] = chan[c]
  BY DEF ChanTyped
<1>2. \A c \in Mux!Chans : Len(chan'[c].q) <= MuxRoom + 1
  BY <1>1 DEF ChanTyped, Size
<1>3. QED
  BY <1>1, <1>2 DEF ChanTyped, Size, Keeps, KeepsEnds

LEMMA ChanPut ==
  ASSUME MuxAssumption, ChanTyped, NEW s \in Mux!Chans, NEW b \in Bytes, Size(s) <= MuxRoom,
         chan' = Mux!Put(s, b)
  PROVE  /\ ChanTyped' /\ KeepsEnds(s) /\ \A c \in Mux!Chans \ {s} : Keeps(c) /\ Size(c)' = Size(c)
         /\ chan'[s].q = Append(chan[s].q, b) /\ Size(s)' = Size(s) + 1 /\ chan'[s].q # <<>>
<1>1. /\ chan[s] \in Channel /\ chan[s].q \in Seq(Bytes) /\ Append(chan[s].q, b) \in Seq(Bytes)
      /\ Len(Append(chan[s].q, b)) = Size(s) + 1 /\ Append(chan[s].q, b) # <<>> /\ Size(s) \in Nat
  BY ChanFields, QueueTypes DEF Size
<1> DEFINE ch == [chan[s] EXCEPT !.q = Append(@, b)]
<1>2. /\ ch \in Channel /\ ch.q = Append(chan[s].q, b) /\ ch.shut = chan[s].shut
      /\ ch.gone = chan[s].gone
      /\ chan' = [chan EXCEPT ![s] = ch]
  BY <1>1 DEF Channel, Mux!Put
<1>3. Len(ch.q) <= MuxRoom + 1
  BY <1>1, <1>2, MuxAssumption
<1> HIDE DEF ch
<1>4. QED
  BY <1>1, <1>2, <1>3, ChanOthers DEF KeepsEnds, Size

LEMMA ChanTake ==
  ASSUME MuxAssumption, ChanTyped, NEW s \in Mux!Chans, chan[s].q # <<>>,
         chan' = [chan EXCEPT ![s].q = Tail(@)]
  PROVE  /\ ChanTyped' /\ KeepsEnds(s) /\ \A c \in Mux!Chans \ {s} : Keeps(c) /\ Size(c)' = Size(c)
         /\ chan'[s].q = Tail(chan[s].q) /\ Size(s)' = Size(s) - 1
<1>1. /\ chan[s] \in Channel /\ chan[s].q \in Seq(Bytes) /\ Tail(chan[s].q) \in Seq(Bytes)
      /\ Len(Tail(chan[s].q)) = Size(s) - 1 /\ Size(s) \in Nat /\ Size(s) <= MuxRoom + 1
  BY ChanFields, QueueTypes DEF Size
<1> DEFINE ch == [chan[s] EXCEPT !.q = Tail(@)]
<1>2. /\ ch \in Channel /\ ch.q = Tail(chan[s].q) /\ ch.shut = chan[s].shut
      /\ ch.gone = chan[s].gone
      /\ chan' = [chan EXCEPT ![s] = ch]
  BY <1>1 DEF Channel
<1>3. Len(ch.q) <= MuxRoom + 1
  BY <1>1, <1>2, MuxAssumption
<1> HIDE DEF ch
<1>4. QED
  BY <1>1, <1>2, <1>3, ChanOthers DEF KeepsEnds, Size

LEMMA ChanShut ==
  ASSUME MuxAssumption, ChanTyped, NEW s \in Mux!Chans, chan' = [chan EXCEPT ![s].shut = TRUE]
  PROVE  /\ ChanTyped' /\ \A c \in Mux!Chans \ {s} : Keeps(c) /\ Size(c)' = Size(c)
         /\ chan'[s].q = chan[s].q /\ Size(s)' = Size(s) /\ chan'[s].shut
         /\ chan'[s].gone = chan[s].gone
<1>1. chan[s] \in Channel /\ Size(s) <= MuxRoom + 1
  BY ChanFields
<1> DEFINE ch == [chan[s] EXCEPT !.shut = TRUE]
<1>2. /\ ch \in Channel /\ ch.q = chan[s].q /\ ch.shut /\ ch.gone = chan[s].gone
      /\ chan' = [chan EXCEPT ![s] = ch]
  BY <1>1 DEF Channel
<1> HIDE DEF ch
<1>3. QED
  BY <1>1, <1>2, ChanOthers DEF Size

LEMMA ChanClosed ==
  ASSUME ChanTyped, NEW cs \in SUBSET Mux!Chans, chan' = Mux!Closed(cs)
  PROVE  /\ ChanTyped' /\ \A c \in Mux!Chans \ cs : Keeps(c)
         /\ \A c \in cs : chan'[c].q = chan[c].q /\ chan'[c].shut /\ chan'[c].gone
         /\ \A c \in Mux!Chans : Size(c)' = Size(c)
<1>1. chan' \in [Mux!Chans -> Channel]
  BY DEF Mux!Closed, ChanTyped, Channel
<1>2. /\ \A c \in Mux!Chans \ cs : chan'[c] = chan[c]
      /\ \A c \in cs : chan'[c].q = chan[c].q /\ chan'[c].shut /\ chan'[c].gone
  BY DEF Mux!Closed, ChanTyped, Channel
<1>3. \A c \in Mux!Chans : chan'[c].q = chan[c].q
  BY <1>2
<1>4. QED
  BY <1>1, <1>2, <1>3 DEF ChanTyped, Size, Keeps, KeepsEnds

LEMMA ChanMoved ==
  ASSUME MuxAssumption, ChanTyped, NEW s \in Mux!Chans, NEW d \in Mux!Chans, s # d,
         chan[s].q # <<>>, Size(d) <= MuxRoom,
         chan' = [chan EXCEPT ![s].q = Tail(@), ![d].q = Append(@, Head(chan[s].q))]
  PROVE  /\ ChanTyped' /\ KeepsEnds(s) /\ KeepsEnds(d)
              /\ \A c \in Mux!Chans \ {s, d} : Keeps(c) /\ Size(c)' = Size(c)
         /\ chan'[s].q = Tail(chan[s].q) /\ Size(s)' = Size(s) - 1
         /\ chan'[d].q = Append(chan[d].q, Head(chan[s].q)) /\ Size(d)' = Size(d) + 1
<1>1. /\ chan[s] \in Channel /\ chan[s].q \in Seq(Bytes) /\ Tail(chan[s].q) \in Seq(Bytes)
      /\ Head(chan[s].q) \in Bytes
      /\ Len(Tail(chan[s].q)) = Size(s) - 1 /\ Size(s) \in Nat /\ Size(s) <= MuxRoom + 1
  BY ChanFields, QueueTypes DEF Size
<1>2. /\ chan[d] \in Channel /\ chan[d].q \in Seq(Bytes)
      /\ Append(chan[d].q, Head(chan[s].q)) \in Seq(Bytes)
      /\ Len(Append(chan[d].q, Head(chan[s].q))) = Size(d) + 1 /\ Size(d) \in Nat
  BY <1>1, ChanFields, QueueTypes DEF Size
<1> DEFINE ch == [chan[s] EXCEPT !.q = Tail(@)]
           dh == [chan[d] EXCEPT !.q = Append(@, Head(chan[s].q))]
<1>3. /\ ch \in Channel /\ ch.q = Tail(chan[s].q) /\ ch.shut = chan[s].shut
      /\ ch.gone = chan[s].gone
      /\ dh \in Channel /\ dh.q = Append(chan[d].q, Head(chan[s].q)) /\ dh.shut = chan[d].shut
      /\ dh.gone = chan[d].gone
  BY <1>1, <1>2 DEF Channel
<1>4. chan' = [chan EXCEPT ![s] = ch, ![d] = dh]
  BY DEF ChanTyped
<1> HIDE DEF ch, dh
<1>5. chan' \in [Mux!Chans -> Channel] /\ chan'[s] = ch /\ chan'[d] = dh
          /\ \A c \in Mux!Chans \ {s, d} : chan'[c] = chan[c]
  BY <1>3, <1>4 DEF ChanTyped
<1>6. Len(ch.q) <= MuxRoom + 1 /\ Len(dh.q) <= MuxRoom + 1
  BY <1>1, <1>2, <1>3, MuxAssumption
<1>7. \A c \in Mux!Chans : Len(chan'[c].q) <= MuxRoom + 1
  BY <1>5, <1>6 DEF ChanTyped, Size
<1>8. Len(chan'[s].q) = Size(s) - 1 /\ Len(chan'[d].q) = Size(d) + 1
  BY <1>1, <1>2, <1>3, <1>5
<1>9. QED
  BY <1>1, <1>2, <1>3, <1>5, <1>7, <1>8 DEF ChanTyped, Size, Keeps, KeepsEnds

LEMMA UpStays ==
  ASSUME MuxTyped, UpFlows, kind' = kind, service'.got = service.got, client'.sent = client.sent,
         chan'["su"].q = chan["su"].q,
         OpenVu' => OpenVu /\ (UpBytes' = UpBytes \/ (UpBytes' = <<>> /\ chan'["vu"].gone)),
         chan["vu"].gone => chan'["vu"].gone,
         OpenCu' => OpenCu /\ chan'["cu"].q = chan["cu"].q
  PROVE  UpFlows' /\ UpTo' = UpTo
<1>1. UpTo' = UpTo /\ UpTo \in Nat /\ client.sent \in Nat
  <2>1. service.got \in Nat /\ Size("su") \in Nat /\ client.sent \in Nat
    BY ChanFields DEF MuxTyped, Ends, Mux!Chans
  <2>2. QED
    BY <2>1 DEF UpTo, Size
<1>2. OpenVu' => After(UpTo, UpBytes') /\ UpOn' <= client.sent
  <2>1. CASE UpBytes' = UpBytes
    BY <1>1, <2>1 DEF UpFlows, UpOn
  <2>2. CASE UpBytes' = <<>>
    <3>1. UpOn' = UpTo
      BY <1>1, <2>2 DEF UpOn
    <3>2. QED
      BY <1>1, <2>2, <3>1, AfterEmpty DEF UpFlows
  <2>3. QED
    BY <2>1, <2>2
<1>3. OpenVu' /\ ~chan'["vu"].gone => UpOn' = UpOn
  BY <1>1 DEF UpOn
<1>4. OpenVu' /\ ~Forwards' /\ ~chan'["vu"].gone => UpOn' = client'.sent
  BY <1>3 DEF UpFlows, Forwards
<1>5. OpenCu' => After(UpOn', chan'["cu"].q) /\ UpOn' + Size("cu")' = client'.sent
  <2>1. OpenCu' => OpenVu' /\ ~chan'["vu"].gone
    BY DEF OpenCu
  <2>2. QED
    BY <1>3, <2>1 DEF UpFlows, Size
<1>6. After(service'.got, chan'["su"].q) /\ UpTo' <= client'.sent
  BY <1>1 DEF UpFlows
<1>7. QED
  BY <1>1, <1>2, <1>4, <1>5, <1>6 DEF UpFlows

LEMMA DownStays ==
  ASSUME MuxTyped, DownFlows, kind' = kind, client'.got = client.got, service'.sent = service.sent,
         chan'[Mux!In].q = chan[Mux!In].q,
         OpenVd' => OpenVd /\ (DownBytes' = DownBytes \/ (DownBytes' = <<>> /\ chan'["vd"].gone)),
         OpenSd' => OpenSd /\ ~chan'["vd"].gone /\ chan'["sd"].q = chan["sd"].q
  PROVE  DownFlows' /\ DownTo' = DownTo
<1>1. Mux!In' = Mux!In /\ Mux!In \in Mux!Chans
  BY DEF Mux!In, Mux!Chans
<1>2. DownTo' = DownTo /\ DownTo \in Nat /\ service.sent \in Nat
  <2>1. client.got \in Nat /\ Size(Mux!In) \in Nat /\ service.sent \in Nat
    BY <1>1, ChanFields DEF MuxTyped, Ends
  <2>2. QED
    BY <1>1, <2>1 DEF DownTo, Size
<1>3. OpenVd' => After(DownTo, DownBytes') /\ DownOn' <= service.sent
  <2>1. CASE OpenVd' /\ DownBytes' = DownBytes
    BY <1>2, <2>1 DEF DownFlows, DownOn, Forwards
  <2>2. CASE OpenVd' /\ DownBytes' = <<>>
    <3>1. DownOn' = DownTo
      BY <1>2, <2>2 DEF DownOn
    <3>2. QED
      BY <1>2, <2>2, <3>1, AfterEmpty DEF DownFlows
  <2>3. QED
    BY <2>1, <2>2
<1>4. OpenSd' => OpenSd /\ DownOn' = DownOn
  <2>1. CASE OpenSd' /\ Forwards
    <3>1. DownBytes' = DownBytes
      BY <2>1 DEF OpenSd, OpenVd, Forwards
    <3>2. QED
      BY <1>2, <2>1, <3>1 DEF DownOn, Forwards
  <2>2. CASE OpenSd' /\ ~Forwards
    BY <1>2, <2>2 DEF DownOn, Forwards
  <2>3. QED
    BY <2>1, <2>2
<1>5. OpenSd' => After(DownOn', chan'["sd"].q) /\ DownOn' + Size("sd")' = service'.sent
  BY <1>4 DEF DownFlows, Size
<1>6. After(client'.got, chan'[Mux!In'].q) /\ DownTo' <= service'.sent
  BY <1>1, <1>2 DEF DownFlows
<1>7. OpenVd' => After(DownTo', DownBytes') /\ DownOn' <= service'.sent
  BY <1>2, <1>3
<1>8. QED
  BY <1>2, <1>5, <1>6, <1>7 DEF DownFlows

LEMMA UpNext ==
  ASSUME MuxTyped, UpFlows, OpenVu, UpBytes # <<>>, UpBytes \in Seq(Bytes)
  PROVE  /\ Head(UpBytes) = UpTo + 1 /\ After(UpTo + 1, Tail(UpBytes))
         /\ Len(Tail(UpBytes)) = Len(UpBytes) - 1
         /\ UpTo \in Nat /\ UpTo + 1 <= client.sent
<1>1. service.got \in Nat /\ Size("su") \in Nat /\ client.sent \in Nat
  BY ChanFields DEF MuxTyped, Ends, Mux!Chans
<1>2. UpTo \in Nat
  BY <1>1 DEF UpTo
<1>3. /\ Head(UpBytes) = UpTo + 1 /\ After(UpTo + 1, Tail(UpBytes))
      /\ Len(Tail(UpBytes)) = Len(UpBytes) - 1
      /\ Len(UpBytes) \in Nat /\ Len(UpBytes) > 0
  <2>1. After(UpTo, UpBytes)
    BY DEF UpFlows
  <2>2. Len(UpBytes) \in Nat /\ Len(UpBytes) > 0
    BY QueueTypes
  <2>3. QED
    BY <1>2, <2>1, <2>2, AfterTail
<1>4. UpTo + Len(UpBytes) <= client.sent
  BY DEF UpFlows, UpOn
<1>5. QED
  BY <1>1, <1>2, <1>3, <1>4

LEMMA UpMoved ==
  ASSUME MuxTyped, UpFlows, OpenVu, UpBytes = chan["vu"].q, chan["vu"].q # <<>>,
         UpBytes' = Tail(chan["vu"].q),
         chan'["su"].q = Append(chan["su"].q, Head(chan["vu"].q)), Size("su")' = Size("su") + 1,
         kind' = kind, service' = service, client' = client, chan'["vu"].gone = chan["vu"].gone,
         OpenCu' => OpenCu, chan'["cu"].q = chan["cu"].q
  PROVE  /\ UpFlows' /\ UpTo' = UpTo + 1 /\ UpTo + 1 <= client.sent /\ UpTo \in Nat
         /\ client.sent \in Nat /\ UpOn' = UpOn
<1>1. /\ chan["vu"].q \in Seq(Bytes) /\ chan["su"].q \in Seq(Bytes) /\ service.got \in Nat
      /\ Size("su") \in Nat
      /\ client.sent \in Nat /\ Len(chan["vu"].q) \in Nat
  BY ChanFields, QueueTypes DEF MuxTyped, Ends, Mux!Chans
<1>2. /\ Head(chan["vu"].q) = UpTo + 1 /\ After(UpTo + 1, Tail(chan["vu"].q))
      /\ Len(Tail(chan["vu"].q)) = Len(chan["vu"].q) - 1 /\ UpTo \in Nat /\ UpTo + 1 <= client.sent
  BY <1>1, UpNext
<1>3. UpTo' = UpTo + 1
  <2>1. service'.got = service.got /\ Size("su")' = Size("su") + 1
    OBVIOUS
  <2>2. service.got \in Nat /\ Size("su") \in Nat
    BY <1>1
  <2>3. QED
    BY ONLY <2>1, <2>2 DEF UpTo
<1>4. After(service.got, Append(chan["su"].q, Head(chan["vu"].q)))
  BY <1>1, <1>2, AfterAppend DEF UpFlows, UpTo, Size
<1>5. Len(UpBytes') = Len(chan["vu"].q) - 1
  BY <1>2
<1>6. UpOn' = UpOn
  <2>1. UpOn' = (UpTo + 1) + Len(UpBytes') /\ UpOn = UpTo + Len(UpBytes)
    BY <1>3 DEF UpOn
  <2>2. Len(UpBytes') = Len(UpBytes) - 1 /\ Len(UpBytes) \in Nat
    BY <1>1, <1>5
  <2>3. UpTo \in Nat
    BY <1>2
  <2>4. (UpTo + 1) + (Len(UpBytes) - 1) = UpTo + Len(UpBytes)
    BY ONLY <2>2, <2>3
  <2>5. QED
    BY ONLY <2>1, <2>2, <2>4
<1>7. After(UpTo', UpBytes') /\ UpOn' <= client.sent
  BY <1>2, <1>3, <1>6 DEF UpFlows
<1>8. QED
  BY <1>2, <1>1, <1>3, <1>4, <1>6, <1>7 DEF UpFlows, Size, Forwards

LEMMA UpEntered ==
  ASSUME MuxTyped, UpFlows, kind' = kind, service' = service, client' = client, chan["cu"].q # <<>>,
         Forwards,
         chan'["su"].q = chan["su"].q, OpenVu' => OpenVu, OpenCu' => OpenCu,
         OpenVu /\ ~chan["vu"].gone => OpenCu,
         ~chan["vu"].gone,
         UpBytes = chan["vu"].q, UpBytes' = Append(chan["vu"].q, Head(chan["cu"].q)),
         chan'["cu"].q = Tail(chan["cu"].q)
  PROVE  UpFlows' /\ UpTo' = UpTo
<1>1. /\ chan["vu"].q \in Seq(Bytes) /\ chan["cu"].q \in Seq(Bytes) /\ service.got \in Nat
      /\ Size("su") \in Nat
      /\ client.sent \in Nat /\ Len(chan["vu"].q) \in Nat /\ Size("cu") \in Nat
      /\ Size("cu") = Len(chan["cu"].q)
      /\ Head(chan["cu"].q) \in Bytes
  BY ChanFields, QueueTypes DEF MuxTyped, Ends, Mux!Chans, Size
<1>2. UpTo' = UpTo /\ UpTo \in Nat
  BY <1>1 DEF UpTo, Size
<1>3. After(service'.got, chan'["su"].q) /\ UpTo' <= client'.sent
  BY <1>2 DEF UpFlows
<1>4. CASE ~OpenVu
  <2>1. ~OpenVu' /\ ~OpenCu'
    BY <1>4 DEF OpenCu
  <2>2. QED
    BY <1>2, <1>3, <2>1 DEF UpFlows
<1>5. CASE OpenVu
  <2>1. /\ After(UpTo, chan["vu"].q) /\ After(UpOn, chan["cu"].q)
        /\ UpOn + Len(chan["cu"].q) = client.sent
        /\ UpOn = UpTo + Len(chan["vu"].q) /\ UpOn \in Nat
    BY <1>1, <1>2, <1>5 DEF UpFlows, UpOn
  <2>2. /\ Head(chan["cu"].q) = UpOn + 1 /\ After(UpOn + 1, Tail(chan["cu"].q))
        /\ Len(Tail(chan["cu"].q)) = Len(chan["cu"].q) - 1
    BY <1>1, <2>1, AfterTail
  <2>3. After(UpTo, UpBytes') /\ Len(UpBytes') = Len(chan["vu"].q) + 1
    BY <1>1, <1>2, <2>1, <2>2, AfterAppend, QueueTypes
  <2>4. UpOn' = UpOn + 1
    <3>1. UpOn' = UpTo + (Len(chan["vu"].q) + 1)
      BY <1>2, <2>3 DEF UpOn
    <3>2. QED
      BY <1>1, <1>2, <2>1, <3>1
  <2>5. Size("cu")' = Len(chan["cu"].q) - 1
    BY <2>2 DEF Size
  <2>6. Len(chan["cu"].q) \in Nat /\ Len(chan["cu"].q) > 0
    BY <1>1, QueueTypes
  <2>7. UpOn' + Size("cu")' = client.sent /\ UpOn' <= client.sent
    BY ONLY <2>1, <2>4, <2>5, <2>6
  <2>8. QED
    BY <1>2, <1>3, <2>2, <2>3, <2>4, <2>7 DEF UpFlows, Forwards
<1>6. QED
  BY <1>4, <1>5

LEMMA DownMoved ==
  ASSUME MuxTyped, DownFlows, OpenVd, Forwards, DownBytes = chan["vd"].q, chan["vd"].q # <<>>,
         DownBytes' = Tail(chan["vd"].q),
         chan'["cd"].q = Append(chan["cd"].q, Head(chan["vd"].q)), Size("cd")' = Size("cd") + 1,
         kind' = kind, service' = service, client' = client,
         OpenSd' => OpenSd, chan'["sd"].q = chan["sd"].q
  PROVE  /\ DownFlows' /\ DownTo' = DownTo + 1 /\ DownTo + 1 <= service.sent /\ DownTo \in Nat
         /\ service.sent \in Nat /\ DownOn' = DownOn
<1>1. Mux!In = "cd" /\ Mux!In' = "cd"
  BY DEF Forwards, Mux!In
<1>2. /\ chan["vd"].q \in Seq(Bytes) /\ chan["cd"].q \in Seq(Bytes) /\ client.got \in Nat
      /\ Size("cd") \in Nat
      /\ service.sent \in Nat /\ Len(chan["vd"].q) \in Nat /\ Len(chan["vd"].q) > 0
  BY ChanFields, QueueTypes DEF MuxTyped, Ends, Mux!Chans
<1>3. DownTo = client.got + Size("cd") /\ DownTo \in Nat
  BY <1>1, <1>2 DEF DownTo
<1>4. /\ After(client.got, chan["cd"].q) /\ After(DownTo, chan["vd"].q) /\ DownOn <= service.sent
      /\ DownOn = DownTo + Len(chan["vd"].q)
  BY <1>1, <1>3 DEF DownFlows, DownOn
<1>5. /\ Head(chan["vd"].q) = DownTo + 1 /\ After(DownTo + 1, Tail(chan["vd"].q))
      /\ Len(Tail(chan["vd"].q)) = Len(chan["vd"].q) - 1
  BY <1>2, <1>3, <1>4, AfterTail
<1>6. DownTo + 1 <= service.sent
  BY ONLY <1>2, <1>3, <1>4
<1>7. DownTo' = DownTo + 1
  BY <1>1, <1>2, <1>3 DEF DownTo
<1>8. After(client.got, Append(chan["cd"].q, Head(chan["vd"].q)))
  BY <1>2, <1>3, <1>4, <1>5, AfterAppend DEF Size
<1>9. DownOn' = DownOn
  <2>1. DownOn' = DownTo + 1 + Len(DownBytes')
    BY <1>7 DEF DownOn, Forwards
  <2>2. Len(DownBytes') = Len(chan["vd"].q) - 1
    BY <1>5
  <2>3. QED
    BY ONLY <1>2, <1>3, <1>4, <2>1, <2>2
<1>10. After(DownTo', DownBytes') /\ DownOn' <= service.sent
  BY <1>4, <1>5, <1>7, <1>9
<1>11. QED
  BY <1>1, <1>2, <1>3, <1>4, <1>5, <1>6, <1>7, <1>8, <1>9, <1>10 DEF DownFlows, Size

LEMMA DownEntered ==
  ASSUME MuxTyped, DownFlows, kind' = kind, service' = service, client' = client,
         chan["sd"].q # <<>>, Forwards,
         chan'["cd"].q = chan["cd"].q, OpenVd' => OpenVd, OpenSd' => OpenSd, OpenVd => OpenSd,
         DownBytes' = Append(DownBytes, Head(chan["sd"].q)), DownBytes \in Seq(Bytes),
         chan'["sd"].q = Tail(chan["sd"].q)
  PROVE  DownFlows' /\ DownTo' = DownTo
<1>1. Mux!In = "cd" /\ Mux!In' = "cd"
  BY DEF Forwards, Mux!In
<1>2. /\ chan["sd"].q \in Seq(Bytes) /\ client.got \in Nat /\ Size("cd") \in Nat
      /\ service.sent \in Nat /\ Len(DownBytes) \in Nat /\ Size("sd") = Len(chan["sd"].q)
      /\ Head(chan["sd"].q) \in Bytes /\ Len(chan["sd"].q) \in Nat /\ Len(chan["sd"].q) > 0
  BY ChanFields, QueueTypes DEF MuxTyped, Ends, Mux!Chans, Size
<1>3. DownTo' = DownTo /\ DownTo \in Nat
  BY <1>1, <1>2 DEF DownTo, Size
<1>4. After(client'.got, chan'[Mux!In'].q) /\ DownTo' <= service'.sent
  BY <1>1, <1>3 DEF DownFlows
<1>5. CASE ~OpenVd
  <2>1. ~OpenVd' /\ ~OpenSd'
    BY <1>5 DEF OpenSd, Forwards
  <2>2. QED
    BY <1>3, <1>4, <2>1 DEF DownFlows
<1>6. CASE OpenVd
  <2>1. /\ After(DownTo, DownBytes) /\ After(DownOn, chan["sd"].q)
        /\ DownOn + Len(chan["sd"].q) = service.sent
        /\ DownOn = DownTo + Len(DownBytes) /\ DownOn \in Nat
    BY <1>2, <1>3, <1>6 DEF DownFlows, DownOn
  <2>2. /\ Head(chan["sd"].q) = DownOn + 1 /\ After(DownOn + 1, Tail(chan["sd"].q))
        /\ Len(Tail(chan["sd"].q)) = Len(chan["sd"].q) - 1
    BY <1>2, <2>1, AfterTail
  <2>3. After(DownTo, DownBytes') /\ Len(DownBytes') = Len(DownBytes) + 1
    BY <1>2, <1>3, <2>1, <2>2, AfterAppend, QueueTypes
  <2>4. DownOn' = DownOn + 1
    <3>1. DownOn' = DownTo + (Len(DownBytes) + 1)
      BY <1>3, <2>3 DEF DownOn, Forwards
    <3>2. QED
      BY <1>2, <1>3, <2>1, <3>1
  <2>5. Size("sd")' = Len(chan["sd"].q) - 1
    BY <2>2 DEF Size
  <2>7. DownOn' + Size("sd")' = service.sent /\ DownOn' <= service.sent
    BY ONLY <1>2, <2>1, <2>4, <2>5
  <2>8. QED
    BY <1>3, <1>4, <2>2, <2>3, <2>4, <2>7 DEF DownFlows
<1>7. QED
  BY <1>5, <1>6

LEMMA ConnectRpc ==
  ASSUME MuxAssumption, MuxInv, Mux!Connect, kind = "rpc"
  PROVE  MuxInv'
<1>1. /\ host = "accepted" /\ host' = "copying" /\ agent' = "first"
      /\ UNCHANGED <<kind, cut, chan, copying, client, service>>
  BY DEF Mux!Connect
<1>2. MuxTyped /\ ChanTyped /\ MuxShape /\ UpFlows /\ DownFlows /\ Uncut /\ UncutUp /\ UncutDown
  BY DEF MuxInv, MuxTyped
<1>3. kind = "rpc" /\ kind' = "rpc" /\ Mux!In = "vd" /\ Mux!In' = "vd"
  BY <1>1, <1>2 DEF MuxTyped, MuxShape, Forwards, Mux!In, Unserved
<1>4. /\ ChanTyped'
      /\ Keeps("cu") /\ Keeps("vu") /\ Keeps("su") /\ Keeps("sd") /\ Keeps("vd") /\ Keeps("cd")
      /\ Size("cu")' = Size("cu") /\ Size("vu")' = Size("vu") /\ Size("su")' = Size("su")
      /\ Size("sd")' = Size("sd") /\ Size("vd")' = Size("vd") /\ Size("cd")' = Size("cd")
  BY <1>1, <1>2, ChanSame DEF Mux!Chans
<1>5. MuxTyped'
  BY <1>1, <1>2, <1>4, <1>3 DEF MuxTyped
<1>6. MuxShape'
  BY <1>1, <1>2, <1>4, <1>3 DEF MuxShape, Forwards, Unserved, KeepsEnds, Keeps
<1>7. UpFlows' /\ UpTo' = UpTo
  BY <1>1, <1>2, <1>4, UpStays, <1>3 DEF OpenVu, OpenCu, UpBytes, Forwards, Runs, AgentUp,
     KeepsEnds, Keeps, Size, MuxShape, Unserved
<1>8. DownFlows' /\ DownTo' = DownTo
  BY <1>1, <1>2, <1>4, DownStays, <1>3 DEF OpenVd, OpenSd, DownBytes, Forwards, Runs, AgentUp,
     KeepsEnds, Keeps, Size, MuxShape, Unserved
<1>9. Uncut'
  BY <1>1, <1>2, <1>4, <1>3 DEF Uncut, Forwards, Mux!Copies, KeepsEnds, Keeps, MuxShape, Unserved
<1>10. UncutUp'
  BY <1>1, <1>2, <1>4, <1>7, <1>3 DEF UncutUp, Forwards, HostUpOver, AgentUpOver, UpOn, UpBytes,
     KeepsEnds, Keeps, MuxShape, Unserved, Uncut, Mux!Copies
<1>11. UncutDown'
  BY <1>1, <1>2, <1>4, <1>8, <1>3 DEF UncutDown, Forwards, HostDownOver, AgentDownOver, DownOn,
     DownBytes, KeepsEnds, Keeps, MuxShape, Unserved, Uncut, Mux!Copies
<1>12. QED
  BY <1>5, <1>6, <1>7, <1>8, <1>9, <1>10, <1>11 DEF MuxInv

LEMMA ConnectSends ==
  ASSUME MuxAssumption, MuxInv, Mux!Connect, kind # "rpc", host' = "status"
  PROVE  MuxInv'
<1>1. /\ host = "accepted" /\ agent' = "first" /\ chan' = Mux!Put("vu", Mux!Magic)
      /\ UNCHANGED <<kind, cut, copying, client, service>>
  BY DEF Mux!Connect
<1>2. MuxTyped /\ ChanTyped /\ MuxShape /\ UpFlows /\ DownFlows /\ Uncut /\ UncutUp /\ UncutDown
  BY DEF MuxInv, MuxTyped
<1>3. kind = "forward" /\ kind' = "forward" /\ Mux!In = "cd" /\ Mux!In' = "cd"
  BY <1>1, <1>2 DEF MuxTyped, MuxShape, Forwards, Mux!In, Unserved
<1>4. Size("vu") <= MuxRoom /\ chan["vu"].q = <<>> /\ Mux!Magic \in Bytes
  BY <1>1, <1>2, MuxAssumption DEF MuxTyped, MuxShape, Forwards, Size, Bytes
<1>5. /\ ChanTyped'
      /\ Keeps("cu") /\ Keeps("su") /\ Keeps("sd") /\ Keeps("vd") /\ Keeps("cd")
      /\ Size("cu")' = Size("cu") /\ Size("su")' = Size("su") /\ Size("sd")' = Size("sd")
      /\ Size("vd")' = Size("vd") /\ Size("cd")' = Size("cd")
      /\ KeepsEnds("vu") /\ Size("vu")' = Size("vu") + 1 /\ chan'["vu"].q = <<Mux!Magic>>
  BY <1>1, <1>2, <1>4, ChanPut DEF Mux!Chans
<1>6. MuxTyped'
  BY <1>1, <1>2, <1>5, <1>3 DEF MuxTyped
<1>7. MuxShape'
  BY <1>1, <1>2, <1>5, <1>3 DEF MuxShape, Forwards, Unserved, KeepsEnds, Keeps
<1>8. UpFlows' /\ UpTo' = UpTo
  BY <1>1, <1>2, <1>5, UpStays, <1>3 DEF OpenVu, OpenCu, UpBytes, Forwards, Runs, AgentUp,
     KeepsEnds, Keeps, Size, MuxShape, Unserved
<1>9. DownFlows' /\ DownTo' = DownTo
  BY <1>1, <1>2, <1>5, DownStays, <1>3 DEF OpenVd, OpenSd, DownBytes, Forwards, Runs, AgentUp,
     KeepsEnds, Keeps, Size, MuxShape, Unserved
<1>10. Uncut'
  BY <1>1, <1>2, <1>5, <1>3 DEF Uncut, Forwards, Mux!Copies, KeepsEnds, Keeps, MuxShape, Unserved
<1>11. UncutUp'
  BY <1>1, <1>2, <1>5, <1>8, <1>3 DEF UncutUp, Forwards, HostUpOver, AgentUpOver, UpOn, UpBytes,
     KeepsEnds, Keeps, MuxShape, Unserved, Uncut, Mux!Copies
<1>12. UncutDown'
  BY <1>1, <1>2, <1>5, <1>9, <1>3 DEF UncutDown, Forwards, HostDownOver, AgentDownOver, DownOn,
     DownBytes, KeepsEnds, Keeps, MuxShape, Unserved, Uncut, Mux!Copies
<1>13. QED
  BY <1>6, <1>7, <1>8, <1>9, <1>10, <1>11, <1>12 DEF MuxInv

LEMMA ConnectRefused ==
  ASSUME MuxAssumption, MuxInv, Mux!Connect, kind # "rpc", host' # "status"
  PROVE  MuxInv'
<1>1. /\ host = "accepted" /\ host' = "done" /\ chan' = Mux!Closed(Mux!HostSide) /\ cut' = TRUE
      /\ UNCHANGED <<kind, agent, copying, client, service>>
  BY DEF Mux!Connect
<1>2. MuxTyped /\ ChanTyped /\ MuxShape /\ UpFlows /\ DownFlows /\ Uncut /\ UncutUp /\ UncutDown
  BY DEF MuxInv, MuxTyped
<1>3. kind = "forward" /\ kind' = "forward" /\ Mux!In = "cd" /\ Mux!In' = "cd"
  BY <1>1, <1>2 DEF MuxTyped, MuxShape, Forwards, Mux!In, Unserved
<1>4. /\ ChanTyped'
      /\ Keeps("su") /\ Keeps("sd")
      /\ Size("su")' = Size("su") /\ Size("sd")' = Size("sd")
      /\ chan'["cu"].q = chan["cu"].q /\ chan'["cu"].shut /\ chan'["cu"].gone
      /\ Size("cu")' = Size("cu")
      /\ chan'["cd"].q = chan["cd"].q /\ chan'["cd"].shut /\ chan'["cd"].gone
      /\ Size("cd")' = Size("cd")
      /\ chan'["vu"].q = chan["vu"].q /\ chan'["vu"].shut /\ chan'["vu"].gone
      /\ Size("vu")' = Size("vu")
      /\ chan'["vd"].q = chan["vd"].q /\ chan'["vd"].shut /\ chan'["vd"].gone
      /\ Size("vd")' = Size("vd")
  BY <1>1, <1>2, ChanClosed DEF Mux!Chans, Mux!HostSide
<1>5. MuxTyped'
  BY <1>1, <1>2, <1>4, <1>3 DEF MuxTyped
<1>6. MuxShape'
  BY <1>1, <1>2, <1>4, <1>3 DEF MuxShape, Forwards, Unserved, KeepsEnds, Keeps
<1>7. UpFlows' /\ UpTo' = UpTo
  BY <1>1, <1>2, <1>4, UpStays, <1>3 DEF OpenVu, OpenCu, UpBytes, Forwards, Runs, AgentUp,
     KeepsEnds, Keeps, Size, MuxShape, Unserved
<1>8. DownFlows' /\ DownTo' = DownTo
  BY <1>1, <1>2, <1>4, DownStays, <1>3 DEF OpenVd, OpenSd, DownBytes, Forwards, Runs, AgentUp,
     KeepsEnds, Keeps, Size, MuxShape, Unserved
<1>9. Uncut'
  BY <1>1, <1>2, <1>4, <1>3 DEF Uncut, Forwards, Mux!Copies, KeepsEnds, Keeps, MuxShape, Unserved
<1>10. UncutUp'
  BY <1>1, <1>2, <1>4, <1>7, <1>3 DEF UncutUp, Forwards, HostUpOver, AgentUpOver, UpOn, UpBytes,
     KeepsEnds, Keeps, MuxShape, Unserved, Uncut, Mux!Copies
<1>11. UncutDown'
  BY <1>1, <1>2, <1>4, <1>8, <1>3 DEF UncutDown, Forwards, HostDownOver, AgentDownOver, DownOn,
     DownBytes, KeepsEnds, Keeps, MuxShape, Unserved, Uncut, Mux!Copies
<1>12. QED
  BY <1>5, <1>6, <1>7, <1>8, <1>9, <1>10, <1>11 DEF MuxInv

LEMMA ReadStatusOk ==
  ASSUME MuxAssumption, MuxInv, Mux!ReadStatus, chan["vd"].q # <<>>, Head(chan["vd"].q) = Mux!Ok
  PROVE  MuxInv'
<1>1. /\ host = "status" /\ host' = "copying" /\ chan' = [chan EXCEPT !["vd"].q = Tail(@)]
      /\ UNCHANGED <<kind, agent, cut, client, service>>
  BY DEF Mux!ReadStatus
<1>2. MuxTyped /\ ChanTyped /\ MuxShape /\ UpFlows /\ DownFlows /\ Uncut /\ UncutUp /\ UncutDown
  BY DEF MuxInv, MuxTyped
<1>3. copying' = [copying EXCEPT !["hostUp"] = "on", !["hostDown"] = "on"]
  BY DEF Mux!ReadStatus
<1>4. /\ copying' \in [Mux!Copies -> {"off", "on", "ended", "failed"}]
       /\ copying'["hostUp"] = "on" /\ copying'["hostDown"] = "on"
       /\ copying'["agentUp"] = copying["agentUp"] /\ copying'["agentDown"] = copying["agentDown"]
  BY <1>2, <1>3 DEF MuxTyped, Mux!Copies
<1>5. kind = "forward" /\ kind' = "forward" /\ Mux!In = "cd" /\ Mux!In' = "cd"
  BY <1>1, <1>2 DEF MuxTyped, MuxShape, Forwards, Mux!In, Unserved
<1>6. /\ ChanTyped'
      /\ Keeps("cu") /\ Keeps("vu") /\ Keeps("su") /\ Keeps("sd") /\ Keeps("cd")
      /\ Size("cu")' = Size("cu") /\ Size("vu")' = Size("vu") /\ Size("su")' = Size("su")
      /\ Size("sd")' = Size("sd") /\ Size("cd")' = Size("cd")
      /\ KeepsEnds("vd") /\ Size("vd")' = Size("vd") - 1 /\ chan'["vd"].q = Tail(chan["vd"].q)
  BY <1>1, <1>2, ChanTake DEF Mux!Chans
<1>7. MuxTyped'
  BY <1>1, <1>2, <1>6, <1>4, <1>5 DEF MuxTyped
<1>8. MuxShape'
  BY <1>1, <1>2, <1>6, <1>4, <1>5 DEF MuxShape, Forwards, Unserved, KeepsEnds, Keeps
<1>9. UpFlows' /\ UpTo' = UpTo
  BY <1>1, <1>2, <1>6, UpStays, <1>4, <1>5 DEF OpenVu, OpenCu, UpBytes, Forwards, Runs, AgentUp,
     KeepsEnds, Keeps, Size, MuxShape, Unserved
<1>10. DownFlows' /\ DownTo' = DownTo
  BY <1>1, <1>2, <1>6, DownStays, <1>4, <1>5 DEF OpenVd, OpenSd, DownBytes, Forwards, Runs, AgentUp,
     KeepsEnds, Keeps, Size, MuxShape, Unserved
<1>11. Uncut'
  BY <1>1, <1>2, <1>6, <1>4, <1>5 DEF Uncut, Forwards, Mux!Copies, KeepsEnds, Keeps, MuxShape,
     Unserved
<1>12. UncutUp'
  BY <1>1, <1>2, <1>6, <1>9, <1>4, <1>5 DEF UncutUp, Forwards, HostUpOver, AgentUpOver, UpOn,
     UpBytes, KeepsEnds, Keeps, MuxShape, Unserved, Uncut, Mux!Copies
<1>13. UncutDown'
  BY <1>1, <1>2, <1>6, <1>10, <1>4, <1>5 DEF UncutDown, Forwards, HostDownOver, AgentDownOver,
     DownOn, DownBytes, KeepsEnds, Keeps, MuxShape, Unserved, Uncut, Mux!Copies
<1>14. QED
  BY <1>7, <1>8, <1>9, <1>10, <1>11, <1>12, <1>13 DEF MuxInv

LEMMA ReadStatusFails ==
  ASSUME MuxAssumption, MuxInv, Mux!ReadStatus,
         ~(chan["vd"].q # <<>> /\ Head(chan["vd"].q) = Mux!Ok)
  PROVE  MuxInv'
<1>1. /\ host = "status" /\ host' = "done" /\ chan' = Mux!Closed(Mux!HostSide)
      /\ chan["vd"].q # <<>> \/ chan["vd"].shut
      /\ UNCHANGED <<kind, agent, cut, copying, client, service>>
  BY DEF Mux!ReadStatus
<1>2. MuxTyped /\ ChanTyped /\ MuxShape /\ UpFlows /\ DownFlows /\ Uncut /\ UncutUp /\ UncutDown
  BY DEF MuxInv, MuxTyped
<1>3. kind = "forward" /\ kind' = "forward" /\ Mux!In = "cd" /\ Mux!In' = "cd"
  BY <1>1, <1>2 DEF MuxTyped, MuxShape, Forwards, Mux!In, Unserved
<1>4. cut
  BY <1>1, <1>2, <1>3 DEF MuxTyped, MuxShape, Uncut, UncutDown, AgentDownOver, HostDownOver,
     Unserved, Forwards, Mux!Copies
<1>5. /\ ChanTyped'
      /\ Keeps("su") /\ Keeps("sd")
      /\ Size("su")' = Size("su") /\ Size("sd")' = Size("sd")
      /\ chan'["cu"].q = chan["cu"].q /\ chan'["cu"].shut /\ chan'["cu"].gone
      /\ Size("cu")' = Size("cu")
      /\ chan'["cd"].q = chan["cd"].q /\ chan'["cd"].shut /\ chan'["cd"].gone
      /\ Size("cd")' = Size("cd")
      /\ chan'["vu"].q = chan["vu"].q /\ chan'["vu"].shut /\ chan'["vu"].gone
      /\ Size("vu")' = Size("vu")
      /\ chan'["vd"].q = chan["vd"].q /\ chan'["vd"].shut /\ chan'["vd"].gone
      /\ Size("vd")' = Size("vd")
  BY <1>1, <1>2, ChanClosed DEF Mux!Chans, Mux!HostSide
<1>6. MuxTyped'
  BY <1>1, <1>2, <1>5, <1>3 DEF MuxTyped
<1>7. MuxShape'
  BY <1>1, <1>2, <1>5, <1>3 DEF MuxShape, Forwards, Unserved, KeepsEnds, Keeps
<1>8. UpFlows' /\ UpTo' = UpTo
  BY <1>1, <1>2, <1>5, UpStays, <1>3 DEF OpenVu, OpenCu, UpBytes, Forwards, Runs, AgentUp,
     KeepsEnds, Keeps, Size, MuxShape, Unserved
<1>9. DownFlows' /\ DownTo' = DownTo
  BY <1>1, <1>2, <1>5, DownStays, <1>3 DEF OpenVd, OpenSd, DownBytes, Forwards, Runs, AgentUp,
     KeepsEnds, Keeps, Size, MuxShape, Unserved
<1>10. Uncut'
  BY <1>1, <1>2, <1>5, <1>3 DEF Uncut, Forwards, Mux!Copies, KeepsEnds, Keeps, MuxShape, Unserved
<1>11. UncutUp'
  BY <1>1, <1>2, <1>5, <1>8, <1>3, <1>4 DEF UncutUp, Forwards, HostUpOver, AgentUpOver, UpOn,
     UpBytes, KeepsEnds, Keeps, MuxShape, Unserved, Uncut, Mux!Copies
<1>12. UncutDown'
  BY <1>1, <1>2, <1>5, <1>9, <1>3, <1>4 DEF UncutDown, Forwards, HostDownOver, AgentDownOver,
     DownOn, DownBytes, KeepsEnds, Keeps, MuxShape, Unserved, Uncut, Mux!Copies
<1>13. QED
  BY <1>6, <1>7, <1>8, <1>9, <1>10, <1>11, <1>12 DEF MuxInv

LEMMA HostEndsStep ==
  ASSUME MuxAssumption, MuxInv, Mux!HostEnds
  PROVE  MuxInv'
<1>1. /\ host = "copying" /\ kind = "forward" /\ host' = "done" /\ chan' = Mux!Closed(Mux!HostSide)
      /\ copying["hostUp"] = "failed" \/ copying["hostDown"] = "failed"
           \/ (copying["hostUp"] = "ended" /\ copying["hostDown"] = "ended")
      /\ UNCHANGED <<kind, agent, cut, client, service>>
  BY DEF Mux!HostEnds
<1>2. MuxTyped /\ ChanTyped /\ MuxShape /\ UpFlows /\ DownFlows /\ Uncut /\ UncutUp /\ UncutDown
  BY DEF MuxInv, MuxTyped
<1>3. copying' = [copying EXCEPT !["hostUp"] = "off", !["hostDown"] = "off"]
  BY DEF Mux!HostEnds
<1>4. /\ copying' \in [Mux!Copies -> {"off", "on", "ended", "failed"}]
       /\ copying'["hostUp"] = "off" /\ copying'["hostDown"] = "off"
       /\ copying'["agentUp"] = copying["agentUp"] /\ copying'["agentDown"] = copying["agentDown"]
  BY <1>2, <1>3 DEF MuxTyped, Mux!Copies
<1>5. kind = "forward" /\ kind' = "forward" /\ Mux!In = "cd" /\ Mux!In' = "cd"
  BY <1>1, <1>2 DEF MuxTyped, MuxShape, Forwards, Mux!In, Unserved
<1>6. /\ ChanTyped'
      /\ Keeps("su") /\ Keeps("sd")
      /\ Size("su")' = Size("su") /\ Size("sd")' = Size("sd")
      /\ chan'["cu"].q = chan["cu"].q /\ chan'["cu"].shut /\ chan'["cu"].gone
      /\ Size("cu")' = Size("cu")
      /\ chan'["cd"].q = chan["cd"].q /\ chan'["cd"].shut /\ chan'["cd"].gone
      /\ Size("cd")' = Size("cd")
      /\ chan'["vu"].q = chan["vu"].q /\ chan'["vu"].shut /\ chan'["vu"].gone
      /\ Size("vu")' = Size("vu")
      /\ chan'["vd"].q = chan["vd"].q /\ chan'["vd"].shut /\ chan'["vd"].gone
      /\ Size("vd")' = Size("vd")
  BY <1>1, <1>2, ChanClosed DEF Mux!Chans, Mux!HostSide
<1>7. MuxTyped'
  BY <1>1, <1>2, <1>6, <1>4, <1>5 DEF MuxTyped
<1>8. MuxShape'
  BY <1>1, <1>2, <1>6, <1>4, <1>5 DEF MuxShape, Forwards, Unserved, KeepsEnds, Keeps
<1>9. UpFlows' /\ UpTo' = UpTo
  BY <1>1, <1>2, <1>6, UpStays, <1>4, <1>5 DEF OpenVu, OpenCu, UpBytes, Forwards, Runs, AgentUp,
     KeepsEnds, Keeps, Size, MuxShape, Unserved
<1>10. DownFlows' /\ DownTo' = DownTo
  BY <1>1, <1>2, <1>6, DownStays, <1>4, <1>5 DEF OpenVd, OpenSd, DownBytes, Forwards, Runs, AgentUp,
     KeepsEnds, Keeps, Size, MuxShape, Unserved
<1>11. Uncut'
  BY <1>1, <1>2, <1>6, <1>4, <1>5 DEF Uncut, Forwards, Mux!Copies, KeepsEnds, Keeps, MuxShape,
     Unserved
<1>12. UncutUp'
  BY <1>1, <1>2, <1>6, <1>9, <1>4, <1>5 DEF UncutUp, Forwards, HostUpOver, AgentUpOver, UpOn,
     UpBytes, KeepsEnds, Keeps, MuxShape, Unserved, Uncut, Mux!Copies
<1>13. UncutDown'
  BY <1>1, <1>2, <1>6, <1>10, <1>4, <1>5 DEF UncutDown, Forwards, HostDownOver, AgentDownOver,
     DownOn, DownBytes, KeepsEnds, Keeps, MuxShape, Unserved, Uncut, Mux!Copies
<1>14. QED
  BY <1>7, <1>8, <1>9, <1>10, <1>11, <1>12, <1>13 DEF MuxInv

LEMMA FirstEmpty ==
  ASSUME MuxAssumption, MuxInv, Mux!First, chan["vu"].q = <<>>
  PROVE  MuxInv'
<1>1. /\ agent = "first" /\ agent' = "refused" /\ cut' = TRUE /\ chan' = Mux!Closed(Mux!AgentSide)
      /\ UNCHANGED <<kind, host, copying, client, service>>
  BY DEF Mux!First
<1>2. MuxTyped /\ ChanTyped /\ MuxShape /\ UpFlows /\ DownFlows /\ Uncut /\ UncutUp /\ UncutDown
  BY DEF MuxInv, MuxTyped
<1>3. Mux!In' = Mux!In /\ Mux!In \in {"cd", "vd"}
  BY <1>1 DEF Mux!In
<1>4. /\ ChanTyped'
      /\ Keeps("cu") /\ Keeps("cd")
      /\ Size("cu")' = Size("cu") /\ Size("cd")' = Size("cd")
      /\ chan'["vu"].q = chan["vu"].q /\ chan'["vu"].shut /\ chan'["vu"].gone
      /\ Size("vu")' = Size("vu")
      /\ chan'["vd"].q = chan["vd"].q /\ chan'["vd"].shut /\ chan'["vd"].gone
      /\ Size("vd")' = Size("vd")
      /\ chan'["su"].q = chan["su"].q /\ chan'["su"].shut /\ chan'["su"].gone
      /\ Size("su")' = Size("su")
      /\ chan'["sd"].q = chan["sd"].q /\ chan'["sd"].shut /\ chan'["sd"].gone
      /\ Size("sd")' = Size("sd")
  BY <1>1, <1>2, ChanClosed DEF Mux!Chans, Mux!AgentSide
<1>5. MuxTyped'
  BY <1>1, <1>2, <1>4, <1>3 DEF MuxTyped
<1>6. MuxShape'
  BY <1>1, <1>2, <1>4, <1>3 DEF MuxShape, Forwards, Unserved, KeepsEnds, Keeps
<1>7. UpFlows' /\ UpTo' = UpTo
  BY <1>1, <1>2, <1>4, UpStays, <1>3 DEF OpenVu, OpenCu, UpBytes, Forwards, Runs, AgentUp,
     KeepsEnds, Keeps, Size, MuxShape, Unserved
<1>8. DownFlows' /\ DownTo' = DownTo
  BY <1>1, <1>2, <1>4, DownStays, <1>3 DEF OpenVd, OpenSd, DownBytes, Forwards, Runs, AgentUp,
     KeepsEnds, Keeps, Size, MuxShape, Unserved
<1>9. Uncut'
  BY <1>1, <1>2, <1>4, <1>3 DEF Uncut, Forwards, Mux!Copies, KeepsEnds, Keeps, MuxShape, Unserved
<1>10. UncutUp'
  BY <1>1, <1>2, <1>4, <1>7, <1>3 DEF UncutUp, Forwards, HostUpOver, AgentUpOver, UpOn, UpBytes,
     KeepsEnds, Keeps, MuxShape, Unserved, Uncut, Mux!Copies
<1>11. UncutDown'
  BY <1>1, <1>2, <1>4, <1>8, <1>3 DEF UncutDown, Forwards, HostDownOver, AgentDownOver, DownOn,
     DownBytes, KeepsEnds, Keeps, MuxShape, Unserved, Uncut, Mux!Copies
<1>12. QED
  BY <1>5, <1>6, <1>7, <1>8, <1>9, <1>10, <1>11 DEF MuxInv

LEMMA AgentEndsStep ==
  ASSUME MuxAssumption, MuxInv, Mux!AgentEnds
  PROVE  MuxInv'
<1>1. /\ agent = "copying" /\ agent' = "done" /\ chan' = Mux!Closed(Mux!AgentSide)
      /\ copying["agentUp"] \in {"ended", "failed"} /\ copying["agentDown"] \in {"ended", "failed"}
      /\ UNCHANGED <<kind, host, cut, client, service>>
  BY DEF Mux!AgentEnds
<1>2. MuxTyped /\ ChanTyped /\ MuxShape /\ UpFlows /\ DownFlows /\ Uncut /\ UncutUp /\ UncutDown
  BY DEF MuxInv, MuxTyped
<1>3. copying' = [copying EXCEPT !["agentUp"] = "off", !["agentDown"] = "off"]
  BY DEF Mux!AgentEnds
<1>4. /\ copying' \in [Mux!Copies -> {"off", "on", "ended", "failed"}]
       /\ copying'["hostUp"] = copying["hostUp"] /\ copying'["hostDown"] = copying["hostDown"]
       /\ copying'["agentUp"] = "off" /\ copying'["agentDown"] = "off"
  BY <1>2, <1>3 DEF MuxTyped, Mux!Copies
<1>5. Mux!In' = Mux!In /\ Mux!In \in {"cd", "vd"}
  BY <1>1 DEF Mux!In
<1>6. /\ ChanTyped'
      /\ Keeps("cu") /\ Keeps("cd")
      /\ Size("cu")' = Size("cu") /\ Size("cd")' = Size("cd")
      /\ chan'["vu"].q = chan["vu"].q /\ chan'["vu"].shut /\ chan'["vu"].gone
      /\ Size("vu")' = Size("vu")
      /\ chan'["vd"].q = chan["vd"].q /\ chan'["vd"].shut /\ chan'["vd"].gone
      /\ Size("vd")' = Size("vd")
      /\ chan'["su"].q = chan["su"].q /\ chan'["su"].shut /\ chan'["su"].gone
      /\ Size("su")' = Size("su")
      /\ chan'["sd"].q = chan["sd"].q /\ chan'["sd"].shut /\ chan'["sd"].gone
      /\ Size("sd")' = Size("sd")
  BY <1>1, <1>2, ChanClosed DEF Mux!Chans, Mux!AgentSide
<1>7. MuxTyped'
  BY <1>1, <1>2, <1>6, <1>4, <1>5 DEF MuxTyped
<1>8. MuxShape'
  BY <1>1, <1>2, <1>6, <1>4, <1>5 DEF MuxShape, Forwards, Unserved, KeepsEnds, Keeps
<1>9. UpFlows' /\ UpTo' = UpTo
  BY <1>1, <1>2, <1>6, UpStays, <1>4, <1>5 DEF OpenVu, OpenCu, UpBytes, Forwards, Runs, AgentUp,
     KeepsEnds, Keeps, Size, MuxShape, Unserved
<1>10. DownFlows' /\ DownTo' = DownTo
  BY <1>1, <1>2, <1>6, DownStays, <1>4, <1>5 DEF OpenVd, OpenSd, DownBytes, Forwards, Runs, AgentUp,
     KeepsEnds, Keeps, Size, MuxShape, Unserved
<1>11. Uncut'
  BY <1>1, <1>2, <1>6, <1>4, <1>5 DEF Uncut, Forwards, Mux!Copies, KeepsEnds, Keeps, MuxShape,
     Unserved
<1>12. UncutUp'
  BY <1>1, <1>2, <1>6, <1>9, <1>4, <1>5 DEF UncutUp, Forwards, HostUpOver, AgentUpOver, UpOn,
     UpBytes, KeepsEnds, Keeps, MuxShape, Unserved, Uncut, Mux!Copies
<1>13. UncutDown'
  BY <1>1, <1>2, <1>6, <1>10, <1>4, <1>5 DEF UncutDown, Forwards, HostDownOver, AgentDownOver,
     DownOn, DownBytes, KeepsEnds, Keeps, MuxShape, Unserved, Uncut, Mux!Copies
<1>14. QED
  BY <1>7, <1>8, <1>9, <1>10, <1>11, <1>12, <1>13 DEF MuxInv

LEMMA BridgeStarts ==
  ASSUME MuxAssumption, MuxInv, Mux!Bridge, agent' = "copying"
  PROVE  MuxInv'
<1>1. /\ agent = "bridge"
      /\ UNCHANGED <<kind, host, cut, chan, client, service>>
  BY DEF Mux!Bridge, Mux!Start, Mux!Refuse
<1>2. MuxTyped /\ ChanTyped /\ MuxShape /\ UpFlows /\ DownFlows /\ Uncut /\ UncutUp /\ UncutDown
  BY DEF MuxInv, MuxTyped
<1>3. copying' = [copying EXCEPT !["agentUp"] = "on", !["agentDown"] = "on"]
  BY DEF Mux!Bridge, Mux!Start, Mux!Refuse
<1>4. /\ copying' \in [Mux!Copies -> {"off", "on", "ended", "failed"}]
       /\ copying'["hostUp"] = copying["hostUp"] /\ copying'["hostDown"] = copying["hostDown"]
       /\ copying'["agentUp"] = "on" /\ copying'["agentDown"] = "on"
  BY <1>2, <1>3 DEF MuxTyped, Mux!Copies
<1>5. kind = "rpc" /\ kind' = "rpc" /\ Mux!In = "vd" /\ Mux!In' = "vd"
  BY <1>1, <1>2 DEF MuxTyped, MuxShape, Forwards, Mux!In, Unserved
<1>6. /\ ChanTyped'
      /\ Keeps("cu") /\ Keeps("vu") /\ Keeps("su") /\ Keeps("sd") /\ Keeps("vd") /\ Keeps("cd")
      /\ Size("cu")' = Size("cu") /\ Size("vu")' = Size("vu") /\ Size("su")' = Size("su")
      /\ Size("sd")' = Size("sd") /\ Size("vd")' = Size("vd") /\ Size("cd")' = Size("cd")
  BY <1>1, <1>2, ChanSame DEF Mux!Chans
<1>7. MuxTyped'
  BY <1>1, <1>2, <1>6, <1>4, <1>5 DEF MuxTyped
<1>8. MuxShape'
  BY <1>1, <1>2, <1>6, <1>4, <1>5 DEF MuxShape, Forwards, Unserved, KeepsEnds, Keeps
<1>9. UpFlows' /\ UpTo' = UpTo
  BY <1>1, <1>2, <1>6, UpStays, <1>4, <1>5 DEF OpenVu, OpenCu, UpBytes, Forwards, Runs, AgentUp,
     KeepsEnds, Keeps, Size, MuxShape, Unserved
<1>10. DownFlows' /\ DownTo' = DownTo
  BY <1>1, <1>2, <1>6, DownStays, <1>4, <1>5 DEF OpenVd, OpenSd, DownBytes, Forwards, Runs, AgentUp,
     KeepsEnds, Keeps, Size, MuxShape, Unserved
<1>11. Uncut'
  BY <1>1, <1>2, <1>6, <1>4, <1>5 DEF Uncut, Forwards, Mux!Copies, KeepsEnds, Keeps, MuxShape,
     Unserved
<1>12. UncutUp'
  BY <1>1, <1>2, <1>6, <1>9, <1>4, <1>5 DEF UncutUp, Forwards, HostUpOver, AgentUpOver, UpOn,
     UpBytes, KeepsEnds, Keeps, MuxShape, Unserved, Uncut, Mux!Copies
<1>13. UncutDown'
  BY <1>1, <1>2, <1>6, <1>10, <1>4, <1>5 DEF UncutDown, Forwards, HostDownOver, AgentDownOver,
     DownOn, DownBytes, KeepsEnds, Keeps, MuxShape, Unserved, Uncut, Mux!Copies
<1>14. QED
  BY <1>7, <1>8, <1>9, <1>10, <1>11, <1>12, <1>13 DEF MuxInv

LEMMA DownLost ==
  ASSUME MuxTyped, DownFlows, kind' = kind, service' = service, client' = client,
         chan'["cd"].q = chan["cd"].q,
         chan'["vd"].q = <<>>, DownBytes' = <<>>, OpenVd' => OpenVd, ~OpenSd'
  PROVE  DownFlows'
<1>1. /\ client.got \in Nat /\ service.sent \in Nat /\ Size("cd") \in Nat /\ Size("vd") \in Nat
      /\ Size("vd")' = 0 /\ Size("cd")' = Size("cd") /\ kind \in {"forward", "rpc"}
  BY ChanFields DEF MuxTyped, Ends, Mux!Chans, Size
<1>2. CASE kind = "forward"
  <2>1. Mux!In = "cd" /\ Mux!In' = "cd" /\ DownTo' = DownTo /\ DownTo \in Nat
    BY <1>1, <1>2 DEF Mux!In, DownTo
  <2>2. DownOn' = DownTo
    BY <2>1 DEF DownOn
  <2>3. QED
    BY <1>1, <2>1, <2>2, AfterEmpty DEF DownFlows
<1>3. CASE kind = "rpc"
  <2>1. /\ Mux!In = "vd" /\ Mux!In' = "vd" /\ DownTo = client.got + Size("vd")
        /\ DownTo <= service.sent
    BY <1>3 DEF Mux!In, DownTo, DownFlows
  <2>2. DownTo' = client.got /\ client.got <= service.sent
    <3>1. DownTo' = client.got + 0
      BY <1>1, <2>1 DEF DownTo
    <3>2. QED
      BY <1>1, <2>1, <3>1
  <2>3. ~OpenVd'
    BY <1>3 DEF OpenVd, Forwards
  <2>4. QED
    BY <2>1, <2>2, <2>3, AfterEmpty DEF DownFlows
<1>4. QED
  BY <1>1, <1>2, <1>3

LEMMA FirstMagic ==
  ASSUME MuxAssumption, MuxInv, Mux!First, chan["vu"].q # <<>>, Mux!FirstOf("vu") = Mux!Magic
  PROVE  MuxInv'
<1>1. /\ agent = "first" /\ agent' = "port"
      /\ UNCHANGED <<kind, host, cut, copying, client, service>>
  BY DEF Mux!First
<1>2. MuxTyped /\ ChanTyped /\ MuxShape /\ UpFlows /\ DownFlows /\ Uncut /\ UncutUp /\ UncutDown
  BY DEF MuxInv, MuxTyped
<1>3. Mux!In' = Mux!In /\ Mux!In \in {"cd", "vd"}
  BY <1>1 DEF Mux!In
<1>4. kind = "forward" /\ chan["vu"].q = <<Mux!Magic>>
  <2>1. SUFFICES ASSUME kind = "rpc"
                 PROVE  FALSE
    BY <1>1, <1>2 DEF MuxTyped, MuxShape, Forwards
  <2>2. OpenVu /\ UpBytes = chan["vu"].q
    BY <1>1, <1>2, <2>1 DEF MuxShape, Unserved, OpenVu, AgentUp, Runs, UpBytes, Forwards
  <2>3. chan["vu"].q \in Seq(Bytes) /\ client.sent \in 0..MuxBytes
    BY <1>2, ChanFields DEF Mux!Chans, MuxTyped, Ends
  <2>4. Head(chan["vu"].q) = UpTo + 1 /\ UpTo \in Nat /\ UpTo + 1 <= client.sent
    BY <1>2, <2>2, <2>3, UpNext
  <2>5. QED
    BY <2>3, <2>4, MuxAssumption DEF Mux!FirstOf, Mux!Magic
<1>5. Tail(chan["vu"].q) = <<>>
  BY <1>4
<1>6. chan' = [chan EXCEPT !["vu"].q = Tail(@)]
  BY <1>2 DEF Mux!First, ChanTyped, Channel, Mux!Chans
<1>7. /\ ChanTyped'
      /\ Keeps("cu") /\ Keeps("su") /\ Keeps("sd") /\ Keeps("vd") /\ Keeps("cd")
      /\ Size("cu")' = Size("cu") /\ Size("su")' = Size("su") /\ Size("sd")' = Size("sd")
      /\ Size("vd")' = Size("vd") /\ Size("cd")' = Size("cd")
      /\ KeepsEnds("vu") /\ chan'["vu"].q = Tail(chan["vu"].q)
  BY <1>1, <1>2, <1>6, ChanTake DEF Mux!Chans
<1>8. MuxTyped'
  BY <1>1, <1>2, <1>7, <1>3 DEF MuxTyped
<1>9. MuxShape'
  BY <1>1, <1>2, <1>7, <1>3, <1>4, <1>5 DEF MuxShape, Forwards, Unserved, KeepsEnds, Keeps
<1>10. UpFlows' /\ UpTo' = UpTo
  BY <1>1, <1>2, <1>7, UpStays, <1>3, <1>4, <1>5 DEF OpenVu, OpenCu, UpBytes, Forwards, Runs,
     AgentUp, KeepsEnds, Keeps, Size, MuxShape, Unserved
<1>11. DownFlows' /\ DownTo' = DownTo
  BY <1>1, <1>2, <1>7, DownStays, <1>3 DEF OpenVd, OpenSd, DownBytes, Forwards, Runs, AgentUp,
     KeepsEnds, Keeps, Size, MuxShape, Unserved
<1>12. Uncut'
  BY <1>1, <1>2, <1>7, <1>3 DEF Uncut, Forwards, Mux!Copies, KeepsEnds, Keeps, MuxShape, Unserved
<1>13. UncutUp'
  BY <1>1, <1>2, <1>7, <1>10, <1>3, <1>4, <1>5 DEF UncutUp, Forwards, HostUpOver, AgentUpOver, UpOn,
     UpBytes, KeepsEnds, Keeps, MuxShape, Unserved, Uncut, Mux!Copies
<1>14. UncutDown'
  BY <1>1, <1>2, <1>7, <1>11, <1>3 DEF UncutDown, Forwards, HostDownOver, AgentDownOver, DownOn,
     DownBytes, KeepsEnds, Keeps, MuxShape, Unserved, Uncut, Mux!Copies
<1>15. QED
  BY <1>8, <1>9, <1>10, <1>11, <1>12, <1>13, <1>14 DEF MuxInv

LEMMA FirstCall ==
  ASSUME MuxAssumption, MuxInv, Mux!First, chan["vu"].q # <<>>, Mux!FirstOf("vu") # Mux!Magic
  PROVE  MuxInv'
<1>1. /\ agent = "first" /\ agent' = "bridge"
      /\ UNCHANGED <<kind, host, cut, copying, client, service>>
      /\ chan' = [chan EXCEPT !["vu"].q = Tail(@), !["su"].q = Append(@, Head(chan["vu"].q))]
      /\ chan["vu"].q # <<>>
  BY DEF Mux!First, Mux!FirstOf
<1>2. MuxTyped /\ ChanTyped /\ MuxShape /\ UpFlows /\ DownFlows /\ Uncut /\ UncutUp /\ UncutDown
  BY DEF MuxInv, MuxTyped
<1>3. Mux!In' = Mux!In /\ Mux!In \in {"cd", "vd"}
  BY <1>1 DEF Mux!In
<1>4. kind = "rpc"
  BY <1>1, <1>2 DEF MuxTyped, MuxShape, Forwards, Mux!FirstOf
<1>5. Size("su") <= MuxRoom
  BY <1>1, <1>2, MuxAssumption DEF MuxShape, Size
<1>6. /\ ChanTyped'
      /\ Keeps("cu") /\ Keeps("sd") /\ Keeps("vd") /\ Keeps("cd")
      /\ Size("cu")' = Size("cu") /\ Size("sd")' = Size("sd") /\ Size("vd")' = Size("vd")
      /\ Size("cd")' = Size("cd")
      /\ KeepsEnds("vu") /\ KeepsEnds("su") /\ Size("vu")' = Size("vu") - 1
      /\ Size("su")' = Size("su") + 1
      /\ chan'["vu"].q = Tail(chan["vu"].q)
      /\ chan'["su"].q = Append(chan["su"].q, Head(chan["vu"].q))
  BY <1>1, <1>2, <1>5, ChanMoved DEF Mux!Chans
<1>7. MuxTyped'
  BY <1>1, <1>2, <1>6, <1>3 DEF MuxTyped
<1>8. MuxShape'
  BY <1>1, <1>2, <1>6, <1>3, <1>4 DEF MuxShape, Forwards, Unserved, KeepsEnds, Keeps
<1>9. /\ UpFlows' /\ UpTo' = UpTo + 1 /\ UpTo + 1 <= client.sent /\ UpTo \in Nat
      /\ client.sent \in Nat /\ UpOn' = UpOn
  <2>1. OpenVu /\ UpBytes = chan["vu"].q /\ UpBytes' = Tail(chan["vu"].q)
    BY <1>1, <1>2, <1>6, <1>3, <1>4 DEF MuxShape, Unserved, OpenVu, AgentUp, Runs, UpBytes, Forwards
  <2>2. OpenCu' => OpenCu
    BY <1>1, <1>6, <2>1 DEF OpenCu, Runs, Forwards, Keeps, KeepsEnds
  <2>3. QED
    BY ONLY <1>1, <1>2, <1>6, <2>1, <2>2, UpMoved DEF Keeps, KeepsEnds
<1>10. DownFlows' /\ DownTo' = DownTo
  BY <1>1, <1>2, <1>6, DownStays, <1>3, <1>4 DEF OpenVd, OpenSd, DownBytes, Forwards, Runs, AgentUp,
     KeepsEnds, Keeps, Size, MuxShape, Unserved
<1>11. Uncut'
  BY <1>1, <1>2, <1>6, <1>3, <1>4 DEF Uncut, Forwards, Mux!Copies, KeepsEnds, Keeps, MuxShape,
     Unserved
<1>12. UncutUp'
  BY <1>1, <1>2, <1>6, <1>9, <1>3, <1>4 DEF UncutUp, Forwards, HostUpOver, AgentUpOver, UpOn,
     UpBytes, KeepsEnds, Keeps, MuxShape, Unserved, Uncut, Mux!Copies
<1>13. UncutDown'
  BY <1>1, <1>2, <1>6, <1>10, <1>3, <1>4 DEF UncutDown, Forwards, HostDownOver, AgentDownOver,
     DownOn, DownBytes, KeepsEnds, Keeps, MuxShape, Unserved, Uncut, Mux!Copies
<1>14. QED
  BY <1>7, <1>8, <1>9, <1>10, <1>11, <1>12, <1>13 DEF MuxInv

LEMMA ServeStarts ==
  ASSUME MuxAssumption, MuxInv, Mux!Serve, agent' = "copying"
  PROVE  MuxInv'
<1>1. /\ agent = "port" /\ chan' = Mux!Put("vd", Mux!Ok)
      /\ UNCHANGED <<kind, host, cut, client, service>>
  BY DEF Mux!Serve, Mux!Start, Mux!Refuse
<1>2. MuxTyped /\ ChanTyped /\ MuxShape /\ UpFlows /\ DownFlows /\ Uncut /\ UncutUp /\ UncutDown
  BY DEF MuxInv, MuxTyped
<1>3. copying' = [copying EXCEPT !["agentUp"] = "on", !["agentDown"] = "on"]
  BY DEF Mux!Serve, Mux!Start, Mux!Refuse
<1>4. /\ copying' \in [Mux!Copies -> {"off", "on", "ended", "failed"}]
       /\ copying'["hostUp"] = copying["hostUp"] /\ copying'["hostDown"] = copying["hostDown"]
       /\ copying'["agentUp"] = "on" /\ copying'["agentDown"] = "on"
  BY <1>2, <1>3 DEF MuxTyped, Mux!Copies
<1>5. kind = "forward" /\ kind' = "forward" /\ Mux!In = "cd" /\ Mux!In' = "cd"
  BY <1>1, <1>2 DEF MuxTyped, MuxShape, Forwards, Mux!In, Unserved
<1>6. Size("vd") <= MuxRoom /\ chan["vd"].q = <<>> /\ Mux!Ok \in Bytes
  BY <1>1, <1>2, MuxAssumption DEF MuxShape, Unserved, Size, Bytes
<1>7. Head(<<Mux!Ok>>) = Mux!Ok /\ Tail(<<Mux!Ok>>) = <<>> /\ <<Mux!Ok>> # <<>>
  OBVIOUS
<1>8. /\ ChanTyped'
      /\ Keeps("cu") /\ Keeps("vu") /\ Keeps("su") /\ Keeps("sd") /\ Keeps("cd")
      /\ Size("cu")' = Size("cu") /\ Size("vu")' = Size("vu") /\ Size("su")' = Size("su")
      /\ Size("sd")' = Size("sd") /\ Size("cd")' = Size("cd")
      /\ KeepsEnds("vd") /\ chan'["vd"].q = <<Mux!Ok>>
  BY <1>1, <1>2, <1>6, ChanPut DEF Mux!Chans
<1>9. MuxTyped'
  BY <1>1, <1>2, <1>8, <1>4, <1>5 DEF MuxTyped
<1>10. MuxShape'
  BY <1>1, <1>2, <1>8, <1>4, <1>5, <1>6, <1>7 DEF MuxShape, Forwards, Unserved, KeepsEnds, Keeps
<1>11. UpFlows' /\ UpTo' = UpTo
  BY <1>1, <1>2, <1>8, UpStays, <1>4, <1>5 DEF OpenVu, OpenCu, UpBytes, Forwards, Runs, AgentUp,
     KeepsEnds, Keeps, Size, MuxShape, Unserved
<1>12. DownFlows' /\ DownTo' = DownTo
  BY <1>1, <1>2, <1>8, DownStays, <1>4, <1>5, <1>6, <1>7 DEF OpenVd, OpenSd, DownBytes, Forwards,
     Runs, AgentUp, KeepsEnds, Keeps, Size, MuxShape, Unserved
<1>13. Uncut'
  BY <1>1, <1>2, <1>8, <1>4, <1>5, <1>6, <1>7 DEF Uncut, Forwards, Mux!Copies, KeepsEnds, Keeps,
     MuxShape, Unserved
<1>14. UncutUp'
  BY <1>1, <1>2, <1>8, <1>11, <1>4, <1>5 DEF UncutUp, Forwards, HostUpOver, AgentUpOver, UpOn,
     UpBytes, KeepsEnds, Keeps, MuxShape, Unserved, Uncut, Mux!Copies
<1>15. UncutDown'
  BY <1>1, <1>2, <1>8, <1>12, <1>4, <1>5, <1>6, <1>7 DEF UncutDown, Forwards, HostDownOver,
     AgentDownOver, DownOn, DownBytes, KeepsEnds, Keeps, MuxShape, Unserved, Uncut, Mux!Copies
<1>16. QED
  BY <1>9, <1>10, <1>11, <1>12, <1>13, <1>14, <1>15 DEF MuxInv

LEMMA ChanRefused ==
  ASSUME MuxAssumption, ChanTyped, chan["vd"].q = <<>>, NEW answer \in Seq(Bytes),
         Len(answer) <= MuxRoom + 1,
         chan' = [Mux!Closed(Mux!AgentSide) EXCEPT !["vd"].q = chan["vd"].q \o answer]
  PROVE  /\ ChanTyped' /\ \A c \in Mux!Chans \ Mux!AgentSide : Keeps(c) /\ Size(c)' = Size(c)
         /\ \A c \in Mux!AgentSide : chan'[c].shut /\ chan'[c].gone
         /\ \A c \in Mux!AgentSide \ {"vd"} : chan'[c].q = chan[c].q /\ Size(c)' = Size(c)
         /\ chan'["vd"].q = answer
<1>1. chan["vd"].q \o answer = answer
  OBVIOUS
<1>2. /\ Mux!Closed(Mux!AgentSide) \in [Mux!Chans -> Channel]
      /\ \A c \in Mux!Chans \ Mux!AgentSide : Mux!Closed(Mux!AgentSide)[c] = chan[c]
      /\ \A c \in Mux!AgentSide : Mux!Closed(Mux!AgentSide)[c].q = chan[c].q
           /\ Mux!Closed(Mux!AgentSide)[c].shut /\ Mux!Closed(Mux!AgentSide)[c].gone
  BY DEF Mux!Closed, ChanTyped, Channel, Mux!AgentSide, Mux!Chans
<1> DEFINE C == Mux!Closed(Mux!AgentSide)
           ch == [C["vd"] EXCEPT !.q = answer]
<1>3. C["vd"] \in Channel
  BY <1>2 DEF Mux!Chans
<1>4. ch \in Channel /\ ch.q = answer /\ ch.shut = C["vd"].shut /\ ch.gone = C["vd"].gone
  BY <1>3 DEF Channel
<1>5. chan' = [C EXCEPT !["vd"] = ch]
  BY <1>1, <1>2
<1> HIDE DEF C, ch
<1>6. chan' \in [Mux!Chans -> Channel] /\ chan'["vd"] = ch
          /\ \A c \in Mux!Chans \ {"vd"} : chan'[c] = C[c]
  BY <1>2, <1>4, <1>5 DEF Mux!Chans, C
<1>7. /\ \A c \in Mux!Chans \ Mux!AgentSide : chan'[c] = chan[c]
      /\ \A c \in Mux!AgentSide \ {"vd"} : chan'[c].q = chan[c].q
      /\ \A c \in Mux!AgentSide : chan'[c].shut /\ chan'[c].gone
  BY <1>2, <1>4, <1>6 DEF C, Mux!AgentSide, Mux!Chans
<1>8. \A c \in Mux!Chans : c = "vd" \/ chan'[c].q = chan[c].q
  BY <1>7
<1>9. \A c \in Mux!Chans : Len(chan'[c].q) <= MuxRoom + 1
  BY <1>4, <1>6, <1>8 DEF ChanTyped, Size
<1>10. QED
  BY <1>4, <1>6, <1>7, <1>9 DEF ChanTyped, Size, Keeps, KeepsEnds, Mux!AgentSide

LEMMA Refused ==
  ASSUME MuxAssumption, MuxInv, NEW answer \in {<<Mux!No>>, <<>>}, Mux!Refuse(answer),
         agent \in {"port", "bridge"}, UNCHANGED <<kind, host, client, service>>,
         agent = "bridge" => answer = <<>>
  PROVE  MuxInv'
<1>1. /\ agent' = "refused" /\ cut' = TRUE
      /\ chan' = [Mux!Closed(Mux!AgentSide) EXCEPT !["vd"].q = chan["vd"].q \o answer]
      /\ UNCHANGED <<kind, host, copying, client, service>>
  BY DEF Mux!Refuse
<1>2. MuxTyped /\ ChanTyped /\ MuxShape /\ UpFlows /\ DownFlows /\ Uncut /\ UncutUp /\ UncutDown
  BY DEF MuxInv, MuxTyped
<1>3. Mux!In' = Mux!In /\ Mux!In \in {"cd", "vd"}
  BY <1>1 DEF Mux!In
<1>4. /\ chan["vd"].q = <<>> /\ answer \in Seq(Bytes) /\ Len(answer) <= MuxRoom + 1
       /\ (answer = <<>> \/ Tail(answer) = <<>>)
  <2>1. Mux!No \in Bytes
    BY MuxAssumption DEF Bytes
  <2>2. chan["vd"].q = <<>>
    BY <1>2 DEF MuxShape, Unserved
  <2>3. CASE answer = <<>>
    BY <2>2, <2>3, MuxAssumption
  <2>4. CASE answer = <<Mux!No>>
    BY <2>1, <2>2, <2>4, MuxAssumption
  <2>5. QED
    BY <2>3, <2>4
<1>5. answer = <<>> \/ kind = "forward"
  BY <1>2 DEF MuxShape, MuxTyped, Forwards
<1>6. /\ ChanTyped'
      /\ Keeps("cu") /\ Keeps("cd")
      /\ Size("cu")' = Size("cu") /\ Size("cd")' = Size("cd")
      /\ chan'["vu"].q = chan["vu"].q /\ chan'["vu"].shut /\ chan'["vu"].gone
      /\ Size("vu")' = Size("vu")
      /\ chan'["su"].q = chan["su"].q /\ chan'["su"].shut /\ chan'["su"].gone
      /\ Size("su")' = Size("su")
      /\ chan'["sd"].q = chan["sd"].q /\ chan'["sd"].shut /\ chan'["sd"].gone
      /\ Size("sd")' = Size("sd")
      /\ chan'["vd"].shut /\ chan'["vd"].gone /\ chan'["vd"].q = answer
  BY <1>1, <1>2, <1>4, ChanRefused DEF Mux!Chans, Mux!AgentSide
<1>7. MuxTyped'
  BY <1>1, <1>2, <1>6, <1>3 DEF MuxTyped
<1>8. MuxShape'
  BY <1>1, <1>2, <1>6, <1>3, <1>4, <1>5 DEF MuxShape, Forwards, Unserved, KeepsEnds, Keeps
<1>9. UpFlows' /\ UpTo' = UpTo
  BY <1>1, <1>2, <1>6, UpStays, <1>3 DEF OpenVu, OpenCu, UpBytes, Forwards, Runs, AgentUp,
     KeepsEnds, Keeps, Size, MuxShape, Unserved
<1>10. DownFlows' /\ DownTo' = DownTo
  BY <1>1, <1>2, <1>6, DownStays, <1>3, <1>4, <1>5 DEF OpenVd, OpenSd, DownBytes, Forwards, Runs,
     AgentUp, KeepsEnds, Keeps, Size, Mux!In, MuxShape, Unserved
<1>11. Uncut'
  BY <1>1, <1>2, <1>6, <1>3 DEF Uncut, Forwards, Mux!Copies, KeepsEnds, Keeps, MuxShape, Unserved
<1>12. UncutUp'
  BY <1>1, <1>2, <1>6, <1>9, <1>3 DEF UncutUp, Forwards, HostUpOver, AgentUpOver, UpOn, UpBytes,
     KeepsEnds, Keeps, MuxShape, Unserved, Uncut, Mux!Copies
<1>13. UncutDown'
  BY <1>1, <1>2, <1>6, <1>10, <1>3 DEF UncutDown, Forwards, HostDownOver, AgentDownOver, DownOn,
     DownBytes, KeepsEnds, Keeps, MuxShape, Unserved, Uncut, Mux!Copies
<1>14. QED
  BY <1>7, <1>8, <1>9, <1>10, <1>11, <1>12, <1>13 DEF MuxInv

LEMMA LoseVmStep ==
  ASSUME MuxAssumption, MuxInv, Mux!LoseVm
  PROVE  MuxInv'
<1>1. /\ host \in {"status", "copying"} /\ cut' = TRUE
      /\ UNCHANGED <<kind, host, agent, copying, client, service>>
      /\ chan' = [c \in Mux!Chans |-> IF c \in {"vu", "vd"} THEN [q |-> <<>>, shut |-> TRUE, gone |-> TRUE] ELSE chan[c]]
  BY DEF Mux!LoseVm
<1>2. MuxTyped /\ ChanTyped /\ MuxShape /\ UpFlows /\ DownFlows /\ Uncut /\ UncutUp /\ UncutDown
  BY DEF MuxInv, MuxTyped
<1>3. Mux!In' = Mux!In /\ Mux!In \in {"cd", "vd"}
  BY <1>1 DEF Mux!In
<1>4. /\ ChanTyped'
      /\ Keeps("cu") /\ Keeps("su") /\ Keeps("sd") /\ Keeps("cd")
      /\ Size("cu")' = Size("cu") /\ Size("su")' = Size("su") /\ Size("sd")' = Size("sd")
      /\ Size("cd")' = Size("cd")
      /\ chan'["vu"].q = <<>> /\ chan'["vu"].shut /\ chan'["vu"].gone
      /\ chan'["vd"].q = <<>> /\ chan'["vd"].shut /\ chan'["vd"].gone
  BY <1>1, <1>2 DEF ChanTyped, Channel, Mux!Chans, Keeps, KeepsEnds, Size
<1>5. MuxTyped'
  BY <1>1, <1>2, <1>4, <1>3 DEF MuxTyped
<1>6. MuxShape'
  BY <1>1, <1>2, <1>4, <1>3 DEF MuxShape, Forwards, Unserved, KeepsEnds, Keeps
<1>7. UpFlows' /\ UpTo' = UpTo
  BY <1>1, <1>2, <1>4, UpStays, <1>3 DEF OpenVu, OpenCu, UpBytes, Forwards, Runs, AgentUp,
     KeepsEnds, Keeps, Size, MuxShape, Unserved
<1>8. DownFlows' /\ ~OpenSd'
  BY <1>1, <1>2, <1>4, <1>3, DownLost DEF Runs, OpenVd, OpenSd, Forwards, DownBytes, Keeps,
     KeepsEnds
<1>9. Uncut'
  BY <1>1, <1>2, <1>4, <1>3 DEF Uncut, Forwards, Mux!Copies, KeepsEnds, Keeps, MuxShape, Unserved
<1>10. UncutUp'
  BY <1>1, <1>2, <1>4, <1>7, <1>3 DEF UncutUp, Forwards, HostUpOver, AgentUpOver, UpOn, UpBytes,
     KeepsEnds, Keeps, MuxShape, Unserved, Uncut, Mux!Copies
<1>11. UncutDown'
  BY <1>1, <1>2, <1>4, <1>8, <1>3 DEF UncutDown, Forwards, HostDownOver, AgentDownOver, DownOn,
     DownBytes, KeepsEnds, Keeps, MuxShape, Unserved, Uncut, Mux!Copies
<1>12. QED
  BY <1>5, <1>6, <1>7, <1>8, <1>9, <1>10, <1>11 DEF MuxInv

LEMMA UpOnNat ==
  ASSUME MuxTyped
  PROVE  UpTo \in Nat /\ UpOn \in Nat /\ client.sent \in Nat
<1>1. /\ service.got \in Nat /\ Size("su") \in Nat /\ client.sent \in Nat
      /\ chan["vu"].q \in Seq(Bytes)
  BY ChanFields DEF MuxTyped, Ends, Mux!Chans
<1>2. UpBytes \in Seq(Bytes) /\ Len(UpBytes) \in Nat
  BY <1>1, QueueTypes DEF UpBytes
<1>3. QED
  BY <1>1, <1>2 DEF UpTo, UpOn

LEMMA DownOnNat ==
  ASSUME MuxTyped
  PROVE  DownTo \in Nat /\ DownOn \in Nat /\ service.sent \in Nat
<1>1. /\ client.got \in Nat /\ Size(Mux!In) \in Nat /\ service.sent \in Nat
      /\ chan["vd"].q \in Seq(Bytes)
  BY ChanFields DEF MuxTyped, Ends, Mux!Chans, Mux!In
<1>2. DownBytes \in Seq(Bytes) /\ Len(DownBytes) \in Nat
  <2>1. chan["vd"].q # <<>> => Tail(chan["vd"].q) \in Seq(Bytes)
    BY <1>1, QueueTypes
  <2>2. DownBytes \in Seq(Bytes)
    BY <1>1, <2>1 DEF DownBytes
  <2>3. QED
    BY <2>2, QueueTypes
<1>3. QED
  BY <1>1, <1>2 DEF DownTo, DownOn

LEMMA TailAppend ==
  ASSUME NEW q \in Seq(Bytes), NEW b \in Bytes
  PROVE  /\ Append(q, b) \in Seq(Bytes) /\ Append(q, b) # <<>>
         /\ q # <<>> => Tail(q) \in Seq(Bytes) /\ Tail(Append(q, b)) = Append(Tail(q), b)
              /\ Head(Append(q, b)) = Head(q)
  OBVIOUS

LEMMA DownReached ==
  ASSUME MuxTyped, DownFlows, OpenSd, kind = "rpc", kind' = "rpc", service' = service,
         client' = client, chan["sd"].q # <<>>,
         chan'["vd"].q = Append(chan["vd"].q, Head(chan["sd"].q)), Size("vd")' = Size("vd") + 1,
         chan'["sd"].q = Tail(chan["sd"].q)
  PROVE  /\ DownFlows' /\ DownTo' = DownTo + 1 /\ DownTo + 1 <= service.sent /\ DownTo \in Nat
         /\ service.sent \in Nat
<1>1. Mux!In = "vd" /\ Mux!In' = "vd" /\ ~Forwards /\ ~Forwards'
  BY DEF Forwards, Mux!In
<1>2. /\ chan["sd"].q \in Seq(Bytes) /\ chan["vd"].q \in Seq(Bytes) /\ client.got \in Nat
      /\ Size("vd") \in Nat
      /\ service.sent \in Nat /\ Len(chan["sd"].q) \in Nat /\ Len(chan["sd"].q) > 0
      /\ Size("sd") = Len(chan["sd"].q)
  BY ChanFields, QueueTypes DEF MuxTyped, Ends, Mux!Chans, Size
<1>3. DownTo = client.got + Size("vd") /\ DownTo \in Nat /\ DownOn = DownTo
  BY <1>1, <1>2 DEF DownTo, DownOn
<1>4. /\ After(client.got, chan["vd"].q) /\ After(DownTo, chan["sd"].q)
      /\ DownTo + Len(chan["sd"].q) = service.sent
  BY <1>1, <1>2, <1>3 DEF DownFlows
<1>5. /\ Head(chan["sd"].q) = DownTo + 1 /\ After(DownTo + 1, Tail(chan["sd"].q))
      /\ Len(Tail(chan["sd"].q)) = Len(chan["sd"].q) - 1
  BY <1>2, <1>3, <1>4, AfterTail
<1>6. DownTo' = DownTo + 1 /\ DownOn' = DownTo'
  <2>1. DownTo' = client.got + (Size("vd") + 1)
    BY <1>1 DEF DownTo
  <2>2. DownOn' = DownTo'
    BY <1>1 DEF DownOn
  <2>3. QED
    BY <1>2, <1>3, <2>1, <2>2
<1>7. After(client.got, Append(chan["vd"].q, Head(chan["sd"].q)))
  BY <1>2, <1>3, <1>4, <1>5, AfterAppend DEF Size
<1>8. Size("sd")' = Len(chan["sd"].q) - 1
  BY <1>5 DEF Size
<1>9. DownTo + 1 <= service.sent /\ (DownTo + 1) + (Len(chan["sd"].q) - 1) = service.sent
  BY ONLY <1>2, <1>3, <1>4
<1>10. ~OpenVd'
  BY <1>1 DEF OpenVd
<1>11. After(DownOn', chan'["sd"].q) /\ DownOn' + Size("sd")' = service.sent
  BY <1>5, <1>6, <1>8, <1>9
<1>12. QED
  BY <1>1, <1>2, <1>3, <1>6, <1>7, <1>9, <1>10, <1>11 DEF DownFlows

LEMMA CopyAgentUpMoves ==
  ASSUME MuxAssumption, MuxInv, Mux!Copy("agentUp"), chan["vu"].q # <<>>, ~chan["su"].gone
  PROVE  MuxInv'
<1>1. /\ copying["agentUp"] = "on" /\ Mux!Room("su") /\ chan["vu"].q # <<>> /\ ~chan["su"].gone
      /\ chan' = [chan EXCEPT !["vu"].q = Tail(@), !["su"].q = Append(@, Head(chan["vu"].q))]
      /\ UNCHANGED <<kind, host, agent, cut, copying, client, service>>
  BY DEF Mux!Copy, Mux!From, Mux!To
<1>2. MuxTyped /\ ChanTyped /\ MuxShape /\ UpFlows /\ DownFlows /\ Uncut /\ UncutUp /\ UncutDown
  BY DEF MuxInv, MuxTyped
<1>3. Mux!In' = Mux!In /\ Mux!In \in {"cd", "vd"}
  BY <1>1 DEF Mux!In
<1>4. agent = "copying"
  BY <1>1, <1>2 DEF MuxTyped, MuxShape, Forwards, Mux!Copies
<1>5. Size("su") <= MuxRoom
  BY <1>1, <1>2, ChanFields, MuxAssumption DEF Mux!Room, Size, Mux!Chans
<1>6. /\ ChanTyped'
      /\ Keeps("cu") /\ Keeps("sd") /\ Keeps("vd") /\ Keeps("cd")
      /\ Size("cu")' = Size("cu") /\ Size("sd")' = Size("sd") /\ Size("vd")' = Size("vd")
      /\ Size("cd")' = Size("cd")
      /\ KeepsEnds("vu") /\ KeepsEnds("su") /\ Size("vu")' = Size("vu") - 1
      /\ Size("su")' = Size("su") + 1
      /\ chan'["vu"].q = Tail(chan["vu"].q)
      /\ chan'["su"].q = Append(chan["su"].q, Head(chan["vu"].q))
  BY <1>1, <1>2, <1>5, ChanMoved DEF Mux!Chans
<1>7. MuxTyped'
  BY <1>1, <1>2, <1>6, <1>3 DEF MuxTyped
<1>8. MuxShape'
  BY <1>1, <1>2, <1>6, <1>3, <1>4 DEF MuxShape, Forwards, Unserved, KeepsEnds, Keeps
<1>9. /\ UpFlows' /\ UpTo' = UpTo + 1 /\ UpTo + 1 <= client.sent /\ UpTo \in Nat
      /\ client.sent \in Nat /\ UpOn' = UpOn
  <2>1. OpenVu /\ UpBytes = chan["vu"].q /\ UpBytes' = Tail(chan["vu"].q)
    BY <1>1, <1>2, <1>6, <1>3, <1>4 DEF MuxShape, Unserved, OpenVu, AgentUp, Runs, UpBytes, Forwards
  <2>2. OpenCu' => OpenCu
    BY <1>1, <1>6, <2>1 DEF OpenCu, Runs, Forwards, Keeps, KeepsEnds
  <2>3. QED
    BY ONLY <1>1, <1>2, <1>6, <2>1, <2>2, UpMoved DEF Keeps, KeepsEnds
<1>10. DownFlows' /\ DownTo' = DownTo
  <2>1. chan'[Mux!In].q = chan[Mux!In].q
    BY <1>6, <1>3 DEF Keeps
  <2>2. DownBytes' = DownBytes /\ (OpenVd' => OpenVd) /\ (OpenSd' => OpenSd)
    BY <1>1, <1>6 DEF DownBytes, OpenVd, OpenSd, Forwards, Runs, AgentUp, Keeps, KeepsEnds
  <2>3. OpenSd' => ~chan'["vd"].gone
    BY DEF OpenSd
  <2>4. QED
    BY <1>1, <1>2, <1>6, <2>1, <2>2, <2>3, DownStays DEF Keeps
<1>11. Uncut'
  BY <1>1, <1>2, <1>6, <1>3, <1>4 DEF Uncut, Forwards, Mux!Copies, KeepsEnds, Keeps, MuxShape,
     Unserved
<1>12. UncutUp'
  <2>1. UpTo # client.sent
    BY ONLY <1>9
  <2>2. QED
    BY <1>1, <1>2, <1>6, <1>9, <1>3, <1>4, <2>1 DEF UncutUp, Forwards, HostUpOver, AgentUpOver,
       KeepsEnds, Keeps
<1>13. UncutDown'
  BY <1>1, <1>2, <1>6, <1>10, <1>3, <1>4 DEF UncutDown, Forwards, HostDownOver, AgentDownOver,
     DownOn, DownBytes, KeepsEnds, Keeps, MuxShape, Unserved, Uncut, Mux!Copies
<1>14. QED
  BY <1>7, <1>8, <1>9, <1>10, <1>11, <1>12, <1>13 DEF MuxInv

LEMMA CopyHostUpMoves ==
  ASSUME MuxAssumption, MuxInv, Mux!Copy("hostUp"), chan["cu"].q # <<>>, ~chan["vu"].gone
  PROVE  MuxInv'
<1>1. /\ copying["hostUp"] = "on" /\ Mux!Room("vu") /\ chan["cu"].q # <<>> /\ ~chan["vu"].gone
      /\ chan' = [chan EXCEPT !["cu"].q = Tail(@), !["vu"].q = Append(@, Head(chan["cu"].q))]
      /\ UNCHANGED <<kind, host, agent, cut, copying, client, service>>
  BY DEF Mux!Copy, Mux!From, Mux!To
<1>2. MuxTyped /\ ChanTyped /\ MuxShape /\ UpFlows /\ DownFlows /\ Uncut /\ UncutUp /\ UncutDown
  BY DEF MuxInv, MuxTyped
<1>3. Mux!In' = Mux!In /\ Mux!In \in {"cd", "vd"}
  BY <1>1 DEF Mux!In
<1>4. host = "copying"
  BY <1>1, <1>2 DEF MuxTyped, MuxShape, Forwards, Mux!Copies
<1>5. Size("vu") <= MuxRoom
  BY <1>1, <1>2, ChanFields, MuxAssumption DEF Mux!Room, Size, Mux!Chans
<1>6. kind = "forward"
  BY <1>1, <1>2 DEF MuxTyped, MuxShape, Forwards
<1>7. Forwards
  BY <1>6 DEF Forwards
<1>8. /\ ChanTyped'
      /\ Keeps("su") /\ Keeps("sd") /\ Keeps("vd") /\ Keeps("cd")
      /\ Size("su")' = Size("su") /\ Size("sd")' = Size("sd") /\ Size("vd")' = Size("vd")
      /\ Size("cd")' = Size("cd")
      /\ KeepsEnds("cu") /\ KeepsEnds("vu") /\ Size("cu")' = Size("cu") - 1
      /\ Size("vu")' = Size("vu") + 1
      /\ chan'["cu"].q = Tail(chan["cu"].q)
      /\ chan'["vu"].q = Append(chan["vu"].q, Head(chan["cu"].q))
  BY <1>1, <1>2, <1>5, ChanMoved DEF Mux!Chans
<1>9. MuxTyped'
  BY <1>1, <1>2, <1>8, <1>3 DEF MuxTyped
<1>10. MuxShape'
  BY <1>1, <1>2, <1>8, <1>3, <1>4, <1>6 DEF MuxShape, Forwards, Unserved, KeepsEnds, Keeps
<1>11. UpFlows' /\ UpTo' = UpTo
  <2>1. UpBytes = chan["vu"].q /\ UpBytes' = Append(chan["vu"].q, Head(chan["cu"].q))
    BY <1>1, <1>2, <1>8, <1>3, <1>6, <1>4 DEF MuxShape, Unserved, UpBytes, Forwards
  <2>2. (OpenVu' => OpenVu) /\ (OpenCu' => OpenCu) /\ (OpenVu /\ ~chan["vu"].gone => OpenCu)
    BY <1>1, <1>8, <1>3, <1>6, <1>4 DEF OpenVu, OpenCu, Runs, AgentUp, Forwards, Keeps, KeepsEnds
  <2>3. QED
    BY <1>1, <1>2, <1>8, <1>3, <1>6, <2>1, <2>2, UpEntered DEF Keeps, KeepsEnds, Forwards
<1>12. DownFlows' /\ DownTo' = DownTo
  BY <1>1, <1>2, <1>8, DownStays, <1>3, <1>4, <1>6 DEF OpenVd, OpenSd, DownBytes, Forwards, Runs,
     AgentUp, KeepsEnds, Keeps, Size, MuxShape, Unserved
<1>13. Uncut'
  BY <1>1, <1>2, <1>8, <1>3, <1>4, <1>6 DEF Uncut, Forwards, Mux!Copies, KeepsEnds, Keeps, MuxShape,
     Unserved
<1>14. UncutUp'
  BY <1>1, <1>2, <1>8, <1>11, <1>3, <1>4, <1>6 DEF UncutUp, Forwards, HostUpOver, AgentUpOver, UpOn,
     UpBytes, KeepsEnds, Keeps, MuxShape, Unserved, Uncut, Mux!Copies
<1>15. UncutDown'
  BY <1>1, <1>2, <1>8, <1>12, <1>3, <1>4, <1>6 DEF UncutDown, Forwards, HostDownOver, AgentDownOver,
     DownOn, DownBytes, KeepsEnds, Keeps, MuxShape, Unserved, Uncut, Mux!Copies
<1>16. QED
  BY <1>9, <1>10, <1>11, <1>12, <1>13, <1>14, <1>15 DEF MuxInv

LEMMA CopyHostDownMoves ==
  ASSUME MuxAssumption, MuxInv, Mux!Copy("hostDown"), chan["vd"].q # <<>>, ~chan["cd"].gone
  PROVE  MuxInv'
<1>1. /\ copying["hostDown"] = "on" /\ Mux!Room("cd") /\ chan["vd"].q # <<>> /\ ~chan["cd"].gone
      /\ chan' = [chan EXCEPT !["vd"].q = Tail(@), !["cd"].q = Append(@, Head(chan["vd"].q))]
      /\ UNCHANGED <<kind, host, agent, cut, copying, client, service>>
  BY DEF Mux!Copy, Mux!From, Mux!To
<1>2. MuxTyped /\ ChanTyped /\ MuxShape /\ UpFlows /\ DownFlows /\ Uncut /\ UncutUp /\ UncutDown
  BY DEF MuxInv, MuxTyped
<1>3. Mux!In' = Mux!In /\ Mux!In \in {"cd", "vd"}
  BY <1>1 DEF Mux!In
<1>4. host = "copying"
  BY <1>1, <1>2 DEF MuxTyped, MuxShape, Forwards, Mux!Copies
<1>5. Size("cd") <= MuxRoom
  BY <1>1, <1>2, ChanFields, MuxAssumption DEF Mux!Room, Size, Mux!Chans
<1>6. kind = "forward"
  BY <1>1, <1>2 DEF MuxTyped, MuxShape, Forwards
<1>7. Forwards
  BY <1>6 DEF Forwards
<1>8. /\ ChanTyped'
      /\ Keeps("cu") /\ Keeps("vu") /\ Keeps("su") /\ Keeps("sd")
      /\ Size("cu")' = Size("cu") /\ Size("vu")' = Size("vu") /\ Size("su")' = Size("su")
      /\ Size("sd")' = Size("sd")
      /\ KeepsEnds("vd") /\ KeepsEnds("cd") /\ Size("vd")' = Size("vd") - 1
      /\ Size("cd")' = Size("cd") + 1
      /\ chan'["vd"].q = Tail(chan["vd"].q)
      /\ chan'["cd"].q = Append(chan["cd"].q, Head(chan["vd"].q))
  BY <1>1, <1>2, <1>5, ChanMoved DEF Mux!Chans
<1>9. MuxTyped'
  BY <1>1, <1>2, <1>8, <1>3 DEF MuxTyped
<1>10. MuxShape'
  BY <1>1, <1>2, <1>8, <1>3, <1>4, <1>6 DEF MuxShape, Forwards, Unserved, KeepsEnds, Keeps
<1>11. UpFlows' /\ UpTo' = UpTo
  BY <1>1, <1>2, <1>8, UpStays, <1>3, <1>4, <1>6 DEF OpenVu, OpenCu, UpBytes, Forwards, Runs,
     AgentUp, KeepsEnds, Keeps, Size, MuxShape, Unserved
<1>12. /\ DownFlows' /\ DownTo' = DownTo + 1 /\ DownTo + 1 <= service.sent /\ DownTo \in Nat
      /\ service.sent \in Nat /\ DownOn' = DownOn
  <2>1. OpenVd /\ DownBytes = chan["vd"].q /\ DownBytes' = Tail(chan["vd"].q)
    BY <1>1, <1>2, <1>8, <1>3, <1>6, <1>4 DEF OpenVd, Runs, DownBytes, Forwards
  <2>2. OpenSd' => OpenSd
    BY <1>1, <1>8, <1>3, <1>6, <2>1 DEF OpenSd, Runs, AgentUp, Forwards, Keeps, KeepsEnds
  <2>3. QED
    BY <1>1, <1>2, <1>8, <1>3, <1>6, <2>1, <2>2, DownMoved DEF Keeps, KeepsEnds, Forwards
<1>13. Uncut'
  BY <1>1, <1>2, <1>8, <1>3, <1>4, <1>6 DEF Uncut, Forwards, Mux!Copies, KeepsEnds, Keeps, MuxShape,
     Unserved
<1>14. UncutUp'
  BY <1>1, <1>2, <1>8, <1>11, <1>3, <1>4, <1>6 DEF UncutUp, Forwards, HostUpOver, AgentUpOver, UpOn,
     UpBytes, KeepsEnds, Keeps, MuxShape, Unserved, Uncut, Mux!Copies
<1>15. UncutDown'
  <2>1. DownTo # service.sent
    BY ONLY <1>12
  <2>2. QED
    BY <1>1, <1>2, <1>8, <1>12, <1>3, <1>4, <1>6, <2>1 DEF UncutDown, Forwards, HostDownOver,
       AgentDownOver, KeepsEnds, Keeps
<1>16. QED
  BY <1>9, <1>10, <1>11, <1>12, <1>13, <1>14, <1>15 DEF MuxInv

LEMMA CopyAgentDownMovesOn ==
  ASSUME MuxAssumption, MuxInv, Mux!Copy("agentDown"), chan["sd"].q # <<>>, ~chan["vd"].gone,
         kind = "forward"
  PROVE  MuxInv'
<1>1. /\ copying["agentDown"] = "on" /\ Mux!Room("vd") /\ chan["sd"].q # <<>> /\ ~chan["vd"].gone
      /\ chan' = [chan EXCEPT !["sd"].q = Tail(@), !["vd"].q = Append(@, Head(chan["sd"].q))]
      /\ UNCHANGED <<kind, host, agent, cut, copying, client, service>>
  BY DEF Mux!Copy, Mux!From, Mux!To
<1>2. MuxTyped /\ ChanTyped /\ MuxShape /\ UpFlows /\ DownFlows /\ Uncut /\ UncutUp /\ UncutDown
  BY DEF MuxInv, MuxTyped
<1>3. kind = "forward" /\ kind' = "forward" /\ Mux!In = "cd" /\ Mux!In' = "cd"
  BY <1>1, <1>2 DEF MuxTyped, MuxShape, Forwards, Mux!In, Unserved
<1>4. agent = "copying"
  BY <1>1, <1>2 DEF MuxTyped, MuxShape, Forwards, Mux!Copies
<1>5. Size("vd") <= MuxRoom
  BY <1>1, <1>2, ChanFields, MuxAssumption DEF Mux!Room, Size, Mux!Chans
<1>6. /\ ChanTyped'
      /\ Keeps("cu") /\ Keeps("vu") /\ Keeps("su") /\ Keeps("cd")
      /\ Size("cu")' = Size("cu") /\ Size("vu")' = Size("vu") /\ Size("su")' = Size("su")
      /\ Size("cd")' = Size("cd")
      /\ KeepsEnds("sd") /\ KeepsEnds("vd") /\ Size("sd")' = Size("sd") - 1
      /\ Size("vd")' = Size("vd") + 1
      /\ chan'["sd"].q = Tail(chan["sd"].q)
      /\ chan'["vd"].q = Append(chan["vd"].q, Head(chan["sd"].q))
  BY <1>1, <1>2, <1>5, ChanMoved DEF Mux!Chans
<1>7. MuxTyped'
  BY <1>1, <1>2, <1>6, <1>3 DEF MuxTyped
<1>8. MuxShape'
  <2>1. chan["vd"].q \in Seq(Bytes) /\ Head(chan["sd"].q) \in Bytes
    BY <1>1, <1>2, ChanFields, QueueTypes DEF Mux!Chans
  <2>2. chan'["vd"].q # <<>>
    BY <1>6, <2>1, TailAppend
  <2>3. QED
    BY <1>1, <1>2, <1>6, <1>3, <1>4, <2>2 DEF MuxShape, Forwards, Unserved, KeepsEnds, Keeps
<1>9. UpFlows' /\ UpTo' = UpTo
  BY <1>1, <1>2, <1>6, UpStays, <1>3, <1>4 DEF OpenVu, OpenCu, UpBytes, Forwards, Runs, AgentUp,
     KeepsEnds, Keeps, Size, MuxShape, Unserved
<1>10. DownFlows' /\ DownTo' = DownTo
  <2>1. chan["vd"].q \in Seq(Bytes) /\ Head(chan["sd"].q) \in Bytes
    BY <1>1, <1>2, ChanFields, QueueTypes DEF Mux!Chans
  <2>2. host = "status" => chan["vd"].q # <<>>
    BY <1>1, <1>2, <1>4 DEF MuxShape
  <2>3. DownBytes \in Seq(Bytes) /\ DownBytes' = Append(DownBytes, Head(chan["sd"].q))
    BY <1>1, <1>6, <1>3, <2>1, <2>2, TailAppend DEF DownBytes, Forwards
  <2>4. (OpenVd' => OpenVd) /\ (OpenSd' => OpenSd) /\ (OpenVd => OpenSd)
    BY <1>1, <1>6, <1>3, <1>4 DEF OpenVd, OpenSd, Runs, AgentUp, Forwards, Keeps, KeepsEnds
  <2>5. QED
    BY <1>1, <1>2, <1>6, <1>3, <2>3, <2>4, DownEntered DEF Keeps, KeepsEnds, Forwards
<1>11. Uncut'
  <2>1. chan["vd"].q # <<>> => chan'["vd"].q # <<>> /\ Head(chan'["vd"].q) = Head(chan["vd"].q)
    <3>1. chan["vd"].q \in Seq(Bytes) /\ Head(chan["sd"].q) \in Bytes
      BY <1>1, <1>2, ChanFields, QueueTypes DEF Mux!Chans
    <3>2. QED
      BY <1>6, <3>1, TailAppend
  <2>2. QED
    BY <1>1, <1>2, <1>6, <1>3, <1>4, <2>1 DEF Uncut, Forwards, Mux!Copies, KeepsEnds, Keeps
<1>12. UncutUp'
  BY <1>1, <1>2, <1>6, <1>9, <1>3, <1>4 DEF UncutUp, Forwards, HostUpOver, AgentUpOver, UpOn,
     UpBytes, KeepsEnds, Keeps, MuxShape, Unserved, Uncut, Mux!Copies
<1>13. UncutDown'
  BY <1>1, <1>2, <1>6, <1>10, <1>3, <1>4 DEF UncutDown, Forwards, HostDownOver, AgentDownOver,
     DownOn, DownBytes, KeepsEnds, Keeps, MuxShape, Unserved, Uncut, Mux!Copies
<1>14. QED
  BY <1>7, <1>8, <1>9, <1>10, <1>11, <1>12, <1>13 DEF MuxInv

LEMMA CopyAgentDownMovesIn ==
  ASSUME MuxAssumption, MuxInv, Mux!Copy("agentDown"), chan["sd"].q # <<>>, ~chan["vd"].gone,
         kind = "rpc"
  PROVE  MuxInv'
<1>1. /\ copying["agentDown"] = "on" /\ Mux!Room("vd") /\ chan["sd"].q # <<>> /\ ~chan["vd"].gone
      /\ chan' = [chan EXCEPT !["sd"].q = Tail(@), !["vd"].q = Append(@, Head(chan["sd"].q))]
      /\ UNCHANGED <<kind, host, agent, cut, copying, client, service>>
  BY DEF Mux!Copy, Mux!From, Mux!To
<1>2. MuxTyped /\ ChanTyped /\ MuxShape /\ UpFlows /\ DownFlows /\ Uncut /\ UncutUp /\ UncutDown
  BY DEF MuxInv, MuxTyped
<1>3. kind = "rpc" /\ kind' = "rpc" /\ Mux!In = "vd" /\ Mux!In' = "vd"
  BY <1>1, <1>2 DEF MuxTyped, MuxShape, Forwards, Mux!In, Unserved
<1>4. agent = "copying"
  BY <1>1, <1>2 DEF MuxTyped, MuxShape, Forwards, Mux!Copies
<1>5. Size("vd") <= MuxRoom
  BY <1>1, <1>2, ChanFields, MuxAssumption DEF Mux!Room, Size, Mux!Chans
<1>6. /\ ChanTyped'
      /\ Keeps("cu") /\ Keeps("vu") /\ Keeps("su") /\ Keeps("cd")
      /\ Size("cu")' = Size("cu") /\ Size("vu")' = Size("vu") /\ Size("su")' = Size("su")
      /\ Size("cd")' = Size("cd")
      /\ KeepsEnds("sd") /\ KeepsEnds("vd") /\ Size("sd")' = Size("sd") - 1
      /\ Size("vd")' = Size("vd") + 1
      /\ chan'["sd"].q = Tail(chan["sd"].q)
      /\ chan'["vd"].q = Append(chan["vd"].q, Head(chan["sd"].q))
  BY <1>1, <1>2, <1>5, ChanMoved DEF Mux!Chans
<1>7. MuxTyped'
  BY <1>1, <1>2, <1>6, <1>3 DEF MuxTyped
<1>8. MuxShape'
  BY <1>1, <1>2, <1>6, <1>3, <1>4 DEF MuxShape, Forwards, Unserved, KeepsEnds, Keeps
<1>9. UpFlows' /\ UpTo' = UpTo
  BY <1>1, <1>2, <1>6, UpStays, <1>3, <1>4 DEF OpenVu, OpenCu, UpBytes, Forwards, Runs, AgentUp,
     KeepsEnds, Keeps, Size, MuxShape, Unserved
<1>10. /\ DownFlows' /\ DownTo' = DownTo + 1 /\ DownTo + 1 <= service.sent /\ DownTo \in Nat
       /\ service.sent \in Nat
  <2>1. OpenSd
    BY <1>1, <1>3, <1>4 DEF OpenSd, Runs, AgentUp, Forwards
  <2>2. QED
    BY <1>1, <1>2, <1>6, <1>3, <2>1, DownReached DEF Keeps, KeepsEnds
<1>11. Uncut'
  BY <1>1, <1>2, <1>6, <1>3, <1>4 DEF Uncut, Forwards, Mux!Copies, KeepsEnds, Keeps, MuxShape,
     Unserved
<1>12. UncutUp'
  BY <1>1, <1>2, <1>6, <1>9, <1>3, <1>4 DEF UncutUp, Forwards, HostUpOver, AgentUpOver, UpOn,
     UpBytes, KeepsEnds, Keeps, MuxShape, Unserved, Uncut, Mux!Copies
<1>13. UncutDown'
  BY <1>1, <1>2, <1>6, <1>10, <1>3, <1>4 DEF UncutDown, Forwards, HostDownOver, AgentDownOver,
     DownOn, DownBytes, KeepsEnds, Keeps, MuxShape, Unserved, Uncut, Mux!Copies
<1>14. QED
  BY <1>7, <1>8, <1>9, <1>10, <1>11, <1>12, <1>13 DEF MuxInv

LEMMA CopyHostUpFails ==
  ASSUME MuxAssumption, MuxInv, Mux!Copy("hostUp"), chan["cu"].q # <<>>, chan["vu"].gone
  PROVE  MuxInv'
<1>1. /\ copying["hostUp"] = "on" /\ chan["vu"].gone /\ chan' = [chan EXCEPT !["vu"].shut = TRUE]
      /\ UNCHANGED <<kind, host, agent, cut, client, service>>
  BY DEF Mux!Copy, Mux!From, Mux!To
<1>2. MuxTyped /\ ChanTyped /\ MuxShape /\ UpFlows /\ DownFlows /\ Uncut /\ UncutUp /\ UncutDown
  BY DEF MuxInv, MuxTyped
<1>3. copying' = [copying EXCEPT !["hostUp"] = "failed"]
  BY DEF Mux!Copy, Mux!From, Mux!To
<1>4. /\ copying' \in [Mux!Copies -> {"off", "on", "ended", "failed"}]
       /\ copying'["hostUp"] = "failed" /\ copying'["hostDown"] = copying["hostDown"]
       /\ copying'["agentUp"] = copying["agentUp"] /\ copying'["agentDown"] = copying["agentDown"]
  BY <1>2, <1>3 DEF MuxTyped, Mux!Copies
<1>5. kind = "forward" /\ kind' = "forward" /\ Mux!In = "cd" /\ Mux!In' = "cd"
  BY <1>1, <1>2 DEF MuxTyped, MuxShape, Forwards, Mux!In, Unserved
<1>6. host = "copying"
  BY <1>1, <1>2 DEF MuxTyped, MuxShape, Forwards, Mux!Copies
<1>7. cut
  BY <1>1, <1>2, <1>5, <1>6 DEF MuxTyped, MuxShape, Uncut, UncutUp, UncutDown, AgentUpOver,
     AgentDownOver, HostUpOver, HostDownOver, Forwards, Mux!Copies
<1>8. /\ ChanTyped'
      /\ Keeps("cu") /\ Keeps("su") /\ Keeps("sd") /\ Keeps("vd") /\ Keeps("cd")
      /\ Size("cu")' = Size("cu") /\ Size("su")' = Size("su") /\ Size("sd")' = Size("sd")
      /\ Size("vd")' = Size("vd") /\ Size("cd")' = Size("cd")
      /\ chan'["vu"].q = chan["vu"].q /\ chan'["vu"].shut /\ chan'["vu"].gone = chan["vu"].gone
      /\ Size("vu")' = Size("vu")
  BY <1>1, <1>2, ChanShut DEF Mux!Chans
<1>9. MuxTyped'
  BY <1>1, <1>2, <1>8, <1>4, <1>5 DEF MuxTyped
<1>10. MuxShape'
  BY <1>1, <1>2, <1>8, <1>4, <1>5, <1>6, <1>7 DEF MuxShape, Forwards, Unserved, KeepsEnds, Keeps
<1>11. UpFlows' /\ UpTo' = UpTo
  BY <1>1, <1>2, <1>8, UpStays, <1>4, <1>5 DEF OpenVu, OpenCu, UpBytes, Forwards, Runs, AgentUp,
     KeepsEnds, Keeps, Size, MuxShape, Unserved
<1>12. DownFlows' /\ DownTo' = DownTo
  BY <1>1, <1>2, <1>8, DownStays, <1>4, <1>5 DEF OpenVd, OpenSd, DownBytes, Forwards, Runs, AgentUp,
     KeepsEnds, Keeps, Size, MuxShape, Unserved
<1>13. Uncut'
  BY <1>1, <1>2, <1>8, <1>4, <1>5, <1>6, <1>7 DEF Uncut, Forwards, Mux!Copies, KeepsEnds, Keeps,
     MuxShape, Unserved
<1>14. UncutUp'
  BY <1>1, <1>2, <1>8, <1>11, <1>4, <1>5, <1>6, <1>7 DEF UncutUp, Forwards, HostUpOver, AgentUpOver,
     UpOn, UpBytes, KeepsEnds, Keeps, MuxShape, Unserved, Uncut, Mux!Copies
<1>15. UncutDown'
  BY <1>1, <1>2, <1>8, <1>12, <1>4, <1>5, <1>6, <1>7 DEF UncutDown, Forwards, HostDownOver,
     AgentDownOver, DownOn, DownBytes, KeepsEnds, Keeps, MuxShape, Unserved, Uncut, Mux!Copies
<1>16. QED
  BY <1>9, <1>10, <1>11, <1>12, <1>13, <1>14, <1>15 DEF MuxInv

LEMMA CopyHostUpEnds ==
  ASSUME MuxAssumption, MuxInv, Mux!Copy("hostUp"), chan["cu"].q = <<>>, chan["cu"].shut
  PROVE  MuxInv'
<1>1. /\ copying["hostUp"] = "on" /\ chan["cu"].q = <<>> /\ chan["cu"].shut
      /\ chan' = [chan EXCEPT !["vu"].shut = TRUE]
      /\ UNCHANGED <<kind, host, agent, cut, client, service>>
  BY DEF Mux!Copy, Mux!From, Mux!To
<1>2. MuxTyped /\ ChanTyped /\ MuxShape /\ UpFlows /\ DownFlows /\ Uncut /\ UncutUp /\ UncutDown
  BY DEF MuxInv, MuxTyped
<1>3. copying' = [copying EXCEPT !["hostUp"] = "ended"]
  BY DEF Mux!Copy, Mux!From, Mux!To
<1>4. /\ copying' \in [Mux!Copies -> {"off", "on", "ended", "failed"}]
       /\ copying'["hostUp"] = "ended" /\ copying'["hostDown"] = copying["hostDown"]
       /\ copying'["agentUp"] = copying["agentUp"] /\ copying'["agentDown"] = copying["agentDown"]
  BY <1>2, <1>3 DEF MuxTyped, Mux!Copies
<1>5. kind = "forward" /\ kind' = "forward" /\ Mux!In = "cd" /\ Mux!In' = "cd"
  BY <1>1, <1>2 DEF MuxTyped, MuxShape, Forwards, Mux!In, Unserved
<1>6. host = "copying"
  BY <1>1, <1>2 DEF MuxTyped, MuxShape, Forwards, Mux!Copies
<1>7. Size("cu") = 0
  BY <1>1, <1>2, ChanFields DEF Mux!Chans
<1>8. ~cut => client.ended /\ (AgentUpOver \/ UpOn = client.sent)
  <2>1. SUFFICES ASSUME ~cut, ~AgentUpOver
                 PROVE  client.ended /\ UpOn = client.sent
    BY <1>1, <1>2, <1>5 DEF UncutUp, Forwards
  <2>2. OpenCu
    BY <1>1, <1>2, <1>5, <1>6, <2>1 DEF OpenCu, OpenVu, Uncut, AgentUpOver, Runs, AgentUp, Forwards,
       Mux!Copies, MuxTyped
  <2>3. UpOn + 0 = client.sent /\ UpOn \in Nat
    BY <1>1, <1>2, <1>7, <2>2, UpOnNat DEF UpFlows
  <2>4. QED
    BY <1>1, <1>2, <1>5, <2>1, <2>3 DEF UncutUp, Forwards
<1>9. /\ ChanTyped'
      /\ Keeps("cu") /\ Keeps("su") /\ Keeps("sd") /\ Keeps("vd") /\ Keeps("cd")
      /\ Size("cu")' = Size("cu") /\ Size("su")' = Size("su") /\ Size("sd")' = Size("sd")
      /\ Size("vd")' = Size("vd") /\ Size("cd")' = Size("cd")
      /\ chan'["vu"].q = chan["vu"].q /\ chan'["vu"].shut /\ chan'["vu"].gone = chan["vu"].gone
      /\ Size("vu")' = Size("vu")
  BY <1>1, <1>2, ChanShut DEF Mux!Chans
<1>10. MuxTyped'
  BY <1>1, <1>2, <1>9, <1>4, <1>5 DEF MuxTyped
<1>11. MuxShape'
  BY <1>1, <1>2, <1>9, <1>4, <1>5, <1>6 DEF MuxShape, Forwards, Unserved, KeepsEnds, Keeps
<1>12. UpFlows' /\ UpTo' = UpTo
  BY <1>1, <1>2, <1>9, UpStays, <1>4, <1>5 DEF OpenVu, OpenCu, UpBytes, Forwards, Runs, AgentUp,
     KeepsEnds, Keeps, Size, MuxShape, Unserved
<1>13. DownFlows' /\ DownTo' = DownTo
  BY <1>1, <1>2, <1>9, DownStays, <1>4, <1>5 DEF OpenVd, OpenSd, DownBytes, Forwards, Runs, AgentUp,
     KeepsEnds, Keeps, Size, MuxShape, Unserved
<1>14. Uncut'
  BY <1>1, <1>2, <1>9, <1>4, <1>5, <1>6 DEF Uncut, Forwards, Mux!Copies, KeepsEnds, Keeps, MuxShape,
     Unserved
<1>15. UncutUp'
  BY <1>1, <1>2, <1>9, <1>12, <1>4, <1>5, <1>6, <1>8 DEF UncutUp, Forwards, HostUpOver, AgentUpOver,
     UpOn, UpBytes, KeepsEnds, Keeps, MuxShape, Unserved, Uncut, Mux!Copies
<1>16. UncutDown'
  BY <1>1, <1>2, <1>9, <1>13, <1>4, <1>5, <1>6 DEF UncutDown, Forwards, HostDownOver, AgentDownOver,
     DownOn, DownBytes, KeepsEnds, Keeps, Mux!In, MuxShape, Unserved, Uncut, Mux!Copies
<1>17. QED
  BY <1>10, <1>11, <1>12, <1>13, <1>14, <1>15, <1>16 DEF MuxInv

LEMMA CopyHostDownFails ==
  ASSUME MuxAssumption, MuxInv, Mux!Copy("hostDown"), chan["vd"].q # <<>>, chan["cd"].gone
  PROVE  MuxInv'
<1>1. /\ copying["hostDown"] = "on" /\ chan["cd"].gone /\ chan' = [chan EXCEPT !["cd"].shut = TRUE]
      /\ UNCHANGED <<kind, host, agent, cut, client, service>>
  BY DEF Mux!Copy, Mux!From, Mux!To
<1>2. MuxTyped /\ ChanTyped /\ MuxShape /\ UpFlows /\ DownFlows /\ Uncut /\ UncutUp /\ UncutDown
  BY DEF MuxInv, MuxTyped
<1>3. copying' = [copying EXCEPT !["hostDown"] = "failed"]
  BY DEF Mux!Copy, Mux!From, Mux!To
<1>4. /\ copying' \in [Mux!Copies -> {"off", "on", "ended", "failed"}]
       /\ copying'["hostUp"] = copying["hostUp"] /\ copying'["hostDown"] = "failed"
       /\ copying'["agentUp"] = copying["agentUp"] /\ copying'["agentDown"] = copying["agentDown"]
  BY <1>2, <1>3 DEF MuxTyped, Mux!Copies
<1>5. kind = "forward" /\ kind' = "forward" /\ Mux!In = "cd" /\ Mux!In' = "cd"
  BY <1>1, <1>2 DEF MuxTyped, MuxShape, Forwards, Mux!In, Unserved
<1>6. host = "copying"
  BY <1>1, <1>2 DEF MuxTyped, MuxShape, Forwards, Mux!Copies
<1>7. cut
  BY <1>1, <1>2, <1>5, <1>6 DEF MuxTyped, MuxShape, Uncut, UncutUp, UncutDown, AgentUpOver,
     AgentDownOver, HostUpOver, HostDownOver, Forwards, Mux!Copies
<1>8. /\ ChanTyped'
      /\ Keeps("cu") /\ Keeps("vu") /\ Keeps("su") /\ Keeps("sd") /\ Keeps("vd")
      /\ Size("cu")' = Size("cu") /\ Size("vu")' = Size("vu") /\ Size("su")' = Size("su")
      /\ Size("sd")' = Size("sd") /\ Size("vd")' = Size("vd")
      /\ chan'["cd"].q = chan["cd"].q /\ chan'["cd"].shut /\ chan'["cd"].gone = chan["cd"].gone
      /\ Size("cd")' = Size("cd")
  BY <1>1, <1>2, ChanShut DEF Mux!Chans
<1>9. MuxTyped'
  BY <1>1, <1>2, <1>8, <1>4, <1>5 DEF MuxTyped
<1>10. MuxShape'
  BY <1>1, <1>2, <1>8, <1>4, <1>5, <1>6, <1>7 DEF MuxShape, Forwards, Unserved, KeepsEnds, Keeps
<1>11. UpFlows' /\ UpTo' = UpTo
  BY <1>1, <1>2, <1>8, UpStays, <1>4, <1>5 DEF OpenVu, OpenCu, UpBytes, Forwards, Runs, AgentUp,
     KeepsEnds, Keeps, Size, MuxShape, Unserved
<1>12. DownFlows' /\ DownTo' = DownTo
  BY <1>1, <1>2, <1>8, DownStays, <1>4, <1>5 DEF OpenVd, OpenSd, DownBytes, Forwards, Runs, AgentUp,
     KeepsEnds, Keeps, Size, MuxShape, Unserved
<1>13. Uncut'
  BY <1>1, <1>2, <1>8, <1>4, <1>5, <1>6, <1>7 DEF Uncut, Forwards, Mux!Copies, KeepsEnds, Keeps,
     MuxShape, Unserved
<1>14. UncutUp'
  BY <1>1, <1>2, <1>8, <1>11, <1>4, <1>5, <1>6, <1>7 DEF UncutUp, Forwards, HostUpOver, AgentUpOver,
     UpOn, UpBytes, KeepsEnds, Keeps, MuxShape, Unserved, Uncut, Mux!Copies
<1>15. UncutDown'
  BY <1>1, <1>2, <1>8, <1>12, <1>4, <1>5, <1>6, <1>7 DEF UncutDown, Forwards, HostDownOver,
     AgentDownOver, DownOn, DownBytes, KeepsEnds, Keeps, MuxShape, Unserved, Uncut, Mux!Copies
<1>16. QED
  BY <1>9, <1>10, <1>11, <1>12, <1>13, <1>14, <1>15 DEF MuxInv

LEMMA CopyHostDownEnds ==
  ASSUME MuxAssumption, MuxInv, Mux!Copy("hostDown"), chan["vd"].q = <<>>, chan["vd"].shut
  PROVE  MuxInv'
<1>1. /\ copying["hostDown"] = "on" /\ chan["vd"].q = <<>> /\ chan["vd"].shut
      /\ chan' = [chan EXCEPT !["cd"].shut = TRUE]
      /\ UNCHANGED <<kind, host, agent, cut, client, service>>
  BY DEF Mux!Copy, Mux!From, Mux!To
<1>2. MuxTyped /\ ChanTyped /\ MuxShape /\ UpFlows /\ DownFlows /\ Uncut /\ UncutUp /\ UncutDown
  BY DEF MuxInv, MuxTyped
<1>3. copying' = [copying EXCEPT !["hostDown"] = "ended"]
  BY DEF Mux!Copy, Mux!From, Mux!To
<1>4. /\ copying' \in [Mux!Copies -> {"off", "on", "ended", "failed"}]
       /\ copying'["hostUp"] = copying["hostUp"] /\ copying'["hostDown"] = "ended"
       /\ copying'["agentUp"] = copying["agentUp"] /\ copying'["agentDown"] = copying["agentDown"]
  BY <1>2, <1>3 DEF MuxTyped, Mux!Copies
<1>5. kind = "forward" /\ kind' = "forward" /\ Mux!In = "cd" /\ Mux!In' = "cd"
  BY <1>1, <1>2 DEF MuxTyped, MuxShape, Forwards, Mux!In, Unserved
<1>6. host = "copying"
  BY <1>1, <1>2 DEF MuxTyped, MuxShape, Forwards, Mux!Copies
<1>7. Size("vd") = 0
  BY <1>1, <1>2, ChanFields DEF Mux!Chans
<1>8. ~cut => service.ended /\ DownTo = service.sent
  <2>1. SUFFICES ASSUME ~cut
                 PROVE  service.ended /\ DownTo = service.sent
    OBVIOUS
  <2>2. ~HostDownOver /\ DownBytes = <<>> /\ Forwards
    BY <1>1, <1>5, <1>6 DEF HostDownOver, DownBytes, Forwards
  <2>3. DownOn = DownTo + 0 /\ DownTo \in Nat
    BY <1>2, <2>2, DownOnNat DEF DownOn
  <2>4. QED
    BY <1>1, <1>2, <2>1, <2>2, <2>3 DEF UncutDown
<1>9. /\ ChanTyped'
      /\ Keeps("cu") /\ Keeps("vu") /\ Keeps("su") /\ Keeps("sd") /\ Keeps("vd")
      /\ Size("cu")' = Size("cu") /\ Size("vu")' = Size("vu") /\ Size("su")' = Size("su")
      /\ Size("sd")' = Size("sd") /\ Size("vd")' = Size("vd")
      /\ chan'["cd"].q = chan["cd"].q /\ chan'["cd"].shut /\ chan'["cd"].gone = chan["cd"].gone
      /\ Size("cd")' = Size("cd")
  BY <1>1, <1>2, ChanShut DEF Mux!Chans
<1>10. MuxTyped'
  BY <1>1, <1>2, <1>9, <1>4, <1>5 DEF MuxTyped
<1>11. MuxShape'
  BY <1>1, <1>2, <1>9, <1>4, <1>5, <1>6 DEF MuxShape, Forwards, Unserved, KeepsEnds, Keeps
<1>12. UpFlows' /\ UpTo' = UpTo
  BY <1>1, <1>2, <1>9, UpStays, <1>4, <1>5 DEF OpenVu, OpenCu, UpBytes, Forwards, Runs, AgentUp,
     KeepsEnds, Keeps, Size, MuxShape, Unserved
<1>13. DownFlows' /\ DownTo' = DownTo
  BY <1>1, <1>2, <1>9, DownStays, <1>4, <1>5 DEF OpenVd, OpenSd, DownBytes, Forwards, Runs, AgentUp,
     KeepsEnds, Keeps, Size, MuxShape, Unserved
<1>14. Uncut'
  BY <1>1, <1>2, <1>9, <1>4, <1>5, <1>6 DEF Uncut, Forwards, Mux!Copies, KeepsEnds, Keeps, MuxShape,
     Unserved
<1>15. UncutUp'
  BY <1>1, <1>2, <1>9, <1>12, <1>4, <1>5, <1>6 DEF UncutUp, Forwards, HostUpOver, AgentUpOver, UpOn,
     UpBytes, KeepsEnds, Keeps, MuxShape, Unserved, Uncut, Mux!Copies
<1>16. UncutDown'
  BY <1>1, <1>2, <1>9, <1>13, <1>4, <1>5, <1>6, <1>8 DEF UncutDown, Forwards, HostDownOver,
     AgentDownOver, DownOn, DownBytes, KeepsEnds, Keeps, Mux!In, MuxShape, Unserved, Uncut,
     Mux!Copies
<1>17. QED
  BY <1>10, <1>11, <1>12, <1>13, <1>14, <1>15, <1>16 DEF MuxInv

LEMMA CopyAgentUpFails ==
  ASSUME MuxAssumption, MuxInv, Mux!Copy("agentUp"), chan["vu"].q # <<>>, chan["su"].gone
  PROVE  MuxInv'
<1>1. /\ copying["agentUp"] = "on" /\ chan["su"].gone /\ chan' = [chan EXCEPT !["su"].shut = TRUE]
      /\ UNCHANGED <<kind, host, agent, cut, client, service>>
  BY DEF Mux!Copy, Mux!From, Mux!To
<1>2. MuxTyped /\ ChanTyped /\ MuxShape /\ UpFlows /\ DownFlows /\ Uncut /\ UncutUp /\ UncutDown
  BY DEF MuxInv, MuxTyped
<1>3. copying' = [copying EXCEPT !["agentUp"] = "failed"]
  BY DEF Mux!Copy, Mux!From, Mux!To
<1>4. /\ copying' \in [Mux!Copies -> {"off", "on", "ended", "failed"}]
       /\ copying'["hostUp"] = copying["hostUp"] /\ copying'["hostDown"] = copying["hostDown"]
       /\ copying'["agentUp"] = "failed" /\ copying'["agentDown"] = copying["agentDown"]
  BY <1>2, <1>3 DEF MuxTyped, Mux!Copies
<1>5. Mux!In' = Mux!In /\ Mux!In \in {"cd", "vd"}
  BY <1>1 DEF Mux!In
<1>6. agent = "copying"
  BY <1>1, <1>2 DEF MuxTyped, MuxShape, Forwards, Mux!Copies
<1>7. cut
  BY <1>1, <1>2, <1>5, <1>6 DEF MuxTyped, MuxShape, Uncut, UncutUp, UncutDown, AgentUpOver,
     AgentDownOver, HostUpOver, HostDownOver, Forwards, Mux!Copies
<1>8. /\ ChanTyped'
      /\ Keeps("cu") /\ Keeps("vu") /\ Keeps("sd") /\ Keeps("vd") /\ Keeps("cd")
      /\ Size("cu")' = Size("cu") /\ Size("vu")' = Size("vu") /\ Size("sd")' = Size("sd")
      /\ Size("vd")' = Size("vd") /\ Size("cd")' = Size("cd")
      /\ chan'["su"].q = chan["su"].q /\ chan'["su"].shut /\ chan'["su"].gone = chan["su"].gone
      /\ Size("su")' = Size("su")
  BY <1>1, <1>2, ChanShut DEF Mux!Chans
<1>9. MuxTyped'
  BY <1>1, <1>2, <1>8, <1>4, <1>5 DEF MuxTyped
<1>10. MuxShape'
  BY <1>1, <1>2, <1>8, <1>4, <1>5, <1>6, <1>7 DEF MuxShape, Forwards, Unserved, KeepsEnds, Keeps
<1>11. UpFlows' /\ UpTo' = UpTo
  BY <1>1, <1>2, <1>8, UpStays, <1>4, <1>5 DEF OpenVu, OpenCu, UpBytes, Forwards, Runs, AgentUp,
     KeepsEnds, Keeps, Size, MuxShape, Unserved
<1>12. DownFlows' /\ DownTo' = DownTo
  BY <1>1, <1>2, <1>8, DownStays, <1>4, <1>5 DEF OpenVd, OpenSd, DownBytes, Forwards, Runs, AgentUp,
     KeepsEnds, Keeps, Size, MuxShape, Unserved
<1>13. Uncut'
  BY <1>1, <1>2, <1>8, <1>4, <1>5, <1>6, <1>7 DEF Uncut, Forwards, Mux!Copies, KeepsEnds, Keeps,
     MuxShape, Unserved
<1>14. UncutUp'
  BY <1>1, <1>2, <1>8, <1>11, <1>4, <1>5, <1>6, <1>7 DEF UncutUp, Forwards, HostUpOver, AgentUpOver,
     UpOn, UpBytes, KeepsEnds, Keeps, MuxShape, Unserved, Uncut, Mux!Copies
<1>15. UncutDown'
  BY <1>1, <1>2, <1>8, <1>12, <1>4, <1>5, <1>6, <1>7 DEF UncutDown, Forwards, HostDownOver,
     AgentDownOver, DownOn, DownBytes, KeepsEnds, Keeps, MuxShape, Unserved, Uncut, Mux!Copies
<1>16. QED
  BY <1>9, <1>10, <1>11, <1>12, <1>13, <1>14, <1>15 DEF MuxInv

LEMMA CopyAgentUpEnds ==
  ASSUME MuxAssumption, MuxInv, Mux!Copy("agentUp"), chan["vu"].q = <<>>, chan["vu"].shut
  PROVE  MuxInv'
<1>1. /\ copying["agentUp"] = "on" /\ chan["vu"].q = <<>> /\ chan["vu"].shut
      /\ chan' = [chan EXCEPT !["su"].shut = TRUE]
      /\ UNCHANGED <<kind, host, agent, cut, client, service>>
  BY DEF Mux!Copy, Mux!From, Mux!To
<1>2. MuxTyped /\ ChanTyped /\ MuxShape /\ UpFlows /\ DownFlows /\ Uncut /\ UncutUp /\ UncutDown
  BY DEF MuxInv, MuxTyped
<1>3. copying' = [copying EXCEPT !["agentUp"] = "ended"]
  BY DEF Mux!Copy, Mux!From, Mux!To
<1>4. /\ copying' \in [Mux!Copies -> {"off", "on", "ended", "failed"}]
       /\ copying'["hostUp"] = copying["hostUp"] /\ copying'["hostDown"] = copying["hostDown"]
       /\ copying'["agentUp"] = "ended" /\ copying'["agentDown"] = copying["agentDown"]
  BY <1>2, <1>3 DEF MuxTyped, Mux!Copies
<1>5. Mux!In' = Mux!In /\ Mux!In \in {"cd", "vd"}
  BY <1>1 DEF Mux!In
<1>6. agent = "copying"
  BY <1>1, <1>2 DEF MuxTyped, MuxShape, Forwards, Mux!Copies
<1>7. Size("vu") = 0
  BY <1>1, <1>2, ChanFields DEF Mux!Chans
<1>8. ~cut => client.ended /\ UpTo = client.sent
  <2>1. SUFFICES ASSUME ~cut
                 PROVE  client.ended /\ UpTo = client.sent
    OBVIOUS
  <2>2. ~AgentUpOver /\ UpBytes = <<>>
    BY <1>1, <1>6 DEF AgentUpOver, UpBytes
  <2>3. UpOn = UpTo + 0 /\ UpTo \in Nat
    BY <1>2, <2>2, UpOnNat DEF UpOn
  <2>4. QED
    BY <1>1, <1>2, <2>1, <2>2, <2>3 DEF UncutUp
<1>9. /\ ChanTyped'
      /\ Keeps("cu") /\ Keeps("vu") /\ Keeps("sd") /\ Keeps("vd") /\ Keeps("cd")
      /\ Size("cu")' = Size("cu") /\ Size("vu")' = Size("vu") /\ Size("sd")' = Size("sd")
      /\ Size("vd")' = Size("vd") /\ Size("cd")' = Size("cd")
      /\ chan'["su"].q = chan["su"].q /\ chan'["su"].shut /\ chan'["su"].gone = chan["su"].gone
      /\ Size("su")' = Size("su")
  BY <1>1, <1>2, ChanShut DEF Mux!Chans
<1>10. MuxTyped'
  BY <1>1, <1>2, <1>9, <1>4, <1>5 DEF MuxTyped
<1>11. MuxShape'
  BY <1>1, <1>2, <1>9, <1>4, <1>5, <1>6 DEF MuxShape, Forwards, Unserved, KeepsEnds, Keeps
<1>12. UpFlows' /\ UpTo' = UpTo
  BY <1>1, <1>2, <1>9, UpStays, <1>4, <1>5 DEF OpenVu, OpenCu, UpBytes, Forwards, Runs, AgentUp,
     KeepsEnds, Keeps, Size, MuxShape, Unserved
<1>13. DownFlows' /\ DownTo' = DownTo
  BY <1>1, <1>2, <1>9, DownStays, <1>4, <1>5 DEF OpenVd, OpenSd, DownBytes, Forwards, Runs, AgentUp,
     KeepsEnds, Keeps, Size, MuxShape, Unserved
<1>14. Uncut'
  BY <1>1, <1>2, <1>9, <1>4, <1>5, <1>6 DEF Uncut, Forwards, Mux!Copies, KeepsEnds, Keeps, MuxShape,
     Unserved
<1>15. UncutUp'
  BY <1>1, <1>2, <1>9, <1>12, <1>4, <1>5, <1>6, <1>8 DEF UncutUp, Forwards, HostUpOver, AgentUpOver,
     UpOn, UpBytes, KeepsEnds, Keeps, MuxShape, Unserved, Uncut, Mux!Copies
<1>16. UncutDown'
  BY <1>1, <1>2, <1>9, <1>13, <1>4, <1>5, <1>6 DEF UncutDown, Forwards, HostDownOver, AgentDownOver,
     DownOn, DownBytes, KeepsEnds, Keeps, Mux!In, MuxShape, Unserved, Uncut, Mux!Copies
<1>17. QED
  BY <1>10, <1>11, <1>12, <1>13, <1>14, <1>15, <1>16 DEF MuxInv

LEMMA CopyAgentDownFails ==
  ASSUME MuxAssumption, MuxInv, Mux!Copy("agentDown"), chan["sd"].q # <<>>, chan["vd"].gone
  PROVE  MuxInv'
<1>1. /\ copying["agentDown"] = "on" /\ chan["vd"].gone /\ chan' = [chan EXCEPT !["vd"].shut = TRUE]
      /\ UNCHANGED <<kind, host, agent, cut, client, service>>
  BY DEF Mux!Copy, Mux!From, Mux!To
<1>2. MuxTyped /\ ChanTyped /\ MuxShape /\ UpFlows /\ DownFlows /\ Uncut /\ UncutUp /\ UncutDown
  BY DEF MuxInv, MuxTyped
<1>3. copying' = [copying EXCEPT !["agentDown"] = "failed"]
  BY DEF Mux!Copy, Mux!From, Mux!To
<1>4. /\ copying' \in [Mux!Copies -> {"off", "on", "ended", "failed"}]
       /\ copying'["hostUp"] = copying["hostUp"] /\ copying'["hostDown"] = copying["hostDown"]
       /\ copying'["agentUp"] = copying["agentUp"] /\ copying'["agentDown"] = "failed"
  BY <1>2, <1>3 DEF MuxTyped, Mux!Copies
<1>5. Mux!In' = Mux!In /\ Mux!In \in {"cd", "vd"}
  BY <1>1 DEF Mux!In
<1>6. agent = "copying"
  BY <1>1, <1>2 DEF MuxTyped, MuxShape, Forwards, Mux!Copies
<1>7. cut
  BY <1>1, <1>2, <1>5, <1>6 DEF MuxTyped, MuxShape, Uncut, UncutUp, UncutDown, AgentUpOver,
     AgentDownOver, HostUpOver, HostDownOver, Forwards, Mux!Copies
<1>8. /\ ChanTyped'
      /\ Keeps("cu") /\ Keeps("vu") /\ Keeps("su") /\ Keeps("sd") /\ Keeps("cd")
      /\ Size("cu")' = Size("cu") /\ Size("vu")' = Size("vu") /\ Size("su")' = Size("su")
      /\ Size("sd")' = Size("sd") /\ Size("cd")' = Size("cd")
      /\ chan'["vd"].q = chan["vd"].q /\ chan'["vd"].shut /\ chan'["vd"].gone = chan["vd"].gone
      /\ Size("vd")' = Size("vd")
  BY <1>1, <1>2, ChanShut DEF Mux!Chans
<1>9. MuxTyped'
  BY <1>1, <1>2, <1>8, <1>4, <1>5 DEF MuxTyped
<1>10. MuxShape'
  BY <1>1, <1>2, <1>8, <1>4, <1>5, <1>6, <1>7 DEF MuxShape, Forwards, Unserved, KeepsEnds, Keeps
<1>11. UpFlows' /\ UpTo' = UpTo
  BY <1>1, <1>2, <1>8, UpStays, <1>4, <1>5 DEF OpenVu, OpenCu, UpBytes, Forwards, Runs, AgentUp,
     KeepsEnds, Keeps, Size, MuxShape, Unserved
<1>12. DownFlows' /\ DownTo' = DownTo
  BY <1>1, <1>2, <1>8, DownStays, <1>4, <1>5 DEF OpenVd, OpenSd, DownBytes, Forwards, Runs, AgentUp,
     KeepsEnds, Keeps, Size, MuxShape, Unserved
<1>13. Uncut'
  BY <1>1, <1>2, <1>8, <1>4, <1>5, <1>6, <1>7 DEF Uncut, Forwards, Mux!Copies, KeepsEnds, Keeps,
     MuxShape, Unserved
<1>14. UncutUp'
  BY <1>1, <1>2, <1>8, <1>11, <1>4, <1>5, <1>6, <1>7 DEF UncutUp, Forwards, HostUpOver, AgentUpOver,
     UpOn, UpBytes, KeepsEnds, Keeps, MuxShape, Unserved, Uncut, Mux!Copies
<1>15. UncutDown'
  BY <1>1, <1>2, <1>8, <1>12, <1>4, <1>5, <1>6, <1>7 DEF UncutDown, Forwards, HostDownOver,
     AgentDownOver, DownOn, DownBytes, KeepsEnds, Keeps, MuxShape, Unserved, Uncut, Mux!Copies
<1>16. QED
  BY <1>9, <1>10, <1>11, <1>12, <1>13, <1>14, <1>15 DEF MuxInv

LEMMA CopyAgentDownEnds ==
  ASSUME MuxAssumption, MuxInv, Mux!Copy("agentDown"), chan["sd"].q = <<>>, chan["sd"].shut
  PROVE  MuxInv'
<1>1. /\ copying["agentDown"] = "on" /\ chan["sd"].q = <<>> /\ chan["sd"].shut
      /\ chan' = [chan EXCEPT !["vd"].shut = TRUE]
      /\ UNCHANGED <<kind, host, agent, cut, client, service>>
  BY DEF Mux!Copy, Mux!From, Mux!To
<1>2. MuxTyped /\ ChanTyped /\ MuxShape /\ UpFlows /\ DownFlows /\ Uncut /\ UncutUp /\ UncutDown
  BY DEF MuxInv, MuxTyped
<1>3. copying' = [copying EXCEPT !["agentDown"] = "ended"]
  BY DEF Mux!Copy, Mux!From, Mux!To
<1>4. /\ copying' \in [Mux!Copies -> {"off", "on", "ended", "failed"}]
       /\ copying'["hostUp"] = copying["hostUp"] /\ copying'["hostDown"] = copying["hostDown"]
       /\ copying'["agentUp"] = copying["agentUp"] /\ copying'["agentDown"] = "ended"
  BY <1>2, <1>3 DEF MuxTyped, Mux!Copies
<1>5. Mux!In' = Mux!In /\ Mux!In \in {"cd", "vd"}
  BY <1>1 DEF Mux!In
<1>6. agent = "copying"
  BY <1>1, <1>2 DEF MuxTyped, MuxShape, Forwards, Mux!Copies
<1>7. Size("sd") = 0
  BY <1>1, <1>2, ChanFields DEF Mux!Chans
<1>8. ~cut => service.ended /\ (HostDownOver \/ DownOn = service.sent)
  <2>1. SUFFICES ASSUME ~cut, ~HostDownOver
                 PROVE  service.ended /\ DownOn = service.sent
    BY <1>1, <1>2 DEF UncutDown
  <2>2. OpenSd
    BY <1>1, <1>2, <1>6, <2>1 DEF OpenSd, OpenVd, Uncut, HostDownOver, Runs, AgentUp, Forwards,
       Mux!Copies, MuxTyped
  <2>3. DownOn + 0 = service.sent /\ DownOn \in Nat
    BY <1>1, <1>2, <1>7, <2>2, DownOnNat DEF DownFlows
  <2>4. QED
    BY <1>1, <1>2, <2>1, <2>3 DEF UncutDown
<1>9. ~cut /\ ~Forwards => DownTo = service.sent
  <2>1. SUFFICES ASSUME ~cut, ~Forwards
                 PROVE  DownTo = service.sent
    OBVIOUS
  <2>2. DownOn = DownTo /\ ~HostDownOver
    BY <2>1 DEF DownOn, HostDownOver
  <2>3. QED
    BY <1>8, <2>1, <2>2
<1>10. /\ ChanTyped'
      /\ Keeps("cu") /\ Keeps("vu") /\ Keeps("su") /\ Keeps("sd") /\ Keeps("cd")
      /\ Size("cu")' = Size("cu") /\ Size("vu")' = Size("vu") /\ Size("su")' = Size("su")
      /\ Size("sd")' = Size("sd") /\ Size("cd")' = Size("cd")
      /\ chan'["vd"].q = chan["vd"].q /\ chan'["vd"].shut /\ chan'["vd"].gone = chan["vd"].gone
      /\ Size("vd")' = Size("vd")
  BY <1>1, <1>2, ChanShut DEF Mux!Chans
<1>11. MuxTyped'
  BY <1>1, <1>2, <1>10, <1>4, <1>5 DEF MuxTyped
<1>12. MuxShape'
  BY <1>1, <1>2, <1>10, <1>4, <1>5, <1>6 DEF MuxShape, Forwards, Unserved, KeepsEnds, Keeps
<1>13. UpFlows' /\ UpTo' = UpTo
  BY <1>1, <1>2, <1>10, UpStays, <1>4, <1>5 DEF OpenVu, OpenCu, UpBytes, Forwards, Runs, AgentUp,
     KeepsEnds, Keeps, Size, MuxShape, Unserved
<1>14. DownFlows' /\ DownTo' = DownTo
  BY <1>1, <1>2, <1>10, DownStays, <1>4, <1>5 DEF OpenVd, OpenSd, DownBytes, Forwards, Runs,
     AgentUp, KeepsEnds, Keeps, Size, MuxShape, Unserved
<1>15. Uncut'
  BY <1>1, <1>2, <1>10, <1>4, <1>5, <1>6 DEF Uncut, Forwards, Mux!Copies, KeepsEnds, Keeps,
     MuxShape, Unserved
<1>16. UncutUp'
  BY <1>1, <1>2, <1>10, <1>13, <1>4, <1>5, <1>6 DEF UncutUp, Forwards, HostUpOver, AgentUpOver,
     UpOn, UpBytes, KeepsEnds, Keeps, MuxShape, Unserved, Uncut, Mux!Copies
<1>17. UncutDown'
  BY <1>1, <1>2, <1>10, <1>14, <1>4, <1>5, <1>6, <1>8, <1>9 DEF UncutDown, Forwards, HostDownOver,
     AgentDownOver, DownOn, DownBytes, KeepsEnds, Keeps, Mux!In, MuxShape, Unserved, Uncut,
     Mux!Copies
<1>18. QED
  BY <1>11, <1>12, <1>13, <1>14, <1>15, <1>16, <1>17 DEF MuxInv

LEMMA UpSent ==
  ASSUME MuxTyped, UpFlows, kind = "rpc", kind' = "rpc", service' = service,
         client'.sent = client.sent + 1,
         UNCHANGED <<agent, copying>>, chan'["su"].q = chan["su"].q,
         chan'["su"].gone = chan["su"].gone, ~chan["vu"].gone,
         UpBytes = chan["vu"].q, UpBytes' = Append(chan["vu"].q, client.sent + 1),
         chan'["vu"].gone = chan["vu"].gone
  PROVE  UpFlows' /\ UpTo' = UpTo /\ (OpenVu => UpOn' = UpOn + 1)
<1>1. /\ UpTo \in Nat /\ UpOn \in Nat /\ client.sent \in Nat /\ chan["vu"].q \in Seq(Bytes)
      /\ UpTo' = UpTo
      /\ Len(chan["vu"].q) \in Nat
  BY UpOnNat, ChanFields, QueueTypes DEF MuxTyped, Mux!Chans, UpTo, Size
<1>2. ~Forwards /\ ~Forwards' /\ ~OpenCu' /\ (OpenVu' <=> OpenVu)
  BY DEF Forwards, OpenCu, OpenVu, AgentUp, Runs
<1>3. After(service'.got, chan'["su"].q) /\ UpTo' <= client'.sent
  <2>1. After(service.got, chan["su"].q) /\ UpTo <= client.sent
    BY DEF UpFlows
  <2>2. UpTo <= client.sent + 1
    BY ONLY <1>1, <2>1
  <2>3. QED
    BY <1>1, <2>1, <2>2
<1>4. CASE OpenVu
  <2>1. After(UpTo, chan["vu"].q) /\ UpOn = client.sent /\ UpOn = UpTo + Len(chan["vu"].q)
    BY <1>2, <1>4 DEF UpFlows, UpOn
  <2>2. After(UpTo, UpBytes')
    BY <1>1, <2>1, AfterAppend
  <2>3. Len(UpBytes') = Len(chan["vu"].q) + 1
    BY <1>1
  <2>4. UpOn' = UpTo + (Len(chan["vu"].q) + 1)
    BY <1>1, <2>3 DEF UpOn
  <2>5. UpOn' = UpOn + 1
    BY ONLY <1>1, <2>1, <2>4
  <2>6. UpOn' = client'.sent /\ client'.sent \in Nat
    BY <1>1, <2>1, <2>5
  <2>7. QED
    BY <1>1, <1>2, <1>3, <2>2, <2>5, <2>6 DEF UpFlows
<1>5. CASE ~OpenVu
  BY <1>1, <1>2, <1>3, <1>5 DEF UpFlows
<1>6. QED
  BY <1>4, <1>5

LEMMA UpGiven ==
  ASSUME MuxTyped, UpFlows, kind = "forward", kind' = "forward", service' = service,
         client'.sent = client.sent + 1,
         chan'["su"].q = chan["su"].q, OpenVu' => OpenVu, OpenCu' => OpenCu, UpBytes' = UpBytes,
         chan'["cu"].q = Append(chan["cu"].q, client.sent + 1)
  PROVE  UpFlows' /\ UpTo' = UpTo
<1>1. /\ UpTo \in Nat /\ UpOn \in Nat /\ client.sent \in Nat /\ chan["cu"].q \in Seq(Bytes)
      /\ UpTo' = UpTo
      /\ Size("cu") = Len(chan["cu"].q) /\ Len(chan["cu"].q) \in Nat
  BY UpOnNat, ChanFields, QueueTypes DEF MuxTyped, Mux!Chans, UpTo, Size
<1>2. Forwards /\ Forwards' /\ UpOn' = UpOn
  BY <1>1 DEF Forwards, UpOn
<1>3. After(service'.got, chan'["su"].q) /\ UpTo <= client.sent
          /\ (OpenVu => After(UpTo, UpBytes) /\ UpOn <= client.sent)
  BY DEF UpFlows
<1>4. UpTo <= client.sent + 1 /\ (OpenVu => UpOn <= client.sent + 1)
  BY ONLY <1>1, <1>3
<1>5. OpenCu => After(UpOn', chan'["cu"].q) /\ UpOn' + Size("cu")' = client'.sent
  <2>1. SUFFICES ASSUME OpenCu
                 PROVE  After(UpOn', chan'["cu"].q) /\ UpOn' + Size("cu")' = client'.sent
    OBVIOUS
  <2>2. After(UpOn, chan["cu"].q) /\ UpOn + Len(chan["cu"].q) = client.sent
    BY <1>1, <2>1 DEF UpFlows
  <2>3. After(UpOn, chan'["cu"].q)
    BY <1>1, <2>2, AfterAppend
  <2>4. Size("cu")' = Len(chan["cu"].q) + 1
    BY <1>1 DEF Size
  <2>5. UpOn + (Len(chan["cu"].q) + 1) = client.sent + 1
    BY ONLY <1>1, <2>2
  <2>6. QED
    BY <1>2, <2>3, <2>4, <2>5
<1>6. QED
  BY <1>1, <1>2, <1>3, <1>4, <1>5 DEF UpFlows

LEMMA DownGiven ==
  ASSUME MuxTyped, DownFlows, kind' = kind, client' = client, service'.sent = service.sent + 1,
         chan'[Mux!In].q = chan[Mux!In].q, OpenVd' => OpenVd, OpenSd' => OpenSd,
         DownBytes' = DownBytes,
         chan'["sd"].q = Append(chan["sd"].q, service.sent + 1)
  PROVE  DownFlows' /\ DownTo' = DownTo
<1>1. /\ DownTo \in Nat /\ DownOn \in Nat /\ service.sent \in Nat /\ chan["sd"].q \in Seq(Bytes)
      /\ Mux!In' = Mux!In
      /\ Size("sd") = Len(chan["sd"].q) /\ Len(chan["sd"].q) \in Nat
  BY DownOnNat, ChanFields, QueueTypes DEF MuxTyped, Mux!Chans, Size, Mux!In
<1>2. DownTo' = DownTo /\ DownOn' = DownOn
  BY <1>1 DEF Forwards, DownOn, DownTo, Size
<1>3. After(client'.got, chan'[Mux!In'].q) /\ DownTo <= service.sent
          /\ (OpenVd => After(DownTo, DownBytes) /\ DownOn <= service.sent)
  BY <1>1 DEF DownFlows
<1>4. DownTo <= service.sent + 1 /\ (OpenVd => DownOn <= service.sent + 1)
  BY ONLY <1>1, <1>3
<1>5. OpenSd => After(DownOn', chan'["sd"].q) /\ DownOn' + Size("sd")' = service'.sent
  <2>1. SUFFICES ASSUME OpenSd
                 PROVE  After(DownOn', chan'["sd"].q) /\ DownOn' + Size("sd")' = service'.sent
    OBVIOUS
  <2>2. After(DownOn, chan["sd"].q) /\ DownOn + Len(chan["sd"].q) = service.sent
    BY <1>1, <2>1 DEF DownFlows
  <2>3. After(DownOn, chan'["sd"].q)
    BY <1>1, <2>2, AfterAppend
  <2>4. Size("sd")' = Len(chan["sd"].q) + 1
    BY <1>1 DEF Size
  <2>5. DownOn + (Len(chan["sd"].q) + 1) = service.sent + 1
    BY ONLY <1>1, <2>2
  <2>6. QED
    BY <1>2, <2>3, <2>4, <2>5
<1>6. QED
  BY <1>1, <1>2, <1>3, <1>4, <1>5 DEF DownFlows

LEMMA EndSent ==
  ASSUME MuxAssumption, NEW e \in Ends, e.sent < MuxBytes
  PROVE  /\ [e EXCEPT !.sent = @ + 1] \in Ends /\ [e EXCEPT !.sent = @ + 1].sent = e.sent + 1
         /\ [e EXCEPT !.sent = @ + 1].got = e.got /\ [e EXCEPT !.sent = @ + 1].ended = e.ended
         /\ [e EXCEPT !.sent = @ + 1].seen = e.seen
<1>1. e.sent \in 0..MuxBytes /\ e.sent + 1 \in 0..MuxBytes
  BY MuxAssumption DEF Ends
<1>2. QED
  BY <1>1 DEF Ends

LEMMA EndFinished ==
  ASSUME NEW e \in Ends
  PROVE  /\ [e EXCEPT !.ended = TRUE] \in Ends /\ [e EXCEPT !.ended = TRUE].sent = e.sent
         /\ [e EXCEPT !.ended = TRUE].got = e.got /\ [e EXCEPT !.ended = TRUE].ended = TRUE
         /\ [e EXCEPT !.ended = TRUE].seen = e.seen
  BY DEF Ends

LEMMA EndSaw ==
  ASSUME NEW e \in Ends
  PROVE  /\ [e EXCEPT !.seen = TRUE] \in Ends /\ [e EXCEPT !.seen = TRUE].sent = e.sent
         /\ [e EXCEPT !.seen = TRUE].got = e.got /\ [e EXCEPT !.seen = TRUE].ended = e.ended
         /\ [e EXCEPT !.seen = TRUE].seen = TRUE
  BY DEF Ends

LEMMA EndLeft ==
  ASSUME NEW e \in Ends
  PROVE  /\ [e EXCEPT !.ended = TRUE, !.seen = TRUE] \in Ends
         /\ [e EXCEPT !.ended = TRUE, !.seen = TRUE].sent = e.sent
         /\ [e EXCEPT !.ended = TRUE, !.seen = TRUE].got = e.got
         /\ [e EXCEPT !.ended = TRUE, !.seen = TRUE].ended = TRUE
         /\ [e EXCEPT !.ended = TRUE, !.seen = TRUE].seen = TRUE
  BY DEF Ends

LEMMA EndGot ==
  ASSUME MuxAssumption, NEW e \in Ends, e.got < MuxBytes, NEW b, b = e.got + 1
  PROVE  /\ [e EXCEPT !.got = @ + 1, !.wrong = @ \/ b # e.got + 1] \in Ends
         /\ [e EXCEPT !.got = @ + 1, !.wrong = @ \/ b # e.got + 1].sent = e.sent
         /\ [e EXCEPT !.got = @ + 1, !.wrong = @ \/ b # e.got + 1].got = e.got + 1
         /\ [e EXCEPT !.got = @ + 1, !.wrong = @ \/ b # e.got + 1].ended = e.ended
         /\ [e EXCEPT !.got = @ + 1, !.wrong = @ \/ b # e.got + 1].seen = e.seen
<1>1. e.got \in 0..MuxBytes /\ e.got + 1 \in 0..MuxBytes
  BY MuxAssumption DEF Ends
<1>2. e.wrong = FALSE /\ (e.wrong \/ b # e.got + 1) = FALSE
  BY DEF Ends
<1>3. [e EXCEPT !.got = @ + 1, !.wrong = @ \/ b # e.got + 1]
          = [e EXCEPT !.got = e.got + 1, !.wrong = FALSE]
  BY <1>2 DEF Ends
<1>4. QED
  BY <1>1, <1>3 DEF Ends

LEMMA UpTaken ==
  ASSUME MuxAssumption, MuxTyped, UpFlows, chan["su"].q # <<>>
  PROVE  /\ Head(chan["su"].q) = service.got + 1 /\ service.got < MuxBytes
         /\ service.got + 1 <= client.sent
<1>1. /\ chan["su"].q \in Seq(Bytes) /\ service.got \in Nat /\ client.sent \in 0..MuxBytes
      /\ Len(chan["su"].q) \in Nat /\ Len(chan["su"].q) > 0
  BY ChanFields, QueueTypes DEF MuxTyped, Mux!Chans, Ends
<1>2. Head(chan["su"].q) = service.got + 1 /\ service.got + Len(chan["su"].q) <= client.sent
  BY <1>1, AfterTail DEF UpFlows, UpTo, Size
<1>3. client.sent \in Nat /\ client.sent <= MuxBytes
  BY <1>1, MuxAssumption
<1>4. service.got < MuxBytes /\ service.got + 1 <= client.sent
  BY ONLY <1>1, <1>2, <1>3, MuxAssumption DEF MuxAssumption
<1>5. QED
  BY <1>2, <1>4

LEMMA DownTaken ==
  ASSUME MuxAssumption, MuxTyped, DownFlows, chan[Mux!In].q # <<>>
  PROVE  /\ Head(chan[Mux!In].q) = client.got + 1 /\ client.got < MuxBytes
         /\ client.got + 1 <= service.sent
<1>1. /\ chan[Mux!In].q \in Seq(Bytes) /\ client.got \in Nat /\ service.sent \in 0..MuxBytes
      /\ Len(chan[Mux!In].q) \in Nat /\ Len(chan[Mux!In].q) > 0
  BY ChanFields, QueueTypes DEF MuxTyped, Mux!Chans, Ends, Mux!In
<1>2. Head(chan[Mux!In].q) = client.got + 1 /\ client.got + Len(chan[Mux!In].q) <= service.sent
  BY <1>1, AfterTail DEF DownFlows, DownTo, Size
<1>3. service.sent \in Nat /\ service.sent <= MuxBytes
  BY <1>1, MuxAssumption
<1>4. client.got < MuxBytes /\ client.got + 1 <= service.sent
  BY ONLY <1>1, <1>2, <1>3, MuxAssumption DEF MuxAssumption
<1>5. QED
  BY <1>2, <1>4

LEMMA UpGot ==
  ASSUME MuxTyped, UpFlows, kind' = kind, client' = client, service'.got = service.got + 1,
         chan["su"].q # <<>>, chan'["su"].q = Tail(chan["su"].q), Size("su")' = Size("su") - 1,
         chan'["cu"].q = chan["cu"].q, chan'["vu"].gone = chan["vu"].gone,
         UpBytes' = UpBytes, OpenVu' => OpenVu, OpenCu' => OpenCu
  PROVE  UpFlows' /\ UpTo' = UpTo
<1>1. /\ chan["su"].q \in Seq(Bytes) /\ service.got \in Nat /\ Size("su") \in Nat /\ Size("su") > 0
  BY ChanFields, QueueTypes DEF MuxTyped, Mux!Chans, Ends
<1>2. UpTo' = UpTo
  <2>1. UpTo' = (service.got + 1) + (Size("su") - 1)
    BY DEF UpTo
  <2>2. (service.got + 1) + (Size("su") - 1) = service.got + Size("su")
    BY ONLY <1>1
  <2>3. QED
    BY <2>1, <2>2 DEF UpTo
<1>3. After(service'.got, chan'["su"].q)
  BY <1>1, AfterTail DEF UpFlows
<1>4. UpOn' = UpOn /\ Size("cu")' = Size("cu")
  BY <1>2 DEF UpOn, Size
<1>5. QED
  BY <1>2, <1>3, <1>4 DEF UpFlows, Forwards

LEMMA DownGot ==
  ASSUME MuxTyped, DownFlows, kind' = kind, service' = service, client'.got = client.got + 1,
         chan[Mux!In].q # <<>>, chan'[Mux!In].q = Tail(chan[Mux!In].q),
         Size(Mux!In)' = Size(Mux!In) - 1,
         chan'["sd"].q = chan["sd"].q, Forwards => DownBytes' = DownBytes, OpenVd' => OpenVd,
         OpenSd' => OpenSd
  PROVE  DownFlows' /\ DownTo' = DownTo
<1>1. /\ chan[Mux!In].q \in Seq(Bytes) /\ client.got \in Nat /\ Size(Mux!In) \in Nat
      /\ Size(Mux!In) > 0 /\ Mux!In' = Mux!In
  <2>1. Mux!In \in Mux!Chans /\ Mux!In' = Mux!In
    BY DEF Mux!In, Mux!Chans
  <2>2. /\ chan[Mux!In].q \in Seq(Bytes) /\ Size(Mux!In) \in Nat /\ Size(Mux!In) # 0
        /\ client.got \in Nat
    BY <2>1, ChanFields DEF MuxTyped, Ends
  <2>3. QED
    BY <2>1, <2>2
<1>2. DownTo' = DownTo
  <2>1. DownTo' = (client.got + 1) + (Size(Mux!In) - 1)
    BY <1>1 DEF DownTo
  <2>2. (client.got + 1) + (Size(Mux!In) - 1) = client.got + Size(Mux!In)
    BY ONLY <1>1
  <2>3. QED
    BY <2>1, <2>2 DEF DownTo
<1>3. After(client'.got, chan'[Mux!In'].q)
  BY <1>1, AfterTail DEF DownFlows
<1>4. DownOn' = DownOn /\ Size("sd")' = Size("sd")
  BY <1>2 DEF DownOn, Size, Forwards
<1>5. OpenVd => Forwards
  BY DEF OpenVd
<1>6. QED
  BY <1>2, <1>3, <1>4, <1>5 DEF DownFlows

LEMMA UpLost ==
  ASSUME MuxTyped, UpFlows, service'.got = service.got, client'.sent = client.sent,
         chan'["su"].q = <<>>, ~OpenVu'
  PROVE  UpFlows'
<1>1. service.got \in Nat /\ client.sent \in Nat /\ Size("su") \in Nat /\ Size("su")' = 0
  BY ChanFields DEF MuxTyped, Ends, Mux!Chans, Size
<1>2. UpTo' = service.got
  <2>1. UpTo' = service.got + 0
    BY <1>1 DEF UpTo
  <2>2. QED
    BY <1>1, <2>1
<1>3. service.got + Size("su") <= client.sent
  BY DEF UpFlows, UpTo
<1>4. service.got <= client.sent
  BY ONLY <1>1, <1>3
<1>5. ~OpenCu'
  BY DEF OpenCu
<1>6. QED
  BY <1>2, <1>4, <1>5, AfterEmpty DEF UpFlows

LEMMA DownGone ==
  ASSUME MuxTyped, DownFlows, kind' = kind, client'.got = client.got, service'.sent = service.sent,
         chan'[Mux!In].q = <<>>, ~OpenVd', ~OpenSd'
  PROVE  DownFlows'
<1>1. /\ client.got \in Nat /\ service.sent \in Nat /\ Size(Mux!In) \in Nat /\ Size(Mux!In)' = 0
      /\ Mux!In' = Mux!In
  BY ChanFields DEF MuxTyped, Ends, Mux!Chans, Size, Mux!In
<1>2. DownTo' = client.got
  <2>1. DownTo' = client.got + 0
    BY <1>1 DEF DownTo
  <2>2. QED
    BY <1>1, <2>1
<1>3. client.got + Size(Mux!In) <= service.sent
  BY DEF DownFlows, DownTo
<1>4. client.got <= service.sent
  BY ONLY <1>1, <1>3
<1>5. QED
  BY <1>1, <1>2, <1>4, AfterEmpty DEF DownFlows

LEMMA ChanDropped ==
  ASSUME MuxAssumption, ChanTyped, NEW o \in Mux!Chans, NEW i \in Mux!Chans, o # i,
         chan' = [chan EXCEPT ![o].shut = TRUE, ![i].gone = TRUE, ![i].q = <<>>]
  PROVE  /\ ChanTyped' /\ \A c \in Mux!Chans \ {o, i} : Keeps(c) /\ Size(c)' = Size(c)
         /\ chan'[o].q = chan[o].q /\ Size(o)' = Size(o) /\ chan'[o].shut
         /\ chan'[o].gone = chan[o].gone
         /\ chan'[i].q = <<>> /\ chan'[i].shut = chan[i].shut /\ chan'[i].gone
<1>1. chan[o] \in Channel /\ chan[i] \in Channel
  BY ChanFields
<1> DEFINE oh == [chan[o] EXCEPT !.shut = TRUE]
           gh == [chan[i] EXCEPT !.gone = TRUE]
           ih == [gh EXCEPT !.q = <<>>]
<1>2. oh \in Channel /\ oh.q = chan[o].q /\ oh.shut /\ oh.gone = chan[o].gone
  BY <1>1 DEF Channel
<1>3. gh \in Channel /\ gh.shut = chan[i].shut /\ gh.gone
  BY <1>1 DEF Channel
<1>4. chan' = [chan EXCEPT ![o] = oh, ![i] = ih]
  BY DEF ChanTyped
<1> HIDE DEF gh
<1>5. <<>> \in Seq(Bytes)
  OBVIOUS
<1>6. ih \in Channel /\ ih.q = <<>> /\ ih.shut = chan[i].shut /\ ih.gone
  BY <1>3, <1>5 DEF Channel
<1> HIDE DEF oh, ih
<1>7. chan' \in [Mux!Chans -> Channel] /\ chan'[o] = oh /\ chan'[i] = ih
          /\ \A c \in Mux!Chans \ {o, i} : chan'[c] = chan[c]
  BY <1>2, <1>6, <1>4 DEF ChanTyped
<1>8. Len(<<>>) <= MuxRoom + 1
  BY MuxAssumption
<1>9. \A c \in Mux!Chans : Len(chan'[c].q) <= MuxRoom + 1
  BY <1>2, <1>6, <1>7, <1>8 DEF ChanTyped, Size
<1>10. QED
  BY <1>2, <1>6, <1>7, <1>9 DEF ChanTyped, Size, Keeps, KeepsEnds

LEMMA SendUpCall ==
  ASSUME MuxAssumption, MuxInv, Mux!Send("up"), kind = "rpc"
  PROVE  MuxInv'
<1>1. UNCHANGED <<kind, host, agent, cut, copying>>
  BY DEF Mux!Send
<1>2. MuxTyped /\ ChanTyped /\ MuxShape /\ UpFlows /\ DownFlows /\ Uncut /\ UncutUp /\ UncutDown
  BY DEF MuxInv, MuxTyped
<1>3. kind = "rpc" /\ kind' = "rpc" /\ Mux!In = "vd" /\ Mux!In' = "vd"
  BY <1>1, <1>2 DEF MuxTyped, MuxShape, Forwards, Mux!In, Unserved
<1>4. /\ client' = [client EXCEPT !.sent = @ + 1] /\ service' = service
       /\ ~client.ended /\ client.sent < MuxBytes /\ Mux!Room("vu") /\ ~chan["vu"].gone
       /\ chan' = Mux!Put("vu", client.sent + 1)
  BY DEF Mux!Send, Mux!Now, Mux!EndOf, Mux!There, Mux!OutOf, Mux!InOf, Mux!In, Mux!Out
<1>5. /\ client' \in Ends /\ client'.sent = client.sent + 1 /\ client'.got = client.got
      /\ client'.ended = client.ended /\ client'.seen = client.seen
  BY <1>2, <1>4, MuxAssumption, EndSent DEF MuxTyped
<1>6. client.sent + 1 \in Bytes /\ Size("vu") <= MuxRoom /\ client.sent \in Nat
  BY <1>2, <1>4, ChanFields, MuxAssumption DEF MuxTyped, Ends, Bytes, Mux!Room, Size, Mux!Chans
<1>7. /\ ChanTyped'
      /\ Keeps("cu") /\ Keeps("su") /\ Keeps("sd") /\ Keeps("vd") /\ Keeps("cd")
      /\ Size("cu")' = Size("cu") /\ Size("su")' = Size("su") /\ Size("sd")' = Size("sd")
      /\ Size("vd")' = Size("vd") /\ Size("cd")' = Size("cd")
      /\ KeepsEnds("vu") /\ Size("vu")' = Size("vu") + 1
      /\ chan'["vu"].q = Append(chan["vu"].q, (client.sent + 1))
  BY <1>1, <1>2, <1>4, <1>6, ChanPut DEF Mux!Chans
<1>8. MuxTyped'
  BY <1>1, <1>2, <1>7, <1>3, <1>4, <1>5 DEF MuxTyped
<1>9. MuxShape'
  BY <1>1, <1>2, <1>7, <1>3, <1>4, <1>5 DEF MuxShape, Forwards, Unserved, KeepsEnds, Keeps
<1>10. UpFlows' /\ UpTo' = UpTo /\ (OpenVu /\ ~chan["vu"].gone => UpOn' = UpOn + 1)
  <2>1. UpBytes = chan["vu"].q /\ UpBytes' = Append(chan["vu"].q, client.sent + 1)
    BY <1>7, <1>3 DEF UpBytes, Forwards
  <2>2. QED
    BY <1>1, <1>2, <1>7, <1>3, <1>4, <1>5, <2>1, UpSent DEF Keeps, KeepsEnds
<1>11. DownFlows' /\ DownTo' = DownTo
  BY <1>1, <1>2, <1>7, DownStays, <1>3, <1>4, <1>5 DEF OpenVd, OpenSd, DownBytes, Forwards, Runs,
     AgentUp, KeepsEnds, Keeps, Size, MuxShape, Unserved
<1>12. Uncut'
  BY <1>1, <1>2, <1>7, <1>3, <1>4, <1>5 DEF Uncut, Forwards, Mux!Copies, KeepsEnds, Keeps, MuxShape,
     Unserved
<1>13. UncutUp'
  BY <1>1, <1>2, <1>7, <1>10, <1>3, <1>4, <1>5 DEF UncutUp, Forwards, HostUpOver, AgentUpOver, UpOn,
     UpBytes, KeepsEnds, Keeps, MuxShape, Unserved, Uncut, Mux!Copies
<1>14. UncutDown'
  BY <1>1, <1>2, <1>7, <1>11, <1>3, <1>4, <1>5 DEF UncutDown, Forwards, HostDownOver, AgentDownOver,
     DownOn, DownBytes, KeepsEnds, Keeps, MuxShape, Unserved, Uncut, Mux!Copies
<1>15. QED
  BY <1>8, <1>9, <1>10, <1>11, <1>12, <1>13, <1>14 DEF MuxInv

LEMMA SendUpOn ==
  ASSUME MuxAssumption, MuxInv, Mux!Send("up"), kind = "forward"
  PROVE  MuxInv'
<1>1. UNCHANGED <<kind, host, agent, cut, copying>>
  BY DEF Mux!Send
<1>2. MuxTyped /\ ChanTyped /\ MuxShape /\ UpFlows /\ DownFlows /\ Uncut /\ UncutUp /\ UncutDown
  BY DEF MuxInv, MuxTyped
<1>3. kind = "forward" /\ kind' = "forward" /\ Mux!In = "cd" /\ Mux!In' = "cd"
  BY <1>1, <1>2 DEF MuxTyped, MuxShape, Forwards, Mux!In, Unserved
<1>4. /\ client' = [client EXCEPT !.sent = @ + 1] /\ service' = service
       /\ ~client.ended /\ client.sent < MuxBytes /\ Mux!Room("cu") /\ ~chan["cu"].gone
       /\ chan' = Mux!Put("cu", client.sent + 1)
  BY DEF Mux!Send, Mux!Now, Mux!EndOf, Mux!There, Mux!OutOf, Mux!InOf, Mux!In, Mux!Out
<1>5. /\ client' \in Ends /\ client'.sent = client.sent + 1 /\ client'.got = client.got
      /\ client'.ended = client.ended /\ client'.seen = client.seen
  BY <1>2, <1>4, MuxAssumption, EndSent DEF MuxTyped
<1>6. client.sent + 1 \in Bytes /\ Size("cu") <= MuxRoom /\ client.sent \in Nat
  BY <1>2, <1>4, ChanFields, MuxAssumption DEF MuxTyped, Ends, Bytes, Mux!Room, Size, Mux!Chans
<1>7. /\ ChanTyped'
      /\ Keeps("vu") /\ Keeps("su") /\ Keeps("sd") /\ Keeps("vd") /\ Keeps("cd")
      /\ Size("vu")' = Size("vu") /\ Size("su")' = Size("su") /\ Size("sd")' = Size("sd")
      /\ Size("vd")' = Size("vd") /\ Size("cd")' = Size("cd")
      /\ KeepsEnds("cu") /\ Size("cu")' = Size("cu") + 1
      /\ chan'["cu"].q = Append(chan["cu"].q, (client.sent + 1))
  BY <1>1, <1>2, <1>4, <1>6, ChanPut DEF Mux!Chans
<1>8. MuxTyped'
  BY <1>1, <1>2, <1>7, <1>3, <1>4, <1>5 DEF MuxTyped
<1>9. MuxShape'
  BY <1>1, <1>2, <1>7, <1>3, <1>4, <1>5 DEF MuxShape, Forwards, Unserved, KeepsEnds, Keeps
<1>10. UpFlows' /\ UpTo' = UpTo
  <2>1. UpBytes' = UpBytes /\ (OpenVu' => OpenVu) /\ (OpenCu' => OpenCu)
    BY <1>1, <1>7 DEF UpBytes, OpenVu, OpenCu, Runs, AgentUp, Forwards, Keeps, KeepsEnds
  <2>2. QED
    BY <1>1, <1>2, <1>7, <1>3, <1>4, <1>5, <2>1, UpGiven DEF Keeps, KeepsEnds
<1>11. DownFlows' /\ DownTo' = DownTo
  BY <1>1, <1>2, <1>7, DownStays, <1>3, <1>4, <1>5 DEF OpenVd, OpenSd, DownBytes, Forwards, Runs,
     AgentUp, KeepsEnds, Keeps, Size, MuxShape, Unserved
<1>12. Uncut'
  BY <1>1, <1>2, <1>7, <1>3, <1>4, <1>5 DEF Uncut, Forwards, Mux!Copies, KeepsEnds, Keeps, MuxShape,
     Unserved
<1>13. UncutUp'
  BY <1>1, <1>2, <1>7, <1>10, <1>3, <1>4, <1>5 DEF UncutUp, Forwards, HostUpOver, AgentUpOver, UpOn,
     UpBytes, KeepsEnds, Keeps, MuxShape, Unserved, Uncut, Mux!Copies
<1>14. UncutDown'
  BY <1>1, <1>2, <1>7, <1>11, <1>3, <1>4, <1>5 DEF UncutDown, Forwards, HostDownOver, AgentDownOver,
     DownOn, DownBytes, KeepsEnds, Keeps, MuxShape, Unserved, Uncut, Mux!Copies
<1>15. QED
  BY <1>8, <1>9, <1>10, <1>11, <1>12, <1>13, <1>14 DEF MuxInv

LEMMA SendDown ==
  ASSUME MuxAssumption, MuxInv, Mux!Send("down")
  PROVE  MuxInv'
<1>1. UNCHANGED <<kind, host, agent, cut, copying>>
  BY DEF Mux!Send
<1>2. MuxTyped /\ ChanTyped /\ MuxShape /\ UpFlows /\ DownFlows /\ Uncut /\ UncutUp /\ UncutDown
  BY DEF MuxInv, MuxTyped
<1>3. Mux!In' = Mux!In /\ Mux!In \in {"cd", "vd"}
  BY <1>1 DEF Mux!In
<1>4. /\ service' = [service EXCEPT !.sent = @ + 1] /\ client' = client
       /\ ~service.ended /\ service.sent < MuxBytes /\ Mux!Room("sd") /\ ~chan["sd"].gone
       /\ agent \in {"copying", "done"}
       /\ chan' = Mux!Put("sd", service.sent + 1)
  BY DEF Mux!Send, Mux!Now, Mux!EndOf, Mux!There, Mux!OutOf, Mux!InOf, Mux!In, Mux!Out
<1>5. /\ service' \in Ends /\ service'.sent = service.sent + 1 /\ service'.got = service.got
      /\ service'.ended = service.ended /\ service'.seen = service.seen
  BY <1>2, <1>4, MuxAssumption, EndSent DEF MuxTyped
<1>6. service.sent + 1 \in Bytes /\ Size("sd") <= MuxRoom /\ service.sent \in Nat
  BY <1>2, <1>4, ChanFields, MuxAssumption DEF MuxTyped, Ends, Bytes, Mux!Room, Size, Mux!Chans
<1>7. /\ ChanTyped'
      /\ Keeps("cu") /\ Keeps("vu") /\ Keeps("su") /\ Keeps("vd") /\ Keeps("cd")
      /\ Size("cu")' = Size("cu") /\ Size("vu")' = Size("vu") /\ Size("su")' = Size("su")
      /\ Size("vd")' = Size("vd") /\ Size("cd")' = Size("cd")
      /\ KeepsEnds("sd") /\ Size("sd")' = Size("sd") + 1
      /\ chan'["sd"].q = Append(chan["sd"].q, (service.sent + 1))
  BY <1>1, <1>2, <1>4, <1>6, ChanPut DEF Mux!Chans
<1>8. MuxTyped'
  BY <1>1, <1>2, <1>7, <1>3, <1>4, <1>5 DEF MuxTyped
<1>9. MuxShape'
  BY <1>1, <1>2, <1>7, <1>3, <1>4, <1>5 DEF MuxShape, Forwards, Unserved, KeepsEnds, Keeps
<1>10. UpFlows' /\ UpTo' = UpTo
  BY <1>1, <1>2, <1>7, UpStays, <1>3, <1>4, <1>5 DEF OpenVu, OpenCu, UpBytes, Forwards, Runs,
     AgentUp, KeepsEnds, Keeps, Size, MuxShape, Unserved
<1>11. DownFlows' /\ DownTo' = DownTo
  <2>1. DownBytes' = DownBytes /\ (OpenVd' => OpenVd) /\ (OpenSd' => OpenSd)
            /\ chan'[Mux!In].q = chan[Mux!In].q
    BY <1>1, <1>7, <1>3 DEF DownBytes, OpenVd, OpenSd, Runs, AgentUp, Forwards, Keeps, KeepsEnds
  <2>2. QED
    BY <1>1, <1>2, <1>7, <1>3, <1>4, <1>5, <2>1, DownGiven DEF Keeps, KeepsEnds
<1>12. Uncut'
  BY <1>1, <1>2, <1>7, <1>3, <1>4, <1>5 DEF Uncut, Forwards, Mux!Copies, KeepsEnds, Keeps, MuxShape,
     Unserved
<1>13. UncutUp'
  BY <1>1, <1>2, <1>7, <1>10, <1>3, <1>4, <1>5 DEF UncutUp, Forwards, HostUpOver, AgentUpOver, UpOn,
     UpBytes, KeepsEnds, Keeps, MuxShape, Unserved, Uncut, Mux!Copies
<1>14. UncutDown'
  BY <1>1, <1>2, <1>7, <1>11, <1>3, <1>4, <1>5 DEF UncutDown, Forwards, HostDownOver, AgentDownOver,
     DownOn, DownBytes, KeepsEnds, Keeps, MuxShape, Unserved, Uncut, Mux!Copies
<1>15. QED
  BY <1>8, <1>9, <1>10, <1>11, <1>12, <1>13, <1>14 DEF MuxInv

LEMMA FinishUpCall ==
  ASSUME MuxAssumption, MuxInv, Mux!Finish("up"), kind = "rpc"
  PROVE  MuxInv'
<1>1. UNCHANGED <<kind, host, agent, cut, copying>>
  BY DEF Mux!Finish
<1>2. MuxTyped /\ ChanTyped /\ MuxShape /\ UpFlows /\ DownFlows /\ Uncut /\ UncutUp /\ UncutDown
  BY DEF MuxInv, MuxTyped
<1>3. kind = "rpc" /\ kind' = "rpc" /\ Mux!In = "vd" /\ Mux!In' = "vd"
  BY <1>1, <1>2 DEF MuxTyped, MuxShape, Forwards, Mux!In, Unserved
<1>4. /\ client' = [client EXCEPT !.ended = TRUE] /\ service' = service
       /\ ~client.ended
       /\ chan' = [chan EXCEPT !["vu"].shut = TRUE]
  BY DEF Mux!Finish, Mux!Now, Mux!EndOf, Mux!There, Mux!OutOf, Mux!InOf, Mux!In, Mux!Out
<1>5. /\ client' \in Ends /\ client'.sent = client.sent /\ client'.got = client.got
      /\ client'.ended = TRUE /\ client'.seen = client.seen
  BY <1>2, <1>4, MuxAssumption, EndFinished DEF MuxTyped
<1>6. ~cut => AgentUpOver \/ UpOn = client.sent
  <2>1. SUFFICES ASSUME ~cut, ~AgentUpOver
                 PROVE  UpOn = client.sent
    OBVIOUS
  <2>2. OpenVu /\ ~Forwards /\ ~chan["vu"].gone
    BY <1>2, <1>3, <2>1 DEF OpenVu, Uncut, AgentUpOver, Runs, AgentUp, Forwards, Mux!Copies,
       MuxTyped
  <2>3. QED
    BY <1>2, <2>2 DEF UpFlows
<1>7. /\ ChanTyped'
      /\ Keeps("cu") /\ Keeps("su") /\ Keeps("sd") /\ Keeps("vd") /\ Keeps("cd")
      /\ Size("cu")' = Size("cu") /\ Size("su")' = Size("su") /\ Size("sd")' = Size("sd")
      /\ Size("vd")' = Size("vd") /\ Size("cd")' = Size("cd")
      /\ chan'["vu"].q = chan["vu"].q /\ chan'["vu"].shut /\ chan'["vu"].gone = chan["vu"].gone
      /\ Size("vu")' = Size("vu")
  BY <1>1, <1>2, <1>4, ChanShut DEF Mux!Chans
<1>8. MuxTyped'
  BY <1>1, <1>2, <1>7, <1>3, <1>4, <1>5 DEF MuxTyped
<1>9. MuxShape'
  BY <1>1, <1>2, <1>7, <1>3, <1>4, <1>5 DEF MuxShape, Forwards, Unserved, KeepsEnds, Keeps
<1>10. UpFlows' /\ UpTo' = UpTo
  BY <1>1, <1>2, <1>7, UpStays, <1>3, <1>4, <1>5 DEF OpenVu, OpenCu, UpBytes, Forwards, Runs,
     AgentUp, KeepsEnds, Keeps, Size, MuxShape, Unserved
<1>11. DownFlows' /\ DownTo' = DownTo
  BY <1>1, <1>2, <1>7, DownStays, <1>3, <1>4, <1>5 DEF OpenVd, OpenSd, DownBytes, Forwards, Runs,
     AgentUp, KeepsEnds, Keeps, Size, MuxShape, Unserved
<1>12. Uncut'
  BY <1>1, <1>2, <1>7, <1>3, <1>4, <1>5 DEF Uncut, Forwards, Mux!Copies, KeepsEnds, Keeps, MuxShape,
     Unserved
<1>13. UncutUp'
  <2>1. UpOn' = UpOn
    BY <1>1, <1>7, <1>10, <1>3 DEF UpOn, UpBytes, Forwards
  <2>2. QED
    BY <1>1, <1>2, <1>7, <1>10, <1>3, <1>4, <1>5, <1>6, <2>1 DEF UncutUp, Forwards, HostUpOver,
       AgentUpOver, KeepsEnds, Keeps
<1>14. UncutDown'
  BY <1>1, <1>2, <1>7, <1>11, <1>3, <1>4, <1>5 DEF UncutDown, Forwards, HostDownOver, AgentDownOver,
     DownOn, DownBytes, KeepsEnds, Keeps, MuxShape, Unserved, Uncut, Mux!Copies
<1>15. QED
  BY <1>8, <1>9, <1>10, <1>11, <1>12, <1>13, <1>14 DEF MuxInv

LEMMA GetUpCall ==
  ASSUME MuxAssumption, MuxInv, Mux!Get("up"), kind = "rpc"
  PROVE  MuxInv'
<1>1. UNCHANGED <<kind, host, agent, cut, copying>>
  BY DEF Mux!Get
<1>2. MuxTyped /\ ChanTyped /\ MuxShape /\ UpFlows /\ DownFlows /\ Uncut /\ UncutUp /\ UncutDown
  BY DEF MuxInv, MuxTyped
<1>3. kind = "rpc" /\ kind' = "rpc" /\ Mux!In = "vd" /\ Mux!In' = "vd"
  BY <1>1, <1>2 DEF MuxTyped, MuxShape, Forwards, Mux!In, Unserved
<1>4. /\ client' = [client EXCEPT !.got = @ + 1, !.wrong = @ \/ Head(chan["vd"].q) # client.got + 1] /\ service' = service
       /\ ~client.seen /\ chan["vd"].q # <<>>
       /\ chan' = [chan EXCEPT !["vd"].q = Tail(@)]
  BY DEF Mux!Get, Mux!Now, Mux!EndOf, Mux!There, Mux!OutOf, Mux!InOf, Mux!In, Mux!Out
<1>5. /\ client' \in Ends /\ client'.sent = client.sent /\ client'.got = client.got + 1
      /\ client'.ended = client.ended /\ client'.seen = client.seen
  BY <1>2, <1>4, MuxAssumption, EndGot, <1>3, DownTaken DEF MuxTyped
<1>6. /\ ChanTyped'
      /\ Keeps("cu") /\ Keeps("vu") /\ Keeps("su") /\ Keeps("sd") /\ Keeps("cd")
      /\ Size("cu")' = Size("cu") /\ Size("vu")' = Size("vu") /\ Size("su")' = Size("su")
      /\ Size("sd")' = Size("sd") /\ Size("cd")' = Size("cd")
      /\ KeepsEnds("vd") /\ Size("vd")' = Size("vd") - 1 /\ chan'["vd"].q = Tail(chan["vd"].q)
  BY <1>1, <1>2, <1>4, ChanTake DEF Mux!Chans
<1>7. MuxTyped'
  BY <1>1, <1>2, <1>6, <1>3, <1>4, <1>5 DEF MuxTyped
<1>8. MuxShape'
  BY <1>1, <1>2, <1>6, <1>3, <1>4, <1>5 DEF MuxShape, Forwards, Unserved, KeepsEnds, Keeps
<1>9. UpFlows' /\ UpTo' = UpTo
  BY <1>1, <1>2, <1>6, UpStays, <1>3, <1>4, <1>5 DEF OpenVu, OpenCu, UpBytes, Forwards, Runs,
     AgentUp, KeepsEnds, Keeps, Size, MuxShape, Unserved
<1>10. DownFlows' /\ DownTo' = DownTo
  <2>1. (Forwards => DownBytes' = DownBytes) /\ (OpenVd' => OpenVd) /\ (OpenSd' => OpenSd)
    BY <1>1, <1>6, <1>3 DEF DownBytes, OpenVd, OpenSd, Runs, AgentUp, Forwards, Keeps, KeepsEnds
  <2>2. QED
    BY <1>1, <1>2, <1>6, <1>3, <1>4, <1>5, <2>1, DownGot DEF Keeps
<1>11. Uncut'
  BY <1>1, <1>2, <1>6, <1>3, <1>4, <1>5 DEF Uncut, Forwards, Mux!Copies, KeepsEnds, Keeps, MuxShape,
     Unserved
<1>12. UncutUp'
  BY <1>1, <1>2, <1>6, <1>9, <1>3, <1>4, <1>5 DEF UncutUp, Forwards, HostUpOver, AgentUpOver, UpOn,
     UpBytes, KeepsEnds, Keeps, MuxShape, Unserved, Uncut, Mux!Copies
<1>13. UncutDown'
  BY <1>1, <1>2, <1>6, <1>10, <1>3, <1>4, <1>5 DEF UncutDown, Forwards, HostDownOver, AgentDownOver,
     DownOn, DownBytes, KeepsEnds, Keeps, MuxShape, Unserved, Uncut, Mux!Copies
<1>14. QED
  BY <1>7, <1>8, <1>9, <1>10, <1>11, <1>12, <1>13 DEF MuxInv

LEMMA DropUpCall ==
  ASSUME MuxAssumption, MuxInv, Mux!Drop("up"), kind = "rpc"
  PROVE  MuxInv'
<1>1. UNCHANGED <<kind, host, agent, copying>>
  BY DEF Mux!Drop
<1>2. MuxTyped /\ ChanTyped /\ MuxShape /\ UpFlows /\ DownFlows /\ Uncut /\ UncutUp /\ UncutDown
  BY DEF MuxInv, MuxTyped
<1>3. kind = "rpc" /\ kind' = "rpc" /\ Mux!In = "vd" /\ Mux!In' = "vd"
  BY <1>1, <1>2 DEF MuxTyped, MuxShape, Forwards, Mux!In, Unserved
<1>4. /\ client' = [client EXCEPT !.ended = TRUE, !.seen = TRUE] /\ service' = service
       /\ cut' = TRUE
       /\ chan' = [chan EXCEPT !["vu"].shut = TRUE, !["vd"].gone = TRUE, !["vd"].q = <<>>]
  BY DEF Mux!Drop, Mux!Now, Mux!EndOf, Mux!There, Mux!OutOf, Mux!InOf, Mux!In, Mux!Out
<1>5. /\ client' \in Ends /\ client'.sent = client.sent /\ client'.got = client.got
      /\ client'.ended = TRUE /\ client'.seen = TRUE
  BY <1>2, <1>4, MuxAssumption, EndLeft DEF MuxTyped
<1>6. /\ ChanTyped' /\ \A x \in Mux!Chans \ {"vu", "vd"} : Keeps(x) /\ Size(x)' = Size(x)
       /\ chan'["vu"].q = chan["vu"].q /\ Size("vu")' = Size("vu") /\ chan'["vu"].shut
       /\ chan'["vu"].gone = chan["vu"].gone
       /\ chan'["vd"].q = <<>> /\ chan'["vd"].shut = chan["vd"].shut /\ chan'["vd"].gone
  <2>1. "vu" \in Mux!Chans /\ "vd" \in Mux!Chans
    BY DEF Mux!Chans
  <2>2. QED
    BY <1>2, <1>4, <2>1, ChanDropped
<1>7. /\ ChanTyped'
      /\ Keeps("cu") /\ Keeps("su") /\ Keeps("sd") /\ Keeps("cd")
      /\ Size("cu")' = Size("cu") /\ Size("su")' = Size("su") /\ Size("sd")' = Size("sd")
      /\ Size("cd")' = Size("cd")
      /\ chan'["vu"].q = chan["vu"].q /\ Size("vu")' = Size("vu") /\ chan'["vu"].shut
      /\ chan'["vu"].gone = chan["vu"].gone
      /\ chan'["vd"].q = <<>> /\ chan'["vd"].shut = chan["vd"].shut /\ chan'["vd"].gone
  BY <1>6 DEF Mux!Chans
<1>8. MuxTyped'
  BY <1>1, <1>2, <1>7, <1>3, <1>4, <1>5 DEF MuxTyped
<1>9. MuxShape'
  BY <1>1, <1>2, <1>7, <1>3, <1>4, <1>5 DEF MuxShape, Forwards, Unserved, KeepsEnds, Keeps
<1>10. UpFlows' /\ UpTo' = UpTo
  BY <1>1, <1>2, <1>7, UpStays, <1>3, <1>4, <1>5 DEF OpenVu, OpenCu, UpBytes, Forwards, Runs,
     AgentUp, KeepsEnds, Keeps, Size, MuxShape, Unserved
<1>11. DownFlows'
  <2>1. ~OpenVd' /\ ~OpenSd'
    BY <1>1, <1>7, <1>3 DEF OpenVd, OpenSd, Forwards
  <2>2. QED
    BY <1>1, <1>2, <1>7, <1>3, <1>4, <1>5, <2>1, DownGone
<1>12. Uncut'
  BY <1>1, <1>2, <1>7, <1>3, <1>4, <1>5 DEF Uncut, Forwards, Mux!Copies, KeepsEnds, Keeps, MuxShape,
     Unserved
<1>13. UncutUp'
  BY <1>1, <1>2, <1>7, <1>10, <1>3, <1>4, <1>5 DEF UncutUp, Forwards, HostUpOver, AgentUpOver, UpOn,
     UpBytes, KeepsEnds, Keeps, MuxShape, Unserved, Uncut, Mux!Copies
<1>14. UncutDown'
  BY <1>1, <1>2, <1>7, <1>11, <1>3, <1>4, <1>5 DEF UncutDown, Forwards, HostDownOver, AgentDownOver,
     DownOn, DownBytes, KeepsEnds, Keeps, MuxShape, Unserved, Uncut, Mux!Copies
<1>15. QED
  BY <1>8, <1>9, <1>10, <1>11, <1>12, <1>13, <1>14 DEF MuxInv

LEMMA FinishUpOn ==
  ASSUME MuxAssumption, MuxInv, Mux!Finish("up"), kind = "forward"
  PROVE  MuxInv'
<1>1. UNCHANGED <<kind, host, agent, cut, copying>>
  BY DEF Mux!Finish
<1>2. MuxTyped /\ ChanTyped /\ MuxShape /\ UpFlows /\ DownFlows /\ Uncut /\ UncutUp /\ UncutDown
  BY DEF MuxInv, MuxTyped
<1>3. kind = "forward" /\ kind' = "forward" /\ Mux!In = "cd" /\ Mux!In' = "cd"
  BY <1>1, <1>2 DEF MuxTyped, MuxShape, Forwards, Mux!In, Unserved
<1>4. /\ client' = [client EXCEPT !.ended = TRUE] /\ service' = service
       /\ ~client.ended
       /\ chan' = [chan EXCEPT !["cu"].shut = TRUE]
  BY DEF Mux!Finish, Mux!Now, Mux!EndOf, Mux!There, Mux!OutOf, Mux!InOf, Mux!In, Mux!Out
<1>5. /\ client' \in Ends /\ client'.sent = client.sent /\ client'.got = client.got
      /\ client'.ended = TRUE /\ client'.seen = client.seen
  BY <1>2, <1>4, MuxAssumption, EndFinished DEF MuxTyped
<1>6. /\ ChanTyped'
      /\ Keeps("vu") /\ Keeps("su") /\ Keeps("sd") /\ Keeps("vd") /\ Keeps("cd")
      /\ Size("vu")' = Size("vu") /\ Size("su")' = Size("su") /\ Size("sd")' = Size("sd")
      /\ Size("vd")' = Size("vd") /\ Size("cd")' = Size("cd")
      /\ chan'["cu"].q = chan["cu"].q /\ chan'["cu"].shut /\ chan'["cu"].gone = chan["cu"].gone
      /\ Size("cu")' = Size("cu")
  BY <1>1, <1>2, <1>4, ChanShut DEF Mux!Chans
<1>7. MuxTyped'
  BY <1>1, <1>2, <1>6, <1>3, <1>4, <1>5 DEF MuxTyped
<1>8. MuxShape'
  BY <1>1, <1>2, <1>6, <1>3, <1>4, <1>5 DEF MuxShape, Forwards, Unserved, KeepsEnds, Keeps
<1>9. UpFlows' /\ UpTo' = UpTo
  BY <1>1, <1>2, <1>6, UpStays, <1>3, <1>4, <1>5 DEF OpenVu, OpenCu, UpBytes, Forwards, Runs,
     AgentUp, KeepsEnds, Keeps, Size, MuxShape, Unserved
<1>10. DownFlows' /\ DownTo' = DownTo
  BY <1>1, <1>2, <1>6, DownStays, <1>3, <1>4, <1>5 DEF OpenVd, OpenSd, DownBytes, Forwards, Runs,
     AgentUp, KeepsEnds, Keeps, Size, MuxShape, Unserved
<1>11. Uncut'
  BY <1>1, <1>2, <1>6, <1>3, <1>4, <1>5 DEF Uncut, Forwards, Mux!Copies, KeepsEnds, Keeps, MuxShape,
     Unserved
<1>12. UncutUp'
  BY <1>1, <1>2, <1>6, <1>9, <1>3, <1>4, <1>5 DEF UncutUp, Forwards, HostUpOver, AgentUpOver, UpOn,
     UpBytes, KeepsEnds, Keeps, MuxShape, Unserved, Uncut, Mux!Copies
<1>13. UncutDown'
  BY <1>1, <1>2, <1>6, <1>10, <1>3, <1>4, <1>5 DEF UncutDown, Forwards, HostDownOver, AgentDownOver,
     DownOn, DownBytes, KeepsEnds, Keeps, MuxShape, Unserved, Uncut, Mux!Copies
<1>14. QED
  BY <1>7, <1>8, <1>9, <1>10, <1>11, <1>12, <1>13 DEF MuxInv

LEMMA GetUpOn ==
  ASSUME MuxAssumption, MuxInv, Mux!Get("up"), kind = "forward"
  PROVE  MuxInv'
<1>1. UNCHANGED <<kind, host, agent, cut, copying>>
  BY DEF Mux!Get
<1>2. MuxTyped /\ ChanTyped /\ MuxShape /\ UpFlows /\ DownFlows /\ Uncut /\ UncutUp /\ UncutDown
  BY DEF MuxInv, MuxTyped
<1>3. kind = "forward" /\ kind' = "forward" /\ Mux!In = "cd" /\ Mux!In' = "cd"
  BY <1>1, <1>2 DEF MuxTyped, MuxShape, Forwards, Mux!In, Unserved
<1>4. /\ client' = [client EXCEPT !.got = @ + 1, !.wrong = @ \/ Head(chan["cd"].q) # client.got + 1] /\ service' = service
       /\ ~client.seen /\ chan["cd"].q # <<>>
       /\ chan' = [chan EXCEPT !["cd"].q = Tail(@)]
  BY DEF Mux!Get, Mux!Now, Mux!EndOf, Mux!There, Mux!OutOf, Mux!InOf, Mux!In, Mux!Out
<1>5. /\ client' \in Ends /\ client'.sent = client.sent /\ client'.got = client.got + 1
      /\ client'.ended = client.ended /\ client'.seen = client.seen
  BY <1>2, <1>4, MuxAssumption, EndGot, <1>3, DownTaken DEF MuxTyped
<1>6. /\ ChanTyped'
      /\ Keeps("cu") /\ Keeps("vu") /\ Keeps("su") /\ Keeps("sd") /\ Keeps("vd")
      /\ Size("cu")' = Size("cu") /\ Size("vu")' = Size("vu") /\ Size("su")' = Size("su")
      /\ Size("sd")' = Size("sd") /\ Size("vd")' = Size("vd")
      /\ KeepsEnds("cd") /\ Size("cd")' = Size("cd") - 1 /\ chan'["cd"].q = Tail(chan["cd"].q)
  BY <1>1, <1>2, <1>4, ChanTake DEF Mux!Chans
<1>7. MuxTyped'
  BY <1>1, <1>2, <1>6, <1>3, <1>4, <1>5 DEF MuxTyped
<1>8. MuxShape'
  BY <1>1, <1>2, <1>6, <1>3, <1>4, <1>5 DEF MuxShape, Forwards, Unserved, KeepsEnds, Keeps
<1>9. UpFlows' /\ UpTo' = UpTo
  BY <1>1, <1>2, <1>6, UpStays, <1>3, <1>4, <1>5 DEF OpenVu, OpenCu, UpBytes, Forwards, Runs,
     AgentUp, KeepsEnds, Keeps, Size, MuxShape, Unserved
<1>10. DownFlows' /\ DownTo' = DownTo
  <2>1. (Forwards => DownBytes' = DownBytes) /\ (OpenVd' => OpenVd) /\ (OpenSd' => OpenSd)
    BY <1>1, <1>6, <1>3 DEF DownBytes, OpenVd, OpenSd, Runs, AgentUp, Forwards, Keeps, KeepsEnds
  <2>2. QED
    BY <1>1, <1>2, <1>6, <1>3, <1>4, <1>5, <2>1, DownGot DEF Keeps
<1>11. Uncut'
  BY <1>1, <1>2, <1>6, <1>3, <1>4, <1>5 DEF Uncut, Forwards, Mux!Copies, KeepsEnds, Keeps, MuxShape,
     Unserved
<1>12. UncutUp'
  BY <1>1, <1>2, <1>6, <1>9, <1>3, <1>4, <1>5 DEF UncutUp, Forwards, HostUpOver, AgentUpOver, UpOn,
     UpBytes, KeepsEnds, Keeps, MuxShape, Unserved, Uncut, Mux!Copies
<1>13. UncutDown'
  BY <1>1, <1>2, <1>6, <1>10, <1>3, <1>4, <1>5 DEF UncutDown, Forwards, HostDownOver, AgentDownOver,
     DownOn, DownBytes, KeepsEnds, Keeps, MuxShape, Unserved, Uncut, Mux!Copies
<1>14. QED
  BY <1>7, <1>8, <1>9, <1>10, <1>11, <1>12, <1>13 DEF MuxInv

LEMMA DropUpOn ==
  ASSUME MuxAssumption, MuxInv, Mux!Drop("up"), kind = "forward"
  PROVE  MuxInv'
<1>1. UNCHANGED <<kind, host, agent, copying>>
  BY DEF Mux!Drop
<1>2. MuxTyped /\ ChanTyped /\ MuxShape /\ UpFlows /\ DownFlows /\ Uncut /\ UncutUp /\ UncutDown
  BY DEF MuxInv, MuxTyped
<1>3. kind = "forward" /\ kind' = "forward" /\ Mux!In = "cd" /\ Mux!In' = "cd"
  BY <1>1, <1>2 DEF MuxTyped, MuxShape, Forwards, Mux!In, Unserved
<1>4. /\ client' = [client EXCEPT !.ended = TRUE, !.seen = TRUE] /\ service' = service
       /\ cut' = TRUE
       /\ chan' = [chan EXCEPT !["cu"].shut = TRUE, !["cd"].gone = TRUE, !["cd"].q = <<>>]
  BY DEF Mux!Drop, Mux!Now, Mux!EndOf, Mux!There, Mux!OutOf, Mux!InOf, Mux!In, Mux!Out
<1>5. /\ client' \in Ends /\ client'.sent = client.sent /\ client'.got = client.got
      /\ client'.ended = TRUE /\ client'.seen = TRUE
  BY <1>2, <1>4, MuxAssumption, EndLeft DEF MuxTyped
<1>6. /\ ChanTyped' /\ \A x \in Mux!Chans \ {"cu", "cd"} : Keeps(x) /\ Size(x)' = Size(x)
       /\ chan'["cu"].q = chan["cu"].q /\ Size("cu")' = Size("cu") /\ chan'["cu"].shut
       /\ chan'["cu"].gone = chan["cu"].gone
       /\ chan'["cd"].q = <<>> /\ chan'["cd"].shut = chan["cd"].shut /\ chan'["cd"].gone
  <2>1. "cu" \in Mux!Chans /\ "cd" \in Mux!Chans
    BY DEF Mux!Chans
  <2>2. QED
    BY <1>2, <1>4, <2>1, ChanDropped
<1>7. /\ ChanTyped'
      /\ Keeps("vu") /\ Keeps("su") /\ Keeps("sd") /\ Keeps("vd")
      /\ Size("vu")' = Size("vu") /\ Size("su")' = Size("su") /\ Size("sd")' = Size("sd")
      /\ Size("vd")' = Size("vd")
      /\ chan'["cu"].q = chan["cu"].q /\ Size("cu")' = Size("cu") /\ chan'["cu"].shut
      /\ chan'["cu"].gone = chan["cu"].gone
      /\ chan'["cd"].q = <<>> /\ chan'["cd"].shut = chan["cd"].shut /\ chan'["cd"].gone
  BY <1>6 DEF Mux!Chans
<1>8. MuxTyped'
  BY <1>1, <1>2, <1>7, <1>3, <1>4, <1>5 DEF MuxTyped
<1>9. MuxShape'
  BY <1>1, <1>2, <1>7, <1>3, <1>4, <1>5 DEF MuxShape, Forwards, Unserved, KeepsEnds, Keeps
<1>10. UpFlows' /\ UpTo' = UpTo
  BY <1>1, <1>2, <1>7, UpStays, <1>3, <1>4, <1>5 DEF OpenVu, OpenCu, UpBytes, Forwards, Runs,
     AgentUp, KeepsEnds, Keeps, Size, MuxShape, Unserved
<1>11. DownFlows'
  <2>1. ~OpenVd' /\ ~OpenSd'
    BY <1>1, <1>7, <1>3 DEF OpenVd, OpenSd, Forwards
  <2>2. QED
    BY <1>1, <1>2, <1>7, <1>3, <1>4, <1>5, <2>1, DownGone
<1>12. Uncut'
  BY <1>1, <1>2, <1>7, <1>3, <1>4, <1>5 DEF Uncut, Forwards, Mux!Copies, KeepsEnds, Keeps, MuxShape,
     Unserved
<1>13. UncutUp'
  BY <1>1, <1>2, <1>7, <1>10, <1>3, <1>4, <1>5 DEF UncutUp, Forwards, HostUpOver, AgentUpOver, UpOn,
     UpBytes, KeepsEnds, Keeps, MuxShape, Unserved, Uncut, Mux!Copies
<1>14. UncutDown'
  BY <1>1, <1>2, <1>7, <1>11, <1>3, <1>4, <1>5 DEF UncutDown, Forwards, HostDownOver, AgentDownOver,
     DownOn, DownBytes, KeepsEnds, Keeps, MuxShape, Unserved, Uncut, Mux!Copies
<1>15. QED
  BY <1>8, <1>9, <1>10, <1>11, <1>12, <1>13, <1>14 DEF MuxInv

LEMMA FinishDown ==
  ASSUME MuxAssumption, MuxInv, Mux!Finish("down")
  PROVE  MuxInv'
<1>1. UNCHANGED <<kind, host, agent, cut, copying>>
  BY DEF Mux!Finish
<1>2. MuxTyped /\ ChanTyped /\ MuxShape /\ UpFlows /\ DownFlows /\ Uncut /\ UncutUp /\ UncutDown
  BY DEF MuxInv, MuxTyped
<1>3. Mux!In' = Mux!In /\ Mux!In \in {"cd", "vd"}
  BY <1>1 DEF Mux!In
<1>4. /\ service' = [service EXCEPT !.ended = TRUE] /\ client' = client
       /\ ~service.ended /\ agent \in {"copying", "done"}
       /\ chan' = [chan EXCEPT !["sd"].shut = TRUE]
  BY DEF Mux!Finish, Mux!Now, Mux!EndOf, Mux!There, Mux!OutOf, Mux!InOf, Mux!In, Mux!Out
<1>5. /\ service' \in Ends /\ service'.sent = service.sent /\ service'.got = service.got
      /\ service'.ended = TRUE /\ service'.seen = service.seen
  BY <1>2, <1>4, MuxAssumption, EndFinished DEF MuxTyped
<1>6. /\ ChanTyped'
      /\ Keeps("cu") /\ Keeps("vu") /\ Keeps("su") /\ Keeps("vd") /\ Keeps("cd")
      /\ Size("cu")' = Size("cu") /\ Size("vu")' = Size("vu") /\ Size("su")' = Size("su")
      /\ Size("vd")' = Size("vd") /\ Size("cd")' = Size("cd")
      /\ chan'["sd"].q = chan["sd"].q /\ chan'["sd"].shut /\ chan'["sd"].gone = chan["sd"].gone
      /\ Size("sd")' = Size("sd")
  BY <1>1, <1>2, <1>4, ChanShut DEF Mux!Chans
<1>7. MuxTyped'
  BY <1>1, <1>2, <1>6, <1>3, <1>4, <1>5 DEF MuxTyped
<1>8. MuxShape'
  BY <1>1, <1>2, <1>6, <1>3, <1>4, <1>5 DEF MuxShape, Forwards, Unserved, KeepsEnds, Keeps
<1>9. UpFlows' /\ UpTo' = UpTo
  BY <1>1, <1>2, <1>6, UpStays, <1>3, <1>4, <1>5 DEF OpenVu, OpenCu, UpBytes, Forwards, Runs,
     AgentUp, KeepsEnds, Keeps, Size, MuxShape, Unserved
<1>10. DownFlows' /\ DownTo' = DownTo
  BY <1>1, <1>2, <1>6, DownStays, <1>3, <1>4, <1>5 DEF OpenVd, OpenSd, DownBytes, Forwards, Runs,
     AgentUp, KeepsEnds, Keeps, Size, MuxShape, Unserved
<1>11. Uncut'
  BY <1>1, <1>2, <1>6, <1>3, <1>4, <1>5 DEF Uncut, Forwards, Mux!Copies, KeepsEnds, Keeps, MuxShape,
     Unserved
<1>12. UncutUp'
  BY <1>1, <1>2, <1>6, <1>9, <1>3, <1>4, <1>5 DEF UncutUp, Forwards, HostUpOver, AgentUpOver, UpOn,
     UpBytes, KeepsEnds, Keeps, MuxShape, Unserved, Uncut, Mux!Copies
<1>13. UncutDown'
  BY <1>1, <1>2, <1>6, <1>10, <1>3, <1>4, <1>5 DEF UncutDown, Forwards, HostDownOver, AgentDownOver,
     DownOn, DownBytes, KeepsEnds, Keeps, MuxShape, Unserved, Uncut, Mux!Copies
<1>14. QED
  BY <1>7, <1>8, <1>9, <1>10, <1>11, <1>12, <1>13 DEF MuxInv

LEMMA GetDown ==
  ASSUME MuxAssumption, MuxInv, Mux!Get("down")
  PROVE  MuxInv'
<1>1. UNCHANGED <<kind, host, agent, cut, copying>>
  BY DEF Mux!Get
<1>2. MuxTyped /\ ChanTyped /\ MuxShape /\ UpFlows /\ DownFlows /\ Uncut /\ UncutUp /\ UncutDown
  BY DEF MuxInv, MuxTyped
<1>3. Mux!In' = Mux!In /\ Mux!In \in {"cd", "vd"}
  BY <1>1 DEF Mux!In
<1>4. /\ service' = [service EXCEPT !.got = @ + 1, !.wrong = @ \/ Head(chan["su"].q) # service.got + 1] /\ client' = client
       /\ ~service.seen /\ chan["su"].q # <<>> /\ agent \in {"copying", "done"}
       /\ chan' = [chan EXCEPT !["su"].q = Tail(@)]
  BY DEF Mux!Get, Mux!Now, Mux!EndOf, Mux!There, Mux!OutOf, Mux!InOf, Mux!In, Mux!Out
<1>5. /\ service' \in Ends /\ service'.sent = service.sent /\ service'.got = service.got + 1
      /\ service'.ended = service.ended /\ service'.seen = service.seen
  BY <1>2, <1>4, MuxAssumption, EndGot, UpTaken DEF MuxTyped
<1>6. /\ ChanTyped'
      /\ Keeps("cu") /\ Keeps("vu") /\ Keeps("sd") /\ Keeps("vd") /\ Keeps("cd")
      /\ Size("cu")' = Size("cu") /\ Size("vu")' = Size("vu") /\ Size("sd")' = Size("sd")
      /\ Size("vd")' = Size("vd") /\ Size("cd")' = Size("cd")
      /\ KeepsEnds("su") /\ Size("su")' = Size("su") - 1 /\ chan'["su"].q = Tail(chan["su"].q)
  BY <1>1, <1>2, <1>4, ChanTake DEF Mux!Chans
<1>7. MuxTyped'
  BY <1>1, <1>2, <1>6, <1>3, <1>4, <1>5 DEF MuxTyped
<1>8. MuxShape'
  BY <1>1, <1>2, <1>6, <1>3, <1>4, <1>5 DEF MuxShape, Forwards, Unserved, KeepsEnds, Keeps
<1>9. UpFlows' /\ UpTo' = UpTo
  <2>1. UpBytes' = UpBytes /\ (OpenVu' => OpenVu) /\ (OpenCu' => OpenCu)
    BY <1>1, <1>6 DEF UpBytes, OpenVu, OpenCu, Runs, AgentUp, Forwards, Keeps, KeepsEnds
  <2>2. QED
    BY <1>1, <1>2, <1>6, <1>4, <1>5, <2>1, UpGot DEF Keeps, KeepsEnds
<1>10. DownFlows' /\ DownTo' = DownTo
  BY <1>1, <1>2, <1>6, DownStays, <1>3, <1>4, <1>5 DEF OpenVd, OpenSd, DownBytes, Forwards, Runs,
     AgentUp, KeepsEnds, Keeps, Size, MuxShape, Unserved
<1>11. Uncut'
  BY <1>1, <1>2, <1>6, <1>3, <1>4, <1>5 DEF Uncut, Forwards, Mux!Copies, KeepsEnds, Keeps, MuxShape,
     Unserved
<1>12. UncutUp'
  BY <1>1, <1>2, <1>6, <1>9, <1>3, <1>4, <1>5 DEF UncutUp, Forwards, HostUpOver, AgentUpOver, UpOn,
     UpBytes, KeepsEnds, Keeps, MuxShape, Unserved, Uncut, Mux!Copies
<1>13. UncutDown'
  BY <1>1, <1>2, <1>6, <1>10, <1>3, <1>4, <1>5 DEF UncutDown, Forwards, HostDownOver, AgentDownOver,
     DownOn, DownBytes, KeepsEnds, Keeps, MuxShape, Unserved, Uncut, Mux!Copies
<1>14. QED
  BY <1>7, <1>8, <1>9, <1>10, <1>11, <1>12, <1>13 DEF MuxInv

LEMMA DropDown ==
  ASSUME MuxAssumption, MuxInv, Mux!Drop("down")
  PROVE  MuxInv'
<1>1. UNCHANGED <<kind, host, agent, copying>>
  BY DEF Mux!Drop
<1>2. MuxTyped /\ ChanTyped /\ MuxShape /\ UpFlows /\ DownFlows /\ Uncut /\ UncutUp /\ UncutDown
  BY DEF MuxInv, MuxTyped
<1>3. Mux!In' = Mux!In /\ Mux!In \in {"cd", "vd"}
  BY <1>1 DEF Mux!In
<1>4. /\ service' = [service EXCEPT !.ended = TRUE, !.seen = TRUE] /\ client' = client
       /\ cut' = TRUE /\ agent \in {"copying", "done"}
       /\ chan' = [chan EXCEPT !["sd"].shut = TRUE, !["su"].gone = TRUE, !["su"].q = <<>>]
  BY DEF Mux!Drop, Mux!Now, Mux!EndOf, Mux!There, Mux!OutOf, Mux!InOf, Mux!In, Mux!Out
<1>5. /\ service' \in Ends /\ service'.sent = service.sent /\ service'.got = service.got
      /\ service'.ended = TRUE /\ service'.seen = TRUE
  BY <1>2, <1>4, MuxAssumption, EndLeft DEF MuxTyped
<1>6. /\ ChanTyped'
      /\ Keeps("cu") /\ Keeps("vu") /\ Keeps("vd") /\ Keeps("cd")
      /\ Size("cu")' = Size("cu") /\ Size("vu")' = Size("vu") /\ Size("vd")' = Size("vd")
      /\ Size("cd")' = Size("cd")
      /\ chan'["sd"].q = chan["sd"].q /\ Size("sd")' = Size("sd") /\ chan'["sd"].shut
      /\ chan'["sd"].gone = chan["sd"].gone
      /\ chan'["su"].q = <<>> /\ chan'["su"].shut = chan["su"].shut /\ chan'["su"].gone
  BY <1>1, <1>2, <1>4, ChanDropped DEF Mux!Chans
<1>7. MuxTyped'
  BY <1>1, <1>2, <1>6, <1>3, <1>4, <1>5 DEF MuxTyped
<1>8. MuxShape'
  BY <1>1, <1>2, <1>6, <1>3, <1>4, <1>5 DEF MuxShape, Forwards, Unserved, KeepsEnds, Keeps
<1>9. UpFlows'
  <2>1. ~OpenVu'
    BY <1>6 DEF OpenVu
  <2>2. QED
    BY <1>1, <1>2, <1>6, <1>4, <1>5, <2>1, UpLost
<1>10. DownFlows' /\ DownTo' = DownTo
  BY <1>1, <1>2, <1>6, DownStays, <1>3, <1>4, <1>5 DEF OpenVd, OpenSd, DownBytes, Forwards, Runs,
     AgentUp, KeepsEnds, Keeps, Size, MuxShape, Unserved
<1>11. Uncut'
  BY <1>1, <1>2, <1>6, <1>3, <1>4, <1>5 DEF Uncut, Forwards, Mux!Copies, KeepsEnds, Keeps, MuxShape,
     Unserved
<1>12. UncutUp'
  BY <1>1, <1>2, <1>6, <1>9, <1>3, <1>4, <1>5 DEF UncutUp, Forwards, HostUpOver, AgentUpOver, UpOn,
     UpBytes, KeepsEnds, Keeps, MuxShape, Unserved, Uncut, Mux!Copies
<1>13. UncutDown'
  BY <1>1, <1>2, <1>6, <1>10, <1>3, <1>4, <1>5 DEF UncutDown, Forwards, HostDownOver, AgentDownOver,
     DownOn, DownBytes, KeepsEnds, Keeps, MuxShape, Unserved, Uncut, Mux!Copies
<1>14. QED
  BY <1>7, <1>8, <1>9, <1>10, <1>11, <1>12, <1>13 DEF MuxInv

LEMMA SeeUp ==
  ASSUME MuxAssumption, MuxInv, Mux!See("up")
  PROVE  MuxInv'
<1>1. UNCHANGED <<kind, host, agent, cut, copying>>
  BY DEF Mux!See
<1>2. MuxTyped /\ ChanTyped /\ MuxShape /\ UpFlows /\ DownFlows /\ Uncut /\ UncutUp /\ UncutDown
  BY DEF MuxInv, MuxTyped
<1>3. Mux!In' = Mux!In /\ Mux!In \in {"cd", "vd"}
  BY <1>1 DEF Mux!In
<1>4. /\ client' = [client EXCEPT !.seen = TRUE] /\ service' = service
       /\ TRUE
       /\ chan' = chan
  BY DEF Mux!See, Mux!Now, Mux!EndOf, Mux!There, Mux!OutOf, Mux!InOf, Mux!In, Mux!Out
<1>5. /\ client' \in Ends /\ client'.sent = client.sent /\ client'.got = client.got
      /\ client'.ended = client.ended /\ client'.seen = TRUE
  BY <1>2, <1>4, MuxAssumption, EndSaw DEF MuxTyped
<1>6. /\ ChanTyped'
      /\ Keeps("cu") /\ Keeps("vu") /\ Keeps("su") /\ Keeps("sd") /\ Keeps("vd") /\ Keeps("cd")
      /\ Size("cu")' = Size("cu") /\ Size("vu")' = Size("vu") /\ Size("su")' = Size("su")
      /\ Size("sd")' = Size("sd") /\ Size("vd")' = Size("vd") /\ Size("cd")' = Size("cd")
  BY <1>1, <1>2, <1>4, ChanSame DEF Mux!Chans
<1>7. MuxTyped'
  BY <1>1, <1>2, <1>6, <1>3, <1>4, <1>5 DEF MuxTyped
<1>8. MuxShape'
  BY <1>1, <1>2, <1>6, <1>3, <1>4, <1>5 DEF MuxShape, Forwards, Unserved, KeepsEnds, Keeps
<1>9. UpFlows' /\ UpTo' = UpTo
  BY <1>1, <1>2, <1>6, UpStays, <1>3, <1>4, <1>5 DEF OpenVu, OpenCu, UpBytes, Forwards, Runs,
     AgentUp, KeepsEnds, Keeps, Size, MuxShape, Unserved
<1>10. DownFlows' /\ DownTo' = DownTo
  BY <1>1, <1>2, <1>6, DownStays, <1>3, <1>4, <1>5 DEF OpenVd, OpenSd, DownBytes, Forwards, Runs,
     AgentUp, KeepsEnds, Keeps, Size, MuxShape, Unserved
<1>11. Uncut'
  BY <1>1, <1>2, <1>6, <1>3, <1>4, <1>5 DEF Uncut, Forwards, Mux!Copies, KeepsEnds, Keeps, MuxShape,
     Unserved
<1>12. UncutUp'
  BY <1>1, <1>2, <1>6, <1>9, <1>3, <1>4, <1>5 DEF UncutUp, Forwards, HostUpOver, AgentUpOver, UpOn,
     UpBytes, KeepsEnds, Keeps, MuxShape, Unserved, Uncut, Mux!Copies
<1>13. UncutDown'
  BY <1>1, <1>2, <1>6, <1>10, <1>3, <1>4, <1>5 DEF UncutDown, Forwards, HostDownOver, AgentDownOver,
     DownOn, DownBytes, KeepsEnds, Keeps, MuxShape, Unserved, Uncut, Mux!Copies
<1>14. QED
  BY <1>7, <1>8, <1>9, <1>10, <1>11, <1>12, <1>13 DEF MuxInv

LEMMA SeeDown ==
  ASSUME MuxAssumption, MuxInv, Mux!See("down")
  PROVE  MuxInv'
<1>1. UNCHANGED <<kind, host, agent, cut, copying>>
  BY DEF Mux!See
<1>2. MuxTyped /\ ChanTyped /\ MuxShape /\ UpFlows /\ DownFlows /\ Uncut /\ UncutUp /\ UncutDown
  BY DEF MuxInv, MuxTyped
<1>3. Mux!In' = Mux!In /\ Mux!In \in {"cd", "vd"}
  BY <1>1 DEF Mux!In
<1>4. /\ service' = [service EXCEPT !.seen = TRUE] /\ client' = client
       /\ TRUE
       /\ chan' = chan
  BY DEF Mux!See, Mux!Now, Mux!EndOf, Mux!There, Mux!OutOf, Mux!InOf, Mux!In, Mux!Out
<1>5. /\ service' \in Ends /\ service'.sent = service.sent /\ service'.got = service.got
      /\ service'.ended = service.ended /\ service'.seen = TRUE
  BY <1>2, <1>4, MuxAssumption, EndSaw DEF MuxTyped
<1>6. /\ ChanTyped'
      /\ Keeps("cu") /\ Keeps("vu") /\ Keeps("su") /\ Keeps("sd") /\ Keeps("vd") /\ Keeps("cd")
      /\ Size("cu")' = Size("cu") /\ Size("vu")' = Size("vu") /\ Size("su")' = Size("su")
      /\ Size("sd")' = Size("sd") /\ Size("vd")' = Size("vd") /\ Size("cd")' = Size("cd")
  BY <1>1, <1>2, <1>4, ChanSame DEF Mux!Chans
<1>7. MuxTyped'
  BY <1>1, <1>2, <1>6, <1>3, <1>4, <1>5 DEF MuxTyped
<1>8. MuxShape'
  BY <1>1, <1>2, <1>6, <1>3, <1>4, <1>5 DEF MuxShape, Forwards, Unserved, KeepsEnds, Keeps
<1>9. UpFlows' /\ UpTo' = UpTo
  BY <1>1, <1>2, <1>6, UpStays, <1>3, <1>4, <1>5 DEF OpenVu, OpenCu, UpBytes, Forwards, Runs,
     AgentUp, KeepsEnds, Keeps, Size, MuxShape, Unserved
<1>10. DownFlows' /\ DownTo' = DownTo
  BY <1>1, <1>2, <1>6, DownStays, <1>3, <1>4, <1>5 DEF OpenVd, OpenSd, DownBytes, Forwards, Runs,
     AgentUp, KeepsEnds, Keeps, Size, MuxShape, Unserved
<1>11. Uncut'
  BY <1>1, <1>2, <1>6, <1>3, <1>4, <1>5 DEF Uncut, Forwards, Mux!Copies, KeepsEnds, Keeps, MuxShape,
     Unserved
<1>12. UncutUp'
  BY <1>1, <1>2, <1>6, <1>9, <1>3, <1>4, <1>5 DEF UncutUp, Forwards, HostUpOver, AgentUpOver, UpOn,
     UpBytes, KeepsEnds, Keeps, MuxShape, Unserved, Uncut, Mux!Copies
<1>13. UncutDown'
  BY <1>1, <1>2, <1>6, <1>10, <1>3, <1>4, <1>5 DEF UncutDown, Forwards, HostDownOver, AgentDownOver,
     DownOn, DownBytes, KeepsEnds, Keeps, MuxShape, Unserved, Uncut, Mux!Copies
<1>14. QED
  BY <1>7, <1>8, <1>9, <1>10, <1>11, <1>12, <1>13 DEF MuxInv

LEMMA InitMuxInv == MuxAssumption /\ Mux!Init => MuxInv
<1>1. SUFFICES ASSUME MuxAssumption, Mux!Init
               PROVE  MuxInv
  OBVIOUS
<1>2. /\ chan = [c \in Mux!Chans |-> Mux!Open] /\ Mux!Open \in Channel /\ Mux!Open.q = <<>>
      /\ Mux!Open.shut = FALSE /\ Mux!Open.gone = FALSE
      /\ \A c \in Mux!Chans : chan[c].q = <<>> /\ chan[c].shut = FALSE /\ chan[c].gone = FALSE
  BY <1>1 DEF Mux!Init, Mux!Open, Channel
<1>3. Len(<<>>) = 0 /\ \A c \in Mux!Chans : Size(c) = 0
  BY <1>2 DEF Size
<1>4. Mux!End0 \in Ends /\ Mux!End0.sent = 0 /\ Mux!End0.got = 0
  BY <1>1 DEF Mux!End0, Ends, MuxAssumption
<1>5. copying = [c \in Mux!Copies |-> "off"] /\ \A t \in Mux!Copies : copying[t] = "off"
  BY <1>1 DEF Mux!Init
<1>6. /\ kind \in {"forward", "rpc"} /\ host = "accepted" /\ agent = "none" /\ client = Mux!End0
      /\ service = Mux!End0 /\ cut = FALSE
  BY <1>1 DEF Mux!Init
<1>7. MuxTyped
  <2>1. /\ chan \in [Mux!Chans -> Channel]
        /\ copying \in [Mux!Copies -> {"off", "on", "ended", "failed"}]
    BY <1>2, <1>5
  <2>2. \A c \in Mux!Chans : Size(c) <= MuxRoom + 1
    BY <1>1, <1>3 DEF MuxAssumption
  <2>3. QED
    BY <1>4, <1>6, <2>1, <2>2 DEF MuxTyped, ChanTyped
<1>8. MuxShape
  BY <1>2, <1>5, <1>6 DEF MuxShape, Forwards, Unserved, Mux!Chans, Mux!Copies
<1>9. Mux!In \in Mux!Chans /\ UpTo = 0 /\ DownTo = 0
  BY <1>3, <1>4, <1>6 DEF Mux!In, Mux!Chans, UpTo, DownTo
<1>10. UpBytes = <<>> /\ DownBytes = <<>> /\ UpOn = 0 /\ DownOn = 0
  BY <1>2, <1>3, <1>6, <1>9 DEF UpBytes, DownBytes, UpOn, DownOn, Forwards, Mux!Chans
<1>11. UpFlows
  BY <1>2, <1>3, <1>4, <1>6, <1>9, <1>10, AfterEmpty DEF UpFlows, Mux!Chans
<1>12. DownFlows
  BY <1>2, <1>3, <1>4, <1>6, <1>9, <1>10, AfterEmpty DEF DownFlows, Mux!Chans
<1>13. Uncut /\ UncutUp /\ UncutDown
  BY <1>2, <1>5, <1>6, <1>9 DEF Uncut, UncutUp, UncutDown, AgentUpOver, AgentDownOver, HostUpOver,
     HostDownOver, Mux!Chans, Mux!Copies
<1>14. QED
  BY <1>7, <1>8, <1>11, <1>12, <1>13 DEF MuxInv

LEMMA CopySteps ==
  ASSUME MuxAssumption, MuxInv, NEW t \in Mux!Copies, Mux!Copy(t)
  PROVE  MuxInv'
<1>1. \/ chan[Mux!From[t]].q # <<>> /\ ~chan[Mux!To[t]].gone
      \/ chan[Mux!From[t]].q # <<>> /\ chan[Mux!To[t]].gone
      \/ chan[Mux!From[t]].q = <<>> /\ chan[Mux!From[t]].shut
  BY DEF Mux!Copy
<1>2. CASE t = "hostUp"
  BY <1>1, <1>2, CopyHostUpMoves, CopyHostUpFails, CopyHostUpEnds DEF Mux!From, Mux!To
<1>3. CASE t = "agentUp"
  BY <1>1, <1>3, CopyAgentUpMoves, CopyAgentUpFails, CopyAgentUpEnds DEF Mux!From, Mux!To
<1>4. CASE t = "hostDown"
  BY <1>1, <1>4, CopyHostDownMoves, CopyHostDownFails, CopyHostDownEnds DEF Mux!From, Mux!To
<1>5. CASE t = "agentDown"
  <2>1. kind \in {"forward", "rpc"}
    BY DEF MuxInv, MuxTyped
  <2>2. QED
    BY <1>1, <1>5, <2>1, CopyAgentDownMovesOn, CopyAgentDownMovesIn, CopyAgentDownFails,
       CopyAgentDownEnds DEF Mux!From, Mux!To
<1>6. QED
  BY <1>2, <1>3, <1>4, <1>5 DEF Mux!Copies

LEMMA EndSteps ==
  ASSUME MuxAssumption, MuxInv, NEW w \in Mux!Ways,
         Mux!Send(w) \/ Mux!Finish(w) \/ Mux!Get(w) \/ Mux!See(w) \/ Mux!Drop(w)
  PROVE  MuxInv'
<1>1. kind = "forward" \/ kind = "rpc"
  BY DEF MuxInv, MuxTyped
<1>2. CASE w = "up"
  BY <1>1, <1>2, SendUpCall, SendUpOn, FinishUpCall, FinishUpOn, GetUpCall, GetUpOn, SeeUp,
     DropUpCall, DropUpOn
<1>3. CASE w = "down"
  BY <1>3, SendDown, FinishDown, GetDown, SeeDown, DropDown
<1>4. QED
  BY <1>2, <1>3 DEF Mux!Ways

LEMMA StepMuxInv == MuxAssumption /\ MuxInv /\ [Mux!Next]_muxVars => MuxInv'
<1>1. SUFFICES ASSUME MuxAssumption, MuxInv, [Mux!Next]_muxVars
               PROVE  MuxInv'
  OBVIOUS
<1>2. CASE Mux!Connect
  BY <1>1, <1>2, ConnectRpc, ConnectSends, ConnectRefused
<1>3. CASE Mux!ReadStatus
  BY <1>1, <1>3, ReadStatusOk, ReadStatusFails
<1>4. CASE Mux!HostEnds \/ Mux!AgentEnds \/ Mux!LoseVm
  BY <1>1, <1>4, HostEndsStep, AgentEndsStep, LoseVmStep
<1>5. CASE Mux!First
  BY <1>1, <1>5, FirstEmpty, FirstMagic, FirstCall
<1>6. CASE Mux!Serve
  <2>1. CASE agent' = "copying"
    BY <1>1, <1>6, <2>1, ServeStarts
  <2>2. CASE Mux!Refuse(<<Mux!No>>)
    BY <1>1, <1>6, <2>2, Refused DEF Mux!Serve
  <2>3. QED
    BY <1>6, <2>1, <2>2 DEF Mux!Serve, Mux!Start
<1>7. CASE Mux!Bridge
  <2>1. CASE agent' = "copying"
    BY <1>1, <1>7, <2>1, BridgeStarts
  <2>2. CASE Mux!Refuse(<<>>)
    BY <1>1, <1>7, <2>2, Refused DEF Mux!Bridge
  <2>3. QED
    BY <1>7, <2>1, <2>2 DEF Mux!Bridge, Mux!Start
<1>8. CASE \E t \in Mux!Copies : Mux!Copy(t)
  BY <1>1, <1>8, CopySteps
<1>9. CASE \E w \in Mux!Ways : Mux!Send(w) \/ Mux!Finish(w) \/ Mux!Get(w) \/ Mux!See(w)
               \/ Mux!Drop(w)
  BY <1>1, <1>9, EndSteps
<1>10. CASE UNCHANGED muxVars
  BY <1>1, <1>10 DEF muxVars, MuxInv, MuxTyped, MuxShape, UpFlows, DownFlows, Uncut, UncutUp,
     UncutDown, ChanTyped, Size,
       Forwards, Runs, AgentUp, UpBytes, DownBytes, OpenVu, OpenCu, OpenVd, OpenSd, UpTo, UpOn, DownTo, DownOn, Mux!In,
       HostUpOver, HostDownOver, AgentUpOver, AgentDownOver
<1>11. QED
  BY <1>1, <1>2, <1>3, <1>4, <1>5, <1>6, <1>7, <1>8, <1>9, <1>10 DEF Mux!Next

LEMMA StreamInit == Mux!Init => Mux!Stream!Init
  BY DEF Mux!Init, Mux!Stream!Init, Mux!Stream!Ways, Mux!End0, Mux!EndOf, Mux!Other, Mux!Ways

LEMMA StreamCut ==
  ASSUME UNCHANGED <<client, service>>, cut \in BOOLEAN, cut' = cut \/ cut' = TRUE
  PROVE  Mux!Stream!Cut \/ UNCHANGED Mux!Stream!vars
  BY DEF Mux!Stream!Cut, Mux!Stream!vars, Mux!EndOf, Mux!Other

LEMMA EndOfNow ==
  ASSUME NEW w \in Mux!Ways, NEW e, Mux!Now(w, e)
  PROVE  (Mux!EndOf(w))' = e /\ \A v \in Mux!Ways \ {w} : (Mux!EndOf(v))' = Mux!EndOf(v)
  BY DEF Mux!Now, Mux!EndOf, Mux!Ways

LEMMA EndsTyped == MuxInv => \A v \in Mux!Ways : Mux!EndOf(v) \in Ends
    /\ Mux!Other(v) \in Mux!Ways /\ Mux!Other(Mux!Other(v)) = v /\ Mux!Other(v) # v
  BY DEF MuxInv, MuxTyped, Mux!EndOf, Mux!Ways, Mux!Other

LEMMA EndsCount == MuxAssumption => \A e \in Ends : e.got \in Nat /\ e.sent \in Nat
  BY DEF Ends, MuxAssumption

LEMMA StreamSend ==
  ASSUME MuxAssumption, MuxInv, NEW w \in Mux!Ways, Mux!Send(w)
  PROVE  Mux!Stream!Send(w)
<1>1. /\ ~Mux!EndOf(w).ended /\ Mux!EndOf(w).sent < MuxBytes /\ cut' = cut
      /\ (Mux!EndOf(w))' = [Mux!EndOf(w) EXCEPT !.sent = @ + 1]
           /\ \A v \in Mux!Ways \ {w} : (Mux!EndOf(v))' = Mux!EndOf(v)
  BY EndOfNow DEF Mux!Send
<1>2. \A v \in Mux!Ways : Mux!EndOf(v) \in Ends /\ Mux!Other(v) \in Mux!Ways
  BY EndsTyped
<1>3. \A v \in Mux!Ways : /\ (Mux!EndOf(v))'.sent = (IF v = w THEN Mux!EndOf(v).sent + 1 ELSE Mux!EndOf(v).sent)
                      /\ (Mux!EndOf(v))'.got = Mux!EndOf(v).got
                      /\ (Mux!EndOf(v))'.ended = Mux!EndOf(v).ended
                      /\ (Mux!EndOf(v))'.seen = Mux!EndOf(v).seen
                      /\ (Mux!EndOf(v))'.wrong = Mux!EndOf(v).wrong
  BY <1>1, <1>2 DEF Ends
<1>4. QED
  BY <1>1, <1>2, <1>3 DEF Mux!Stream!Send

LEMMA StreamEnd ==
  ASSUME MuxAssumption, MuxInv, NEW w \in Mux!Ways, Mux!Finish(w)
  PROVE  Mux!Stream!End(w)
<1>1. /\ ~Mux!EndOf(w).ended /\ cut' = cut
      /\ (Mux!EndOf(w))' = [Mux!EndOf(w) EXCEPT !.ended = TRUE]
           /\ \A v \in Mux!Ways \ {w} : (Mux!EndOf(v))' = Mux!EndOf(v)
  BY EndOfNow DEF Mux!Finish
<1>2. \A v \in Mux!Ways : Mux!EndOf(v) \in Ends /\ Mux!Other(v) \in Mux!Ways
  BY EndsTyped
<1>3. \A v \in Mux!Ways : /\ (Mux!EndOf(v))'.ended = (IF v = w THEN TRUE ELSE Mux!EndOf(v).ended)
                      /\ (Mux!EndOf(v))'.got = Mux!EndOf(v).got
                      /\ (Mux!EndOf(v))'.sent = Mux!EndOf(v).sent
                      /\ (Mux!EndOf(v))'.seen = Mux!EndOf(v).seen
                      /\ (Mux!EndOf(v))'.wrong = Mux!EndOf(v).wrong
  BY <1>1, <1>2 DEF Ends
<1>4. QED
  BY <1>1, <1>2, <1>3 DEF Mux!Stream!End

LEMMA StreamGet ==
  ASSUME MuxAssumption, MuxInv, NEW w \in Mux!Ways, Mux!Get(w)
  PROVE  Mux!Stream!Get(Mux!Other(w))
<1>1. /\ ~Mux!EndOf(w).seen /\ chan[Mux!InOf(w)].q # <<>> /\ cut' = cut
      /\ (Mux!EndOf(w))' = [Mux!EndOf(w) EXCEPT !.got = @ + 1, !.wrong = @ \/ Head(chan[Mux!InOf(w)].q) # Mux!EndOf(w).got + 1]
      /\ \A v \in Mux!Ways \ {w} : (Mux!EndOf(v))' = Mux!EndOf(v)
  BY EndOfNow DEF Mux!Get
<1>2. \A v \in Mux!Ways : Mux!EndOf(v) \in Ends /\ Mux!Other(v) \in Mux!Ways
          /\ Mux!Other(Mux!Other(v)) = v /\ Mux!Other(v) # v
  BY EndsTyped
<1>3. /\ Head(chan[Mux!InOf(w)].q) = Mux!EndOf(w).got + 1 /\ Mux!EndOf(w).got < MuxBytes
      /\ Mux!EndOf(w).got < Mux!EndOf(Mux!Other(w)).sent
  <2>1. client \in Ends /\ service \in Ends /\ MuxTyped /\ UpFlows /\ DownFlows
    BY DEF MuxInv, MuxTyped
  <2>2. client.got \in Nat /\ client.sent \in Nat /\ service.got \in Nat /\ service.sent \in Nat
    BY <2>1, MuxAssumption DEF Ends
  <2>3. CASE w = "up"
    <3>1. /\ Head(chan[Mux!In].q) = client.got + 1 /\ client.got < MuxBytes
          /\ client.got + 1 <= service.sent
      BY <1>1, <2>1, <2>3, DownTaken DEF Mux!InOf
    <3>2. client.got < service.sent
      BY ONLY <2>2, <3>1
    <3>3. QED
      BY <2>3, <3>1, <3>2 DEF Mux!InOf, Mux!EndOf, Mux!Other
  <2>4. CASE w = "down"
    <3>1. /\ Head(chan["su"].q) = service.got + 1 /\ service.got < MuxBytes
          /\ service.got + 1 <= client.sent
      BY <1>1, <2>1, <2>4, UpTaken DEF Mux!InOf
    <3>2. service.got < client.sent
      BY ONLY <2>2, <3>1
    <3>3. QED
      BY <2>4, <3>1, <3>2 DEF Mux!InOf, Mux!EndOf, Mux!Other
  <2>5. QED
    BY <2>3, <2>4 DEF Mux!Ways
<1>4. /\ (Mux!EndOf(w))'.got = Mux!EndOf(w).got + 1 /\ (Mux!EndOf(w))'.sent = Mux!EndOf(w).sent
      /\ (Mux!EndOf(w))'.ended = Mux!EndOf(w).ended
      /\ (Mux!EndOf(w))'.seen = Mux!EndOf(w).seen /\ (Mux!EndOf(w))'.wrong = FALSE
  <2>1. [Mux!EndOf(w) EXCEPT !.got = @ + 1, !.wrong = @
            \/ Head(chan[Mux!InOf(w)].q) # Mux!EndOf(w).got + 1] \in Ends
    BY <1>2, <1>3, EndGot
  <2>2. QED
    BY <1>1, <1>2, <1>3, <2>1, EndGot DEF Ends
<1>5. \A v \in Mux!Ways : /\ (Mux!EndOf(v))'.got = (IF v = w THEN Mux!EndOf(v).got + 1 ELSE Mux!EndOf(v).got)
                      /\ (Mux!EndOf(v))'.ended = Mux!EndOf(v).ended
                      /\ (Mux!EndOf(v))'.sent = Mux!EndOf(v).sent
                      /\ (Mux!EndOf(v))'.seen = Mux!EndOf(v).seen /\ Mux!EndOf(v).wrong = FALSE
                      /\ (Mux!EndOf(v))'.wrong = FALSE
  BY <1>1, <1>2, <1>4 DEF Ends
<1>6. \A v \in Mux!Ways : Mux!EndOf(v).got \in Nat
  BY <1>2, EndsCount
<1>7. \A v \in Mux!Ways :
        /\ Mux!EndOf(v).got + (IF Mux!EndOf(v).wrong THEN MuxBytes + 1 ELSE 0) = Mux!EndOf(v).got
        /\ (Mux!EndOf(v))'.got + (IF (Mux!EndOf(v))'.wrong THEN MuxBytes + 1 ELSE 0)
             = (IF v = w THEN Mux!EndOf(v).got + 1 ELSE Mux!EndOf(v).got)
  BY <1>5, <1>6
<1>8. \A v \in Mux!Ways : Mux!Other(v) = w <=> v = Mux!Other(w)
  BY DEF Mux!Ways, Mux!Other
<1>9. w \in Mux!Ways /\ Mux!Other(w) \in Mux!Ways /\ Mux!Other(Mux!Other(w)) = w
  BY <1>2
<1>10. [v \in Mux!Ways |-> Mux!EndOf(Mux!Other(v)).got
           + (IF Mux!EndOf(Mux!Other(v)).wrong THEN MuxBytes + 1 ELSE 0)]' =
       [[v \in Mux!Ways |-> Mux!EndOf(Mux!Other(v)).got
         + (IF Mux!EndOf(Mux!Other(v)).wrong THEN MuxBytes + 1 ELSE 0)] EXCEPT ![Mux!Other(w)]
           = @ + 1]
  <2>1. \A v \in Mux!Ways : Mux!EndOf(Mux!Other(v)).got
            + (IF Mux!EndOf(Mux!Other(v)).wrong THEN MuxBytes + 1 ELSE 0)
              = Mux!EndOf(Mux!Other(v)).got
    BY <1>2, <1>7
  <2>2. \A v \in Mux!Ways : (Mux!EndOf(Mux!Other(v)))'.got
            + (IF (Mux!EndOf(Mux!Other(v)))'.wrong THEN MuxBytes + 1 ELSE 0)
                        = (IF v = Mux!Other(w) THEN Mux!EndOf(Mux!Other(v)).got + 1
                             ELSE Mux!EndOf(Mux!Other(v)).got)
    BY <1>2, <1>7, <1>8
  <2>3. [v \in Mux!Ways |-> Mux!EndOf(Mux!Other(v)).got
            + (IF Mux!EndOf(Mux!Other(v)).wrong THEN MuxBytes + 1 ELSE 0)]
        = [v \in Mux!Ways |-> Mux!EndOf(Mux!Other(v)).got]
    BY <2>1
  <2>4. [v \in Mux!Ways |-> Mux!EndOf(Mux!Other(v)).got
            + (IF Mux!EndOf(Mux!Other(v)).wrong THEN MuxBytes + 1 ELSE 0)]'
        = [v \in Mux!Ways |-> IF v = Mux!Other(w) THEN Mux!EndOf(Mux!Other(v)).got + 1
            ELSE Mux!EndOf(Mux!Other(v)).got]
    BY <2>2
  <2>5. [[v \in Mux!Ways |-> Mux!EndOf(Mux!Other(v)).got] EXCEPT ![Mux!Other(w)] = @ + 1]
        = [v \in Mux!Ways |-> IF v = Mux!Other(w) THEN Mux!EndOf(Mux!Other(v)).got + 1
            ELSE Mux!EndOf(Mux!Other(v)).got]
    BY <1>9
  <2>6. QED
    BY <2>3, <2>4, <2>5
<1>11. QED
  BY <1>1, <1>2, <1>3, <1>5, <1>7, <1>9, <1>10 DEF Mux!Stream!Get

LEMMA StreamSee ==
  ASSUME MuxAssumption, MuxInv, NEW w \in Mux!Ways, Mux!See(w)
  PROVE  Mux!Stream!See(Mux!Other(w))
<1>1. /\ ~Mux!EndOf(w).seen /\ chan[Mux!InOf(w)].q = <<>> /\ chan[Mux!InOf(w)].shut /\ cut' = cut
      /\ (Mux!EndOf(w))' = [Mux!EndOf(w) EXCEPT !.seen = TRUE]
           /\ \A v \in Mux!Ways \ {w} : (Mux!EndOf(v))' = Mux!EndOf(v)
  BY EndOfNow DEF Mux!See
<1>2. \A v \in Mux!Ways : Mux!EndOf(v) \in Ends /\ Mux!Other(v) \in Mux!Ways
          /\ Mux!Other(Mux!Other(v)) = v /\ Mux!Other(v) # v
  BY EndsTyped
<1>3. cut \/ (Mux!EndOf(Mux!Other(w)).ended /\ Mux!EndOf(w).got = Mux!EndOf(Mux!Other(w)).sent)
  <2>1. client \in Ends /\ service \in Ends /\ MuxTyped /\ UncutUp /\ UncutDown /\ cut \in BOOLEAN
    BY DEF MuxInv, MuxTyped
  <2>2. client.got \in Nat /\ client.sent \in Nat /\ service.got \in Nat /\ service.sent \in Nat
    BY <2>1, MuxAssumption DEF Ends
  <2>3. CASE w = "up" /\ ~cut
    <3>1. service.ended /\ DownTo = service.sent /\ Size(Mux!In) = 0
      BY <1>1, <2>1, <2>3 DEF Mux!InOf, UncutDown, Size
    <3>2. DownTo = client.got + 0
      BY <3>1 DEF DownTo
    <3>3. client.got = service.sent
      BY ONLY <2>2, <3>1, <3>2
    <3>4. QED
      BY <2>3, <3>1, <3>3 DEF Mux!EndOf, Mux!Other
  <2>4. CASE w = "down" /\ ~cut
    <3>1. client.ended /\ UpTo = client.sent /\ Size("su") = 0
      BY <1>1, <2>1, <2>4 DEF Mux!InOf, UncutUp, Size
    <3>2. UpTo = service.got + 0
      BY <3>1 DEF UpTo
    <3>3. service.got = client.sent
      BY ONLY <2>2, <3>1, <3>2
    <3>4. QED
      BY <2>4, <3>1, <3>3 DEF Mux!EndOf, Mux!Other
  <2>5. QED
    BY <2>3, <2>4 DEF Mux!Ways
<1>4. \A v \in Mux!Ways : /\ (Mux!EndOf(v))'.seen = (IF v = w THEN TRUE ELSE Mux!EndOf(v).seen)
                      /\ (Mux!EndOf(v))'.got = Mux!EndOf(v).got
                      /\ (Mux!EndOf(v))'.sent = Mux!EndOf(v).sent
                      /\ (Mux!EndOf(v))'.ended = Mux!EndOf(v).ended
                      /\ (Mux!EndOf(v))'.wrong = Mux!EndOf(v).wrong
                      /\ Mux!EndOf(v).wrong = FALSE
  BY <1>1, <1>2 DEF Ends
<1>5. \A v \in Mux!Ways : Mux!EndOf(v).got + (IF Mux!EndOf(v).wrong THEN MuxBytes + 1 ELSE 0)
          = Mux!EndOf(v).got
  <2>1. \A v \in Mux!Ways : Mux!EndOf(v).got \in Nat
    BY <1>2, EndsCount
  <2>2. \A v \in Mux!Ways : Mux!EndOf(v).wrong = FALSE
    BY <1>2 DEF Ends
  <2>3. QED
    BY ONLY <2>1, <2>2
<1>6. QED
  BY <1>1, <1>2, <1>3, <1>4, <1>5 DEF Mux!Stream!See

LEMMA StreamLeave ==
  ASSUME MuxAssumption, MuxInv, NEW w \in Mux!Ways, Mux!Drop(w)
  PROVE  Mux!Stream!Leave(w)
<1>1. /\ cut' = TRUE
      /\ (Mux!EndOf(w))' = [Mux!EndOf(w) EXCEPT !.ended = TRUE, !.seen = TRUE]
           /\ \A v \in Mux!Ways \ {w} : (Mux!EndOf(v))' = Mux!EndOf(v)
  BY EndOfNow DEF Mux!Drop
<1>2. \A v \in Mux!Ways : Mux!EndOf(v) \in Ends /\ Mux!Other(v) \in Mux!Ways
          /\ Mux!Other(Mux!Other(v)) = v /\ Mux!Other(v) # v
  BY EndsTyped
<1>3. /\ (Mux!EndOf(w))'.ended = TRUE /\ (Mux!EndOf(w))'.seen = TRUE
      /\ (Mux!EndOf(w))'.sent = Mux!EndOf(w).sent
      /\ (Mux!EndOf(w))'.got = Mux!EndOf(w).got /\ (Mux!EndOf(w))'.wrong = Mux!EndOf(w).wrong
  BY <1>1, <1>2 DEF Ends
<1>4. \A v \in Mux!Ways : /\ (Mux!EndOf(v))'.sent = Mux!EndOf(v).sent /\ (Mux!EndOf(v))'.got = Mux!EndOf(v).got
                      /\ (Mux!EndOf(v))'.wrong = Mux!EndOf(v).wrong
                      /\ (Mux!EndOf(v))'.ended = (IF v = w THEN TRUE ELSE Mux!EndOf(v).ended)
  BY <1>1, <1>3
<1>5. \A v \in Mux!Ways : (Mux!EndOf(Mux!Other(v)))'.seen = (Mux!EndOf(Mux!Other(v)).seen \/ v # w)
  <2>1. TAKE v \in Mux!Ways
  <2>2. CASE v = w
    <3>1. /\ (Mux!EndOf(Mux!Other(v)))' = Mux!EndOf(Mux!Other(v))
          /\ Mux!EndOf(Mux!Other(v)).seen \in BOOLEAN
      BY <1>1, <1>2, <2>2 DEF Ends
    <3>2. QED
      BY <2>2, <3>1
  <2>3. CASE v # w
    <3>1. Mux!Other(v) = w
      BY <2>3 DEF Mux!Ways, Mux!Other
    <3>2. QED
      BY <1>3, <2>3, <3>1
  <2>4. QED
    BY <2>2, <2>3
<1>6. [v \in Mux!Ways |-> Mux!EndOf(Mux!Other(v)).seen]'
          = [v \in Mux!Ways |-> [u \in Mux!Ways |-> Mux!EndOf(Mux!Other(u)).seen][v] \/ v # w]
  BY <1>5
<1>7. QED
  BY <1>1, <1>2, <1>4, <1>6 DEF Mux!Stream!Leave, Mux!Stream!Ways, Mux!Ways

LEMMA StreamStep == MuxAssumption /\ MuxInv /\ [Mux!Next]_muxVars
  => [Mux!Stream!Next]_(Mux!Stream!vars)
<1>1. SUFFICES ASSUME MuxAssumption, MuxInv, [Mux!Next]_muxVars
               PROVE  [Mux!Stream!Next]_(Mux!Stream!vars)
  OBVIOUS
<1>2. CASE UNCHANGED muxVars
  BY <1>2 DEF muxVars, Mux!Stream!vars, Mux!EndOf, Mux!Other
<1>3. CASE Mux!Connect \/ Mux!ReadStatus \/ Mux!HostEnds \/ Mux!First \/ Mux!Serve
               \/ Mux!Bridge \/ Mux!AgentEnds \/ Mux!LoseVm \/ \E t \in Mux!Copies : Mux!Copy(t)
  <2>1. UNCHANGED <<client, service>> /\ (cut' = cut \/ cut' = TRUE)
    BY <1>3 DEF Mux!Connect, Mux!ReadStatus, Mux!HostEnds, Mux!First, Mux!Serve, Mux!Bridge,
       Mux!AgentEnds, Mux!LoseVm, Mux!Copy, Mux!Start, Mux!Refuse
  <2>2. cut \in BOOLEAN
    BY <1>1 DEF MuxInv, MuxTyped
  <2>3. QED
    BY <2>1, <2>2, StreamCut DEF Mux!Stream!Next
<1>4. CASE \E w \in Mux!Ways : Mux!Send(w) \/ Mux!Finish(w) \/ Mux!Get(w) \/ Mux!See(w)
               \/ Mux!Drop(w)
  <2>1. PICK w \in Mux!Ways : Mux!Send(w) \/ Mux!Finish(w) \/ Mux!Get(w) \/ Mux!See(w)
            \/ Mux!Drop(w)
    BY <1>4
  <2>2. Mux!Stream!Send(w) \/ Mux!Stream!End(w) \/ Mux!Stream!Get(Mux!Other(w))
            \/ Mux!Stream!See(Mux!Other(w)) \/ Mux!Stream!Leave(w)
    BY <1>1, <2>1, StreamSend, StreamEnd, StreamGet, StreamSee, StreamLeave
  <2>3. w \in Mux!Stream!Ways /\ Mux!Other(w) \in Mux!Stream!Ways
    BY DEF Mux!Ways, Mux!Stream!Ways, Mux!Other
  <2>4. QED
    BY <2>2, <2>3 DEF Mux!Stream!Next
<1>5. QED
  BY <1>1, <1>2, <1>3, <1>4 DEF Mux!Next

LEMMA MuxTypes == MuxInv => Mux!TypeOK
<1>1. SUFFICES ASSUME MuxInv
               PROVE  Mux!TypeOK
  OBVIOUS
<1>2. MuxTyped /\ ChanTyped
  BY <1>1 DEF MuxInv, MuxTyped
<1>3. \A c \in Mux!Chans : Len(chan[c].q) <= MuxRoom + 1
  BY <1>2 DEF ChanTyped, Size
<1>4. \A c \in Mux!Chans : Mux!ToSet(chan[c].q) \subseteq Bytes
  <2>1. \A c \in Mux!Chans : chan[c].q \in Seq(Bytes)
    BY <1>2, ChanFields
  <2>2. QED
    BY <2>1 DEF Mux!ToSet
<1>5. client.got <= MuxBytes /\ service.got <= MuxBytes
  BY <1>2, MuxAssumption DEF MuxTyped, Ends
<1>6. QED
  BY <1>2, <1>3, <1>4, <1>5 DEF MuxTyped, Mux!TypeOK, Bytes

LEMMA ServicesLeaveMux == [ServicesNext]_all => [Mux!Next]_muxVars
  BY DEF ServicesNext, all

\* What the two ends see of a connection is a stream each way that loses,
\* repeats and reorders nothing and whose end comes after everything, for any
\* number of bytes and any room in a channel, and whatever is refused, reset
\* or lost.
THEOREM ServicesMuxIsAStream == ServicesSpec => []Mux!TypeOK /\ Mux!IsAStream
<1>1. ServicesInit => MuxInv /\ Mux!Stream!Init
  BY InitMuxInv, StreamInit, MuxAssumption DEF ServicesInit
<1>2. MuxInv /\ [ServicesNext]_all => MuxInv'
  BY StepMuxInv, ServicesLeaveMux, MuxAssumption
<1>3. MuxInv /\ [ServicesNext]_all => [Mux!Stream!Next]_(Mux!Stream!vars)
  BY StreamStep, ServicesLeaveMux, MuxAssumption
<1>4. MuxInv => Mux!TypeOK
  BY MuxTypes
<1>5. QED
  BY <1>1, <1>2, <1>3, <1>4, PTL DEF ServicesSpec, Mux!IsAStream, Mux!Stream!Spec

=============================================================================
