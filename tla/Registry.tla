------------------------------ MODULE Registry ------------------------------
(***************************************************************************)
(* The app registry (src/src/worker/src/index.ts) and the programs that    *)
(* talk to it: `dotapps publish` (src/src/cli/src/publish.rs), which       *)
(* creates a version, uploads its archive and completes it in three HTTP   *)
(* requests, and the launcher (src/src/tauri/src/apps/registry.rs), which  *)
(* resolves an app to a manifest and a download URL and then downloads.    *)
(*                                                                         *)
(* The R2 bucket is three maps: a manifest and an archive per slug and     *)
(* version, and the `latest` pointer per slug.  Each R2 call is a step of  *)
(* its own, so the handlers of different requests interleave between their *)
(* calls.  A manifest and an archive are identified by the build they were *)
(* packed from.  Requests are in flight in `net`; they and their responses *)
(* may be lost, and the publisher may give up while a request it sent is   *)
(* still being served.                                                     *)
(***************************************************************************)
EXTENDS Naturals, FiniteSets

CONSTANTS Slugs,        \* app slugs
          Versions,     \* version strings that pass isValidVersion
          Builds,       \* what `dotapps pack` produced: one archive each
          Readers,      \* concurrent GET requests of launchers
          SlugOf,       \* the slug in a build's manifest
          VersionOf,    \* the version in a build's manifest
          MaxAttempts,  \* bound: `dotapps publish` runs per build
          None

ASSUME BuildsAssumption ==
  /\ SlugOf \in [Builds -> Slugs]
  /\ VersionOf \in [Builds -> Versions]
  /\ None \notin Builds \cup Versions \cup Slugs
  /\ MaxAttempts \in [Builds -> Nat]

VARIABLES manifest,     \* R2: apps/{slug}/{version}/manifest.json
          blob,         \* R2: apps/{slug}/{version}/app.apps
          latest,       \* R2: apps/{slug}/latest
          cli,          \* where the current publish run of a build is
          attempt,      \* how many publish runs of a build have started
          net,          \* requests in flight or being served
          reader        \* GET requests being served, and their downloads

vars == <<manifest, blob, latest, cli, attempt, net, reader>>

Keys == Slugs \X Versions
KeyOf(b) == <<SlugOf[b], VersionOf[b]>>

Requests == [kind : {"create", "put", "complete", "flip"}, build : Builds, run : Nat]

\* What a GET request knows so far: `ver` the version it resolved, `man` the
\* build whose manifest it answers with, `got` the build whose archive the
\* client downloaded, `todo` the slugs a listing still has to visit and
\* `listed` the manifests it has collected.
ReaderStates == [pc : {"idle", "pointer", "manifest", "exactManifest", "exactHead",
                       "answered", "downloaded", "list", "listManifest", "listed"},
                 slug : Slugs \cup {None}, ver : Versions \cup {None},
                 man : Builds \cup {None}, got : Builds \cup {None},
                 todo : SUBSET Slugs, listed : SUBSET (Keys \X Builds)]

IdleReader == [pc |-> "idle", slug |-> None, ver |-> None, man |-> None, got |-> None,
               todo |-> {}, listed |-> {}]

Init ==
  /\ manifest = [k \in Keys |-> None]
  /\ blob = [k \in Keys |-> None]
  /\ latest = [s \in Slugs |-> None]
  /\ cli = [b \in Builds |-> "idle"]
  /\ attempt = [b \in Builds |-> 0]
  /\ net = {}
  /\ reader = [r \in Readers |-> IdleReader]

-----------------------------------------------------------------------------
(* `dotapps publish` *)

Busy(b) == cli[b] \in {"create", "put", "complete"}

\* A run is one strictly sequential chain of requests; a failed or a finished
\* run may be repeated by the user.
StartPublish(b) ==
  /\ ~Busy(b)
  /\ attempt[b] < MaxAttempts[b]
  /\ attempt' = [attempt EXCEPT ![b] = @ + 1]
  /\ cli' = [cli EXCEPT ![b] = "create"]
  /\ net' = net \cup {[kind |-> "create", build |-> b, run |-> attempt[b] + 1]}
  /\ UNCHANGED <<manifest, blob, latest, reader>>

\* Any transport error or non-2xx answer ends the run; nothing is undone.
FailPublish(b) ==
  /\ Busy(b)
  /\ cli' = [cli EXCEPT ![b] = "failed"]
  /\ UNCHANGED <<manifest, blob, latest, attempt, net, reader>>

\* Somebody posts the completeUrl a create request handed out without having
\* uploaded first, or posts it again: the worker cannot tell.
PostComplete(b) ==
  /\ manifest[KeyOf(b)] # None
  /\ attempt[b] > 0
  /\ net' = net \cup {[kind |-> "complete", build |-> b, run |-> 0]}
  /\ UNCHANGED <<manifest, blob, latest, cli, attempt, reader>>

-----------------------------------------------------------------------------
(* The worker's publish routes *)

\* The run that sent `m` is still there and waits for the answer to `stage`.
Awaits(m, stage) == attempt[m.build] = m.run /\ cli[m.build] = stage

\* The handler of `m` answers: when the publisher still waits and the response
\* is not lost, it goes to `done` and sends the requests `next`.
Reply(m, stage, done, next) ==
  \/ /\ ~Awaits(m, stage)
     /\ UNCHANGED cli
     /\ net' = net \ {m}
  \/ /\ Awaits(m, stage)                             \* the response is lost
     /\ cli' = [cli EXCEPT ![m.build] = "failed"]
     /\ net' = net \ {m}
  \/ /\ Awaits(m, stage)
     /\ cli' = [cli EXCEPT ![m.build] = done]
     /\ net' = (net \ {m}) \cup next

HandleCreate(m) ==
  /\ m.kind = "create"
  /\ manifest' = [manifest EXCEPT ![KeyOf(m.build)] = m.build]
  /\ Reply(m, "create", "put", {[m EXCEPT !.kind = "put"]})
  /\ UNCHANGED <<blob, latest, attempt, reader>>

HandlePut(m) ==
  /\ m.kind = "put"
  /\ blob' = [blob EXCEPT ![KeyOf(m.build)] = m.build]
  /\ Reply(m, "put", "complete", {[m EXCEPT !.kind = "complete"]})
  /\ UNCHANGED <<manifest, latest, attempt, reader>>

\* Mutant: the answer does not wait for the pointer.
HandleCompleteAnswersFirst(m) ==
  /\ m.kind = "complete"
  /\ Reply(m, "complete", "published", {[m EXCEPT !.kind = "flip"]})
  /\ UNCHANGED <<manifest, blob, latest, attempt, reader>>

\* The head of the archive: missing is a 400, present leads to the pointer.
HandleComplete(m) ==
  /\ m.kind = "complete"
  /\ \/ /\ blob[KeyOf(m.build)] = None
        /\ Reply(m, "complete", "failed", {})
     \/ /\ blob[KeyOf(m.build)] # None
        /\ net' = (net \ {m}) \cup {[m EXCEPT !.kind = "flip"]}
        /\ UNCHANGED cli
  /\ UNCHANGED <<manifest, blob, latest, attempt, reader>>

FlipLatest(m) ==
  /\ m.kind = "flip"
  /\ latest' = [latest EXCEPT ![SlugOf[m.build]] = VersionOf[m.build]]
  /\ Reply(m, "complete", "published", {})
  /\ UNCHANGED <<manifest, blob, attempt, reader>>

\* A request is lost on the way, an upload breaks off before its last byte
\* (R2 stores nothing), or an R2 call fails and the handler answers 500.
LoseRequest(m) ==
  /\ net' = net \ {m}
  /\ UNCHANGED <<manifest, blob, latest, cli, attempt, reader>>

-----------------------------------------------------------------------------
(* The worker's read routes and the launcher's download *)

\* Every 404 or 500 ends the request.
SetReader(r, next) ==
  /\ reader' = [reader EXCEPT ![r] = next]
  /\ UNCHANGED <<manifest, blob, latest, cli, attempt, net>>

Restartable(r) == reader[r].pc \in {"idle", "downloaded", "listed"}

StartLatest(r, s) ==
  Restartable(r) /\ SetReader(r, [IdleReader EXCEPT !.pc = "pointer", !.slug = s])

StartExact(r, s, v) ==
  /\ Restartable(r)
  /\ SetReader(r, [IdleReader EXCEPT !.pc = "exactManifest", !.slug = s, !.ver = v])

StartList(r) ==
  /\ Restartable(r)
  /\ SetReader(r, [IdleReader EXCEPT !.pc = "list",
                     !.todo = {s \in Slugs : \E v \in Versions : manifest[<<s, v>>] # None}])

\* readJson: a stored document, or null when it is absent, unreadable, or the
\* R2 call fails.
ReadJson(stored) == {stored, None}

GetLatestPointer(r) ==
  /\ reader[r].pc = "pointer"
  /\ \E v \in ReadJson(latest[reader[r].slug]) :
       SetReader(r, IF v = None THEN IdleReader
                    ELSE [reader[r] EXCEPT !.pc = "manifest", !.ver = v])

\* Mutant: the manifest key is built from a second read of the pointer.
GetLatestManifestRereads(r) ==
  /\ reader[r].pc = "manifest"
  /\ \E b \in ReadJson(manifest[<<reader[r].slug, latest[reader[r].slug]>>]) :
       SetReader(r, IF b = None THEN IdleReader
                    ELSE [reader[r] EXCEPT !.pc = "answered", !.man = b])

GetLatestManifest(r) ==
  /\ reader[r].pc = "manifest"
  /\ \E b \in ReadJson(manifest[<<reader[r].slug, reader[r].ver>>]) :
       SetReader(r, IF b = None THEN IdleReader
                    ELSE [reader[r] EXCEPT !.pc = "answered", !.man = b])

GetExactManifest(r) ==
  /\ reader[r].pc = "exactManifest"
  /\ \E b \in ReadJson(manifest[<<reader[r].slug, reader[r].ver>>]) :
       SetReader(r, IF b = None THEN IdleReader
                    ELSE [reader[r] EXCEPT !.pc = "exactHead", !.man = b])

\* Mutant: the exact-version route answers without the head, as /latest does.
GetExactUnchecked(r) ==
  /\ reader[r].pc = "exactHead"
  /\ SetReader(r, [reader[r] EXCEPT !.pc = "answered"])

GetExactHead(r) ==
  /\ reader[r].pc = "exactHead"
  /\ SetReader(r, IF blob[<<reader[r].slug, reader[r].ver>>] = None THEN IdleReader
                  ELSE [reader[r] EXCEPT !.pc = "answered"])

\* GET of the download URL; `got = None` is the 404.
Download(r) ==
  /\ reader[r].pc = "answered"
  /\ SetReader(r, [reader[r] EXCEPT !.pc = "downloaded",
                                    !.got = blob[<<reader[r].slug, reader[r].ver>>]])

\* One turn of the listing loop: the pointer, then the manifest it names; a
\* slug whose pointer or manifest cannot be read is skipped.
ListPointer(r) ==
  /\ reader[r].pc = "list"
  /\ \E s \in reader[r].todo : \E v \in ReadJson(latest[s]) :
       SetReader(r, [reader[r] EXCEPT !.todo = @ \ {s}, !.slug = s, !.ver = v,
                                      !.pc = IF v = None THEN "list" ELSE "listManifest"])

ListManifest(r) ==
  /\ reader[r].pc = "listManifest"
  /\ LET k == <<reader[r].slug, reader[r].ver>>
     IN \E b \in ReadJson(manifest[k]) :
          SetReader(r, [reader[r] EXCEPT !.pc = "list",
                          !.listed = IF b = None THEN @ ELSE @ \cup {<<k, b>>}])

FinishList(r) ==
  /\ reader[r].pc = "list"
  /\ reader[r].todo = {}
  /\ SetReader(r, [reader[r] EXCEPT !.pc = "listed"])

-----------------------------------------------------------------------------
Publish == \E b \in Builds : StartPublish(b) \/ FailPublish(b) \/ PostComplete(b)

Serve == \E m \in net :
  HandleCreate(m) \/ HandlePut(m) \/ HandleComplete(m) \/ FlipLatest(m) \/ LoseRequest(m)

Read == \E r \in Readers :
  \/ \E s \in Slugs : StartLatest(r, s) \/ \E v \in Versions : StartExact(r, s, v)
  \/ StartList(r)
  \/ GetLatestPointer(r) \/ GetLatestManifest(r)
  \/ GetExactManifest(r) \/ GetExactHead(r)
  \/ Download(r)
  \/ ListPointer(r) \/ ListManifest(r) \/ FinishList(r)

Next == Publish \/ Serve \/ Read

Spec == Init /\ [][Next]_vars

-----------------------------------------------------------------------------
(* Properties *)

\* The shape of the state.
TypeOK ==
  /\ manifest \in [Keys -> Builds \cup {None}]
  /\ blob \in [Keys -> Builds \cup {None}]
  /\ latest \in [Slugs -> Versions \cup {None}]
  /\ cli \in [Builds -> {"idle", "create", "put", "complete", "published", "failed"}]
  /\ attempt \in [Builds -> Nat]
  /\ net \subseteq Requests
  /\ reader \in [Readers -> ReaderStates]

HasArtifact(k) == manifest[k] # None /\ blob[k] # None

\* handleCompleteVersion checks only the archive, handleGetLatest only the
\* manifest: whatever interleaving of publishes, failures and repeated
\* completes came before, `latest` names a version that has both.
LatestHasArtifact ==
  \A s \in Slugs : latest[s] # None => HasArtifact(<<s, latest[s]>>)

\* When `dotapps publish` reports success its slug resolves, and the version
\* it published can be fetched, however many other runs failed or are under way.
PublishedIsInstallable ==
  \A b \in Builds : cli[b] = "published" => latest[SlugOf[b]] # None /\ HasArtifact(KeyOf(b))

\* A launcher that was handed a download URL, by /latest (which never looks at
\* the archive) or by /versions/{version}, never gets a 404 from it.
DownloadSucceeds ==
  \A r \in Readers : reader[r].pc = "downloaded" => reader[r].got # None

\* The archive downloaded is the one the answered manifest describes, as long
\* as no other build was packed under that slug and version: the pointer, the
\* manifest and the archive are read in three separate calls, between which
\* other versions may be published.
DownloadMatchesManifest ==
  \A r \in Readers :
    LET k == <<reader[r].slug, reader[r].ver>>
    IN /\ reader[r].pc = "downloaded"
       /\ \A b, c \in Builds : KeyOf(b) = k /\ KeyOf(c) = k => b = c
       => reader[r].man = reader[r].got

\* Whatever is published meanwhile, a download ends with the archive that was
\* announced.
DownloadIsRight == DownloadSucceeds /\ DownloadMatchesManifest

\* Everything a listing shows can be installed: the version it read from the
\* pointer has an archive, though the listing itself checks only the manifest.
ListingIsInstallable ==
  \A r \in Readers : \A entry \in reader[r].listed : HasArtifact(entry[1])

\* What a user of the registry may rely on at any time: a published app and a
\* listed one can be installed, and the pointer of an app is never dangling.
RegistryIsWhole == TypeOK /\ LatestHasArtifact /\ PublishedIsInstallable /\ ListingIsInstallable

\* The claim of index.ts:548 ("Version-stamped artifact keys are immutable"):
\* once stored, the archive under a slug and version stays the same.
ArtifactsAreImmutable ==
  [][\A k \in Keys : blob[k] # None => blob'[k] = blob[k]]_blob
=============================================================================
