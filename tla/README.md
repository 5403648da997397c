# A TLA+ model of dotapps

dotapps is a desktop launcher (Rust, Tauri) that runs packaged web apps and git
projects in containers inside one Linux virtual machine; editors' agents drive
it over MCP. A registry (a Cloudflare Worker over R2) serves the packaged apps
and a CLI publishes them. This directory models the parts that keep state,
checks them with TLC and proves part of what is checked with TLAPS. Paths are
relative to the repository; `tauri` stands for `src/tauri/src`, `agent` for
`src/agent/src`, `web` for `src/web`.

    tlc -config WorkMC.cfg WorkMC.tla     # one run
    tlapm StoresProofs.tla                # one proof module

PROJECT.json lists the components, the runs, the lines each definition models
(`map`), the hazards found while reading, the disagreements between code and
documentation (`findings`) and the theorems.

## The system

| component | state | operations | talks to |
|---|---|---|---|
| registry worker (`worker/src/index.ts`) | R2: a manifest and an archive per slug and version, a `latest` pointer per slug | create version, upload, complete, resolve, list, download | CLI, launcher (HTTP) |
| publish CLI (`cli/src/publish.rs`) | none | create, PUT, complete | worker |
| atomic JSON file (`tauri/infrastructure/atomic_json.rs`) | primary, `.bak`, `.tmp` | save, load with recovery | file system |
| project store, settings store | a section of `state.json` each, a mutex each | get, update, add, remove, allocate_port, add_snapshot | atomic JSON file |
| app store (`tauri/apps/store.rs`) | `apps.json` behind a mutex | upsert, set_running, allocate_port, clear | file system |
| VM lifecycle (`tauri/vm/lifecycle.rs`, `gateway.rs`, `vfkit.rs`) | status (a watch channel), gateway, `vfkit.pid`, processes | start, stop, wait_until_running | everybody who needs the VM |
| app launcher (`tauri/apps`) | installed apps, forwarders, windows; images, containers, volumes in the VM | install, run, stop, open, reset, deep link, auto-run | registry, app store, VM, port forwarding |
| project orchestrator (`tauri/projects/orchestrator.rs`) | a reconciler task per project | start, stop, force stop, stop all, remove | project store, runtime, tunnels |
| project syncer (`tauri/projects/syncer.rs`) | a worker per project | start, stop, sync | git, authenticator, project store |
| VM runtime, agent client (`tauri/vm`) | forwarders, a cached connection | start, stop, run to completion, file calls, exec | guest agent |
| guest agent (`agent`) | the podman service, containers, forwarded connections | the same, in the guest | podman |
| file watcher (`tauri/vm/file_watcher.rs`) | a queue of events, known paths, cooldowns | react, compare, touch | agent |
| tunnel coordinator (`tauri/tunnel`) | active tunnels: a process and a watcher each | share, unshare, clean up | tunnel API, project store |
| publish deployer (`tauri/publish`) | the site's branch, Pages, the URL of the record | publish, unpublish | runtime, git, GitHub |
| git client (`tauri/infrastructure/git.rs`) | commits, heads, tracking refs, the tree | clone, pull, commit, push, checkout | remotes |
| MCP server (`tauri/mcp`) | a ring of calls, a token, listeners | the tools | all of the above |
| importer, editor files (`tauri/projects/cursor.rs`, `mcp/install.rs`) | `mcp.json`, rule file, settings, slugs | import, open, fork, rotate | the user's editor |
| authenticator (`tauri/auth`) | two tokens in the keychain | poll, store, delete, valid_token | GitHub, keychain |
| keychain (`tauri/infrastructure/keychain.rs`) | the keyring of the system, a cache before it | store, get, delete | the system |
| VM image downloader (`tauri/vm/image_downloader.rs`) | partial files, the image, a stamp | download, cancel, status | CDN |
| launch gate (`web/hooks/use-app-gate.ts`, `tauri/app`) | the phase of the page, WSL, the runtime | the checks on three systems | the components above |
| error mapping (`tauri/error.rs`, `mcp/errors.rs`, `web/lib/errors.ts`) | none | a conversion per boundary | everybody |

They meet in four ways. Tauri commands, tools and deep links call into the
services, each call a task of its own. Services share records behind mutexes
that are released between a read and the write that follows. Background tasks
(reconcilers, sync workers, forwarders, watchers) are ended by `abort`, which
takes effect at their next await and leaves blocking threads and calls under way
to run on. `watch` channels, broadcasts and events tell others of a change.

What is hard follows from that: read-modify-write across two critical sections;
a status looked at and acted on later; a task aborted, timed out or killed
between two steps while what it started goes on; a save, a swap or a publish
that is several calls; a queue at its limit; a failure that has to find its way
through five conversions to a reader.

## Modules

A module models one component and states its properties; the comment at its head
names the sources, and PROJECT.json's `map` the lines of each definition.

| module | models | a step is |
|---|---|---|
| Registry | publishes, their loss and repetition, GETs by launchers | an R2 call, a request or reply |
| StateFile | `state.json` with two stores over inodes | a file system call |
| Keychain | the cache with its lock, and the keyring | an access to one of the two |
| PortAllocation | both allocators and every way a port is gained or lost | an iteration of the scan, a critical section |
| VmLifecycle | starts and stops by the startup task, `init_vm` and the tray; a waiting deep link | an await or an access to shared state |
| AppLauncher | installed apps, forwarders, windows, podman in the VM | an awaited call or a critical section |
| Orchestrator | a project: commands, reconciler, runtime, forwarder, sync worker | an await; where "stale" is looked for, get and update apart |
| Containers | one-shot runs and server starts on three runtimes, the agent's handlers, the podman service | a call between client and agent, or of podman |
| Tunnel | the token of a share or an unshare, both, watcher, cleanup | the token, or a change of one of API, process, map, record |
| HotReload | watcher, agent's file calls, cooldowns, comparison of trees | an event or a file call |
| WorkTrees | write_file, snapshot, rollback, fork, remove on the disk | an operation on the disk |
| GitSync | commits, heads and tracking refs; sync, pull, switch, github_push | a call of the client; fetch and merge of a pull |
| Publish | build, branch, Pages, record, beside the syncer | an await |
| EditorFiles | what is written for editors; token rotation, slugs | read, truncate, fill of a file |
| Authenticator | `valid_token`, `try_refresh`, signing in and out | a request or a keychain access |
| Errors | every conversion of a failure up to the tool's answer or the window's text | a conversion |
| ImageDownload | resume, two hashes, unpacking, swap, stamp, cancel | a chunk or a file operation |
| PortMux | a forwarded connection: host task, agent, two copies each | a read, write or close of a channel |
| Launch | the gate, `init_wsl`, the runtime chosen, the recovery report | a backend call of the page |
| AgentCalls | the waiting tools, exec, read, tail, the ring, the shutdown | an event, a read of the record, a unit of time |
| ImageCell, Pipe | abstract specifications | |
| StoresProofs, MachineProofs, AppLauncherProofs, OrchestratorProofs, TunnelProofs, WorkProofs, CallsProofs, ServicesProofs | theorems and proofs | |

**Composition.** The components are independent where they share no state, and
one TLC run then holds several: `StoresMC` (Registry, StateFile, Keychain), `MachineMC`
(PortAllocation, VmLifecycle twice, Containers), `AppsMC` (AppLauncher twice),
`WorkMC` (WorkTrees, GitSync, Publish, Authenticator, Errors), `CallsMC`
(AgentCalls, EditorFiles, HotReload),
`ServicesMC` (ImageDownload, PortMux, Launch). The variable `part`, which never
changes, says which component a behaviour is of; the others rest in an initial
state, and a property speaks of its own part. No behaviour of a component is
lost by that and none is added; the run's states are the sum of the parts', not
the product. Of CallsMC there are two runs, with different `Parts`, since TLC checks
liveness on the whole graph. Components that do interact are in one module: AppLauncher has the
store, the forwarders and the VM, Orchestrator the commands, the reconciler, the
runtime and the syncer, Publish the syncer that writes the same record, Containers both
sides of the socket, Launch page and backend, AgentCalls the tools and what the
reconciler tells them.

**Mishaps.** What a property survives is part of it. Most modules keep a ghost,
`mishaps`, of what has gone wrong: a fault of the environment, or two operations
that overlap. A property names the mishaps that break it (`Without(...)`,
`Free(...)`) and the run checks it under all the others: PortsAreKept holds
through restarts, failed downloads and a VM that stops, and not when two
commands on one app overlap. `MaxMishaps` bounds how many kinds (in
ImageDownload, how many mishaps) meet in one behaviour: with one, every fault is looked at by
itself as often as it may strike; with two, every pair.

**Refinement.** `ReplacedAtOnce` is ImageCell with the installed version read off
the files: to its users the image of the VM is one cell that goes from one
whole version to a later one at once, through every crash, cancel and resume.
`IsAStream` is Pipe with the ends of a connection: handshake, first byte and four
copying loops do not show; there is a stream each way whose end comes after
everything in it. Both are PROPERTIES of `services`.

## What the runs show

| run | properties | instance and bounds |
|---|---|---|
| `stores` | RegistryIsWhole, DownloadIsRight; DocumentSurvives, SurvivingFileIsLoaded; KeyIsARegister | two builds of an app in different versions, one published twice; two stores, two saves each per session, two kinds of mishap; the two keys of a session, two secrets, two callers, every mishap |
| `machine` | AllocationIsRight, ScanEnds; OneVmIsKept, StartsEnd; RunsAreReal, RunsEnd | a range of three ports and three projects, so that it can be full; two processes; two handlers, two requests on each of three runtimes |
| `apps` | PortsAreKept, ImagesMatch, ReachableApps | two apps, two ports and the auto-run beside a command; two versions for links |
| `project` | ShownIsSo, ListenersAreOwned, StopEnds, ExitIsNoticed | a project with two reconcilers and two workers, an old one and its successor |
| `tunnel` | AccountsAgree, ShareEnds | two users, two tunnels, two kinds of mishap |
| `work` | TreesStayWhole, PushedIsThere, EditsAreKept, SiteIsRecorded, SessionIsGood, ErrorsAreTold | two tasks and two things they act on, in each of five components; four token pairs (MaxTokens), failing writes (Faults), two publishes (PublishCalls) and one edit of the sources (SourceEdits); three calls of git (GitCalls) and two edits (GitEdits); one kind of mishap in the trees |
| `hot_reload` | TreeIsTheUsers, SaveIsSeen, Settles | the watcher's part of CallsMC: two edits, a queue of one event, two kinds of mishap |
| `services` | ImageIsWhole, ImageArrives, ReplacedAtOnce; ConnectionIsServed; GateIsTrue, GateSettles | two image versions in three chunks, three mishaps; two bytes each way (MuxBytes) through channels of one (MuxRoom); two launches on three systems |
| `calls` | WakeNotLost, CallsAreWhole, ToolsEnd; EditorsAgree, OwnIsKept | the other two parts: two callers, two calls, a ring of one; three projects (Repos), two ports, two commands and calls (EditorCalls), one save of the user (EditorSaves) and one kind of mishap |

ScanEnds, StartsEnd, RunsEnd, StopEnds, ExitIsNoticed, ShareEnds, SaveIsSeen, Settles,
ImageArrives, GateSettles, ToolsEnd and part of ConnectionIsServed are liveness;
PortsAreKept, SurvivingFileIsLoaded, KeyIsARegister, OwnIsKept and part of ErrorsAreTold
are action properties; the rest are invariants, each a conjunction of parts that
are named and explained where they are defined. Symmetry is used in `stores`, `apps` and
`work`, which check safety only.

Bounds are CONSTANTS or guards commented "bound". They limit how often a thing
happens or how many there are of it, never which steps follow which. Two of a
kind are enough for the races of this code, which are between two actors over
one record, file, process or port; where a third generation matters (a dying, an
orphaned and a starting VM; an unpacking left from a cancelled download) there
is room for it.

A run stops without an error where the system may: a publisher has no attempts
left, the user no edits, the launcher is down. `project` and `apps` reach no such
end and are checked for deadlock; the others have CHECK_DEADLOCK FALSE.

## Claims the code does not meet

Three runs end in a counterexample to a sentence of the repository; PROJECT.json
quotes it with the lines.

| run | what happens |
|---|---|
| `state_file_wipe` | killed between the two renames of a save, the launcher starts from defaults beside an intact backup |
| `git_pull` | a pull that fast-forwards leaves the old files in the tree, and the next automatic commit undoes what was pulled |
| `agent_exec` | a command with a budget of more than two minutes is given up while it runs on in the guest |

Others have a configuration but no run in PROJECT.json; `tlc -config <cfg>
<module>` shows each in seconds.

| configuration | claim | what happens |
|---|---|---|
| `StateFileGarble.cfg` | WholeDocumentRemains | saves of both stores at once garble `state.json` (both write one `.tmp`) |
| `VmLifecycleTwice.cfg` | NoConcurrentStarts (`tauri/vm/lifecycle.rs:47`, "Prevent concurrent starts") | the status is read and then sent: two tasks boot the VM at once |
| `VmLifecycleAuto.cfg` | AutoStartFindsVm (`tauri/app/platform/macos.rs:79`) | the startup task goes on before the VM that another task boots is up |
| `AppLauncherAbort.cfg` | RerunIsForwarded | the new listener binds before the aborted one has let go of the port |
| `AuthenticatorFlight.cfg` | SingleFlight (`authenticator.rs:187`, "Single-flight refresh") | the lock is released before the exchange (`:193`): two spend one refresh token |
| `OrchestratorStale.cfg` | StopIsKept | a status written back with the record it was read from undoes a stop |
| `TunnelOrphans.cfg` | OrphanIsDeleted (`tauri/tunnel/coordinator.rs:61`) | the start of the launcher clears the record before the cleanup reads it (`tauri/app/bootstrap.rs:145`) |
| `ContainersResult.cfg` | ResultIsTrue | a status call that times out is taken for the end of the run, with code 0 (`tauri/vm/runtime.rs:297`) |
| `EditorFilesRace.cfg` | OwnAlwaysKept (`tauri/mcp/install.rs`, "user-added mcpServers.* entries always survive") | a file read while another writer has truncated it is taken for an empty object |
| `LaunchDocs.cfg` | ReadyCanRun (`tauri/app/platform/windows.rs:33`) | the runtime is chosen before setup; after it the library opens over the one that refuses everything until the next launch |

These properties are refuted by the same modules, with the constants of the
module's configuration changed as the last column says.

| module | claim | what happens | constants |
|---|---|---|---|
| Registry | ArtifactsAreImmutable (`worker/src/index.ts:548`) | a version published again replaces the bytes of an "immutable" artifact | two builds in one version |
| AppLauncher | DataPersists (`README.md:36`, "a persistent named volume") | the VM's disk is cloned anew at each boot (`lifecycle.rs:93`), with the volumes | two slugs, one version, one task, all commands, "vm" |
| PortAllocation | RangesApart | a project is given the port of an app | FirstAppPort = MaxPort |
| ImageDownload | ImageArrives | the manifest that `docs/release-setup.md` describes has field names the launcher does not read (`image_downloader.rs:39`) | FairSpec, Spelling = "camelCase", no mishaps |
| HotReload | RestsAlways (`tauri/vm/file_watcher.rs:26`) | with two edits at once watcher and guest touch each other for ever | WatchSpec, "overlap" alone, Capacity = 2 |
| HotReload | NothingIsTaken (`tauri/vm/file_watcher.rs:26`) | with a directory that cannot be listed the comparison removes a user's file | "quick", "slow", "rpc", "unread", "unknown" |
| Publish | ToldIsLive (`tauri/publish/github_pages.rs:234`) | the wait for a second publish ends with the answer about the first (`:273`) | two calls, no mishaps |
| GitSync | NothingIsLost | a commit on a detached HEAD is on no branch | "detached" |
| StateFile | DiskMatchesMemory | a save of the other store loses a section | as `StateFileGarble.cfg` |
| VmLifecycle | LinkBootsVm (`README.md:44`) | a link waits for a VM nobody starts | as `VmLifecycleTwice.cfg` |
| VmLifecycle | ExitLeavesNoVm (`tauri/app/shutdown.rs:24`) | a start that is under way outlives Quit | tray callers, no auto-start |
| AppLauncher | OpenRunsTheApp, RunningHasContainer, ContainerIsShown, WindowShowsApp | after a restart amid an update an app is run from another's image; the library disagrees with the VM after a stop or an update; a window hidden by a reset comes back on the old port | all mishaps, one at a time |
| AppLauncher | PortSurvivesUpdates, StopClosesPort | an install that overlaps a run writes the record back without its port; two overlapping runs lose the handle of a forwarder | "overlap", two tasks |
| Keychain | RestartAnswersTheSame | two overlapping writes reach keyring and cache in different orders, and a restart brings back the other secret | "overlap" |
| Authenticator | UsableSessionIsKept (`authenticator.rs:179`) | a refresh that is not answered ends the session | `Faults = TRUE` |
| Launch | RestartGetsImage, RebootIsAsked, RecoveryIsTold, ReadyIsUp | the gate of a launch without an image, a pending reboot, a report emitted before the page listens, an `init_vm` that skips a start under way | as `LaunchDocs.cfg` (RestartGetsImage: FairSpec) |
| Publish | RecordIsKept | a sync writes back the record without the URL | "late", "poll", "sync" |
| Containers | OneService, without the exception of "podman" with "agent" | podman hangs, the restart has removed its socket, the agent dies: its successor finds no socket file, kills nothing (`ensure_podman_socket`, `agent/src/main.rs:24`) and starts a second service | both mishaps, `MaxMishaps = 2` |
| WorkTrees | WriteIsAtomic | two files whose names differ in the extension share a temporary name | "stem" |
| AgentCalls | FailedIsFailed, TimeoutIsLate | a stop of a project that had failed reports that failure; a stop beside a restart waits to its deadline though the project has stopped, for no event tells it | as `CallsMC.cfg` |
| AgentCalls | EveryCallIsRecorded | a cut inside a character panics (`String::truncate`, `mcp/tools/discovery.rs:1338`) and the call is not recorded | "wide" |
| AgentCalls | WakeNotLost | an event emitted before the listener is attached, whose write comes after the read, is missed; a few instructions apart | "split" |

## Fairness

Every WF_ is of a step of a task that has begun, since tokio polls a task that
is ready and every await in these components has a timeout or is of a local
operation. Nobody is assumed to call anything, and no call is assumed to
succeed, with one exception: in ImageArrives the user asks again while his image
is not the published one. Beyond that:

- PortAllocation: the iterations of the scan, which does not await.
- VmLifecycle: the steps of each task; the link's receiver is woken.
- Containers: the agent's handlers and the launcher's tasks; a command in a
  container may never end.
- Orchestrator: SF of a reconciler's steps, for the instants in which another
  task is between the get and the update of a record, no await apart, do not
  starve it; an agent that never carries out a stop is tried for ever, which
  StopEnds allows.
- Tunnel: cloudflared that runs connects unless it is "mute"; SF of the end of
  the wait, whose deadline passes however often the map's entry comes and goes.
- HotReload: SF of the branches of the task's `select!`, which tokio takes at random;
  cooldowns run out.
- ImageDownload: a blocking thread ends its work.
- PortMux: the two tasks, each copying thread, and both ends read what arrives.
- Launch: the backend's calls and the programs they run end.
- AgentCalls: callers, the reconciler's persist, the deadline of a wait.

## What is proved

A theorem holds for every value of the constants that the ASSUMEs allow. Each
component of the modules below has one inductive invariant (`IInv`, `KeyInv`, `FileInv`,
`PortInv`, `VmInv`, `GuestInv`, `ReloadInv`, `SessionInv`, `ErrorInv`, `SiteInv`, `EditorInv`,
`GitInv`, `TreesInv`, `ImageInv`, `GateInv`), which was first checked with TLC on the run's instance;
a lemma per action, or per kind of step, says that the step keeps it.

| module | states for every instance | of the run |
|---|---|---|
| StoresProofs | RegistryIsWhole, DownloadIsRight; DocumentSurvives, SurvivingFileIsLoaded, KeyIsARegister | `stores` |
| MachineProofs | AllocationIsRight, OneVmIsKept, RunsAreReal | `machine` |
| AppLauncherProofs | PortsAreKept, ImagesMatch, ReachableApps | `apps` |
| OrchestratorProofs | ShownIsSo, ListenersAreOwned | `project` |
| TunnelProofs | AccountsAgree | `tunnel` |
| WorkProofs | SessionIsGood; ErrorsAreTold; SiteIsRecorded; PushedIsThere, EditsAreKept; TreesStayWhole | `work` |
| CallsProofs | WakeNotLost, CallsAreWhole; EditorsAgree, OwnIsKept; TreeIsTheUsers | `calls`, `hot_reload` |
| ServicesProofs | ImageIsWhole, ReplacedAtOnce, GateIsTrue; IsAStream of ConnectionIsServed | `services` |

**StoresProofs.** Of the registry: `latest` having an archive is not inductive: a complete in
flight flips the pointer after the head request, so the invariant says of every
request, reply and reader what was stored when it passed its check (a complete
past its head has a blob, a CLI that uploaded has both objects, a reader past
its checks holds a version with both), and that nothing stored is ever deleted.
A download is what its manifest says as long as one build has the version: every
object of a key is then of that build. Of the keychain: between a restart, which forgets the cache, and
the answer before it there is nothing but a write under way, because whoever
fills the cache holds its lock from the read on and a write that comes in
between inserts later. Of the state file, in three layers: the names and the open
files are in order whatever happens; as long as no two saves overlap there is
one save and the primary, or without it the backup, is the document saved last;
as long as nothing has gone wrong memory and document differ by the save that
is under way.

**MachineProofs.** Of the port scan: after k attempts the scan stands k ports behind
`next_port`, round the range, and those k are claimed; it holds because no step
that changes a claim can be taken while the mutex is held. `DistanceInjective`
and `AfterIsFurther` are the arithmetic of the ring. Of the virtual machine, in
the instance in which the tray alone starts and stops, for any number of processes: what a start has spawned and not yet published is
in `vfkit.pid`, and a Quit beside it finds nothing to take, so that there is one
machine and the next launcher can end it. Of the containers, `GuestInv` has four
parts. `GuestShape` is the types and what the fields of a step hold. `GuestLink` ties
a handler of the agent to the call that waits for it: a call has one handler, which
is at the operation the call asks for, a handler outlives its call only when that is
"late", and until commands overlap ("both") no two are on one container.
`GuestService` follows the service through `ensure_podman_socket`: until two
handlers "race" one at a time restarts it and starts none before the old one is
killed; before the first failure of podman whoever is past the check finds a socket that
answers, and after it a service without its socket is about to be killed. `GuestRun` says what a run has established: its handler found
the name free and made the container, nobody else removes it, and an exit code on
its way back is that of its own command.

**AppLauncherProofs.** The invariant says of a command what it has found so far
(`TaskFits`: the port it has read, the forwarder it has removed, the listener it
has started, the container it has run, the image it has unpacked), and of an app
what is kept of it or which command owes it (`SlugFits`). A command changes only
the app it is on, and until two overlap it is the only one there (`Alone`), so one
lemma, `LocalStep`, covers what a step leaves alone and each step shows what
becomes of its own command and app. What crosses apps is the ports: a free one is
left for an app that has none because there are as many as apps (`PortLeft`), so
that `allocate_port` gives one nobody has; as no two apps have one port, a bind can
only fail on an aborted listener that has not closed (`OneListener`), which is why
ReachableApps names "abort". The two parts of `apps` are instances of AppLauncher,
and the theorems are of its specification with every set of versions, commands
and mishaps.

**OrchestratorProofs.** The invariant is `Base`, and `Lone => ...`, `Calm => ...`,
`Clean => ...`: types and the map of reconcilers hold always; that one command
is under way, until two overlap; that a reconciler which is to run is the one in
the map and has the port of the record, until a record is written back; and that
record, container, forwarder and listener agree, until a call fails or comes
late. A relaunch may happen in each layer.

**TunnelProofs.** While no two commands overlap there is one user call and, beside
it, at most the reconciler's unshare, which finds the map's entry already taken
or takes it. What each call holds follows, and each conjunct names the mishap
that ends it.

**WorkProofs.** Of the session: of the refresh tokens in the keychain and in
flight one at most can still be exchanged, although two calls may refresh at
once, so that the pair issued last is in the hands of one call until it is
stored, and a failed write leaves no access token of an older session beside a
newer refresh token. Of the errors: a conversion keeps the reason (`MadeOf`), and
every answer to an agent has the numeric code of its code (`Numeric`). Of the
site: `OneMoves` says what a step of one task has to show, that the project and
the task still fit and that nobody is left waiting for it; the lemma of an
action shows that. A record that differs from the site is excused by a task
between its two writes (`RecordAhead`, `RecordBehind`), a container by a task that
waits for it (`BuildAwaited`), and what is in the branch is whole because the exit
code vouched for the directory while the task was alone. Of the repositories, `GitInv` has three parts. `GitShape`: the types, and that a commit's parents
come before it. `GitTold`: what is at a tracking ref is in the history of the remote's branch; so is
what a sync or a push has told or is about to tell, until the host declines a branch
("refused") or HEAD moves before the answer ("late"). `GitKept`: what the user wrote last in a file is in the tree or in the history of a
branch, and where tree and head differ the user has edited the file. The history of a commit is a
recursive function over its parents; that there is one which satisfies its equation
(`HistoryExists`) is shown without the induction theorems, by the least commit at which there
would be none, and what follows is that a history holds the histories of its commits
(`PastOfPast`) and that a new commit changes none (`PastStays`). Of the working trees, `TreesInv` has
six. `TreeShape`: the types, and that a project has at most Cap snapshots; the cap removes a record by
its index, and `EvictKeeps` counts those that stay. `SnapsAreNew`: the tree of a snapshot is
written once, by the call that made its id, before it is recorded. `OneWrites`: two writes in one
project do not overlap, so what one fills is its own. `TreesApart`: a rollback has its project to
itself and a fork its id, until a call swaps a tree beside another ("swap") or two ids of one
millisecond meet ("milli"). `KeptWhole`: some snapshot on the disk is whole, or nothing has broken a
tree. `GoodTrees`: while nothing fails a tree is broken only between the removal and the copy of
a rollback, and what is recorded is whole.

**CallsProofs.** Of the tools: an event that would end a wait is on its way to the call, or
the record says so when the call looks again. WakeNotLost needs
`"split" \notin Mishaps` (no listener attached between an event and the write
that follows it), CallsAreWhole needs that an amount read is at most a chunk;
both are hypotheses of the theorems, and the constants table above shows what
happens without the first.
Of hot reload, `ReloadInv`: as long as the user waits
for the watcher, an event in the queue tells what is so of its path and a call asks for what
is done already, so that each call the agent carries out changes nothing; a comparison
of trees asks the same of every path, and a directory that cannot be listed ("unread") ends it.
Of the editors' files,
for any projects and ports, `EditorInv` has six parts. `EditorShape`: the types, the order of what a task
has still to do (`Ordered`), and that a project without a tree has no files. `SlugInv`: a
project of the list has a slug that is no other's, and so has one that is about
to be added once it is named; that a number is free (`DeriveIs`) is counted, there being
one number more than projects. `TokensInv` and `EntriesInv`: whoever holds a token holds that of the file,
and an entry that does not hold it has a rotation on its way (`Current`), until a token is
rotated behind a task. `FilesInv`: a rule whose port has no label yet is that of the main
thread, which is at the settings with that port (`AtSettings`). `OwnInv`: all who have read a
file have the same user's part in hand, and one of them has truncated the file if it is not
there (`OwnOf`); a reader that finds a truncated file would break it, and that is "race".

**ServicesProofs.** The version of the image is no earlier than the stamp's and no
later than the task's; what a cancelled task left unpacking is of the task's
version, so that its bytes change nothing in a whole file, until a download
begins beside one of an earlier version ("late"). The refinement ReplacedAtOnce
has no fairness in it and is proved whole: a rename is Install, the late
beginning Overlap, everything else stutters. Of the gate: whoever is in the
import or the probe of `init_wsl` holds its mutex, and the handle outlives the
page that asked. Of a connection, for any number of bytes and any room in a channel: the refinement
IsAStream has no fairness in it either and is proved whole. `UpFlows` and `DownFlows` say that the
channels from the end that reads back to the end that sends hold the bytes that come after the ones
beyond them (`After`), as far as the way is open; the byte that tells the kinds apart and the
handshake are set apart (`UpBytes`, `DownBytes`), and `MuxShape` says when they are there. `Uncut`,
`UncutUp` and `UncutDown` hold as long as nothing cut the connection: a channel is shut only behind
everything its end has sent, so that the other end sees the end after the last byte. A step of a
handler that shows nothing is a stutter, or the cut; one lemma for each action and kind of
connection (`DropUpOn`, `CopyHostDownMoves`, ...) shows that the invariant survives it.

The compositions add nothing to prove: a step of one part leaves the variables
of the others, so an invariant of a component is one of the run's specification
(`ServicesLeaveImage`, `MachineKeepsOneVm`, `MachineRunsAreReal`, `StoresKeepKeys`,
`SiteStaysRecorded`, `EditorsStayInAgreement`, `TreeStaysTheUsers`, `PushedStaysThere`, `TreesKeptWhole`).

**Assumptions.** The modules' ASSUMEs, which TLC evaluates in the runs: bounds are
naturals, mishaps are among those the module names, None and the marks of an
empty or garbled file are no values, there are as many ports as apps, systems
are the three there are, `Main` is a branch and "detached" none, the id of a fork is no imported
project's, the watcher's queue has a natural for its capacity, and a rename is told in the
ways the three platforms tell one.

**Only model-checked.** All liveness (ScanEnds, StartsEnd, RunsEnd, StopEnds,
ExitIsNoticed, ShareEnds, SaveIsSeen, Settles, ImageArrives, GateSettles, ToolsEnd, and of
ConnectionIsServed EndIsTold and NothingHangs): TLAPS has neither ENABLED nor fairness.
Every invariant, every action property and every refinement of the runs has a theorem.

## What is left out

Components marked `not_modelled` in PROJECT.json, with the reason: packing in the
CLI is sequential; the updater, logging and diagnostics keep no state of their
own; generated code. In modelled components:

- Registry: byte ranges, presigned URLs, headers. Authorization is out of scope:
  the requests are those the clients send.
- VmLifecycle: a failed write of `vfkit.pid`; gvproxy goes with its vfkit. The
  two QEMU backends (`vm/qemu.rs`, `qemu_windows.rs`) are built into no platform.
- AppLauncher: an `ExecHost` call that times out and takes effect later (that is
  in Containers); progress events; the geometry of windows.
- Containers, AgentCalls: `vm/gateway.rs` `exec` asks for the directory `/tmp`, which the
  agent, that requires `/repos/`, refuses; `exec_command` is always VM_OFFLINE on
  Linux and Windows; `read_file` returns at most one read of tokio's buffer.
- Orchestrator: events to the window; several projects, since every map is keyed
  by the project and no step touches two keys.
- Publish: output directories other than `dist`, which a project never reaches
  since the index is injected into `dist` first; Next.js base paths and `.nojekyll`.
- EditorFiles: `.gitignore`, the marker, the clipboard; creation of the token
  file by two at once is taken for atomic; `clone_repository` derives a slug it
  discards; `mcp_rotate_token` has no caller in the window.
- PortMux: the three bytes of the handshake are one; what is sent is a row of
  numbers.
- AgentCalls: a start that ends in START_FAILED or a timeout does not start the
  periodic sync though the reconciler goes on; an open event stream of a client
  may hold up the listener's shutdown, which is the HTTP library's.
- Errors: wording; `useOAuthFlow` has no user in the window.
- That a port found free by a store may be taken by another program.

## Plan

Every component that is in reach of TLC is modelled, and every safety property of
the runs is proved. A change of the code starts at `map`, which leads from
a line to its definitions; then the run, then `tlapm` on the proof module, which tries
again what the change has touched. What is open:

1. Two saves of one store at once (`infrastructure/atomic_json.rs:122`): the claim is
   refuted, and a property that survives it would need the repair first.
