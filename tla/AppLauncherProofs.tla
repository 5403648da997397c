-------------------------- MODULE AppLauncherProofs --------------------------
(***************************************************************************)
(* The installed apps of AppLauncher, for any number of slugs, versions,   *)
(* ports, commands at a time and listeners, and for every set of mishaps.  *)
(*                                                                         *)
(* The inductive invariant says of a command what it has found so far, and *)
(* of a slug what is kept of it; whatever a command has half done is owed  *)
(* by a command at a label that says so.  A command changes only the slug  *)
(* it is on, and unless two overlap it is the only one there: so one lemma *)
(* (LocalStep) covers all that a step leaves alone, and each step is left  *)
(* with its own command and its own slug.                                  *)
(*                                                                         *)
(* A listener's port is told from its owner's.  No two apps have one port, *)
(* so a bind can fail only on a listener that has been aborted and is not  *)
(* closed yet.                                                             *)
(***************************************************************************)
EXTENDS AppLauncher, FiniteSetTheorems, WellFoundedInduction, TLAPS

-----------------------------------------------------------------------------
(* The shape of the tasks *)

Installing == {"fetch", "unpack", "unpacking", "load", "get_port", "upsert"}
Served == {"vsock", "unforward", "forward", "insert", "set_running"}
Ported == {"tag", "container"} \cup Served
Stopping == {"stop", "stop_forward", "set_stopped"}
Resetting == {"reset", "reset_forward"}
Labels == {"idle", "wait", "open", "next", "allocate"} \cup Installing \cup Ported \cup Stopping \cup Resetting

TaskStates == [op : AllCommands \cup {"none", "auto"}, slug : Slugs \cup {None},
               version : Versions \cup {None}, port : Ports \cup {None},
               handle : Handles \cup {None}, queue : SUBSET Slugs]

\* What a task c of t at the label l looks like.
Shape(t, l, c) ==
  /\ l = "idle" <=> c.op = "none"
  /\ l = "idle" => c = NoTask
  /\ l \in Installing => c.op \in {"install", "link"}
  /\ l \in {"allocate"} \cup Ported => c.op \in {"run", "link", "auto"}
  /\ l \in {"wait", "open"} => c.op = "link"
  /\ l \in Stopping => c.op = "stop"
  /\ l \in Resetting => c.op = "reset"
  /\ l = "next" => c.op = "auto"
  /\ c.op = "auto" => t = "auto"
  /\ t = "auto" => c.op \in {"none", "auto"}
  /\ c.op \in {"install", "link"} => c.version \in Versions
  /\ l \notin {"idle", "reset", "next"} => c.slug \in Slugs
  /\ l = "reset" => c.slug = None
  /\ l \in Ported => c.port \in Ports
  /\ l = "insert" <=> c.handle # None

TasksInShape ==
  /\ pc \in [Actors -> Labels] /\ task \in [Actors -> TaskStates]
  /\ \A t \in Actors : Shape(t, pc[t], task[t])

\* No two tasks are on one slug, and none is on any during a reset.
Apart(c, d) ==
  /\ c.slug # None => d.slug # c.slug
  /\ c.op = "reset" => d.slug = None /\ d.op # "reset"

Alone == Without({"overlap"}) => \A t, u \in Actors : t # u => Apart(task[t], task[u])

-----------------------------------------------------------------------------
(* What a task has found, and what is kept of a slug *)

Open(h) == listener[h].state \in {"spawned", "bound"}

\* It still holds what it has read of the store, unless two commands overlap.
FitsStore(t) ==
  LET l == pc[t]  c == task[t]  s == task[t].slug IN
  Without({"overlap"}) =>
    /\ l = "upsert" => c.port = IF Installed(s) THEN store[s].port ELSE None
    /\ l \in Ported => Installed(s) /\ store[s].port = c.port

\* The forwarder is away before the next is started, and there once that one is
\* inserted.  A reset has yet to pass the slugs that have one.
FitsForward(t) ==
  LET l == pc[t]  c == task[t]  s == task[t].slug IN
  Without({"overlap"}) =>
    /\ l \in {"forward", "insert"} => forwards[s] = None
    /\ l = "set_running" => forwards[s] # None
    /\ c.op = "reset" => \A r \in Slugs : forwards[r] # None => r \in c.queue \/ r = s

\* The listener it has started is for its port, unless that was taken.
FitsHandle(t) ==
  LET h == task[t].handle IN
  h # None =>
    /\ Without({"overlap"}) =>
         listener[h].state # "closing" /\ (Open(h) => listener[h].port = task[t].port)
    /\ Without({"overlap", "abort"}) => Open(h)

\* The container it has run is there while the machine is, and on its port.
FitsContainer(t) ==
  LET l == pc[t]  c == task[t]  s == task[t].slug IN
  Without({"overlap", "vm"}) =>
    /\ l \in Served => container[s] # None /\ container[s].port = c.port
    /\ c.op = "link" =>
         /\ l \in {"load", "get_port", "upsert", "allocate", "tag"} => image[s] = c.version
         /\ l = "container" => alias[s] = <<s, c.version>>
         /\ l \in Served \cup {"open"} => container[s] # None /\ container[s].image = <<s, c.version>>
         /\ l = "open" => Installed(s) /\ container[s].port = store[s].port

\* What it has unpacked is whole.
FitsImage(t) ==
  Without({"overlap", "restart", "cutoff"}) =>
    (pc[t] \in {"load", "get_port", "upsert"} => image[task[t].slug] \in Versions)

TaskFits(t) == FitsStore(t) /\ FitsForward(t) /\ FitsHandle(t) /\ FitsContainer(t) /\ FitsImage(t)

Busy(s, labels) == \E t \in Actors : task[t].slug = s /\ pc[t] \in labels
BeingReset == \E t \in Actors : task[t].op = "reset"

\* A forwarder is an installed app's, and for its port.
SlugForward(s) ==
  forwards[s] # None =>
    /\ Without({"overlap"}) =>
         /\ Installed(s) /\ store[s].port # None
         /\ listener[forwards[s]].state # "closing"
         /\ Open(forwards[s]) => listener[forwards[s]].port = store[s].port
    /\ Without({"overlap", "abort"}) => Open(forwards[s])

\* An app shown as running has its forwarder, and its container on its port, or a
\* command that is about to change one of the two.
SlugRunning(s) ==
  Installed(s) /\ store[s].running =>
    /\ Without({"overlap"}) =>
         forwards[s] # None \/ Busy(s, {"forward", "insert", "set_stopped"}) \/ BeingReset
    /\ Without({"overlap", "vm", "podman"}) =>
         \/ container[s] # None /\ container[s].port = store[s].port
         \/ Busy(s, {"stop_forward", "set_stopped"}) \/ BeingReset

\* What is tagged and run for an app is an image of its own.
SlugImage(s) ==
  /\ container[s] # None => alias[s] # None
  /\ Without({"overlap", "restart", "cutoff"}) =>
       /\ Installed(s) => image[s] \in Versions \/ Busy(s, {"unpacking"})
       /\ alias[s] # None => alias[s][1] = s
       /\ container[s] # None => container[s].image[1] = s

SlugFits(s) == SlugForward(s) /\ SlugRunning(s) /\ SlugImage(s)

\* A listener is for one slug or one task, and has one.
HandlesApart ==
  /\ \A r, s \in Slugs : r # s /\ forwards[r] # None => forwards[s] # forwards[r]
  /\ \A s \in Slugs, t \in Actors : forwards[s] # None => task[t].handle # forwards[s]
  /\ \A t, u \in Actors : t # u /\ task[t].handle # None => task[u].handle # task[t].handle

HandlesKnown ==
  Without({"overlap"}) => \A h \in Handles : Open(h) =>
    (\E s \in Slugs : forwards[s] = h) \/ (\E t \in Actors : task[t].handle = h)

ContainersApart ==
  \A r, s \in Slugs : r # s /\ container[r] # None /\ container[s] # None => container[r].port # container[s].port

IInv ==
  /\ TypeOK /\ TasksInShape /\ Alone
  /\ \A t \in Actors : TaskFits(t)
  /\ \A s \in Slugs : SlugFits(s)
  /\ UniquePorts /\ HandlesApart /\ HandlesKnown /\ ContainersApart


-----------------------------------------------------------------------------
(* Ports *)

\* A finite set of numbers has a least one.  The library's least elements are
\* those of well-founded orderings: here of the sets of numbers up to each one.
LEMMA LeastExists ==
  ASSUME NEW S \in SUBSET Nat, IsFiniteSet(S), S # {}
  PROVE  \E p \in S : \A q \in S : p <= q
<1> DEFINE UpTo(p) == {q \in S : q <= p}
           Family == {T \in SUBSET S : \E p \in S : T = UpTo(p)}
<1>1. IsWellFoundedOn(StrictSubsetOrdering(S), SUBSET S)
  BY FS_StrictSubsetOrderingWellFounded, FS_FiniteSubsetsOfFinite
<1>2. \A p \in S : UpTo(p) \in Family
  OBVIOUS
<1>3. Family \subseteq SUBSET S /\ Family # {}
  BY <1>2
<1> HIDE DEF Family
<1>4. PICK T \in Family : \A U \in Family : ~(<<U, T>> \in StrictSubsetOrdering(S))
  <2> DEFINE O == StrictSubsetOrdering(S)
  <2>1. IsWellFoundedOn(O, SUBSET S)
    BY <1>1
  <2> HIDE DEF O
  <2>2. \E x \in Family : \A y \in Family : ~(<<y, x>> \in O)
    BY <1>3, <2>1, WFMin
  <2> QED
    BY <2>2 DEF O
<1>5. PICK p \in S : T = UpTo(p)
  BY <1>4 DEF Family
<1>6. \A q \in S : p <= q
  <2> SUFFICES ASSUME NEW q \in S, q < p PROVE FALSE
    OBVIOUS
  <2>1. UpTo(q) \subseteq UpTo(p) /\ UpTo(q) # UpTo(p)
    <3>1. p \in UpTo(p) /\ p \notin UpTo(q)
      OBVIOUS
    <3>2. \A x \in S : x <= q => x <= p
      OBVIOUS
    <3> QED
      BY <3>1, <3>2
  <2>2. <<UpTo(q), UpTo(p)>> \in StrictSubsetOrdering(S)
    BY <2>1 DEF StrictSubsetOrdering
  <2> QED
    BY <1>2, <1>4, <1>5, <2>2
<1> QED
  BY <1>6

\* While an app has no port, not all are claimed: there is one for each slug.
LEMMA PortLeft ==
  ASSUME TypeOK, NEW s \in Slugs, Installed(s), store[s].port = None
  PROVE  Ports \ Claimed # {}
<1> SUFFICES ASSUME Ports \subseteq Claimed PROVE FALSE
  OBVIOUS
<1> DEFINE I == {r \in Slugs : Installed(r) /\ store[r].port # None}
           f == [r \in I |-> store[r].port]
<1>1. \A r \in Slugs : Installed(r) => store[r].port \in Ports \cup {None}
  BY AppLauncherAssumption DEF TypeOK, Installed, Apps
<1>2. f \in Surjection(I, Ports)
  <2>1. f \in [I -> Ports]
    BY <1>1
  <2>2. \A p \in Ports : \E r \in I : f[r] = p
    BY AppLauncherAssumption DEF Claimed, Installs
  <2> QED
    BY <2>1, <2>2 DEF Surjection
<1>3. /\ IsFiniteSet(Slugs \ {s}) /\ IsFiniteSet(Slugs) /\ IsFiniteSet(Ports)
      /\ Cardinality(Slugs \ {s}) = Cardinality(Slugs) - 1
  BY AppLauncherAssumption, FS_RemoveElement
<1>4. I \in SUBSET (Slugs \ {s})
  OBVIOUS
<1>5. IsFiniteSet(I) /\ Cardinality(I) <= Cardinality(Slugs \ {s})
  BY <1>3, <1>4, FS_Subset
<1>6. Cardinality(Ports) <= Cardinality(I)
  <2> HIDE DEF I, f
  <2> QED
    BY <1>2, <1>5, FS_Surjection
<1>7. Cardinality(Slugs) \in Nat /\ Cardinality(Ports) \in Nat /\ Cardinality(I) \in Nat
  BY <1>3, <1>5, FS_CardinalityType
<1>8. Cardinality(Slugs) <= Cardinality(Ports)
  BY AppLauncherAssumption
<1> QED
  <2> HIDE DEF I
  <2> QED
    BY <1>3, <1>5, <1>6, <1>7, <1>8

\* What allocate_port gives an installed app: the port it has, or else one that
\* no app claims.
LEMMA AllocateGives ==
  ASSUME TypeOK, NEW s \in Slugs, Installed(s), AllocatePort(s)
  PROVE  \E p \in Ports :
           /\ store' = [store EXCEPT ![s].port = p]
           /\ store[s].port # None => p = store[s].port
           /\ store[s].port = None => p \notin Claimed
<1>1. store[s].port \in Ports \cup {None}
  BY AppLauncherAssumption DEF TypeOK, Installed, Apps
<1>2. CASE store[s].port # None
  BY <1>1, <1>2 DEF AllocatePort
<1>3. CASE store[s].port = None
  <2> DEFINE free == Ports \ Claimed
             least == CHOOSE p \in free : \A q \in free : p <= q
  <2>1. free # {} /\ free \in SUBSET Nat /\ free \in SUBSET Ports
    BY <1>3, PortLeft, AppLauncherAssumption
  <2>2. IsFiniteSet(free)
    BY <2>1, AppLauncherAssumption, FS_Subset
  <2>3. least \in free
    <3> HIDE DEF free
    <3> QED
      BY <2>1, <2>2, LeastExists
  <2>4. store' = [store EXCEPT ![s].port = least]
    BY <1>3 DEF AllocatePort
  <2> HIDE DEF least
  <2> QED
    BY <1>3, <2>3, <2>4
<1> QED
  BY <1>2, <1>3

-----------------------------------------------------------------------------
(* Steps of a task *)

Moves(t, l, c) ==
  /\ pc' = [pc EXCEPT ![t] = l]
  /\ task' = [task EXCEPT ![t] = c]

\* A task with no record has no slug, no handle and no queue.
LEMMA NoTaskFields ==
  /\ NoTask \in TaskStates
  /\ NoTask.op = "none" /\ NoTask.slug = None /\ NoTask.handle = None /\ NoTask.port = None
  BY DEF NoTask, TaskStates

\* Goto moves the label alone.
LEMMA GotoMoves ==
  ASSUME TasksInShape, NEW t \in Actors, NEW l, Goto(t, l)
  PROVE  Moves(t, l, task[t])
  BY DEF TasksInShape, Goto, Moves

\* Return leaves the task idle, with no record.
LEMMA ReturnMoves ==
  ASSUME NEW t \in Actors, Return(t)
  PROVE  Moves(t, "idle", NoTask)
  BY DEF Return, Moves

\* Note moves the label and one field of the record.
LEMMA NoteMoves ==
  ASSUME TasksInShape, NEW t \in Actors, NEW l, NEW v
  PROVE  /\ Note(t, l, "port", v) => Moves(t, l, [task[t] EXCEPT !.port = v])
         /\ Note(t, l, "handle", v) => Moves(t, l, [task[t] EXCEPT !.handle = v])
         /\ Note(t, l, "slug", v) => Moves(t, l, [task[t] EXCEPT !.slug = v])
  BY DEF TasksInShape, Note, Moves

\* The three ways a run ends.
LEMMA RunReturnsMoves ==
  ASSUME TasksInShape, NEW t \in Actors, NEW ok \in BOOLEAN, RunReturns(t, ok)
  PROVE  \/ task[t].op = "auto" /\ Moves(t, "next", task[t])
         \/ task[t].op = "link" /\ ok /\ Moves(t, "open", task[t])
         \/ task[t].op # "auto" /\ Moves(t, "idle", NoTask)
<1>1. CASE task[t].op = "auto"
  BY <1>1, GotoMoves DEF RunReturns
<1>2. CASE task[t].op # "auto" /\ task[t].op = "link" /\ ok
  BY <1>2, GotoMoves DEF RunReturns
<1>3. CASE task[t].op # "auto" /\ ~(task[t].op = "link" /\ ok)
  BY <1>3, ReturnMoves DEF RunReturns
<1> QED
  BY <1>1, <1>2, <1>3

\* The tasks keep their shape when the one that moves does.
LEMMA MovesInShape ==
  ASSUME TasksInShape, NEW t \in Actors, NEW l \in Labels, NEW c \in TaskStates,
         Shape(t, l, c), Moves(t, l, c)
  PROVE  /\ TasksInShape'
         /\ pc'[t] = l /\ task'[t] = c
         /\ \A u \in Actors \ {t} : pc'[u] = pc[u] /\ task'[u] = task[u]
<1>1. pc \in [Actors -> Labels] /\ task \in [Actors -> TaskStates]
  BY DEF TasksInShape
<1>2. /\ pc'[t] = l /\ task'[t] = c
      /\ \A u \in Actors \ {t} : pc'[u] = pc[u] /\ task'[u] = task[u]
      /\ pc' \in [Actors -> Labels] /\ task' \in [Actors -> TaskStates]
  BY <1>1 DEF Moves
<1>3. \A u \in Actors : Shape(u, pc'[u], task'[u])
  BY <1>2 DEF TasksInShape
<1> QED
  BY <1>2, <1>3 DEF TasksInShape

\* When a task ends, or only its label changes.
LEMMA IdleInShape ==
  ASSUME NEW t \in Actors
  PROVE  "idle" \in Labels /\ NoTask \in TaskStates /\ Shape(t, "idle", NoTask)
  BY NoTaskFields, AppLauncherAssumption DEF Labels, Shape, Installing, Ported, Served, Stopping, Resetting

-----------------------------------------------------------------------------
(* What a step leaves to the others *)

SameSlug(r) ==
  /\ store'[r] = store[r] /\ image'[r] = image[r] /\ alias'[r] = alias[r]
  /\ container'[r] = container[r] /\ forwards'[r] = forwards[r]

SameListener(h) == listener'[h] = listener[h]

\* A step of t that changes nothing but of the slug s, if any: the one t is on,
\* or the next one of a reset.
Local(t, s) ==
  /\ mishaps \subseteq mishaps'
  /\ task[t].slug = s \/ (task[t].op = "reset" /\ task[t].slug = None)
  /\ task[t].op = "reset" => task'[t].op = "reset"
  /\ \A u \in Actors \ {t} : pc'[u] = pc[u] /\ task'[u] = task[u]
  /\ \A r \in Slugs \ {s} : SameSlug(r) /\ (forwards[r] # None => SameListener(forwards[r]))
  /\ \A u \in Actors \ {t} : task[u].handle # None => SameListener(task[u].handle)

\* What has not gone wrong after a step had not before it.
LEMMA WithoutBefore ==
  ASSUME mishaps \subseteq mishaps', NEW kinds, Without(kinds)'
  PROVE  Without(kinds)
  BY DEF Without

\* What excludes more mishaps excludes an overlap.
LEMMA WithoutOverlap ==
  ASSUME NEW kinds, "overlap" \in kinds, Without(kinds)
  PROVE  Without({"overlap"})
  BY DEF Without

\* What the other tasks hold stays true.
LEMMA LocalTask ==
  ASSUME TypeOK, TasksInShape, Alone, NEW t \in Actors, NEW s \in Slugs \cup {None}, Local(t, s),
         NEW u \in Actors \ {t}, TaskFits(u)
  PROVE  TaskFits(u)'
<1>1. CASE Without({"overlap"})
  <2>1. Apart(task[t], task[u]) /\ Apart(task[u], task[t])
    BY <1>1 DEF Alone
  <2>2. task[u].slug = None \/ task[u].slug \in Slugs \ {s}
    BY <2>1 DEF TasksInShape, TaskStates, Apart, Local
  <2>3. task[u].op = "reset" => s = None
    BY <2>1 DEF Apart, Local
  <2>4. pc'[u] = pc[u] /\ task'[u] = task[u]
    BY DEF Local
  <2>5. task[u].slug # None => SameSlug(task[u].slug)
    BY <2>2 DEF Local
  <2>6. task[u].slug = None => pc[u] \in {"idle", "reset", "next"}
    BY AppLauncherAssumption DEF TasksInShape, Shape
  <2>7. FitsStore(u)'
    BY <2>4, <2>5, <2>6, WithoutBefore DEF Local, TaskFits, FitsStore, SameSlug, Installed, Ported, Served
  <2>8. FitsForward(u)'
    <3>1. task[u].op = "reset" => \A r \in Slugs : forwards'[r] = forwards[r]
      BY <2>3, AppLauncherAssumption DEF Local, SameSlug
    <3> QED
      BY <3>1, <2>4, <2>5, <2>6, WithoutBefore DEF Local, TaskFits, FitsForward, SameSlug
  <2>9. FitsHandle(u)'
    BY <2>4, WithoutBefore DEF Local, TaskFits, FitsHandle, SameListener, Open
  <2>10. FitsContainer(u)'
    <3>1. Without({"overlap", "vm"})' => Without({"overlap", "vm"})
      BY WithoutBefore DEF Local
    <3>2. \/ task[u].slug # None
          \/ pc[u] \notin Served \cup {"load", "get_port", "upsert", "allocate", "tag", "container", "open"}
      BY <2>6 DEF Served
    <3> QED
      BY <3>1, <3>2, <2>4, <2>5 DEF TaskFits, FitsContainer, SameSlug, Installed
  <2>11. FitsImage(u)'
    BY <2>4, <2>5, <2>6, WithoutBefore DEF Local, TaskFits, FitsImage, SameSlug
  <2> QED
    BY <2>7, <2>8, <2>9, <2>10, <2>11 DEF TaskFits
<1>2. CASE ~Without({"overlap"})
  <2>1. ~Without({"overlap"})'
    BY <1>2, WithoutBefore DEF Local
  <2>2. \A kinds : "overlap" \in kinds => ~Without(kinds)'
    BY <2>1 DEF Without
  <2> QED
    BY <2>2 DEF TaskFits, FitsStore, FitsForward, FitsHandle, FitsContainer, FitsImage
<1> QED
  BY <1>1, <1>2

\* Commands on a slug that has not changed are still under way.
LEMMA BusyStays ==
  ASSUME NEW t \in Actors, NEW s, Local(t, s), NEW r \in Slugs, NEW labels,
         task[t].slug # r \/ pc[t] \notin labels
  PROVE  /\ Busy(r, labels) => Busy(r, labels)'
         /\ BeingReset => BeingReset'
<1>1. Busy(r, labels) => Busy(r, labels)'
  <2> SUFFICES ASSUME Busy(r, labels) PROVE Busy(r, labels)'
    OBVIOUS
  <2>1. PICK u \in Actors : task[u].slug = r /\ pc[u] \in labels
    BY DEF Busy
  <2>2. task'[u].slug = r /\ pc'[u] \in labels
    BY <2>1 DEF Local
  <2> QED
    BY <2>2 DEF Busy
<1>2. BeingReset => BeingReset'
  BY DEF BeingReset, Local
<1> QED
  BY <1>1, <1>2

QuietLabels == Labels \ {"unpacking", "forward", "insert", "stop_forward", "set_stopped"}

\* What is kept of a slug stays true when it has not changed.
LEMMA LocalSlug ==
  ASSUME TypeOK, TasksInShape, NEW t \in Actors, NEW s, Local(t, s),
         NEW r \in Slugs, SlugFits(r), SameSlug(r), forwards[r] # None => SameListener(forwards[r]),
         task[t].slug # r \/ pc[t] \in QuietLabels
  PROVE  SlugFits(r)'
<1>1. mishaps \subseteq mishaps'
  BY DEF Local
<1>2. SlugForward(r)'
  BY <1>1, WithoutBefore DEF SlugFits, SlugForward, SameSlug, SameListener, Open, Installed
<1>3. SlugRunning(r)'
  <2>1. /\ Busy(r, {"forward", "insert", "set_stopped"}) => Busy(r, {"forward", "insert", "set_stopped"})'
        /\ Busy(r, {"stop_forward", "set_stopped"}) => Busy(r, {"stop_forward", "set_stopped"})'
        /\ BeingReset => BeingReset'
    BY BusyStays DEF QuietLabels
  <2>2. Without({"overlap"})' => Without({"overlap"})
    BY <1>1, WithoutBefore
  <2>3. Without({"overlap", "vm", "podman"})' => Without({"overlap", "vm", "podman"})
    BY <1>1, WithoutBefore
  <2> QED
    BY <2>1, <2>2, <2>3 DEF SlugFits, SlugRunning, SameSlug, Installed
<1>4. SlugImage(r)'
  <2>1. Busy(r, {"unpacking"}) => Busy(r, {"unpacking"})'
    BY BusyStays DEF QuietLabels
  <2> QED
    BY <2>1, <1>1, WithoutBefore DEF SlugFits, SlugImage, SameSlug, Installed
<1> QED
  BY <1>2, <1>3, <1>4 DEF SlugFits

-----------------------------------------------------------------------------
(* What a step leaves of the invariant's other parts *)

\* Ports that stay are still distinct.
LEMMA PortsLeft ==
  ASSUME mishaps \subseteq mishaps', UniquePorts,
         \A r \in Slugs : store'[r] # None => store[r] # None /\ store'[r].port = store[r].port
  PROVE  UniquePorts' /\ PortStays
<1>1. Without({"overlap"})' => Without({"overlap"})
  BY WithoutBefore
<1> QED
  BY <1>1 DEF UniquePorts, PortStays, Installed

\* Owners that only lose listeners still share none.
LEMMA HandlesLeft ==
  ASSUME HandlesApart, \A r \in Slugs : forwards'[r] = forwards[r] \/ forwards'[r] = None,
         \A u \in Actors : task'[u].handle = task[u].handle \/ task'[u].handle = None
  PROVE  HandlesApart'
  BY DEF HandlesApart

\* Listeners that have not changed are still known.
LEMMA ListenersLeft ==
  ASSUME mishaps \subseteq mishaps', HandlesKnown, listener' = listener, forwards' = forwards,
         \A u \in Actors : task'[u].handle = task[u].handle
  PROVE  HandlesKnown'
<1>1. Without({"overlap"})' => Without({"overlap"})
  BY WithoutBefore
<1> QED
  BY <1>1 DEF HandlesKnown, Open

\* Containers that only go away are still on distinct ports.
LEMMA ContainersLeft ==
  ASSUME ContainersApart, \A r \in Slugs : container'[r] = container[r] \/ container'[r] = None
  PROVE  ContainersApart'
  BY DEF ContainersApart

\* A task that takes no slug and begins no reset is as alone as before.
LEMMA AloneLeft ==
  ASSUME Alone, NEW t \in Actors, NEW s, Local(t, s),
         task'[t].slug = task[t].slug \/ task'[t].slug = None,
         task'[t].op = "reset" => task[t].op = "reset"
  PROVE  Alone'
<1> SUFFICES ASSUME Without({"overlap"})', NEW u \in Actors, NEW w \in Actors, u # w
             PROVE  Apart(task'[u], task'[w])
  BY DEF Alone, Apart
<1>1. Without({"overlap"})
  BY WithoutBefore DEF Local
<1>2. Apart(task[u], task[w])
  BY <1>1 DEF Alone
<1>3. /\ task'[u] = task[u] \/ u = t
      /\ task'[w] = task[w] \/ w = t
  BY DEF Local
<1> QED
  BY <1>2, <1>3 DEF Apart

\* A step of t on s keeps the invariant if it does for t, for s, and between
\* slugs and tasks.
LEMMA LocalStep ==
  ASSUME IInv, NEW t \in Actors, NEW s \in Slugs \cup {None}, Local(t, s),
         TypeOK', TasksInShape', Alone', TaskFits(t)', s \in Slugs => SlugFits(s)',
         UniquePorts', HandlesApart', HandlesKnown', ContainersApart'
  PROVE  IInv'
<1>1. \A u \in Actors : TaskFits(u)'
  <2> TAKE u \in Actors
  <2>1. CASE u # t
    BY <2>1, LocalTask DEF IInv
  <2> QED
    BY <2>1
<1>2. \A r \in Slugs : SlugFits(r)'
  <2> TAKE r \in Slugs
  <2>1. CASE r # s
    <3>1. SameSlug(r) /\ (forwards[r] # None => SameListener(forwards[r]))
      BY <2>1 DEF Local
    <3>2. task[t].slug # r
      <4>1. r # None
        BY AppLauncherAssumption
      <4> QED
        BY <2>1, <4>1 DEF Local
    <3>3. TypeOK /\ TasksInShape /\ SlugFits(r)
      BY DEF IInv
    <3> QED
      BY <3>1, <3>2, <3>3, LocalSlug
  <2> QED
    BY <2>1
<1> QED
  BY <1>1, <1>2 DEF IInv

QuietData == UNCHANGED <<store, image, alias, container, forwards, listener>>

\* A step that changes no slug and no listener.
LEMMA QuietStep ==
  ASSUME IInv, QuietData, mishaps \subseteq mishaps', TypeOK',
         NEW t \in Actors, pc[t] \in QuietLabels,
         NEW l \in Labels, NEW c \in TaskStates, Moves(t, l, c), Shape(t, l, c), c.handle = None,
         task[t].op = "reset" => c.op = "reset",
         Alone', TaskFits(t)'
  PROVE  IInv'
<1>1. /\ TasksInShape' /\ pc'[t] = l /\ task'[t] = c
      /\ \A u \in Actors \ {t} : pc'[u] = pc[u] /\ task'[u] = task[u]
  BY MovesInShape DEF IInv
<1>2. task[t].slug \in Slugs \cup {None} /\ task[t].handle = None
  BY DEF IInv, TasksInShape, TaskStates, Shape, QuietLabels
<1>3. PICK s \in Slugs \cup {None} : task[t].slug = s
  BY <1>2
<1>4. (\A r \in Slugs : SameSlug(r)) /\ (\A h : SameListener(h))
  BY DEF QuietData, SameSlug, SameListener
<1>5. Local(t, s)
  BY <1>1, <1>3, <1>4 DEF Local
<1>6. s \in Slugs => SlugFits(s)'
  <2> SUFFICES ASSUME s \in Slugs PROVE SlugFits(s)'
    OBVIOUS
  <2>1. TypeOK /\ TasksInShape /\ SlugFits(s)
    BY DEF IInv
  <2> QED
    BY <1>4, <1>5, <2>1, LocalSlug
<1>7. \A u \in Actors : task'[u].handle = task[u].handle
  BY <1>1, <1>2
<1>8. UniquePorts' /\ HandlesApart' /\ HandlesKnown' /\ ContainersApart'
  <2>1. UniquePorts'
    BY PortsLeft DEF IInv, QuietData
  <2>2. HandlesApart'
    BY <1>7, HandlesLeft DEF IInv, QuietData
  <2>3. HandlesKnown'
    BY <1>7, ListenersLeft DEF IInv, QuietData
  <2>4. ContainersApart'
    BY ContainersLeft DEF IInv, QuietData
  <2> QED
    BY <2>1, <2>2, <2>3, <2>4
<1> QED
  BY <1>1, <1>5, <1>6, <1>8, LocalStep

\* One that takes no slug either, and begins no reset.
LEMMA QuietMove ==
  ASSUME IInv, QuietData, mishaps \subseteq mishaps', TypeOK',
         NEW t \in Actors, pc[t] \in QuietLabels,
         NEW l \in Labels, NEW c \in TaskStates, Moves(t, l, c), Shape(t, l, c), c.handle = None,
         c.slug = task[t].slug \/ c.slug = None,
         c.op = "reset" <=> task[t].op = "reset",
         TaskFits(t)'
  PROVE  IInv'
<1>1. /\ pc'[t] = l /\ task'[t] = c
      /\ \A u \in Actors \ {t} : pc'[u] = pc[u] /\ task'[u] = task[u]
  BY MovesInShape DEF IInv
<1>2. (\A r \in Slugs : SameSlug(r)) /\ (\A h : SameListener(h))
  BY DEF QuietData, SameSlug, SameListener
<1>3. PICK s : s = task[t].slug
  OBVIOUS
<1>4. Local(t, s)
  BY <1>1, <1>2, <1>3 DEF Local
<1>5. Alone'
  BY <1>1, <1>4, AloneLeft DEF IInv
<1> QED
  BY <1>5, QuietStep

FreeLabels == {"idle", "wait", "next", "fetch", "unpack", "unpacking", "stop", "stop_forward", "set_stopped"}

\* A task that has found nothing yet, or needs nothing more.
LEMMA FreeTask ==
  ASSUME NEW t \in Actors, task'[t].handle = None, task'[t].op # "reset",
         pc'[t] \in FreeLabels \/ (pc'[t] = "allocate" /\ task'[t].op # "link")
  PROVE  TaskFits(t)'
<1>1. FitsStore(t)'
  BY DEF FreeLabels, FitsStore, Ported, Served
<1>2. FitsForward(t)'
  BY DEF FreeLabels, FitsForward
<1>3. FitsHandle(t)'
  BY DEF FitsHandle
<1>4. FitsContainer(t)'
  BY DEF FreeLabels, FitsContainer, Served
<1>5. FitsImage(t)'
  BY DEF FreeLabels, FitsImage
<1> QED
  BY <1>1, <1>2, <1>3, <1>4, <1>5 DEF TaskFits

\* A command that returns, changing nothing.
LEMMA QuietReturn ==
  ASSUME IInv, QuietData, mishaps \subseteq mishaps', TypeOK',
         NEW t \in Actors, pc[t] \in QuietLabels, task[t].op # "reset", Return(t)
  PROVE  IInv'
<1>1. Moves(t, "idle", NoTask)
  BY ReturnMoves
<1>2. /\ "idle" \in Labels /\ NoTask \in TaskStates /\ Shape(t, "idle", NoTask)
      /\ NoTask.op = "none" /\ NoTask.slug = None /\ NoTask.handle = None
  BY IdleInShape, NoTaskFields
<1>3. TaskFits(t)'
  <2>1. pc'[t] = "idle" /\ task'[t] = NoTask
    BY <1>1, <1>2, MovesInShape DEF IInv
  <2> QED
    BY <1>2, <2>1, FreeTask DEF FreeLabels
<1> QED
  BY <1>1, <1>2, <1>3, QuietMove

Runs == {"allocate"} \cup Ported

\* A run that ends early, changing nothing.
LEMMA QuietFailure ==
  ASSUME IInv, QuietData, mishaps \subseteq mishaps', TypeOK',
         NEW t \in Actors, pc[t] \in QuietLabels, pc[t] \in Runs, RunReturns(t, FALSE)
  PROVE  IInv'
<1>1. task[t] \in TaskStates /\ Shape(t, pc[t], task[t]) /\ "next" \in Labels
  BY DEF IInv, TasksInShape, Labels
<1>2. task[t].op # "reset" /\ pc[t] # "idle"
  BY <1>1 DEF Runs, Ported, Served, Shape
<1>3. task[t].handle = None
  BY <1>1 DEF QuietLabels, Shape
<1>4. CASE task[t].op = "auto" /\ Moves(t, "next", task[t])
  <2>1. Shape(t, "next", task[t])
    BY <1>1, <1>3, <1>4 DEF Shape, Installing, Ported, Served, Stopping, Resetting
  <2>2. pc'[t] = "next" /\ task'[t] = task[t]
    BY <1>1, <1>4, <2>1, MovesInShape DEF IInv
  <2>3. TaskFits(t)'
    BY <1>2, <1>3, <2>2, FreeTask DEF FreeLabels
  <2> QED
    BY <1>1, <1>3, <1>4, <2>1, <2>3, QuietMove
<1>5. CASE task[t].op # "auto" /\ Moves(t, "idle", NoTask)
  <2>1. Return(t)
    BY <1>5 DEF Moves, Return
  <2> QED
    BY <1>2, <2>1, QuietReturn
<1> QED
  BY <1>4, <1>5, RunReturnsMoves DEF IInv

\* What the invariant does not speak of may change.
LEMMA StutterInv ==
  ASSUME IInv, UNCHANGED <<store, image, alias, container, forwards, listener, pc, task, boot, mishaps>>,
         vmUp' \in BOOLEAN, loaded' \subseteq Images, volume' \subseteq Slugs,
         window' \in [Slugs -> Ports \cup {None}]
  PROVE  IInv'
<1>1. TypeOK'
  BY DEF IInv, TypeOK
<1>2. TasksInShape' /\ Alone'
  BY DEF IInv, TasksInShape, Alone, Without
<1>3. \A t \in Actors : TaskFits(t)'
  BY DEF IInv, TaskFits, FitsStore, FitsForward, FitsHandle, FitsContainer, FitsImage, Without, Open, Installed
<1>4. \A s \in Slugs : SlugFits(s)'
  BY DEF IInv, SlugFits, SlugForward, SlugRunning, SlugImage, Without, Open, Installed, Busy, BeingReset
<1>5. UniquePorts' /\ HandlesApart' /\ HandlesKnown' /\ ContainersApart'
  BY DEF IInv, UniquePorts, HandlesApart, HandlesKnown, ContainersApart, Without, Open, Installed
<1> QED
  BY <1>1, <1>2, <1>3, <1>4, <1>5 DEF IInv

-----------------------------------------------------------------------------
(* The steps that change no slug and no listener *)

\* What goes wrong is remembered.
LEMMA MishapGives ==
  ASSUME TypeOK, NEW kind, Mishap(kind)
  PROVE  mishaps' = mishaps \cup {kind} /\ mishaps' \subseteq MishapNames
  BY AppLauncherAssumption DEF Mishap, MayGoWrong, TypeOK

\* A task that takes a slug is the only one on it, or two commands overlap.
LEMMA WorkOnGives ==
  ASSUME TypeOK, NEW t, NEW s, WorkOn(t, s)
  PROVE  /\ mishaps \subseteq mishaps' /\ mishaps' \subseteq MishapNames
         /\ Without({"overlap"})' => \A u \in Actors \ {t} : task[u].slug # s /\ task[u].op # "reset"
<1>1. CASE \A u \in Actors \ {t} : task[u].slug # s /\ task[u].op # "reset"
  BY <1>1 DEF WorkOn, TypeOK
<1>2. CASE ~(\A u \in Actors \ {t} : task[u].slug # s /\ task[u].op # "reset")
  <2>1. Mishap("overlap")
    BY <1>2 DEF WorkOn
  <2> QED
    BY <2>1, MishapGives DEF Without
<1> QED
  BY <1>1, <1>2

\* Only commands and mishaps change.
LEMMA QuietType ==
  ASSUME TypeOK, UNCHANGED <<store, image, podman, net, window>>, boot' \in BOOLEAN,
         mishaps' \subseteq MishapNames
  PROVE  TypeOK' /\ QuietData
  BY DEF TypeOK, QuietData, podman, net

\* A command that takes a slug of nobody is alone on it.
LEMMA TakeSlug ==
  ASSUME Alone, NEW t \in Actors, NEW s \in Slugs, mishaps \subseteq mishaps',
         \A u \in Actors \ {t} : task'[u] = task[u],
         Without({"overlap"})' => \A u \in Actors \ {t} : task[u].slug # s /\ task[u].op # "reset",
         task'[t].slug = s, task'[t].op # "reset"
  PROVE  Alone'
<1> SUFFICES ASSUME Without({"overlap"})', NEW u \in Actors, NEW w \in Actors, u # w
             PROVE  Apart(task'[u], task'[w])
  BY DEF Alone, Apart
<1>1. Without({"overlap"})
  BY WithoutBefore
<1>2. s # None
  BY AppLauncherAssumption
<1>3. CASE u # t /\ w # t
  BY <1>1, <1>3 DEF Alone
<1>4. CASE u = t
  BY <1>4 DEF Apart
<1>5. CASE w = t
  BY <1>2, <1>5 DEF Apart
<1> QED
  BY <1>3, <1>4, <1>5

\* A command that begins on a slug.
LEMMA BeginStep ==
  ASSUME IInv, NEW t, NEW s \in Slugs, NEW v \in Versions \cup {None}, NEW op, NEW l,
         Begin(t, op, s, v, l),
         \/ op = "install" /\ l = "fetch" /\ v \in Versions
         \/ op = "link" /\ l = "wait" /\ v \in Versions
         \/ op = "run" /\ l = "allocate"
         \/ op = "stop" /\ l = "stop"
  PROVE  IInv'
<1>1. t \in Actors /\ t # "auto" /\ pc[t] = "idle" /\ WorkOn(t, s)
  BY AppLauncherAssumption DEF Begin, Actors, At
<1>2. TypeOK /\ TasksInShape /\ Alone
  BY DEF IInv
<1>3. task[t] = NoTask
  BY <1>1, <1>2 DEF TasksInShape, Shape
<1>4. PICK c : c = [NoTask EXCEPT !.op = op, !.slug = s, !.version = v]
  OBVIOUS
<1>5. /\ c \in TaskStates /\ c.op = op /\ c.slug = s /\ c.version = v
      /\ c.port = None /\ c.handle = None
  BY <1>4 DEF NoTask, TaskStates, AllCommands
<1>6. l \in Labels /\ Shape(t, l, c)
  <2>1. l \in Labels
    BY DEF Labels, Installing, Stopping
  <2>2. op # "auto" /\ op # "none" /\ op # "reset" /\ l # "idle"
    OBVIOUS
  <2> QED
    BY <1>1, <1>5, <2>1, <2>2 DEF Shape, Installing, Ported, Served, Stopping, Resetting
<1>7. Moves(t, l, c)
  BY <1>4 DEF Begin, Moves
<1>8. /\ pc'[t] = l /\ task'[t] = c
      /\ \A u \in Actors \ {t} : pc'[u] = pc[u] /\ task'[u] = task[u]
  BY <1>1, <1>2, <1>5, <1>6, <1>7, MovesInShape
<1>9. /\ mishaps \subseteq mishaps' /\ mishaps' \subseteq MishapNames
      /\ Without({"overlap"})' => \A u \in Actors \ {t} : task[u].slug # s /\ task[u].op # "reset"
  BY <1>1, <1>2, WorkOnGives
<1>10. TypeOK' /\ QuietData
  <2>1. UNCHANGED <<store, image, podman, net, window>> /\ boot' \in BOOLEAN
    BY <1>2 DEF Begin, TypeOK
  <2> QED
    BY <1>2, <1>9, <2>1, QuietType
<1>11. Alone'
  BY <1>1, <1>2, <1>5, <1>8, <1>9, TakeSlug
<1>12. TaskFits(t)'
  BY <1>1, <1>5, <1>8, FreeTask DEF FreeLabels
<1>13. task[t].op # "reset" /\ pc[t] \in QuietLabels
  BY <1>1, <1>3, NoTaskFields DEF QuietLabels, Labels
<1> QED
  BY <1>1, <1>5, <1>6, <1>7, <1>9, <1>10, <1>11, <1>12, <1>13, QuietStep

\* A command at its label: which it is, and what it holds.
LEMMA AtShape ==
  ASSUME IInv, NEW t \in Actors, NEW l, At(t, l)
  PROVE  TypeOK /\ TasksInShape /\ pc[t] = l /\ task[t] \in TaskStates /\ Shape(t, l, task[t]) /\ TaskFits(t)
  BY DEF IInv, TasksInShape, At

\* A task that goes on, changing nothing.
LEMMA QuietGoto ==
  ASSUME IInv, QuietData, mishaps \subseteq mishaps', TypeOK',
         NEW t \in Actors, pc[t] \in QuietLabels,
         NEW l \in Labels, Goto(t, l), Shape(t, l, task[t]), TaskFits(t)'
  PROVE  IInv'
<1>1. task[t] \in TaskStates /\ task[t].handle = None
  BY DEF IInv, TasksInShape, Shape, QuietLabels
<1>2. Moves(t, l, task[t])
  BY GotoMoves DEF IInv
<1> QED
  BY <1>1, <1>2, QuietMove

\* Goto, seen from its task.
LEMMA GotoKeeps ==
  ASSUME TasksInShape, NEW t \in Actors, NEW l, Goto(t, l)
  PROVE  pc'[t] = l /\ task'[t] = task[t]
  BY DEF Goto, TasksInShape

\* handle() waits for the VM, or gives up.
LEMMA LinkWaitsStep ==
  ASSUME IInv, NEW t \in Actors, LinkWaits(t)
  PROVE  IInv'
<1>1. TypeOK /\ TasksInShape /\ pc[t] = "wait" /\ task[t] \in TaskStates /\ Shape(t, "wait", task[t])
  BY AtShape DEF LinkWaits
<1>2. task[t].op = "link" /\ task[t].handle = None /\ pc[t] \in QuietLabels
  BY <1>1 DEF Shape, QuietLabels, Labels
<1>3. TypeOK' /\ QuietData /\ mishaps \subseteq mishaps'
  BY <1>1, QuietType DEF LinkWaits, TypeOK
<1>4. CASE Goto(t, "fetch")
  <2>1. "fetch" \in Labels /\ Shape(t, "fetch", task[t])
    BY <1>1, <1>2 DEF Labels, Shape, Installing, Ported, Served, Stopping, Resetting
  <2>2. TaskFits(t)'
    BY <1>1, <1>2, <1>4, GotoKeeps, FreeTask DEF FreeLabels
  <2> QED
    BY <1>2, <1>3, <1>4, <2>1, <2>2, QuietGoto
<1>5. CASE Return(t)
  BY <1>2, <1>3, <1>5, QuietReturn
<1> QED
  BY <1>4, <1>5 DEF LinkWaits

\* The manifest and the artifact, or an error.
LEMMA FetchStep ==
  ASSUME IInv, NEW t \in Actors, Fetch(t)
  PROVE  IInv'
<1>1. TypeOK /\ TasksInShape /\ pc[t] = "fetch" /\ task[t] \in TaskStates /\ Shape(t, "fetch", task[t])
  BY AtShape DEF Fetch
<1>2. task[t].op # "reset" /\ task[t].handle = None /\ pc[t] \in QuietLabels
  BY <1>1 DEF Shape, QuietLabels, Labels, Installing
<1>3. TypeOK' /\ QuietData /\ mishaps \subseteq mishaps'
  BY <1>1, QuietType DEF Fetch, TypeOK
<1>4. CASE Goto(t, "unpack")
  <2>1. "unpack" \in Labels /\ Shape(t, "unpack", task[t])
    BY <1>1 DEF Labels, Shape, Installing, Ported, Served, Stopping, Resetting
  <2>2. TaskFits(t)'
    BY <1>1, <1>2, <1>4, GotoKeeps, FreeTask DEF FreeLabels
  <2> QED
    BY <1>2, <1>3, <1>4, <2>1, <2>2, QuietGoto
<1>5. CASE Return(t)
  BY <1>2, <1>3, <1>5, QuietReturn
<1> QED
  BY <1>4, <1>5 DEF Fetch

\* What is loaded changes, not what is unpacked.
LEMMA LoadImageStep ==
  ASSUME IInv, NEW t \in Actors, LoadImage(t)
  PROVE  IInv'
<1>1. /\ TypeOK /\ TasksInShape /\ pc[t] = "load" /\ task[t] \in TaskStates
      /\ Shape(t, "load", task[t]) /\ TaskFits(t)
  BY AtShape DEF LoadImage
<1>2. task[t].op \notin {"reset", "auto"} /\ task[t].handle = None /\ task[t].slug \in Slugs /\ pc[t] \in QuietLabels
  BY <1>1 DEF Shape, QuietLabels, Labels, Installing
<1>3. QuietData /\ mishaps \subseteq mishaps'
  BY DEF LoadImage, QuietData, net
<1>4. TypeOK'
  <2>1. loaded' \subseteq Images
    <3>1. loaded \subseteq Images
      BY <1>1 DEF TypeOK
    <3>2. loaded' = loaded \/ \E v \in Versions : loaded' = loaded \cup {<<task[t].slug, v>>}
      BY DEF LoadImage
    <3> QED
      BY <1>2, <3>1, <3>2 DEF Images
  <2> QED
    BY <1>1, <2>1 DEF LoadImage, TypeOK, net
<1>5. CASE Goto(t, "get_port")
  <2>1. "get_port" \in Labels /\ Shape(t, "get_port", task[t])
    BY <1>1 DEF Labels, Shape, Installing, Ported, Served, Stopping, Resetting
  <2>2. pc'[t] = "get_port" /\ task'[t] = task[t]
    BY <1>1, <1>5, GotoKeeps
  <2>3. TaskFits(t)'
    <3>1. FitsStore(t)' /\ FitsForward(t)' /\ FitsHandle(t)'
      BY <1>2, <2>2 DEF FitsStore, FitsForward, FitsHandle, Ported, Served
    <3>2. FitsContainer(t)'
      BY <1>1, <1>3, <2>2, WithoutBefore DEF TaskFits, FitsContainer, Served, QuietData
    <3>3. FitsImage(t)'
      BY <1>1, <1>3, <2>2, WithoutBefore DEF TaskFits, FitsImage, QuietData
    <3> QED
      BY <3>1, <3>2, <3>3 DEF TaskFits
  <2> QED
    BY <1>2, <1>3, <1>4, <1>5, <2>1, <2>3, QuietGoto
<1>6. CASE Return(t)
  BY <1>2, <1>3, <1>4, <1>6, QuietReturn
<1> QED
  BY <1>5, <1>6 DEF LoadImage

\* The port an update is to carry over is the one the app has.
LEMMA GetPortStep ==
  ASSUME IInv, NEW t \in Actors, GetPort(t)
  PROVE  IInv'
<1>1. /\ TypeOK /\ TasksInShape /\ pc[t] = "get_port" /\ task[t] \in TaskStates
      /\ Shape(t, "get_port", task[t]) /\ TaskFits(t)
  BY AtShape DEF GetPort
<1>2. task[t].op \in {"install", "link"} /\ task[t].handle = None /\ task[t].slug \in Slugs /\ pc[t] \in QuietLabels
  BY <1>1 DEF Shape, QuietLabels, Labels, Installing
<1>3. TypeOK' /\ QuietData /\ mishaps \subseteq mishaps'
  BY <1>1, QuietType DEF GetPort, TypeOK
<1>4. PICK s \in Slugs : task[t].slug = s
  BY <1>2
<1>5. PICK p : p = IF Installed(s) THEN store[s].port ELSE None
  OBVIOUS
<1>6. p \in Ports \cup {None}
  BY <1>1, <1>5 DEF TypeOK, Installed, Apps
<1>7. PICK c : c = [task[t] EXCEPT !.port = p]
  OBVIOUS
<1>8. /\ c \in TaskStates /\ c.op = task[t].op /\ c.slug = s /\ c.version = task[t].version
      /\ c.port = p /\ c.handle = None
  BY <1>1, <1>2, <1>4, <1>6, <1>7 DEF TaskStates
<1>9. Moves(t, "upsert", c)
  BY <1>1, <1>4, <1>5, <1>7, NoteMoves DEF GetPort
<1>10. "upsert" \in Labels /\ Shape(t, "upsert", c)
  BY <1>1, <1>2, <1>8 DEF Labels, Shape, Installing, Ported, Served, Stopping, Resetting
<1>11. pc'[t] = "upsert" /\ task'[t] = c
  BY <1>1, <1>8, <1>9, <1>10, MovesInShape
<1>12. TaskFits(t)'
  <2>1. FitsStore(t)'
    BY <1>3, <1>5, <1>8, <1>11 DEF FitsStore, Ported, Served, Installed, QuietData
  <2>2. FitsForward(t)' /\ FitsHandle(t)'
    BY <1>2, <1>8, <1>11 DEF FitsForward, FitsHandle
  <2>3. FitsContainer(t)'
    BY <1>1, <1>3, <1>4, <1>8, <1>11, WithoutBefore DEF TaskFits, FitsContainer, Served, QuietData
  <2>4. FitsImage(t)'
    BY <1>1, <1>3, <1>4, <1>8, <1>11, WithoutBefore DEF TaskFits, FitsImage, QuietData
  <2> QED
    BY <2>1, <2>2, <2>3, <2>4 DEF TaskFits
<1> QED
  BY <1>2, <1>3, <1>4, <1>8, <1>9, <1>10, <1>12, QuietMove

\* The agent is asked; the run goes on or ends.
LEMMA FindVsockStep ==
  ASSUME IInv, NEW t \in Actors, FindVsock(t)
  PROVE  IInv'
<1>1. /\ TypeOK /\ TasksInShape /\ pc[t] = "vsock" /\ task[t] \in TaskStates
      /\ Shape(t, "vsock", task[t]) /\ TaskFits(t)
  BY AtShape DEF FindVsock
<1>2. task[t].op \notin {"reset"} /\ task[t].handle = None /\ task[t].slug \in Slugs /\ pc[t] \in QuietLabels /\ pc[t] \in Runs
  BY <1>1 DEF Shape, QuietLabels, Labels, Ported, Served, Runs
<1>3. TypeOK' /\ QuietData /\ mishaps \subseteq mishaps'
  BY <1>1, QuietType DEF FindVsock, TypeOK
<1>4. CASE Goto(t, "unforward")
  <2>1. "unforward" \in Labels /\ Shape(t, "unforward", task[t])
    BY <1>1 DEF Labels, Shape, Installing, Ported, Served, Stopping, Resetting
  <2>2. pc'[t] = "unforward" /\ task'[t] = task[t]
    BY <1>1, <1>4, GotoKeeps
  <2>3. TaskFits(t)'
    <3>1. FitsStore(t)'
      BY <1>1, <1>3, <2>2, WithoutBefore DEF TaskFits, FitsStore, Ported, Served, QuietData, Installed
    <3>2. FitsForward(t)' /\ FitsHandle(t)'
      BY <1>2, <2>2 DEF FitsForward, FitsHandle
    <3>3. FitsContainer(t)'
      BY <1>1, <1>3, <2>2, WithoutBefore DEF TaskFits, FitsContainer, Served, QuietData
    <3>4. FitsImage(t)'
      BY <1>1, <1>3, <2>2, WithoutBefore DEF TaskFits, FitsImage, QuietData
    <3> QED
      BY <3>1, <3>2, <3>3, <3>4 DEF TaskFits
  <2> QED
    BY <1>2, <1>3, <1>4, <2>1, <2>3, QuietGoto
<1>5. CASE RunReturns(t, FALSE)
  BY <1>2, <1>3, <1>5, QuietFailure
<1> QED
  BY <1>4, <1>5 DEF FindVsock

\* The link opens the window and is done.
LEMMA LinkOpensStep ==
  ASSUME IInv, NEW t \in Actors, LinkOpens(t)
  PROVE  IInv'
<1>1. TypeOK /\ TasksInShape /\ pc[t] = "open" /\ task[t] \in TaskStates /\ Shape(t, "open", task[t])
  BY AtShape DEF LinkOpens
<1>2. task[t].op # "reset" /\ task[t].slug \in Slugs /\ pc[t] \in QuietLabels
  BY <1>1 DEF Shape, QuietLabels, Labels
<1>3. QuietData /\ mishaps \subseteq mishaps'
  BY DEF LinkOpens, QuietData, net, podman
<1>4. TypeOK'
  <2>1. window' \in [Slugs -> Ports \cup {None}]
    BY <1>1, <1>2 DEF LinkOpens, ShowWindow, TypeOK, Installed, Apps
  <2> QED
    BY <1>1, <2>1 DEF LinkOpens, TypeOK, net, podman
<1> QED
  BY <1>2, <1>3, <1>4, QuietReturn DEF LinkOpens

\* open_inner by itself touches the window alone.
LEMMA OpenAppStep ==
  ASSUME IInv, NEW t, NEW s \in Slugs, OpenApp(t, s)
  PROVE  IInv'
<1>1. TypeOK
  BY DEF IInv
<1>2. window' \in [Slugs -> Ports \cup {None}]
  BY <1>1 DEF OpenApp, ShowWindow, TypeOK, Installed, Apps
<1>3. UNCHANGED <<store, image, podman, net, pc, task, boot, mishaps>>
  BY DEF OpenApp
<1> QED
  BY <1>1, <1>2, <1>3, StutterInv DEF podman, net, TypeOK

\* A reset takes all that is installed, and no other command is under way.
LEMMA ResetStep ==
  ASSUME IInv, NEW t, Reset(t)
  PROVE  IInv'
<1>1. t \in Actors /\ t # "auto" /\ pc[t] = "idle"
  BY AppLauncherAssumption DEF Reset, Actors, At
<1>2. TypeOK /\ TasksInShape /\ Alone
  BY DEF IInv
<1>3. task[t] = NoTask
  BY <1>1, <1>2 DEF TasksInShape, Shape
<1>4. PICK c : c = [NoTask EXCEPT !.op = "reset", !.queue = Installs]
  OBVIOUS
<1>5. /\ c \in TaskStates /\ c.op = "reset" /\ c.slug = None /\ c.queue = Installs
      /\ c.handle = None
  BY <1>4 DEF NoTask, TaskStates, AllCommands, Installs
<1>6. "reset" \in Labels /\ Shape(t, "reset", c)
  BY <1>1, <1>5 DEF Labels, Shape, Installing, Ported, Served, Stopping, Resetting
<1>7. Moves(t, "reset", c)
  BY <1>4 DEF Reset, Moves
<1>8. /\ pc'[t] = "reset" /\ task'[t] = c
      /\ \A u \in Actors \ {t} : pc'[u] = pc[u] /\ task'[u] = task[u]
  BY <1>1, <1>2, <1>5, <1>6, <1>7, MovesInShape
<1>9. /\ mishaps \subseteq mishaps' /\ mishaps' \subseteq MishapNames
      /\ Without({"overlap"})' => \A u \in Actors : pc[u] = "idle"
  <2>1. CASE \A u \in Actors : At(u, "idle")
    BY <1>2, <2>1 DEF Reset, At, TypeOK
  <2>2. CASE ~(\A u \in Actors : At(u, "idle"))
    <3>1. Mishap("overlap")
      BY <2>2 DEF Reset
    <3> QED
      BY <1>2, <3>1, MishapGives DEF Without
  <2> QED
    BY <2>1, <2>2
<1>10. TypeOK' /\ QuietData
  <2>1. UNCHANGED <<store, image, podman, net, window>> /\ boot' \in BOOLEAN
    BY <1>2 DEF Reset, TypeOK
  <2> QED
    BY <1>2, <1>9, <2>1, QuietType
<1>11. Alone'
  <2> SUFFICES ASSUME Without({"overlap"})', NEW u \in Actors, NEW w \in Actors, u # w
               PROVE  Apart(task'[u], task'[w])
    BY DEF Alone, Apart
  <2>1. \A x \in Actors \ {t} : task'[x] = NoTask
    BY <1>2, <1>8, <1>9 DEF TasksInShape, Shape
  <2>2. NoTask.op = "none" /\ NoTask.slug = None
    BY NoTaskFields
  <2>3. task'[u].slug = None /\ task'[w].slug = None
    BY <1>5, <1>8, <2>1, <2>2
  <2>4. task'[u].op # "reset" \/ task'[w].op # "reset"
    BY <2>1, <2>2
  <2> QED
    BY <2>3, <2>4 DEF Apart
<1>12. TaskFits(t)'
  <2>1. FitsStore(t)' /\ FitsHandle(t)' /\ FitsContainer(t)' /\ FitsImage(t)'
    BY <1>5, <1>8 DEF FitsStore, FitsHandle, FitsContainer, FitsImage, Ported, Served
  <2>2. FitsForward(t)'
    <3>1. Without({"overlap"})' => \A r \in Slugs : forwards[r] # None => r \in c.queue
      BY <1>5, <1>9, WithoutBefore DEF IInv, SlugFits, SlugForward, Installs, Installed
    <3> QED
      BY <1>5, <1>8, <1>10, <3>1 DEF FitsForward, QuietData
  <2> QED
    BY <2>1, <2>2 DEF TaskFits
<1>13. task[t].op # "reset" /\ pc[t] \in QuietLabels
  BY <1>1, <1>3, NoTaskFields DEF QuietLabels, Labels
<1> QED
  BY <1>1, <1>5, <1>6, <1>7, <1>9, <1>10, <1>11, <1>12, <1>13, QuietStep

\* The auto-run begins with what is installed.
LEMMA StartAutoStep ==
  ASSUME IInv, StartAuto
  PROVE  IInv'
<1>1. "auto" \in Actors /\ pc["auto"] = "idle"
  BY DEF StartAuto, Actors, At
<1>2. TypeOK /\ TasksInShape
  BY DEF IInv
<1>3. task["auto"] = NoTask /\ pc["auto"] \in QuietLabels
  BY <1>1, <1>2 DEF TasksInShape, Shape, QuietLabels, Labels
<1>4. PICK c : c = [NoTask EXCEPT !.op = "auto", !.queue = Installs]
  OBVIOUS
<1>5. c \in TaskStates /\ c.op = "auto" /\ c.slug = None /\ c.handle = None
  BY <1>4 DEF NoTask, TaskStates, Installs
<1>6. "next" \in Labels /\ Shape("auto", "next", c)
  BY <1>5 DEF Labels, Shape, Installing, Ported, Served, Stopping, Resetting
<1>7. Moves("auto", "next", c)
  BY <1>4 DEF StartAuto, Moves
<1>8. pc'["auto"] = "next" /\ task'["auto"] = c
  BY <1>1, <1>2, <1>5, <1>6, <1>7, MovesInShape
<1>9. TypeOK' /\ QuietData /\ mishaps \subseteq mishaps'
  BY <1>2, QuietType DEF StartAuto, TypeOK
<1>10. TaskFits("auto")'
  BY <1>1, <1>5, <1>8, FreeTask DEF FreeLabels
<1> QED
  BY <1>1, <1>3, <1>5, <1>6, <1>7, <1>9, <1>10, NoTaskFields, QuietMove

\* The auto-run takes its next app, or ends.
LEMMA NextAutoStep ==
  ASSUME IInv, NextAuto
  PROVE  IInv'
<1>1. "auto" \in Actors
  BY DEF Actors
<1>2. /\ TypeOK /\ TasksInShape /\ Alone /\ pc["auto"] = "next" /\ task["auto"] \in TaskStates
      /\ Shape("auto", "next", task["auto"])
  BY <1>1, AtShape DEF NextAuto, IInv
<1>3. task["auto"].op # "reset" /\ pc["auto"] \in QuietLabels /\ task["auto"].queue \subseteq Slugs
  BY <1>2 DEF Shape, QuietLabels, Labels, TaskStates
<1>4. CASE Return("auto") /\ UNCHANGED mishaps
  <2>1. TypeOK' /\ QuietData /\ mishaps \subseteq mishaps'
    BY <1>2, <1>4, QuietType DEF NextAuto, TypeOK
  <2> QED
    BY <1>1, <1>3, <1>4, <2>1, QuietReturn
<1>5. ASSUME NEW s \in task["auto"].queue, WorkOn("auto", s),
             pc' = [pc EXCEPT !["auto"] = "allocate"],
             task' = [task EXCEPT !["auto"] =
                        [NoTask EXCEPT !.op = "auto", !.slug = s, !.queue = task["auto"].queue \ {s}]]
      PROVE  IInv'
  <2>1. s \in Slugs
    BY <1>3, <1>5
  <2>2. PICK c : c = [NoTask EXCEPT !.op = "auto", !.slug = s, !.queue = task["auto"].queue \ {s}]
    OBVIOUS
  <2>3. c \in TaskStates /\ c.op = "auto" /\ c.slug = s /\ c.handle = None
    BY <1>3, <2>1, <2>2 DEF NoTask, TaskStates
  <2>4. "allocate" \in Labels /\ Shape("auto", "allocate", c)
    BY <2>1, <2>3 DEF Labels, Shape, Installing, Ported, Served, Stopping, Resetting
  <2>5. Moves("auto", "allocate", c)
    BY <1>5, <2>2 DEF Moves
  <2>6. /\ pc'["auto"] = "allocate" /\ task'["auto"] = c
        /\ \A u \in Actors \ {"auto"} : pc'[u] = pc[u] /\ task'[u] = task[u]
    BY <1>1, <1>2, <2>3, <2>4, <2>5, MovesInShape
  <2>7. /\ mishaps \subseteq mishaps' /\ mishaps' \subseteq MishapNames
        /\ Without({"overlap"})' => \A u \in Actors \ {"auto"} : task[u].slug # s /\ task[u].op # "reset"
    BY <1>2, <1>5, WorkOnGives
  <2>8. TypeOK' /\ QuietData
    <3>1. UNCHANGED <<store, image, podman, net, window>> /\ boot' \in BOOLEAN
      BY <1>2 DEF NextAuto, TypeOK
    <3> QED
      BY <1>2, <2>7, <3>1, QuietType
  <2>9. Alone'
    BY <1>1, <1>2, <2>1, <2>3, <2>6, <2>7, TakeSlug
  <2>10. TaskFits("auto")'
    BY <1>1, <2>3, <2>6, FreeTask DEF FreeLabels
  <2> QED
    BY <1>1, <1>3, <2>3, <2>4, <2>5, <2>7, <2>8, <2>9, <2>10, QuietStep
<1> QED
  BY <1>4, <1>5 DEF NextAuto

-----------------------------------------------------------------------------
(* The steps that change what is kept of one slug *)

\* A command that goes on, changing its slug but no listener.
LEMMA DataMove ==
  ASSUME IInv, NEW t \in Actors, NEW s \in Slugs, task[t].slug = s,
         task[t].op # "reset", task[t].handle = None,
         NEW l \in Labels, NEW c \in TaskStates, Moves(t, l, c), Shape(t, l, c),
         c.slug = s \/ c.slug = None, c.op # "reset", c.handle = None,
         mishaps \subseteq mishaps', UNCHANGED <<forwards, listener>>,
         \A r \in Slugs \ {s} : SameSlug(r)
  PROVE  /\ Local(t, s) /\ TasksInShape' /\ Alone' /\ HandlesApart' /\ HandlesKnown'
         /\ pc'[t] = l /\ task'[t] = c
<1>1. /\ TasksInShape' /\ pc'[t] = l /\ task'[t] = c
      /\ \A u \in Actors \ {t} : pc'[u] = pc[u] /\ task'[u] = task[u]
  BY MovesInShape DEF IInv
<1>2. \A h : SameListener(h)
  BY DEF SameListener
<1>3. Local(t, s)
  BY <1>1, <1>2 DEF Local
<1>4. Alone'
  BY <1>1, <1>3, AloneLeft DEF IInv
<1>5. \A u \in Actors : task'[u].handle = task[u].handle
  BY <1>1
<1>6. HandlesApart'
  BY <1>5, HandlesLeft DEF IInv
<1>7. HandlesKnown'
  BY <1>5, ListenersLeft DEF IInv
<1> QED
  BY <1>1, <1>3, <1>4, <1>6, <1>7

\* The slugs the command is not on have not changed.
LEMMA OthersSame ==
  ASSUME TypeOK, NEW s \in Slugs,
         \/ store' = store \/ \E v : store' = [store EXCEPT ![s] = v],
         \/ image' = image \/ \E v : image' = [image EXCEPT ![s] = v],
         \/ alias' = alias \/ \E v : alias' = [alias EXCEPT ![s] = v],
         \/ container' = container \/ \E v : container' = [container EXCEPT ![s] = v],
         \/ forwards' = forwards \/ \E v : forwards' = [forwards EXCEPT ![s] = v]
  PROVE  \A r \in Slugs \ {s} : SameSlug(r)
<1>1. TAKE r \in Slugs \ {s}
<1>2. store'[r] = store[r]
  BY DEF TypeOK
<1>3. image'[r] = image[r]
  BY DEF TypeOK
<1>4. alias'[r] = alias[r]
  BY DEF TypeOK
<1>5. container'[r] = container[r]
  BY DEF TypeOK
<1>6. forwards'[r] = forwards[r]
  BY DEF TypeOK
<1> QED
  BY <1>2, <1>3, <1>4, <1>5, <1>6 DEF SameSlug

\* While image.tar is cut off, the command that writes it is on the slug.
LEMMA StartUnpackStep ==
  ASSUME IInv, NEW t \in Actors, StartUnpack(t)
  PROVE  IInv'
<1>1. /\ TypeOK /\ TasksInShape /\ pc[t] = "unpack" /\ task[t] \in TaskStates
      /\ Shape(t, "unpack", task[t])
  BY AtShape DEF StartUnpack
<1>2. task[t] \in TaskStates /\ task[t].op # "reset" /\ task[t].handle = None /\ task[t].slug \in Slugs
  BY <1>1 DEF Shape, Installing
<1>3. PICK s \in Slugs : task[t].slug = s
  BY <1>2
<1>4. /\ image' = [image EXCEPT ![s] = "cut off"]
      /\ UNCHANGED <<store, alias, container, forwards, listener>>
      /\ mishaps' = mishaps /\ mishaps \subseteq mishaps'
      /\ Goto(t, "unpacking")
  BY <1>3 DEF StartUnpack, podman, net
<1>5. TypeOK'
  BY <1>1 DEF StartUnpack, TypeOK, podman, net
<1>6. PICK c \in TaskStates :
        /\ c = task[t] /\ Shape(t, "unpacking", c) /\ Moves(t, "unpacking", c)
        /\ c.slug = s /\ c.op # "reset" /\ c.handle = None
  <2>1. Moves(t, "unpacking", task[t])
    BY <1>1, <1>4, GotoMoves
  <2>2. Shape(t, "unpacking", task[t])
    BY <1>1 DEF Shape, Installing, Ported, Served, Stopping, Resetting
  <2> QED
    BY <1>2, <1>3, <2>1, <2>2
<1>7. \A r \in Slugs \ {s} : SameSlug(r)
  BY <1>1, <1>4, OthersSame
<1>8. /\ Local(t, s) /\ TasksInShape' /\ Alone' /\ HandlesApart' /\ HandlesKnown'
      /\ pc'[t] = "unpacking" /\ task'[t] = task[t]
  <2>1. "unpacking" \in Labels
    BY DEF Labels, Installing
  <2>2. /\ Local(t, s) /\ TasksInShape' /\ Alone' /\ HandlesApart' /\ HandlesKnown'
        /\ pc'[t] = "unpacking" /\ task'[t] = c
    BY <1>2, <1>3, <1>4, <1>6, <1>7, <2>1, DataMove
  <2> QED
    BY <1>6, <2>2
<1>9. TaskFits(t)'
  BY <1>2, <1>8, FreeTask DEF FreeLabels
<1>10. SlugFits(s)'
  <2>1. SlugForward(s)'
    BY <1>4 DEF IInv, SlugFits, SlugForward, Open, Installed, Without
  <2>2. SlugRunning(s)'
    <3>1. /\ Busy(s, {"forward", "insert", "set_stopped"}) => Busy(s, {"forward", "insert", "set_stopped"})'
          /\ Busy(s, {"stop_forward", "set_stopped"}) => Busy(s, {"stop_forward", "set_stopped"})'
          /\ BeingReset => BeingReset'
      BY <1>1, <1>8, BusyStays
    <3> QED
      BY <1>4, <3>1 DEF IInv, SlugFits, SlugRunning, Installed, Without
  <2>3. SlugImage(s)'
    <3>1. Busy(s, {"unpacking"})'
      BY <1>3, <1>8 DEF Busy
    <3> QED
      BY <1>4, <3>1 DEF IInv, SlugFits, SlugImage, Without
  <2> QED
    BY <2>1, <2>2, <2>3 DEF SlugFits
<1>11. UniquePorts' /\ ContainersApart'
  BY <1>4, PortsLeft, ContainersLeft DEF IInv
<1> QED
  BY <1>5, <1>8, <1>9, <1>10, <1>11, LocalStep

\* image.tar is whole and of the version named, or a cutoff is on record.
LEMMA FinishUnpackStep ==
  ASSUME IInv, NEW t \in Actors, FinishUnpack(t)
  PROVE  IInv'
<1>1. /\ TypeOK /\ TasksInShape /\ pc[t] = "unpacking" /\ task[t] \in TaskStates
      /\ Shape(t, "unpacking", task[t])
  BY AtShape DEF FinishUnpack
<1>2. task[t].op # "reset" /\ task[t].handle = None /\ task[t].slug \in Slugs /\ task[t].version \in Versions
  BY <1>1 DEF Shape, Installing
<1>3. PICK s \in Slugs : task[t].slug = s
  BY <1>2
<1>4. UNCHANGED <<store, alias, container, forwards, listener>>
  BY DEF FinishUnpack, podman, net
<1>5. SlugForward(s)' \/ ~(mishaps \subseteq mishaps')
  BY <1>4, WithoutBefore DEF IInv, SlugFits, SlugForward, Open, Installed
<1>6. Local(t, s) => SlugRunning(s)'
  <2> SUFFICES ASSUME Local(t, s) PROVE SlugRunning(s)'
    OBVIOUS
  <2>1. /\ Busy(s, {"forward", "insert", "set_stopped"}) => Busy(s, {"forward", "insert", "set_stopped"})'
        /\ Busy(s, {"stop_forward", "set_stopped"}) => Busy(s, {"stop_forward", "set_stopped"})'
        /\ BeingReset => BeingReset'
    BY <1>1, BusyStays
  <2> QED
    BY <1>4, <2>1, WithoutBefore DEF IInv, SlugFits, SlugRunning, Installed, Local
<1>7. CASE /\ image' = [image EXCEPT ![s] = task[t].version]
           /\ Goto(t, "load") /\ UNCHANGED mishaps
  <2>1. TypeOK'
    BY <1>1, <1>2, <1>7 DEF FinishUnpack, TypeOK, podman, net
  <2>2. "load" \in Labels /\ Shape(t, "load", task[t]) /\ Moves(t, "load", task[t])
    BY <1>1, <1>7, GotoMoves DEF Labels, Shape, Installing, Ported, Served, Stopping, Resetting
  <2>3. \A r \in Slugs \ {s} : SameSlug(r)
    BY <1>1, <1>4, <1>7, OthersSame
  <2>4. /\ Local(t, s) /\ TasksInShape' /\ Alone' /\ HandlesApart' /\ HandlesKnown'
        /\ pc'[t] = "load" /\ task'[t] = task[t]
    BY <1>1, <1>2, <1>3, <1>4, <1>7, <2>2, <2>3, DataMove
  <2>5. image'[s] = task[t].version
    BY <1>1, <1>7 DEF TypeOK
  <2>6. TaskFits(t)'
    <3>1. FitsStore(t)' /\ FitsForward(t)' /\ FitsHandle(t)' /\ FitsImage(t)'
      BY <1>2, <1>3, <2>4, <2>5 DEF FitsStore, FitsForward, FitsHandle, FitsImage, Ported, Served
    <3>2. FitsContainer(t)'
      BY <1>3, <2>4, <2>5 DEF FitsContainer, Served
    <3> QED
      BY <3>1, <3>2 DEF TaskFits
  <2>7. SlugImage(s)'
    BY <1>2, <1>4, <1>7, <2>5 DEF IInv, SlugFits, SlugImage, Without
  <2>8. SlugFits(s)'
    BY <1>5, <1>6, <1>7, <2>4, <2>7 DEF SlugFits
  <2>9. UniquePorts' /\ ContainersApart'
    BY <1>4, <1>7, PortsLeft, ContainersLeft DEF IInv
  <2> QED
    BY <2>1, <2>4, <2>6, <2>8, <2>9, LocalStep
<1>8. CASE Mishap("cutoff") /\ Return(t) /\ UNCHANGED image
  <2>1. mishaps' = mishaps \cup {"cutoff"} /\ mishaps' \subseteq MishapNames
    BY <1>1, <1>8, MishapGives
  <2>2. TypeOK'
    BY <1>1, <1>8, <2>1, QuietType DEF FinishUnpack, TypeOK
  <2>3. /\ "idle" \in Labels /\ NoTask \in TaskStates /\ Shape(t, "idle", NoTask) /\ Moves(t, "idle", NoTask)
        /\ NoTask.op = "none" /\ NoTask.slug = None /\ NoTask.handle = None
    BY <1>8, IdleInShape, NoTaskFields, ReturnMoves
  <2>4. \A r \in Slugs \ {s} : SameSlug(r)
    BY <1>1, <1>4, <1>8, OthersSame
  <2>5. /\ Local(t, s) /\ TasksInShape' /\ Alone' /\ HandlesApart' /\ HandlesKnown'
        /\ pc'[t] = "idle" /\ task'[t] = NoTask
    BY <1>1, <1>2, <1>3, <1>4, <2>1, <2>3, <2>4, DataMove
  <2>6. TaskFits(t)'
    BY <2>3, <2>5, FreeTask DEF FreeLabels
  <2>7. SlugImage(s)'
    <3>1. ~Without({"overlap", "restart", "cutoff"})'
      BY <2>1 DEF Without
    <3> QED
      BY <1>4, <3>1 DEF IInv, SlugFits, SlugImage
  <2>8. SlugFits(s)'
    BY <1>5, <1>6, <2>1, <2>5, <2>7 DEF SlugFits
  <2>9. UniquePorts' /\ ContainersApart'
    BY <1>4, <2>1, PortsLeft, ContainersLeft DEF IInv
  <2> QED
    BY <2>2, <2>5, <2>6, <2>8, <2>9, LocalStep
<1> QED
  BY <1>3, <1>7, <1>8 DEF FinishUnpack

\* upsert gives the app the port it had, and shows it stopped.
LEMMA UpsertAppStep ==
  ASSUME IInv, NEW t \in Actors, UpsertApp(t)
  PROVE  IInv' /\ PortStays
<1>1. /\ TypeOK /\ TasksInShape /\ pc[t] = "upsert" /\ Shape(t, "upsert", task[t]) /\ TaskFits(t)
      /\ task[t] \in TaskStates
  BY AtShape DEF UpsertApp
<1>2. /\ task[t].op # "reset" /\ task[t].handle = None /\ task[t].slug \in Slugs
      /\ task[t].version \in Versions /\ task[t].port \in Ports \cup {None}
  BY <1>1 DEF Shape, Installing, TaskStates
<1>3. PICK s \in Slugs : task[t].slug = s
  BY <1>2
<1>4. PICK app : app = [version |-> task[t].version, port |-> task[t].port, running |-> FALSE]
  OBVIOUS
<1>5. app \in Apps /\ app # None /\ app.port = task[t].port /\ ~app.running
  <2>1. app \in Apps
    BY <1>2, <1>4 DEF Apps
  <2>2. app.port = task[t].port /\ ~app.running
    BY <1>4
  <2> QED
    BY <2>1, <2>2, AppLauncherAssumption
<1>6. /\ store' = [store EXCEPT ![s] = app]
      /\ UNCHANGED <<image, alias, container, forwards, listener>>
      /\ mishaps' = mishaps /\ mishaps \subseteq mishaps'
  BY <1>3, <1>4 DEF UpsertApp, Upsert, podman, net
<1>7. TypeOK'
  BY <1>1, <1>5, <1>6 DEF UpsertApp, TypeOK, podman, net
<1>8. store'[s] = app /\ \A r \in Slugs \ {s} : SameSlug(r) /\ store'[r] = store[r]
  <2>1. \A r \in Slugs \ {s} : SameSlug(r)
    BY <1>1, <1>6, OthersSame
  <2> QED
    BY <1>1, <1>6, <2>1 DEF TypeOK, SameSlug
<1>9. PICK l \in Labels, c \in TaskStates :
        /\ Moves(t, l, c) /\ Shape(t, l, c) /\ c.handle = None /\ c.op # "reset"
        /\ c.slug = s \/ c.slug = None
        /\ l = "idle" \/ (l = "allocate" /\ task[t].op = "link" /\ c.slug = s /\ c.version = task[t].version)
  <2>1. CASE task[t].op = "link"
    <3>1. PICK c : c = [task[t] EXCEPT !.port = None]
      OBVIOUS
    <3>2. /\ c \in TaskStates /\ c.handle = None /\ c.op = "link" /\ c.slug = s
          /\ c.version = task[t].version
      BY <1>1, <1>2, <1>3, <2>1, <3>1 DEF TaskStates
    <3>3. Moves(t, "allocate", c)
      BY <1>1, <2>1, <3>1, NoteMoves DEF UpsertApp
    <3>4. "allocate" \in Labels /\ Shape(t, "allocate", c)
      BY <1>1, <1>2, <3>2 DEF Labels, Shape, Installing, Ported, Served, Stopping, Resetting
    <3> QED
      BY <2>1, <3>2, <3>3, <3>4
  <2>2. CASE task[t].op # "link"
    BY <2>2, IdleInShape, NoTaskFields, ReturnMoves DEF UpsertApp
  <2> QED
    BY <2>1, <2>2
<1>10. /\ Local(t, s) /\ TasksInShape' /\ Alone' /\ HandlesApart' /\ HandlesKnown'
       /\ pc'[t] = l /\ task'[t] = c
  BY <1>2, <1>3, <1>6, <1>8, <1>9, DataMove
<1>11. Without({"overlap"}) => app.port = IF Installed(s) THEN store[s].port ELSE None
  BY <1>1, <1>3, <1>5 DEF TaskFits, FitsStore
<1>12. TaskFits(t)'
  <2>1. CASE l = "idle"
    BY <1>9, <1>10, <2>1, FreeTask DEF FreeLabels
  <2>2. CASE l = "allocate" /\ task[t].op = "link" /\ c.slug = s /\ c.version = task[t].version
    <3>1. FitsStore(t)' /\ FitsForward(t)' /\ FitsHandle(t)' /\ FitsImage(t)'
      BY <1>9, <1>10, <2>2 DEF FitsStore, FitsForward, FitsHandle, FitsImage, Ported, Served
    <3>2. Without({"overlap", "vm"}) => (c.op = "link" => image[s] = task[t].version)
      BY <1>1, <1>3, <2>2 DEF TaskFits, FitsContainer
    <3>3. FitsContainer(t)'
      BY <1>6, <1>10, <2>2, <3>2, WithoutBefore DEF FitsContainer, Served
    <3> QED
      BY <3>1, <3>3 DEF TaskFits
  <2> QED
    BY <1>9, <2>1, <2>2
<1>13. SlugFits(s)'
  <2>1. SlugForward(s)'
    BY <1>5, <1>6, <1>8, <1>11, WithoutBefore DEF IInv, SlugFits, SlugForward, Open, Installed
  <2>2. SlugRunning(s)'
    BY <1>5, <1>8 DEF SlugRunning
  <2>3. SlugImage(s)'
    BY <1>1, <1>3, <1>6, WithoutBefore DEF IInv, SlugFits, SlugImage, TaskFits, FitsImage
  <2> QED
    BY <2>1, <2>2, <2>3 DEF SlugFits
<1>14. UniquePorts' /\ PortStays
  BY <1>5, <1>6, <1>8, <1>11 DEF IInv, UniquePorts, PortStays, Installed, Without
<1>15. ContainersApart'
  BY <1>6, ContainersLeft DEF IInv
<1> QED
  BY <1>7, <1>10, <1>12, <1>13, <1>14, <1>15, LocalStep

\* allocate_port leaves every app a port of its own.
LEMMA AllocateStep ==
  ASSUME IInv, NEW t \in Actors, Allocate(t)
  PROVE  IInv' /\ PortStays
<1>1. /\ TypeOK /\ TasksInShape /\ pc[t] = "allocate" /\ Shape(t, "allocate", task[t]) /\ TaskFits(t)
      /\ task[t] \in TaskStates
  BY AtShape DEF Allocate
<1>2. /\ task[t].op \in {"run", "link", "auto"} /\ task[t].handle = None /\ task[t].slug \in Slugs
      /\ pc[t] \in QuietLabels /\ pc[t] \in Runs
  BY <1>1 DEF Shape, Runs, QuietLabels, Labels
<1>3. PICK s \in Slugs : task[t].slug = s
  BY <1>2
<1>4. /\ UNCHANGED <<image, alias, container, forwards, listener>>
      /\ mishaps' = mishaps /\ mishaps \subseteq mishaps'
  BY DEF Allocate, podman, net
<1>5. CASE RunReturns(t, FALSE) /\ UNCHANGED store
  <2>1. TypeOK' /\ QuietData
    BY <1>1, <1>5, QuietType DEF Allocate, TypeOK
  <2>2. PortStays
    BY <1>5 DEF PortStays
  <2> QED
    BY <1>2, <1>4, <1>5, <2>1, <2>2, QuietFailure
<1>6. CASE Installed(s) /\ AllocatePort(s) /\ Note(t, "tag", "port", store'[s].port)
  <2>1. PICK p \in Ports : /\ store' = [store EXCEPT ![s].port = p]
                           /\ store[s].port # None => p = store[s].port
                           /\ store[s].port = None => p \notin Claimed
    BY <1>1, <1>6, AllocateGives
  <2>2. PICK app : app = [store[s] EXCEPT !.port = p]
    OBVIOUS
  <2>3. store[s] \in Apps
    BY <1>1, <1>6 DEF TypeOK, Installed
  <2>4. app \in Apps /\ app # None /\ app.port = p /\ app.running = store[s].running
    BY <2>2, <2>3, AppLauncherAssumption DEF Apps
  <2>5. store' = [store EXCEPT ![s] = app]
    BY <2>1, <2>2
  <2>6. TypeOK'
    BY <1>1, <2>4, <2>5 DEF Allocate, TypeOK, podman, net
  <2>7. \A r \in Slugs \ {s} : SameSlug(r)
    BY <1>1, <1>4, <2>5, OthersSame
  <2>8. store'[s] = app /\ \A r \in Slugs \ {s} : store'[r] = store[r]
    BY <1>1, <2>5 DEF TypeOK
  <2>9. PICK c : c = [task[t] EXCEPT !.port = p]
    OBVIOUS
  <2>10. /\ c \in TaskStates /\ c.handle = None /\ c.op = task[t].op /\ c.slug = s
         /\ c.version = task[t].version /\ c.port = p /\ c.op # "reset"
    BY <1>1, <1>2, <1>3, <2>9 DEF TaskStates
  <2>11. Moves(t, "tag", c)
    BY <1>1, <1>6, <2>4, <2>8, <2>9, NoteMoves
  <2>12. "tag" \in Labels /\ Shape(t, "tag", c)
    BY <1>1, <1>2, <2>10 DEF Labels, Shape, Installing, Ported, Served, Stopping, Resetting
  <2>13. /\ Local(t, s) /\ TasksInShape' /\ Alone' /\ HandlesApart' /\ HandlesKnown'
         /\ pc'[t] = "tag" /\ task'[t] = c
    BY <1>2, <1>3, <1>4, <2>7, <2>10, <2>11, <2>12, DataMove
  <2>14. TaskFits(t)'
    <3>1. FitsStore(t)'
      BY <2>4, <2>8, <2>10, <2>13 DEF FitsStore, Installed
    <3>2. FitsForward(t)' /\ FitsHandle(t)' /\ FitsImage(t)'
      BY <2>10, <2>13 DEF FitsForward, FitsHandle, FitsImage
    <3>3. FitsContainer(t)'
      BY <1>1, <1>3, <1>4, <2>10, <2>13, WithoutBefore DEF TaskFits, FitsContainer, Served
    <3> QED
      BY <3>1, <3>2, <3>3 DEF TaskFits
  <2>15. SlugFits(s)'
    <3>1. SlugForward(s)'
      BY <1>4, <2>1, <2>4, <2>8, WithoutBefore DEF IInv, SlugFits, SlugForward, Open, Installed
    <3>2. SlugRunning(s)'
      <4>1. /\ Busy(s, {"forward", "insert", "set_stopped"}) => Busy(s, {"forward", "insert", "set_stopped"})'
            /\ Busy(s, {"stop_forward", "set_stopped"}) => Busy(s, {"stop_forward", "set_stopped"})'
            /\ BeingReset => BeingReset'
        BY <1>1, <2>13, BusyStays
      <4>2. container[s] # None => container[s].port \in Ports
        BY <1>1 DEF TypeOK, Containers
      <4>3. container[s] # None /\ container[s].port = store[s].port => app.port = store[s].port
        BY <2>1, <2>4, <4>2, AppLauncherAssumption
      <4> QED
        BY <1>4, <1>6, <2>4, <2>8, <4>1, <4>3, WithoutBefore DEF IInv, SlugFits, SlugRunning, Installed
    <3>3. SlugImage(s)'
      <4>1. Busy(s, {"unpacking"}) => Busy(s, {"unpacking"})'
        BY <1>1, <2>13, BusyStays
      <4> QED
        BY <1>4, <1>6, <4>1, WithoutBefore DEF IInv, SlugFits, SlugImage
    <3> QED
      BY <3>1, <3>2, <3>3 DEF SlugFits
  <2>16. UniquePorts' /\ PortStays
    <3>1. \A r \in Slugs : Installed(r) /\ store[r].port # None => store[r].port \in Claimed
      BY DEF Claimed, Installs
    <3>2. \A r \in Slugs \ {s} : Without({"overlap"}) /\ Installed(r) /\ store[r].port # None => store[r].port # p
      BY <1>6, <2>1, <3>1 DEF IInv, UniquePorts
    <3>3. Without({"overlap"})' => Without({"overlap"})
      BY <1>4, WithoutBefore
    <3>4. UniquePorts'
      BY <1>6, <2>4, <2>8, <3>2, <3>3 DEF IInv, UniquePorts, Installed
    <3>5. PortStays
      BY <2>1, <2>4, <2>8 DEF PortStays
    <3> QED
      BY <3>4, <3>5
  <2>17. ContainersApart'
    BY <1>4, ContainersLeft DEF IInv
  <2> QED
    BY <2>6, <2>13, <2>14, <2>15, <2>16, <2>17, LocalStep
<1> QED
  BY <1>3, <1>5, <1>6 DEF Allocate

\* A run that ends well is back, or at the window, or goes on to the next app.
LEMMA RunEnds ==
  ASSUME TasksInShape, NEW t \in Actors, NEW ok \in BOOLEAN, RunReturns(t, ok),
         pc[t] \in Runs, task[t].handle = None
  PROVE  \E l \in Labels, c \in TaskStates :
           /\ Moves(t, l, c) /\ Shape(t, l, c) /\ c.handle = None /\ c.op # "reset"
           /\ c.slug = task[t].slug \/ c.slug = None
           /\ \/ l \in {"idle", "next"}
              \/ ok /\ l = "open" /\ c = task[t]
<1>1. task[t] \in TaskStates /\ Shape(t, pc[t], task[t])
  BY DEF TasksInShape
<1>2. task[t].op \in {"run", "link", "auto"} /\ task[t].slug \in Slugs
  BY <1>1 DEF Shape, Runs, Ported, Served
<1>3. CASE task[t].op = "auto" /\ Moves(t, "next", task[t])
  <2>1. "next" \in Labels /\ Shape(t, "next", task[t])
    BY <1>1, <1>2, <1>3 DEF Labels, Shape, Installing, Ported, Served, Stopping, Resetting
  <2> QED
    BY <1>1, <1>3, <2>1
<1>4. CASE task[t].op = "link" /\ ok /\ Moves(t, "open", task[t])
  <2>1. "open" \in Labels /\ Shape(t, "open", task[t])
    BY <1>1, <1>2, <1>4 DEF Labels, Shape, Installing, Ported, Served, Stopping, Resetting
  <2> QED
    BY <1>1, <1>4, <2>1
<1>5. CASE Moves(t, "idle", NoTask)
  BY <1>5, IdleInShape, NoTaskFields
<1> QED
  BY <1>3, <1>4, <1>5, RunReturnsMoves

\* An app is shown as running when its container and its forwarder are there.
LEMMA MarkRunningStep ==
  ASSUME IInv, NEW t \in Actors, MarkRunning(t)
  PROVE  IInv' /\ PortStays
<1>1. /\ TypeOK /\ TasksInShape /\ pc[t] = "set_running" /\ Shape(t, "set_running", task[t]) /\ TaskFits(t)
      /\ task[t] \in TaskStates
  BY AtShape DEF MarkRunning
<1>2. /\ task[t].op \in {"run", "link", "auto"} /\ task[t].handle = None /\ task[t].slug \in Slugs
      /\ pc[t] \in QuietLabels /\ pc[t] \in Runs
  BY <1>1 DEF Shape, Runs, QuietLabels, Labels, Ported, Served
<1>3. PICK s \in Slugs : task[t].slug = s
  BY <1>2
<1>4. /\ UNCHANGED <<image, alias, container, forwards, listener>>
      /\ mishaps' = mishaps /\ mishaps \subseteq mishaps'
  BY DEF MarkRunning, podman, net
<1>5. CASE RunReturns(t, FALSE) /\ UNCHANGED store
  <2>1. TypeOK' /\ QuietData
    BY <1>1, <1>5, QuietType DEF MarkRunning, TypeOK
  <2>2. PortStays
    BY <1>5 DEF PortStays
  <2> QED
    BY <1>2, <1>4, <1>5, <2>1, <2>2, QuietFailure
<1>6. CASE Installed(s) /\ SetRunning(s, TRUE) /\ RunReturns(t, TRUE)
  <2>1. PICK app : app = [store[s] EXCEPT !.running = TRUE]
    OBVIOUS
  <2>2. store[s] \in Apps
    BY <1>1, <1>6 DEF TypeOK, Installed
  <2>3. app \in Apps /\ app.port = store[s].port
    BY <2>1, <2>2 DEF Apps
  <2>4. app # None
    BY <2>3, AppLauncherAssumption
  <2>5. store' = [store EXCEPT ![s] = app]
    BY <1>6, <2>1 DEF SetRunning
  <2>6. TypeOK'
    BY <1>1, <2>3, <2>5 DEF MarkRunning, TypeOK, podman, net
  <2>7. \A r \in Slugs \ {s} : SameSlug(r)
    BY <1>1, <1>4, <2>5, OthersSame
  <2>8. store'[s] = app /\ \A r \in Slugs \ {s} : store'[r] = store[r]
    BY <1>1, <2>5 DEF TypeOK
  <2>9. PICK l \in Labels, c \in TaskStates :
           /\ Moves(t, l, c) /\ Shape(t, l, c) /\ c.handle = None /\ c.op # "reset"
           /\ c.slug = s \/ c.slug = None
           /\ \/ l \in {"idle", "next"}
              \/ l = "open" /\ c = task[t]
    BY <1>1, <1>2, <1>3, <1>6, RunEnds
  <2>10. /\ Local(t, s) /\ TasksInShape' /\ Alone' /\ HandlesApart' /\ HandlesKnown'
         /\ pc'[t] = l /\ task'[t] = c
    BY <1>2, <1>3, <1>4, <2>7, <2>9, DataMove
  <2>11. TaskFits(t)'
    <3>1. CASE l \in {"idle", "next"}
      BY <2>9, <2>10, <3>1, FreeTask DEF FreeLabels
    <3>2. CASE l = "open" /\ c = task[t]
      <4>1. FitsStore(t)' /\ FitsForward(t)' /\ FitsHandle(t)' /\ FitsImage(t)'
        BY <2>9, <2>10, <3>2 DEF FitsStore, FitsForward, FitsHandle, FitsImage, Ported, Served
      <4>2. Without({"overlap", "vm"}) => store[s].port = task[t].port
        BY <1>1, <1>3, WithoutOverlap DEF TaskFits, FitsStore, Ported, Served
      <4>3. FitsContainer(t)'
        BY <1>1, <1>3, <1>4, <2>3, <2>4, <2>8, <2>10, <3>2, <4>2, WithoutBefore
        DEF TaskFits, FitsContainer, Served, Installed
      <4> QED
        BY <4>1, <4>3 DEF TaskFits
    <3> QED
      BY <2>9, <3>1, <3>2
  <2>12. SlugFits(s)'
    <3>1. SlugForward(s)'
      BY <1>4, <2>3, <2>4, <2>8, WithoutBefore DEF IInv, SlugFits, SlugForward, Open, Installed
    <3>2. SlugRunning(s)'
      <4>1. Without({"overlap"}) => forwards[s] # None /\ store[s].port = task[t].port
        BY <1>1, <1>3 DEF TaskFits, FitsForward, FitsStore, Ported, Served
      <4>2. Without({"overlap", "vm", "podman"}) => Without({"overlap"}) /\ Without({"overlap", "vm"})
        BY DEF Without
      <4>3. Without({"overlap", "vm"}) => container[s] # None /\ container[s].port = task[t].port
        BY <1>1, <1>3 DEF TaskFits, FitsContainer, Served
      <4> QED
        BY <1>4, <2>3, <2>8, <4>1, <4>2, <4>3, WithoutBefore DEF SlugRunning
    <3>3. SlugImage(s)'
      <4>1. Busy(s, {"unpacking"}) => Busy(s, {"unpacking"})'
        BY <1>1, <2>10, BusyStays
      <4> QED
        BY <1>4, <1>6, <4>1, WithoutBefore DEF IInv, SlugFits, SlugImage
    <3> QED
      BY <3>1, <3>2, <3>3 DEF SlugFits
  <2>13. UniquePorts' /\ PortStays
    BY <1>4, <1>6, <2>3, <2>8, PortsLeft DEF IInv, Installed
  <2>14. ContainersApart'
    BY <1>4, ContainersLeft DEF IInv
  <2> QED
    BY <2>6, <2>10, <2>11, <2>12, <2>13, <2>14, LocalStep
<1> QED
  BY <1>3, <1>5, <1>6 DEF MarkRunning

\* An app that is stopped is shown so, and keeps its port.
LEMMA MarkStoppedStep ==
  ASSUME IInv, NEW t \in Actors, MarkStopped(t)
  PROVE  IInv' /\ PortStays
<1>1. /\ TypeOK /\ TasksInShape /\ pc[t] = "set_stopped" /\ Shape(t, "set_stopped", task[t])
      /\ task[t] \in TaskStates
  BY AtShape DEF MarkStopped
<1>2. task[t].op = "stop" /\ task[t].handle = None /\ task[t].slug \in Slugs
  BY <1>1 DEF Shape, Stopping
<1>3. PICK s \in Slugs : task[t].slug = s
  BY <1>2
<1>4. /\ UNCHANGED <<image, alias, container, forwards, listener>>
      /\ mishaps' = mishaps /\ mishaps \subseteq mishaps'
  BY DEF MarkStopped, podman, net
<1>5. /\ "idle" \in Labels /\ NoTask \in TaskStates /\ Shape(t, "idle", NoTask) /\ Moves(t, "idle", NoTask)
      /\ NoTask.op = "none" /\ NoTask.slug = None /\ NoTask.handle = None
  BY IdleInShape, NoTaskFields, ReturnMoves DEF MarkStopped
<1>6. /\ store' = store \/ \E v : store' = [store EXCEPT ![s] = v]
      /\ store' \in [Slugs -> Apps \cup {None}]
      /\ Installed(s) => store'[s] # None /\ store'[s].port = store[s].port /\ ~store'[s].running
      /\ ~Installed(s) => store'[s] = None
  <2>1. CASE Installed(s)
    <3>1. PICK app : app = [store[s] EXCEPT !.running = FALSE]
      OBVIOUS
    <3>2. store[s] \in Apps /\ store' = [store EXCEPT ![s] = app]
      BY <1>1, <1>3, <2>1, <3>1 DEF TypeOK, Installed, MarkStopped, SetRunning
    <3>3. app \in Apps /\ app.port = store[s].port /\ ~app.running
      BY <3>1, <3>2 DEF Apps
    <3>4. app # None
      BY <3>3, AppLauncherAssumption
    <3> QED
      BY <1>1, <2>1, <3>2, <3>3, <3>4 DEF TypeOK
  <2>2. CASE ~Installed(s)
    BY <1>1, <1>3, <2>2 DEF TypeOK, Installed, MarkStopped
  <2> QED
    BY <2>1, <2>2
<1>7. TypeOK'
  BY <1>1, <1>6 DEF MarkStopped, TypeOK, podman, net
<1>8. \A r \in Slugs \ {s} : SameSlug(r)
  BY <1>1, <1>4, <1>6, OthersSame
<1>9. /\ Local(t, s) /\ TasksInShape' /\ Alone' /\ HandlesApart' /\ HandlesKnown'
      /\ pc'[t] = "idle" /\ task'[t] = NoTask
  BY <1>2, <1>3, <1>4, <1>5, <1>8, DataMove
<1>10. TaskFits(t)'
  BY <1>5, <1>9, FreeTask DEF FreeLabels
<1>11. SlugFits(s)'
  <2>1. SlugForward(s)'
    BY <1>4, <1>6, WithoutBefore DEF IInv, SlugFits, SlugForward, Open, Installed
  <2>2. SlugRunning(s)'
    BY <1>6 DEF SlugRunning, Installed
  <2>3. SlugImage(s)'
    <3>1. Busy(s, {"unpacking"}) => Busy(s, {"unpacking"})'
      BY <1>1, <1>9, BusyStays
    <3> QED
      BY <1>4, <1>6, <3>1, WithoutBefore DEF IInv, SlugFits, SlugImage, Installed
  <2> QED
    BY <2>1, <2>2, <2>3 DEF SlugFits
<1>12. UniquePorts' /\ PortStays
  BY <1>4, <1>6, <1>8, PortsLeft DEF IInv, Installed, SameSlug
<1>13. ContainersApart'
  BY <1>4, ContainersLeft DEF IInv
<1> QED
  BY <1>7, <1>9, <1>10, <1>11, <1>12, <1>13, LocalStep

\* podman tags the image that was just loaded: there is a whole one.
LEMMA TagImageStep ==
  ASSUME IInv, NEW t \in Actors, TagImage(t)
  PROVE  IInv'
<1>1. /\ TypeOK /\ TasksInShape /\ pc[t] = "tag" /\ Shape(t, "tag", task[t]) /\ TaskFits(t)
      /\ task[t] \in TaskStates
  BY AtShape DEF TagImage
<1>2. /\ task[t].op \in {"run", "link", "auto"} /\ task[t].handle = None /\ task[t].slug \in Slugs
      /\ pc[t] \in QuietLabels /\ pc[t] \in Runs /\ task[t].version \in Versions \cup {None}
      /\ task[t].op = "link" => task[t].version \in Versions
  BY <1>1 DEF Shape, Runs, QuietLabels, Labels, Ported, TaskStates
<1>3. PICK s \in Slugs : task[t].slug = s
  BY <1>2
<1>4. /\ UNCHANGED <<store, image, container, forwards, listener>>
      /\ mishaps' = mishaps /\ mishaps \subseteq mishaps'
  BY DEF TagImage, podman, net
<1>5. CASE RunReturns(t, FALSE) /\ UNCHANGED <<loaded, alias>>
  <2>1. TypeOK' /\ QuietData
    BY <1>1, <1>5, QuietType DEF TagImage, TypeOK, podman
  <2> QED
    BY <1>2, <1>4, <1>5, <2>1, QuietFailure
<1>6. CASE /\ loaded' = IF image[s] \in Versions THEN loaded \cup {<<s, image[s]>>} ELSE loaded
           /\ IF LoadedRef(s) = {} THEN UNCHANGED alias
              ELSE \E ref \in LoadedRef(s) : alias' = [alias EXCEPT ![s] = ref]
           /\ Goto(t, "container")
  <2>1. loaded \subseteq Images
    BY <1>1 DEF TypeOK
  <2>2. LoadedRef(s) \subseteq Images /\ loaded' \subseteq Images
    BY <1>6, <2>1 DEF LoadedRef, Images
  <2>3. \/ alias' = alias
        \/ \E ref \in LoadedRef(s) : alias' = [alias EXCEPT ![s] = ref]
    BY <1>6
  <2>4. TypeOK'
    <3>1. alias' \in [Slugs -> Images \cup {None}]
      BY <1>1, <2>2, <2>3 DEF TypeOK
    <3> QED
      BY <1>1, <2>2, <3>1 DEF TagImage, TypeOK, net
  <2>5. \A r \in Slugs \ {s} : SameSlug(r)
    BY <1>1, <1>4, <2>3, OthersSame
  <2>6. "container" \in Labels /\ Shape(t, "container", task[t]) /\ Moves(t, "container", task[t])
    BY <1>1, <1>6, GotoMoves DEF Labels, Shape, Installing, Ported, Served, Stopping, Resetting
  <2>7. /\ Local(t, s) /\ TasksInShape' /\ Alone' /\ HandlesApart' /\ HandlesKnown'
        /\ pc'[t] = "container" /\ task'[t] = task[t]
    BY <1>1, <1>2, <1>3, <1>4, <2>5, <2>6, DataMove
  <2>8. alias'[s] = alias[s] \/ (alias'[s] \in LoadedRef(s) /\ alias'[s] # None)
    <3>1. None \notin Images
      BY AppLauncherAssumption
    <3>2. alias \in [Slugs -> Images \cup {None}]
      BY <1>1 DEF TypeOK
    <3> QED
      BY <2>2, <2>3, <3>1, <3>2
  <2>9. image[s] \in Versions => alias'[s] = <<s, image[s]>>
    <3> SUFFICES ASSUME image[s] \in Versions PROVE alias'[s] = <<s, image[s]>>
      OBVIOUS
    <3>1. LoadedRef(s) = {<<s, image[s]>>}
      BY DEF LoadedRef
    <3>2. alias' = [alias EXCEPT ![s] = <<s, image[s]>>]
      BY <1>6, <3>1
    <3> QED
      BY <1>1, <3>2 DEF TypeOK
  <2>10. TaskFits(t)'
    <3>1. FitsStore(t)'
      BY <1>1, <1>4, <2>7, WithoutBefore DEF TaskFits, FitsStore, Ported, Installed
    <3>2. FitsForward(t)' /\ FitsHandle(t)' /\ FitsImage(t)'
      BY <1>2, <2>7 DEF FitsForward, FitsHandle, FitsImage
    <3>3. FitsContainer(t)'
      BY <1>1, <1>2, <1>3, <1>4, <2>7, <2>9, WithoutBefore DEF TaskFits, FitsContainer, Served
    <3> QED
      BY <3>1, <3>2, <3>3 DEF TaskFits
  <2>11. SlugFits(s)'
    <3>1. SlugForward(s)'
      BY <1>4, WithoutBefore DEF IInv, SlugFits, SlugForward, Open, Installed
    <3>2. SlugRunning(s)'
      <4>1. /\ Busy(s, {"forward", "insert", "set_stopped"}) => Busy(s, {"forward", "insert", "set_stopped"})'
            /\ Busy(s, {"stop_forward", "set_stopped"}) => Busy(s, {"stop_forward", "set_stopped"})'
            /\ BeingReset => BeingReset'
        BY <1>1, <2>7, BusyStays
      <4> QED
        BY <1>4, <4>1, WithoutBefore DEF IInv, SlugFits, SlugRunning, Installed
    <3>3. SlugImage(s)'
      <4>1. Busy(s, {"unpacking"}) => Busy(s, {"unpacking"})'
        BY <1>1, <2>7, BusyStays
      <4>2. Without({"overlap"}) => Installed(s) /\ ~Busy(s, {"unpacking"})
        <5>1. Without({"overlap"}) => Installed(s)
          BY <1>1, <1>3 DEF TaskFits, FitsStore, Ported
        <5>2. ASSUME Without({"overlap"}), NEW u \in Actors, task[u].slug = s, pc[u] = "unpacking" PROVE FALSE
          <6>1. s # None
            BY AppLauncherAssumption
          <6> QED
            BY <1>1, <1>3, <5>2, <6>1 DEF IInv, Alone, Apart
        <5> QED
          BY <5>1, <5>2 DEF Busy
      <4>3. Without({"overlap", "restart", "cutoff"}) => image[s] \in Versions
        BY <4>2, WithoutOverlap DEF IInv, SlugFits, SlugImage
      <4>4. Without({"overlap", "restart", "cutoff"})' => Without({"overlap", "restart", "cutoff"})
        BY <1>4, WithoutBefore
      <4>5. container'[s] # None => alias'[s] # None
        BY <1>4, <2>8 DEF IInv, SlugFits, SlugImage
      <4>6. Without({"overlap", "restart", "cutoff"}) => alias'[s][1] = s
        BY <2>9, <4>3
      <4> QED
        BY <1>4, <4>1, <4>4, <4>5, <4>6 DEF IInv, SlugFits, SlugImage, Installed
    <3> QED
      BY <3>1, <3>2, <3>3 DEF SlugFits
  <2>12. UniquePorts' /\ ContainersApart'
    BY <1>4, PortsLeft, ContainersLeft DEF IInv
  <2> QED
    BY <2>4, <2>7, <2>10, <2>11, <2>12, LocalStep
<1> QED
  BY <1>3, <1>5, <1>6 DEF TagImage

\* The container of an app shown as running goes, by the command that will tell.
LEMMA StopContainerStep ==
  ASSUME IInv, NEW t \in Actors, StopContainer(t)
  PROVE  IInv'
<1>1. /\ TypeOK /\ TasksInShape /\ pc[t] = "stop" /\ Shape(t, "stop", task[t])
      /\ task[t] \in TaskStates
  BY AtShape DEF StopContainer
<1>2. /\ task[t].op = "stop" /\ task[t].handle = None /\ task[t].slug \in Slugs
      /\ pc[t] \in QuietLabels
  BY <1>1 DEF Shape, QuietLabels, Labels, Stopping
<1>3. PICK s \in Slugs : task[t].slug = s
  BY <1>2
<1>4. /\ UNCHANGED <<store, image, alias, forwards, listener>>
      /\ mishaps' = mishaps /\ mishaps \subseteq mishaps'
  BY DEF StopContainer, podman, net
<1>5. CASE Return(t) /\ UNCHANGED container
  <2>1. TypeOK' /\ QuietData
    BY <1>1, <1>5, QuietType DEF StopContainer, TypeOK, podman
  <2> QED
    BY <1>2, <1>4, <1>5, <2>1, QuietReturn
<1>6. CASE container' = [container EXCEPT ![s] = None] /\ Goto(t, "stop_forward")
  <2>1. TypeOK'
    BY <1>1, <1>6 DEF StopContainer, TypeOK, net
  <2>2. \A r \in Slugs \ {s} : SameSlug(r)
    BY <1>1, <1>4, <1>6, OthersSame
  <2>3. "stop_forward" \in Labels /\ Shape(t, "stop_forward", task[t]) /\ Moves(t, "stop_forward", task[t])
    BY <1>1, <1>6, GotoMoves DEF Labels, Shape, Installing, Ported, Served, Stopping, Resetting
  <2>4. /\ Local(t, s) /\ TasksInShape' /\ Alone' /\ HandlesApart' /\ HandlesKnown'
        /\ pc'[t] = "stop_forward" /\ task'[t] = task[t]
    BY <1>1, <1>2, <1>3, <1>4, <2>2, <2>3, DataMove
  <2>5. container'[s] = None
    BY <1>1, <1>6 DEF TypeOK
  <2>6. TaskFits(t)'
    BY <1>2, <2>4, FreeTask DEF FreeLabels
  <2>7. SlugFits(s)'
    <3>1. SlugForward(s)'
      BY <1>4, WithoutBefore DEF IInv, SlugFits, SlugForward, Open, Installed
    <3>2. SlugRunning(s)'
      <4>1. /\ Busy(s, {"forward", "insert", "set_stopped"}) => Busy(s, {"forward", "insert", "set_stopped"})'
            /\ BeingReset => BeingReset'
        BY <1>1, <2>4, BusyStays
      <4>2. Busy(s, {"stop_forward", "set_stopped"})'
        BY <1>3, <2>4 DEF Busy
      <4> QED
        BY <1>4, <4>1, <4>2, WithoutBefore DEF IInv, SlugFits, SlugRunning, Installed
    <3>3. SlugImage(s)'
      <4>1. Busy(s, {"unpacking"}) => Busy(s, {"unpacking"})'
        BY <1>1, <2>4, BusyStays
      <4> QED
        BY <1>4, <2>5, <4>1, WithoutBefore DEF IInv, SlugFits, SlugImage, Installed
    <3> QED
      BY <3>1, <3>2, <3>3 DEF SlugFits
  <2>8. UniquePorts'
    BY <1>4, PortsLeft DEF IInv
  <2>9. ContainersApart'
    BY <2>2, <2>5, ContainersLeft DEF IInv, SameSlug
  <2> QED
    BY <2>1, <2>4, <2>6, <2>7, <2>8, <2>9, LocalStep
<1> QED
  BY <1>3, <1>5, <1>6 DEF StopContainer

\* Under way on its slug, a command is the only one.
LEMMA OnlyTask ==
  ASSUME IInv, Without({"overlap"}), NEW t \in Actors, NEW s \in Slugs, task[t].slug = s,
         task[t].op # "reset"
  PROVE  ~BeingReset /\ \A labels : Busy(s, labels) => pc[t] \in labels
<1>1. s # None
  BY AppLauncherAssumption
<1>2. \A u \in Actors \ {t} : task[u].slug # s /\ task[u].op # "reset"
  BY <1>1 DEF IInv, Alone, Apart
<1> QED
  BY <1>2 DEF BeingReset, Busy

\* The container runs what is tagged, on a port no other container has; an app
\* shown as running loses it by a failure of podman alone.
LEMMA RunContainerStep ==
  ASSUME IInv, NEW t \in Actors, RunContainer(t)
  PROVE  IInv'
<1>1. /\ TypeOK /\ TasksInShape /\ pc[t] = "container" /\ Shape(t, "container", task[t]) /\ TaskFits(t)
      /\ task[t] \in TaskStates
  BY AtShape DEF RunContainer
<1>2. /\ task[t].op \in {"run", "link", "auto"} /\ task[t].handle = None /\ task[t].slug \in Slugs
      /\ pc[t] \in QuietLabels /\ pc[t] \in Runs /\ task[t].port \in Ports
  BY <1>1 DEF Shape, Runs, QuietLabels, Labels, Ported
<1>3. PICK s \in Slugs : task[t].slug = s
  BY <1>2
<1>4. UNCHANGED <<store, image, alias, forwards, listener>>
  BY DEF RunContainer, net
<1>5. Without({"overlap"}) => Installed(s) /\ store[s].port = task[t].port
  BY <1>1, <1>3 DEF TaskFits, FitsStore, Ported
<1>6. Local(t, s) =>
        /\ SlugForward(s)'
        /\ Busy(s, {"forward", "insert", "set_stopped"}) => Busy(s, {"forward", "insert", "set_stopped"})'
        /\ Busy(s, {"stop_forward", "set_stopped"}) => Busy(s, {"stop_forward", "set_stopped"})'
        /\ Busy(s, {"unpacking"}) => Busy(s, {"unpacking"})'
        /\ BeingReset => BeingReset'
  <2> SUFFICES ASSUME Local(t, s)
               PROVE  /\ SlugForward(s)'
                      /\ Busy(s, {"forward", "insert", "set_stopped"}) => Busy(s, {"forward", "insert", "set_stopped"})'
                      /\ Busy(s, {"stop_forward", "set_stopped"}) => Busy(s, {"stop_forward", "set_stopped"})'
                      /\ Busy(s, {"unpacking"}) => Busy(s, {"unpacking"})'
                      /\ BeingReset => BeingReset'
    OBVIOUS
  <2>1. SlugForward(s)'
    BY <1>4, WithoutBefore DEF IInv, SlugFits, SlugForward, Open, Installed, Local
  <2> QED
    BY <1>1, <2>1, BusyStays
<1>7. CASE RunReturns(t, FALSE) /\ UNCHANGED <<container, volume, mishaps>>
  <2>1. TypeOK' /\ QuietData
    BY <1>1, <1>7, QuietType DEF RunContainer, TypeOK, podman
  <2> QED
    BY <1>2, <1>7, <2>1, QuietFailure
<1>8. ASSUME volume' = volume \cup {s}, alias[s] # None, ~PortInUse(s, task[t].port),
             container' = [container EXCEPT ![s] = [image |-> alias[s], port |-> task[t].port]],
             Goto(t, "vsock"), mishaps' = mishaps
      PROVE  IInv'
  <2>1. PICK d : d = [image |-> alias[s], port |-> task[t].port]
    OBVIOUS
  <2>2. alias[s] \in Images
    BY <1>1, <1>8 DEF TypeOK
  <2>3. d \in Containers /\ d.image = alias[s] /\ d.port = task[t].port
    BY <1>2, <2>1, <2>2 DEF Containers
  <2>4. d # None
    BY <2>3, AppLauncherAssumption
  <2>5. container' = [container EXCEPT ![s] = d]
    BY <1>8, <2>1
  <2>6. TypeOK'
    <3>1. container \in [Slugs -> Containers \cup {None}] /\ volume \subseteq Slugs
      BY <1>1 DEF TypeOK
    <3>2. container' \in [Slugs -> Containers \cup {None}]
      BY <2>3, <2>5, <3>1
    <3>3. volume' \subseteq Slugs
      BY <1>8, <3>1
    <3> QED
      BY <1>1, <1>8, <3>2, <3>3 DEF RunContainer, TypeOK, net
  <2>7. \A r \in Slugs \ {s} : SameSlug(r)
    BY <1>1, <1>4, <2>5, OthersSame
  <2>8. "vsock" \in Labels /\ Shape(t, "vsock", task[t]) /\ Moves(t, "vsock", task[t])
    BY <1>1, <1>8, GotoMoves DEF Labels, Shape, Installing, Ported, Served, Stopping, Resetting
  <2>9. /\ Local(t, s) /\ TasksInShape' /\ Alone' /\ HandlesApart' /\ HandlesKnown'
        /\ pc'[t] = "vsock" /\ task'[t] = task[t]
    BY <1>1, <1>2, <1>3, <1>4, <1>8, <2>7, <2>8, DataMove
  <2>10. container'[s] = d
    BY <1>1, <2>5 DEF TypeOK
  <2>11. TaskFits(t)'
    <3>1. FitsStore(t)'
      BY <1>1, <1>4, <1>8, <2>9 DEF TaskFits, FitsStore, Ported, Installed, Without
    <3>2. FitsForward(t)' /\ FitsHandle(t)' /\ FitsImage(t)'
      BY <1>2, <2>9 DEF FitsForward, FitsHandle, FitsImage
    <3>3. FitsContainer(t)'
      <4>1. Without({"overlap", "vm"})' => Without({"overlap", "vm"})
        BY <1>8 DEF Without
      <4>2. Without({"overlap", "vm"}) => (task[t].op = "link" => alias[s] = <<s, task[t].version>>)
        BY <1>1, <1>3 DEF TaskFits, FitsContainer
      <4> QED
        BY <1>3, <2>3, <2>4, <2>9, <2>10, <4>1, <4>2 DEF FitsContainer
    <3> QED
      BY <3>1, <3>2, <3>3 DEF TaskFits
  <2>12. SlugFits(s)'
    <3>1. SlugRunning(s)'
      <4>1. Without({"overlap"})' => Without({"overlap"})
        BY <1>8 DEF Without
      <4>2. Without({"overlap", "vm", "podman"})' => Without({"overlap"})
        BY <1>8 DEF Without
      <4> QED
        BY <1>4, <1>5, <1>6, <2>3, <2>4, <2>9, <2>10, <4>1, <4>2 DEF IInv, SlugFits, SlugRunning, Installed
    <3>2. SlugImage(s)'
      <4>1. Without({"overlap", "restart", "cutoff"})' => Without({"overlap", "restart", "cutoff"})
        BY <1>8 DEF Without
      <4> QED
        BY <1>4, <1>6, <1>8, <2>3, <2>9, <2>10, <4>1 DEF IInv, SlugFits, SlugImage, Installed
    <3> QED
      BY <1>6, <2>9, <3>1, <3>2 DEF SlugFits
  <2>13. UniquePorts'
    BY <1>4, <1>8, PortsLeft DEF IInv
  <2>14. ContainersApart'
    <3>1. \A r \in Slugs \ {s} : container'[r] = container[r]
      BY <2>7 DEF SameSlug
    <3>2. \A r \in Slugs \ {s} : container[r] # None => container[r].port # d.port
      BY <1>8, <2>3 DEF PortInUse
    <3> QED
      BY <2>10, <3>1, <3>2 DEF IInv, ContainersApart
  <2> QED
    BY <2>6, <2>9, <2>11, <2>12, <2>13, <2>14, LocalStep
<1>9. ASSUME volume' = volume \cup {s},
             IF alias[s] = None \/ PortInUse(s, task[t].port) THEN UNCHANGED mishaps ELSE Mishap("podman"),
             container' = [container EXCEPT ![s] = None],
             RunReturns(t, FALSE)
      PROVE  IInv'
  <2>1. /\ mishaps \subseteq mishaps' /\ mishaps' \subseteq MishapNames
        /\ alias[s] = None \/ PortInUse(s, task[t].port) \/ "podman" \in mishaps'
    <3>1. CASE alias[s] = None \/ PortInUse(s, task[t].port)
      BY <1>1, <1>9, <3>1 DEF TypeOK
    <3>2. CASE ~(alias[s] = None \/ PortInUse(s, task[t].port))
      BY <1>1, <1>9, <3>2, MishapGives
    <3> QED
      BY <3>1, <3>2
  <2>2. TypeOK'
    BY <1>1, <1>9, <2>1 DEF RunContainer, TypeOK, net
  <2>3. \A r \in Slugs \ {s} : SameSlug(r)
    BY <1>1, <1>4, <1>9, OthersSame
  <2>4. PICK l \in Labels, c \in TaskStates :
           /\ Moves(t, l, c) /\ Shape(t, l, c) /\ c.handle = None /\ c.op # "reset"
           /\ c.slug = s \/ c.slug = None
           /\ l \in {"idle", "next"}
    BY <1>1, <1>2, <1>3, <1>9, RunEnds
  <2>5. /\ Local(t, s) /\ TasksInShape' /\ Alone' /\ HandlesApart' /\ HandlesKnown'
        /\ pc'[t] = l /\ task'[t] = c
    BY <1>2, <1>3, <1>4, <2>1, <2>3, <2>4, DataMove
  <2>6. container'[s] = None
    BY <1>1, <1>9 DEF TypeOK
  <2>7. TaskFits(t)'
    BY <2>4, <2>5, FreeTask DEF FreeLabels
  <2>8. SlugFits(s)'
    <3>1. SlugRunning(s)'
      <4>1. Without({"overlap"})' => Without({"overlap"})
        BY <2>1, WithoutBefore
      <4>2. ASSUME Without({"overlap", "vm", "podman"})', Installed(s), store[s].running PROVE FALSE
        <5>1. Without({"overlap", "vm", "podman"}) /\ Without({"overlap"})
          BY <2>1, <4>2 DEF Without
        <5>2. ~BeingReset /\ ~Busy(s, {"stop_forward", "set_stopped"})
          BY <1>1, <1>2, <1>3, <5>1, OnlyTask
        <5>3. container[s] # None /\ container[s].port = store[s].port
          BY <4>2, <5>1, <5>2 DEF IInv, SlugFits, SlugRunning
        <5>4. alias[s] # None
          BY <5>3 DEF IInv, SlugFits, SlugImage
        <5>5. ~PortInUse(s, task[t].port)
          BY <1>5, <5>1, <5>3 DEF IInv, ContainersApart, PortInUse
        <5>6. "podman" \notin mishaps'
          BY <4>2 DEF Without
        <5> QED
          BY <2>1, <5>4, <5>5, <5>6
      <4> QED
        BY <1>4, <1>6, <2>5, <4>1, <4>2 DEF IInv, SlugFits, SlugRunning, Installed
    <3>2. SlugImage(s)'
      <4>1. Without({"overlap", "restart", "cutoff"})' => Without({"overlap", "restart", "cutoff"})
        BY <2>1, WithoutBefore
      <4> QED
        BY <1>4, <1>6, <2>5, <2>6, <4>1 DEF IInv, SlugFits, SlugImage, Installed
    <3> QED
      BY <1>6, <2>5, <3>1, <3>2 DEF SlugFits
  <2>9. UniquePorts'
    BY <1>4, <2>1, PortsLeft DEF IInv
  <2>10. ContainersApart'
    BY <2>3, <2>6, ContainersLeft DEF IInv, SameSlug
  <2> QED
    BY <2>2, <2>5, <2>7, <2>8, <2>9, <2>10, LocalStep
<1> QED
  BY <1>3, <1>7, <1>8, <1>9 DEF RunContainer

-----------------------------------------------------------------------------
(* The steps that change a listener *)

\* remove_forward: the slug has none, and its listener takes no connection any
\* more.  No other slug or command loses its own.
LEMMA RemoveGives ==
  ASSUME IInv, NEW s \in Slugs, RemoveForward(s), mishaps \subseteq mishaps',
         \A u \in Actors : task'[u].handle = task[u].handle
  PROVE  /\ forwards' = [forwards EXCEPT ![s] = None]
         /\ forwards' \in [Slugs -> Handles \cup {None}] /\ forwards'[s] = None
         /\ listener' \in [Handles -> [state : {"free", "spawned", "bound", "closing"},
                                       port : Ports \cup {None}]]
         /\ \A r \in Slugs \ {s} : forwards[r] # None => SameListener(forwards[r])
         /\ \A u \in Actors : task[u].handle # None => SameListener(task[u].handle)
         /\ HandlesApart' /\ HandlesKnown'
<1>1. TypeOK /\ HandlesApart /\ HandlesKnown /\ TasksInShape
  BY DEF IInv
<1>2. /\ forwards \in [Slugs -> Handles \cup {None}]
      /\ listener \in [Handles -> [state : {"free", "spawned", "bound", "closing"},
                                   port : Ports \cup {None}]]
  BY <1>1 DEF TypeOK
<1>3. NoListener \in [state : {"free", "spawned", "bound", "closing"}, port : Ports \cup {None}]
      /\ NoListener.state = "free"
  BY DEF NoListener
<1>4. /\ forwards' = [forwards EXCEPT ![s] = None]
      /\ forwards' \in [Slugs -> Handles \cup {None}] /\ forwards'[s] = None
      /\ \A r \in Slugs \ {s} : forwards'[r] = forwards[r]
  BY <1>2 DEF RemoveForward
<1>5. None \notin Handles
  BY AppLauncherAssumption
<1>6. /\ listener' \in [Handles -> [state : {"free", "spawned", "bound", "closing"},
                                    port : Ports \cup {None}]]
      /\ \A h \in Handles : h # forwards[s] => listener'[h] = listener[h]
      /\ forwards[s] # None => listener'[forwards[s]].state \in {"free", "closing"}
  <2>1. PICK h \in Handles \cup {None} : h = forwards[s]
    BY <1>2
  <2>2. Abort(h)
    BY <2>1 DEF RemoveForward
  <2>3. CASE h = None \/ listener[h].state = "free"
    BY <1>2, <1>5, <2>1, <2>2, <2>3 DEF Abort
  <2>4. CASE h \in Handles /\ listener[h].state = "bound"
    <3>1. listener' = [listener EXCEPT ![h].state = "closing"]
      BY <1>5, <2>2, <2>4 DEF Abort
    <3>2. PICK c : c = [listener[h] EXCEPT !.state = "closing"]
      OBVIOUS
    <3>3. /\ c \in [state : {"free", "spawned", "bound", "closing"}, port : Ports \cup {None}]
          /\ c.state = "closing"
      BY <1>2, <2>4, <3>2
    <3>4. listener' = [listener EXCEPT ![h] = c]
      BY <3>1, <3>2
    <3> QED
      BY <1>2, <2>1, <2>4, <3>3, <3>4
  <2>5. CASE h \in Handles /\ listener[h].state \notin {"bound", "free"}
    <3>1. listener' = [listener EXCEPT ![h] = NoListener]
      BY <1>5, <2>2, <2>5 DEF Abort
    <3> QED
      BY <1>2, <1>3, <2>1, <2>5, <3>1
  <2> QED
    BY <2>3, <2>4, <2>5
<1>7. \A r \in Slugs \ {s} : forwards[r] # None => SameListener(forwards[r])
  BY <1>1, <1>2, <1>6 DEF HandlesApart, SameListener
<1>8. \A u \in Actors : task[u].handle # None => SameListener(task[u].handle)
  <2>1. \A u \in Actors : task[u].handle \in Handles \cup {None}
    BY <1>1 DEF TasksInShape, TaskStates
  <2> QED
    BY <1>1, <1>2, <1>6, <2>1 DEF HandlesApart, SameListener
<1>9. HandlesApart'
  BY <1>1, <1>4, HandlesLeft
<1>10. HandlesKnown'
  <2>1. Without({"overlap"})' => Without({"overlap"})
    BY WithoutBefore
  <2>2. \A h \in Handles : Open(h)' => h # forwards[s] /\ Open(h)
    BY <1>5, <1>6 DEF Open
  <2>3. \A h \in Handles, r \in Slugs : forwards[r] = h /\ h # forwards[s] => forwards'[r] = h
    BY <1>4
  <2> QED
    BY <1>1, <2>1, <2>2, <2>3 DEF HandlesKnown
<1> QED
  BY <1>4, <1>6, <1>7, <1>8, <1>9, <1>10

\* The old forwarder goes, by the command that will start the next.
LEMMA UnforwardStep ==
  ASSUME IInv, NEW t \in Actors, Unforward(t)
  PROVE  IInv'
<1>1. /\ TypeOK /\ TasksInShape /\ pc[t] = "unforward" /\ Shape(t, "unforward", task[t]) /\ TaskFits(t)
      /\ task[t] \in TaskStates
  BY AtShape DEF Unforward
<1>2. task[t].op # "reset" /\ task[t].handle = None /\ task[t].slug \in Slugs
  BY <1>1 DEF Shape, Ported, Served
<1>3. PICK s \in Slugs : task[t].slug = s
  BY <1>2
<1>4. /\ RemoveForward(s) /\ Goto(t, "forward")
      /\ UNCHANGED <<store, image, alias, container>>
      /\ mishaps' = mishaps /\ mishaps \subseteq mishaps'
  BY <1>3 DEF Unforward, podman
<1>5. "forward" \in Labels /\ Shape(t, "forward", task[t]) /\ Moves(t, "forward", task[t])
  BY <1>1, <1>4, GotoMoves DEF Labels, Shape, Installing, Ported, Served, Stopping, Resetting
<1>6. /\ TasksInShape' /\ pc'[t] = "forward" /\ task'[t] = task[t]
      /\ \A u \in Actors \ {t} : pc'[u] = pc[u] /\ task'[u] = task[u]
  BY <1>1, <1>5, MovesInShape
<1>7. \A u \in Actors : task'[u].handle = task[u].handle
  BY <1>6
<1>8. /\ forwards' = [forwards EXCEPT ![s] = None]
      /\ forwards' \in [Slugs -> Handles \cup {None}] /\ forwards'[s] = None
      /\ listener' \in [Handles -> [state : {"free", "spawned", "bound", "closing"},
                                    port : Ports \cup {None}]]
      /\ \A r \in Slugs \ {s} : forwards[r] # None => SameListener(forwards[r])
      /\ \A u \in Actors : task[u].handle # None => SameListener(task[u].handle)
      /\ HandlesApart' /\ HandlesKnown'
  BY <1>4, <1>7, RemoveGives
<1>9. TypeOK'
  BY <1>1, <1>8 DEF Unforward, TypeOK, podman
<1>10. \A r \in Slugs \ {s} : SameSlug(r)
  BY <1>1, <1>4, <1>8, OthersSame
<1>11. Local(t, s)
  BY <1>3, <1>4, <1>6, <1>8, <1>10 DEF Local
<1>12. Alone'
  BY <1>2, <1>6, <1>11, AloneLeft DEF IInv
<1>13. TaskFits(t)'
  <2>1. FitsStore(t)' /\ FitsImage(t)'
    BY <1>1, <1>4, <1>6 DEF TaskFits, FitsStore, FitsImage, Ported, Served, Installed, Without
  <2>2. FitsForward(t)' /\ FitsHandle(t)'
    BY <1>2, <1>3, <1>6, <1>8 DEF FitsForward, FitsHandle
  <2>3. FitsContainer(t)'
    BY <1>1, <1>4, <1>6 DEF TaskFits, FitsContainer, Served, Without
  <2> QED
    BY <2>1, <2>2, <2>3 DEF TaskFits
<1>14. SlugFits(s)'
  <2>1. SlugForward(s)'
    BY <1>8 DEF SlugForward
  <2>2. SlugRunning(s)'
    <3>1. /\ Busy(s, {"stop_forward", "set_stopped"}) => Busy(s, {"stop_forward", "set_stopped"})'
          /\ BeingReset => BeingReset'
      BY <1>1, <1>11, BusyStays
    <3>2. Busy(s, {"forward", "insert", "set_stopped"})'
      BY <1>3, <1>6 DEF Busy
    <3> QED
      BY <1>4, <3>1, <3>2 DEF IInv, SlugFits, SlugRunning, Installed, Without
  <2>3. SlugImage(s)'
    <3>1. Busy(s, {"unpacking"}) => Busy(s, {"unpacking"})'
      BY <1>1, <1>11, BusyStays
    <3> QED
      BY <1>4, <3>1 DEF IInv, SlugFits, SlugImage, Installed, Without
  <2> QED
    BY <2>1, <2>2, <2>3 DEF SlugFits
<1>15. UniquePorts' /\ ContainersApart'
  BY <1>4, PortsLeft, ContainersLeft DEF IInv
<1> QED
  BY <1>6, <1>8, <1>9, <1>11, <1>12, <1>13, <1>14, <1>15, LocalStep

\* The forwarder goes, by the command that will show the app stopped.
LEMMA StopForwardStep ==
  ASSUME IInv, NEW t \in Actors, StopForward(t)
  PROVE  IInv'
<1>1. /\ TypeOK /\ TasksInShape /\ pc[t] = "stop_forward" /\ Shape(t, "stop_forward", task[t])
      /\ task[t] \in TaskStates
  BY AtShape DEF StopForward
<1>2. task[t].op = "stop" /\ task[t].handle = None /\ task[t].slug \in Slugs
  BY <1>1 DEF Shape, Stopping
<1>3. PICK s \in Slugs : task[t].slug = s
  BY <1>2
<1>4. /\ RemoveForward(s) /\ Goto(t, "set_stopped")
      /\ UNCHANGED <<store, image, alias, container>>
      /\ mishaps' = mishaps /\ mishaps \subseteq mishaps'
  BY <1>3 DEF StopForward, podman
<1>5. "set_stopped" \in Labels /\ Shape(t, "set_stopped", task[t]) /\ Moves(t, "set_stopped", task[t])
  BY <1>1, <1>4, GotoMoves DEF Labels, Shape, Installing, Ported, Served, Stopping, Resetting
<1>6. /\ TasksInShape' /\ pc'[t] = "set_stopped" /\ task'[t] = task[t]
      /\ \A u \in Actors \ {t} : pc'[u] = pc[u] /\ task'[u] = task[u]
  BY <1>1, <1>5, MovesInShape
<1>7. \A u \in Actors : task'[u].handle = task[u].handle
  BY <1>6
<1>8. /\ forwards' = [forwards EXCEPT ![s] = None]
      /\ forwards' \in [Slugs -> Handles \cup {None}] /\ forwards'[s] = None
      /\ listener' \in [Handles -> [state : {"free", "spawned", "bound", "closing"},
                                    port : Ports \cup {None}]]
      /\ \A r \in Slugs \ {s} : forwards[r] # None => SameListener(forwards[r])
      /\ \A u \in Actors : task[u].handle # None => SameListener(task[u].handle)
      /\ HandlesApart' /\ HandlesKnown'
  BY <1>4, <1>7, RemoveGives
<1>9. TypeOK'
  BY <1>1, <1>8 DEF StopForward, TypeOK, podman
<1>10. \A r \in Slugs \ {s} : SameSlug(r)
  BY <1>1, <1>4, <1>8, OthersSame
<1>11. Local(t, s)
  BY <1>3, <1>4, <1>6, <1>8, <1>10 DEF Local
<1>12. Alone'
  BY <1>2, <1>6, <1>11, AloneLeft DEF IInv
<1>13. TaskFits(t)'
  BY <1>2, <1>6, FreeTask DEF FreeLabels
<1>14. SlugFits(s)'
  <2>1. SlugForward(s)'
    BY <1>8 DEF SlugForward
  <2>2. SlugRunning(s)'
    <3>1. Busy(s, {"forward", "insert", "set_stopped"})' /\ Busy(s, {"stop_forward", "set_stopped"})'
      BY <1>3, <1>6 DEF Busy
    <3> QED
      BY <3>1 DEF SlugRunning
  <2>3. SlugImage(s)'
    <3>1. Busy(s, {"unpacking"}) => Busy(s, {"unpacking"})'
      BY <1>1, <1>11, BusyStays
    <3> QED
      BY <1>4, <3>1 DEF IInv, SlugFits, SlugImage, Installed, Without
  <2> QED
    BY <2>1, <2>2, <2>3 DEF SlugFits
<1>15. UniquePorts' /\ ContainersApart'
  BY <1>4, PortsLeft, ContainersLeft DEF IInv
<1> QED
  BY <1>6, <1>8, <1>9, <1>11, <1>12, <1>13, <1>14, <1>15, LocalStep

\* The new listener is of nobody else.
LEMMA StartForwardingStep ==
  ASSUME IInv, NEW t \in Actors, StartForwarding(t)
  PROVE  IInv'
<1>1. /\ TypeOK /\ TasksInShape /\ pc[t] = "forward" /\ Shape(t, "forward", task[t]) /\ TaskFits(t)
      /\ task[t] \in TaskStates
  BY AtShape DEF StartForwarding
<1>2. task[t].op \in {"run", "link", "auto"} /\ task[t].slug \in Slugs /\ task[t].port \in Ports
  BY <1>1 DEF Shape, Ported, Served
<1>3. PICK s \in Slugs : task[t].slug = s
  BY <1>2
<1>4. PICK h \in Handles :
        /\ listener[h].state = "free"
        /\ \A r \in Slugs : forwards[r] # h
        /\ \A u \in Actors : task[u].handle # h
        /\ listener' = [listener EXCEPT ![h] = [state |-> "spawned", port |-> task[t].port]]
        /\ Note(t, "insert", "handle", h)
  BY DEF StartForwarding
<1>5. /\ UNCHANGED <<store, image, alias, container, forwards>>
      /\ mishaps' = mishaps /\ mishaps \subseteq mishaps'
  BY DEF StartForwarding, podman
<1>6. PICK c : c = [task[t] EXCEPT !.handle = h]
  OBVIOUS
<1>7. /\ c \in TaskStates /\ c.handle = h /\ c.op = task[t].op /\ c.slug = s
      /\ c.version = task[t].version /\ c.port = task[t].port
  BY <1>1, <1>3, <1>6 DEF TaskStates
<1>8. Moves(t, "insert", c)
  BY <1>1, <1>4, <1>6, NoteMoves
<1>9. h # None
  BY AppLauncherAssumption
<1>10. "insert" \in Labels /\ Shape(t, "insert", c)
  BY <1>1, <1>2, <1>7, <1>9 DEF Labels, Shape, Installing, Ported, Served, Stopping, Resetting
<1>11. /\ TasksInShape' /\ pc'[t] = "insert" /\ task'[t] = c
       /\ \A u \in Actors \ {t} : pc'[u] = pc[u] /\ task'[u] = task[u]
  BY <1>1, <1>7, <1>8, <1>10, MovesInShape
<1>12. /\ listener' \in [Handles -> [state : {"free", "spawned", "bound", "closing"},
                                     port : Ports \cup {None}]]
       /\ listener'[h].state = "spawned" /\ listener'[h].port = task[t].port
       /\ \A g \in Handles \ {h} : listener'[g] = listener[g]
  <2>1. listener \in [Handles -> [state : {"free", "spawned", "bound", "closing"},
                                  port : Ports \cup {None}]]
    BY <1>1 DEF TypeOK
  <2>2. PICK d : d = [state |-> "spawned", port |-> task[t].port]
    OBVIOUS
  <2>3. /\ d \in [state : {"free", "spawned", "bound", "closing"}, port : Ports \cup {None}]
        /\ d.state = "spawned" /\ d.port = task[t].port
    BY <1>2, <2>2
  <2>4. listener' = [listener EXCEPT ![h] = d]
    BY <1>4, <2>2
  <2> QED
    BY <2>1, <2>3, <2>4
<1>13. TypeOK'
  BY <1>1, <1>5, <1>12 DEF StartForwarding, TypeOK, podman
<1>14. \A r \in Slugs : SameSlug(r) /\ (forwards[r] # None => SameListener(forwards[r]))
  <2>1. \A r \in Slugs : forwards[r] \in Handles \cup {None}
    BY <1>1 DEF TypeOK
  <2> QED
    BY <1>4, <1>5, <1>12, <2>1 DEF SameSlug, SameListener
<1>15. \A u \in Actors \ {t} : task[u].handle # None => SameListener(task[u].handle)
  <2>1. \A u \in Actors : task[u].handle \in Handles \cup {None}
    BY <1>1 DEF TasksInShape, TaskStates
  <2> QED
    BY <1>4, <1>12, <2>1 DEF SameListener
<1>16. Local(t, s)
  BY <1>2, <1>3, <1>5, <1>11, <1>14, <1>15 DEF Local
<1>17. Alone'
  BY <1>2, <1>3, <1>7, <1>11, <1>16, AloneLeft DEF IInv
<1>18. TaskFits(t)'
  <2>1. FitsStore(t)' /\ FitsImage(t)'
    BY <1>1, <1>3, <1>5, <1>7, <1>11 DEF TaskFits, FitsStore, FitsImage, Ported, Served, Installed, Without
  <2>2. FitsForward(t)'
    BY <1>1, <1>2, <1>3, <1>5, <1>7, <1>11 DEF TaskFits, FitsForward, Without
  <2>3. FitsHandle(t)'
    BY <1>7, <1>11, <1>12 DEF FitsHandle, Open
  <2>4. FitsContainer(t)'
    BY <1>1, <1>3, <1>5, <1>7, <1>11 DEF TaskFits, FitsContainer, Served, Without
  <2> QED
    BY <2>1, <2>2, <2>3, <2>4 DEF TaskFits
<1>19. SlugFits(s)'
  <2>1. SlugForward(s)'
    BY <1>5, <1>14 DEF IInv, SlugFits, SlugForward, SameListener, Open, Installed, Without
  <2>2. SlugRunning(s)'
    <3>1. /\ Busy(s, {"stop_forward", "set_stopped"}) => Busy(s, {"stop_forward", "set_stopped"})'
          /\ BeingReset => BeingReset'
      BY <1>1, <1>16, BusyStays
    <3>2. Busy(s, {"forward", "insert", "set_stopped"})'
      BY <1>7, <1>11 DEF Busy
    <3> QED
      BY <1>5, <3>1, <3>2 DEF IInv, SlugFits, SlugRunning, Installed, Without
  <2>3. SlugImage(s)'
    <3>1. Busy(s, {"unpacking"}) => Busy(s, {"unpacking"})'
      BY <1>1, <1>16, BusyStays
    <3> QED
      BY <1>5, <3>1 DEF IInv, SlugFits, SlugImage, Installed, Without
  <2> QED
    BY <2>1, <2>2, <2>3 DEF SlugFits
<1>20. UniquePorts' /\ ContainersApart'
  BY <1>5, PortsLeft, ContainersLeft DEF IInv
<1>21. HandlesApart'
  BY <1>4, <1>5, <1>7, <1>11 DEF IInv, HandlesApart
<1>22. HandlesKnown'
  <2>1. \A g \in Handles \ {h} : Open(g)' => Open(g)
    BY <1>12 DEF Open
  <2>2. task[t].handle = None
    BY <1>1 DEF Shape
  <2>3. \A g \in Handles, u \in Actors : task[u].handle = g => task'[u].handle = g
    BY <1>11, <2>2, AppLauncherAssumption
  <2> QED
    BY <1>5, <1>7, <1>11, <2>1, <2>3 DEF IInv, HandlesKnown, Without
<1> QED
  BY <1>11, <1>13, <1>16, <1>17, <1>18, <1>19, <1>20, <1>21, <1>22, LocalStep

\* The listener passes from the command to its slug, which has none.
LEMMA InsertForwardStep ==
  ASSUME IInv, NEW t \in Actors, InsertForward(t)
  PROVE  IInv'
<1>1. /\ TypeOK /\ TasksInShape /\ pc[t] = "insert" /\ Shape(t, "insert", task[t]) /\ TaskFits(t)
      /\ task[t] \in TaskStates
  BY AtShape DEF InsertForward
<1>2. /\ task[t].op \in {"run", "link", "auto"} /\ task[t].slug \in Slugs /\ task[t].port \in Ports
      /\ task[t].handle \in Handles /\ task[t].handle # None
  BY <1>1 DEF Shape, Ported, Served, TaskStates
<1>3. PICK s \in Slugs : task[t].slug = s
  BY <1>2
<1>4. PICK h \in Handles : task[t].handle = h
  BY <1>2
<1>5. /\ forwards' = [forwards EXCEPT ![s] = h]
      /\ UNCHANGED <<store, image, alias, container, listener>>
      /\ mishaps' = mishaps /\ mishaps \subseteq mishaps'
  BY <1>3, <1>4 DEF InsertForward, podman
<1>6. PICK c : c = [task[t] EXCEPT !.handle = None]
  OBVIOUS
<1>7. /\ c \in TaskStates /\ c.handle = None /\ c.op = task[t].op /\ c.slug = s
      /\ c.version = task[t].version /\ c.port = task[t].port
  BY <1>1, <1>3, <1>6 DEF TaskStates
<1>8. Moves(t, "set_running", c)
  BY <1>1, <1>6, NoteMoves DEF InsertForward
<1>9. "set_running" \in Labels /\ Shape(t, "set_running", c)
  BY <1>1, <1>2, <1>7 DEF Labels, Shape, Installing, Ported, Served, Stopping, Resetting
<1>10. /\ TasksInShape' /\ pc'[t] = "set_running" /\ task'[t] = c
       /\ \A u \in Actors \ {t} : pc'[u] = pc[u] /\ task'[u] = task[u]
  BY <1>1, <1>7, <1>8, <1>9, MovesInShape
<1>11. /\ forwards' \in [Slugs -> Handles \cup {None}] /\ forwards'[s] = h
       /\ \A r \in Slugs \ {s} : forwards'[r] = forwards[r]
  BY <1>1, <1>5 DEF TypeOK
<1>12. TypeOK'
  BY <1>1, <1>5, <1>11 DEF InsertForward, TypeOK, podman
<1>13. \A r \in Slugs \ {s} : SameSlug(r)
  BY <1>1, <1>5, OthersSame
<1>14. Local(t, s)
  BY <1>2, <1>3, <1>5, <1>10, <1>13 DEF Local, SameListener
<1>15. Alone'
  BY <1>2, <1>3, <1>7, <1>10, <1>14, AloneLeft DEF IInv
<1>16. h # None
  BY AppLauncherAssumption
<1>17. TaskFits(t)'
  <2>1. FitsStore(t)' /\ FitsImage(t)'
    BY <1>1, <1>3, <1>5, <1>7, <1>10 DEF TaskFits, FitsStore, FitsImage, Ported, Served, Installed, Without
  <2>2. FitsForward(t)' /\ FitsHandle(t)'
    BY <1>2, <1>7, <1>10, <1>11, <1>16 DEF FitsForward, FitsHandle
  <2>3. FitsContainer(t)'
    BY <1>1, <1>3, <1>5, <1>7, <1>10 DEF TaskFits, FitsContainer, Served, Without
  <2> QED
    BY <2>1, <2>2, <2>3 DEF TaskFits
<1>18. SlugFits(s)'
  <2>1. SlugForward(s)'
    <3>1. Without({"overlap"}) => Installed(s) /\ store[s].port = task[t].port
      BY <1>1, <1>3 DEF TaskFits, FitsStore, Ported, Served
    <3>2. task[t].port # None
      BY <1>2, AppLauncherAssumption
    <3>3. /\ Without({"overlap"}) => listener[h].state # "closing" /\ (Open(h) => listener[h].port = task[t].port)
          /\ Without({"overlap", "abort"}) => Open(h)
      BY <1>1, <1>4, <1>16 DEF TaskFits, FitsHandle
    <3> QED
      BY <1>5, <1>11, <3>1, <3>2, <3>3 DEF SlugForward, Open, Installed, Without
  <2>2. SlugRunning(s)'
    <3>1. /\ Busy(s, {"stop_forward", "set_stopped"}) => Busy(s, {"stop_forward", "set_stopped"})'
          /\ BeingReset => BeingReset'
      BY <1>1, <1>14, BusyStays
    <3> QED
      BY <1>5, <1>11, <1>16, <3>1 DEF IInv, SlugFits, SlugRunning, Installed, Without
  <2>3. SlugImage(s)'
    <3>1. Busy(s, {"unpacking"}) => Busy(s, {"unpacking"})'
      BY <1>1, <1>14, BusyStays
    <3> QED
      BY <1>5, <3>1 DEF IInv, SlugFits, SlugImage, Installed, Without
  <2> QED
    BY <2>1, <2>2, <2>3 DEF SlugFits
<1>19. UniquePorts' /\ ContainersApart'
  BY <1>5, PortsLeft, ContainersLeft DEF IInv
<1>20. HandlesApart'
  <2>1. \A r \in Slugs : forwards[r] # h
    BY <1>4, <1>16 DEF IInv, HandlesApart
  <2>2. \A u \in Actors \ {t} : task'[u].handle = task[u].handle /\ task[u].handle # h
    BY <1>4, <1>10, <1>16 DEF IInv, HandlesApart
  <2>3. task'[t].handle = None
    BY <1>7, <1>10
  <2> QED
    BY <1>11, <1>16, <2>1, <2>2, <2>3 DEF IInv, HandlesApart
<1>21. HandlesKnown'
  <2> SUFFICES ASSUME Without({"overlap"})', NEW g \in Handles, Open(g)'
               PROVE  (\E r \in Slugs : forwards'[r] = g) \/ (\E u \in Actors : task'[u].handle = g)
    BY DEF HandlesKnown
  <2>1. Without({"overlap"}) /\ Open(g)
    BY <1>5 DEF Without, Open
  <2>2. (\E r \in Slugs : forwards[r] = g) \/ (\E u \in Actors : task[u].handle = g)
    BY <2>1 DEF IInv, HandlesKnown
  <2>3. g # None /\ forwards[s] = None
    BY <1>1, <1>3, <2>1, AppLauncherAssumption DEF TaskFits, FitsForward
  <2> QED
    BY <1>4, <1>10, <1>11, <2>2, <2>3
<1> QED
  BY <1>10, <1>12, <1>14, <1>15, <1>17, <1>18, <1>19, <1>20, <1>21, LocalStep

-----------------------------------------------------------------------------
(* reset_demo *)

\* A reset takes its next slug.
LEMMA ResetContainerStep ==
  ASSUME IInv, NEW t \in Actors, ResetContainer(t)
  PROVE  IInv'
<1>1. /\ TypeOK /\ TasksInShape /\ pc[t] = "reset" /\ Shape(t, "reset", task[t]) /\ TaskFits(t)
      /\ task[t] \in TaskStates
  BY AtShape DEF ResetContainer
<1>2. /\ task[t].op = "reset" /\ task[t].handle = None /\ task[t].slug = None
      /\ task[t].queue \subseteq Slugs /\ t # "auto"
  BY <1>1 DEF Shape, Resetting, TaskStates
<1>3. PICK s \in task[t].queue :
        /\ pc' = [pc EXCEPT ![t] = "reset_forward"]
        /\ task' = [task EXCEPT ![t].slug = s, ![t].queue = @ \ {s}]
        /\ \/ /\ vmUp
              /\ container' = [container EXCEPT ![s] = None]
              /\ volume' = volume \ {s}
           \/ UNCHANGED <<container, volume>>
  BY DEF ResetContainer
<1>4. s \in Slugs /\ s # None
  BY <1>2, <1>3, AppLauncherAssumption
<1>5. /\ UNCHANGED <<store, image, alias, forwards, listener>>
      /\ mishaps' = mishaps /\ mishaps \subseteq mishaps'
  BY DEF ResetContainer, net
<1>6. PICK c : c = [task[t] EXCEPT !.slug = s, !.queue = task[t].queue \ {s}]
  OBVIOUS
<1>7. /\ c \in TaskStates /\ c.op = "reset" /\ c.slug = s /\ c.handle = None
      /\ c.queue = task[t].queue \ {s}
  BY <1>1, <1>2, <1>4, <1>6 DEF TaskStates
<1>8. Moves(t, "reset_forward", c)
  <2>1. task' = [task EXCEPT ![t] = c]
    BY <1>1, <1>3, <1>6 DEF TasksInShape
  <2> QED
    BY <1>3, <2>1 DEF Moves
<1>9. "reset_forward" \in Labels /\ Shape(t, "reset_forward", c)
  BY <1>2, <1>4, <1>7 DEF Labels, Shape, Installing, Ported, Served, Stopping, Resetting
<1>10. /\ TasksInShape' /\ pc'[t] = "reset_forward" /\ task'[t] = c
       /\ \A u \in Actors \ {t} : pc'[u] = pc[u] /\ task'[u] = task[u]
  BY <1>1, <1>7, <1>8, <1>9, MovesInShape
<1>11. TypeOK'
  <2>1. container' \in [Slugs -> Containers \cup {None}] /\ volume' \subseteq Slugs
    BY <1>1, <1>3 DEF TypeOK
  <2> QED
    BY <1>1, <2>1 DEF ResetContainer, TypeOK, net
<1>12. \A r \in Slugs \ {s} : SameSlug(r)
  BY <1>1, <1>3, <1>4, <1>5, OthersSame
<1>13. Local(t, s)
  BY <1>2, <1>5, <1>7, <1>10, <1>12 DEF Local, SameListener
<1>14. Without({"overlap"})' => Without({"overlap"})
  BY <1>5, WithoutBefore
<1>15. Alone'
  <2> SUFFICES ASSUME Without({"overlap"})', NEW u \in Actors, NEW w \in Actors, u # w
               PROVE  Apart(task'[u], task'[w])
    BY DEF Alone, Apart
  <2>1. \A x \in Actors \ {t} : task[x].slug = None /\ task[x].op # "reset"
    BY <1>2, <1>14 DEF IInv, Alone, Apart
  <2> QED
    BY <1>4, <1>7, <1>10, <2>1 DEF Apart
<1>16. TaskFits(t)'
  <2>1. FitsStore(t)' /\ FitsHandle(t)' /\ FitsContainer(t)' /\ FitsImage(t)'
    BY <1>7, <1>10 DEF FitsStore, FitsHandle, FitsContainer, FitsImage, Ported, Served
  <2>2. FitsForward(t)'
    <3>1. Without({"overlap"}) => \A r \in Slugs : forwards[r] # None => r \in task[t].queue
      BY <1>1, <1>2, AppLauncherAssumption DEF TaskFits, FitsForward
    <3> QED
      BY <1>5, <1>7, <1>10, <1>14, <3>1 DEF FitsForward
  <2> QED
    BY <2>1, <2>2 DEF TaskFits
<1>17. container'[s] = None \/ container'[s] = container[s]
  BY <1>1, <1>3, <1>4 DEF TypeOK
<1>18. SlugFits(s)'
  <2>1. SlugForward(s)'
    BY <1>4, <1>5 DEF IInv, SlugFits, SlugForward, Open, Installed, Without
  <2>2. SlugRunning(s)'
    <3>1. BeingReset'
      BY <1>7, <1>10 DEF BeingReset
    <3> QED
      BY <3>1 DEF SlugRunning
  <2>3. SlugImage(s)'
    <3>1. Busy(s, {"unpacking"}) => Busy(s, {"unpacking"})'
      BY <1>1, <1>4, <1>13, BusyStays
    <3> QED
      BY <1>4, <1>5, <1>17, <3>1 DEF IInv, SlugFits, SlugImage, Installed, Without
  <2> QED
    BY <2>1, <2>2, <2>3 DEF SlugFits
<1>19. \A u \in Actors : task'[u].handle = task[u].handle
  BY <1>2, <1>7, <1>10
<1>20. UniquePorts' /\ HandlesApart' /\ HandlesKnown'
  <2>1. UniquePorts'
    BY <1>5, PortsLeft DEF IInv
  <2>2. HandlesApart'
    BY <1>5, <1>19, HandlesLeft DEF IInv
  <2>3. HandlesKnown'
    BY <1>5, <1>19, ListenersLeft DEF IInv
  <2> QED
    BY <2>1, <2>2, <2>3
<1>21. ContainersApart'
  BY <1>12, <1>17, ContainersLeft DEF IInv, SameSlug
<1> QED
  BY <1>4, <1>10, <1>11, <1>13, <1>15, <1>16, <1>18, <1>20, <1>21, LocalStep

\* A slug the reset has passed has no forwarder.
LEMMA ResetForwardStep ==
  ASSUME IInv, NEW t \in Actors, ResetForward(t)
  PROVE  IInv'
<1>1. /\ TypeOK /\ TasksInShape /\ pc[t] = "reset_forward" /\ Shape(t, "reset_forward", task[t]) /\ TaskFits(t)
      /\ task[t] \in TaskStates
  BY AtShape DEF ResetForward
<1>2. task[t].op = "reset" /\ task[t].handle = None /\ task[t].slug \in Slugs /\ t # "auto"
  BY <1>1 DEF Shape, Resetting
<1>3. PICK s \in Slugs : task[t].slug = s
  BY <1>2
<1>4. /\ RemoveForward(s)
      /\ UNCHANGED <<store, image, alias, container>>
      /\ mishaps' = mishaps /\ mishaps \subseteq mishaps'
  BY <1>3 DEF ResetForward, podman
<1>5. PICK c : c = [task[t] EXCEPT !.slug = None]
  OBVIOUS
<1>6. /\ c \in TaskStates /\ c.op = "reset" /\ c.slug = None /\ c.handle = None
      /\ c.queue = task[t].queue
  BY <1>1, <1>2, <1>5 DEF TaskStates
<1>7. Moves(t, "reset", c)
  BY <1>1, <1>5, NoteMoves DEF ResetForward
<1>8. "reset" \in Labels /\ Shape(t, "reset", c)
  BY <1>2, <1>6 DEF Labels, Shape, Installing, Ported, Served, Stopping, Resetting
<1>9. /\ TasksInShape' /\ pc'[t] = "reset" /\ task'[t] = c
      /\ \A u \in Actors \ {t} : pc'[u] = pc[u] /\ task'[u] = task[u]
  BY <1>1, <1>6, <1>7, <1>8, MovesInShape
<1>10. \A u \in Actors : task'[u].handle = task[u].handle
  BY <1>2, <1>6, <1>9
<1>11. /\ forwards' = [forwards EXCEPT ![s] = None]
       /\ forwards' \in [Slugs -> Handles \cup {None}] /\ forwards'[s] = None
       /\ listener' \in [Handles -> [state : {"free", "spawned", "bound", "closing"},
                                     port : Ports \cup {None}]]
       /\ \A r \in Slugs \ {s} : forwards[r] # None => SameListener(forwards[r])
       /\ \A u \in Actors : task[u].handle # None => SameListener(task[u].handle)
       /\ HandlesApart' /\ HandlesKnown'
  BY <1>4, <1>10, RemoveGives
<1>12. TypeOK'
  BY <1>1, <1>11 DEF ResetForward, TypeOK, podman
<1>13. \A r \in Slugs \ {s} : SameSlug(r)
  BY <1>1, <1>4, <1>11, OthersSame
<1>14. Local(t, s)
  BY <1>3, <1>4, <1>6, <1>9, <1>11, <1>13 DEF Local
<1>15. Alone'
  BY <1>2, <1>6, <1>9, <1>14, AloneLeft DEF IInv
<1>16. TaskFits(t)'
  <2>1. FitsStore(t)' /\ FitsHandle(t)' /\ FitsContainer(t)' /\ FitsImage(t)'
    BY <1>6, <1>9 DEF FitsStore, FitsHandle, FitsContainer, FitsImage, Ported, Served
  <2>2. FitsForward(t)'
    <3>1. Without({"overlap"}) => \A r \in Slugs : forwards[r] # None => r \in task[t].queue \/ r = s
      BY <1>1, <1>2, <1>3 DEF TaskFits, FitsForward
    <3>2. \A r \in Slugs : forwards'[r] # None => r # s /\ forwards[r] # None
      BY <1>11, <1>13 DEF SameSlug
    <3> QED
      BY <1>4, <1>6, <1>9, <3>1, <3>2 DEF FitsForward, Without
  <2> QED
    BY <2>1, <2>2 DEF TaskFits
<1>17. SlugFits(s)'
  <2>1. SlugForward(s)'
    BY <1>11 DEF SlugForward
  <2>2. SlugRunning(s)'
    <3>1. BeingReset'
      BY <1>6, <1>9 DEF BeingReset
    <3> QED
      BY <3>1 DEF SlugRunning
  <2>3. SlugImage(s)'
    <3>1. Busy(s, {"unpacking"}) => Busy(s, {"unpacking"})'
      BY <1>1, <1>14, BusyStays
    <3> QED
      BY <1>4, <3>1 DEF IInv, SlugFits, SlugImage, Installed, Without
  <2> QED
    BY <2>1, <2>2, <2>3 DEF SlugFits
<1>18. UniquePorts' /\ ContainersApart'
  BY <1>4, PortsLeft, ContainersLeft DEF IInv
<1> QED
  BY <1>9, <1>11, <1>12, <1>14, <1>15, <1>16, <1>17, <1>18, LocalStep

\* Every slug has passed: none has a forwarder, and no other command is under way.
LEMMA ResetStoreStep ==
  ASSUME IInv, NEW t \in Actors, ResetStore(t)
  PROVE  IInv' /\ PortStays
<1>1. /\ TypeOK /\ TasksInShape /\ pc[t] = "reset" /\ Shape(t, "reset", task[t]) /\ TaskFits(t)
      /\ task[t] \in TaskStates
  BY AtShape DEF ResetStore
<1>2. /\ task[t].op = "reset" /\ task[t].handle = None /\ task[t].slug = None /\ task[t].queue = {}
  BY <1>1 DEF Shape, Resetting, ResetStore
<1>3. /\ store' = [s \in Slugs |-> None]
      /\ UNCHANGED <<image, alias, container, forwards, listener>>
      /\ mishaps' = mishaps
  BY DEF ResetStore, podman, net
<1>4. /\ "idle" \in Labels /\ NoTask \in TaskStates /\ Shape(t, "idle", NoTask) /\ Moves(t, "idle", NoTask)
      /\ NoTask.op = "none" /\ NoTask.slug = None /\ NoTask.handle = None
  BY IdleInShape, NoTaskFields, ReturnMoves DEF ResetStore
<1>5. /\ TasksInShape' /\ pc'[t] = "idle" /\ task'[t] = NoTask
      /\ \A u \in Actors \ {t} : pc'[u] = pc[u] /\ task'[u] = task[u]
  BY <1>1, <1>4, MovesInShape
<1>6. TypeOK'
  BY <1>1, <1>3 DEF ResetStore, TypeOK, podman, net
<1>7. Without({"overlap"}) => \A u \in Actors \ {t} : task[u].slug = None /\ task[u].op # "reset"
  BY <1>2 DEF IInv, Alone, Apart
<1>8. Without({"overlap"}) => \A r \in Slugs : forwards[r] = None
  BY <1>1, <1>2, AppLauncherAssumption DEF TaskFits, FitsForward
<1>9. Alone'
  BY <1>3, <1>4, <1>5, <1>7 DEF Alone, Apart, Without
<1>10. \A u \in Actors : TaskFits(u)'
  <2> TAKE u \in Actors
  <2>1. CASE u = t
    BY <1>4, <1>5, <2>1, FreeTask DEF FreeLabels
  <2>2. CASE u # t /\ Without({"overlap"})
    <3>1. task[u].slug = None /\ task[u].op # "reset"
      BY <1>7, <2>2
    <3>2. Shape(u, pc[u], task[u])
      BY <1>1 DEF TasksInShape
    <3>3. pc[u] \in {"idle", "next"} /\ task[u].handle = None
      BY <3>1, <3>2, AppLauncherAssumption DEF Shape, Resetting
    <3> QED
      BY <1>5, <2>2, <3>1, <3>3, FreeTask DEF FreeLabels
  <2>3. CASE u # t /\ ~Without({"overlap"})
    <3>1. \A kinds : "overlap" \in kinds => ~Without(kinds)'
      BY <1>3, <2>3 DEF Without
    <3> QED
      BY <3>1 DEF TaskFits, FitsStore, FitsForward, FitsHandle, FitsContainer, FitsImage
  <2> QED
    BY <2>1, <2>2, <2>3
<1>11. \A r \in Slugs : SlugFits(r)'
  <2> TAKE r \in Slugs
  <2>1. SlugForward(r)'
    BY <1>3, <1>8 DEF SlugForward, Without
  <2>2. SlugRunning(r)'
    BY <1>3 DEF SlugRunning, Installed
  <2>3. SlugImage(r)'
    BY <1>3 DEF IInv, SlugFits, SlugImage, Installed, Without
  <2> QED
    BY <2>1, <2>2, <2>3 DEF SlugFits
<1>12. UniquePorts' /\ PortStays
  BY <1>3 DEF UniquePorts, PortStays, Installed
<1>13. \A u \in Actors : task'[u].handle = task[u].handle
  BY <1>2, <1>4, <1>5
<1>14. HandlesApart'
  BY <1>3, <1>13, HandlesLeft DEF IInv
<1>15. HandlesKnown'
  BY <1>3, <1>13, ListenersLeft DEF IInv
<1>16. ContainersApart'
  BY <1>3, ContainersLeft DEF IInv
<1> QED
  BY <1>5, <1>6, <1>9, <1>10, <1>11, <1>12, <1>14, <1>15, <1>16 DEF IInv

-----------------------------------------------------------------------------
(* The listeners' own steps *)

\* An open listener is for the port of one installed app, which has no other.
LEMMA OwnerOf ==
  ASSUME IInv, Without({"overlap"}), NEW g \in Handles, Open(g)
  PROVE  \E r \in Slugs :
           /\ Installed(r) /\ store[r].port # None /\ store[r].port = listener[g].port
           /\ \/ forwards[r] = g
              \/ forwards[r] = None /\ \E u \in Actors : task[u].slug = r /\ task[u].handle = g
<1>1. g # None
  BY AppLauncherAssumption
<1>2. CASE \E r \in Slugs : forwards[r] = g
  BY <1>1, <1>2 DEF IInv, SlugFits, SlugForward
<1>3. ASSUME NEW u \in Actors, task[u].handle = g
      PROVE  \E r \in Slugs :
               /\ Installed(r) /\ store[r].port # None /\ store[r].port = listener[g].port
               /\ forwards[r] = None /\ task[u].slug = r
  <2>1. Shape(u, pc[u], task[u]) /\ TaskFits(u)
    BY DEF IInv, TasksInShape
  <2>2. pc[u] = "insert" /\ task[u].slug \in Slugs /\ task[u].port \in Ports
    BY <1>1, <1>3, <2>1 DEF Shape, Ported, Served
  <2>3. Installed(task[u].slug) /\ store[task[u].slug].port = task[u].port /\ forwards[task[u].slug] = None
    BY <2>1, <2>2 DEF TaskFits, FitsStore, FitsForward, Ported, Served
  <2>4. listener[g].port = task[u].port
    BY <1>1, <1>3, <2>1 DEF TaskFits, FitsHandle
  <2> QED
    BY <2>2, <2>3, <2>4, AppLauncherAssumption
<1> QED
  BY <1>2, <1>3 DEF IInv, HandlesKnown

\* No two open listeners are for one port.
LEMMA OneListener ==
  ASSUME IInv, Without({"overlap"}), NEW g \in Handles, NEW h \in Handles, Open(g), Open(h),
         listener[g].port = listener[h].port
  PROVE  g = h
<1>1. PICK r \in Slugs :
        /\ Installed(r) /\ store[r].port # None /\ store[r].port = listener[g].port
        /\ \/ forwards[r] = g
           \/ forwards[r] = None /\ \E u \in Actors : task[u].slug = r /\ task[u].handle = g
  BY OwnerOf
<1>2. PICK s \in Slugs :
        /\ Installed(s) /\ store[s].port # None /\ store[s].port = listener[h].port
        /\ \/ forwards[s] = h
           \/ forwards[s] = None /\ \E u \in Actors : task[u].slug = s /\ task[u].handle = h
  BY OwnerOf
<1>3. r = s
  BY <1>1, <1>2 DEF IInv, UniquePorts
<1>4. g # None /\ h # None /\ r # None
  BY AppLauncherAssumption
<1>5. \A u, w \in Actors : task[u].slug = r /\ task[w].slug = r => u = w
  BY <1>4 DEF IInv, Alone, Apart
<1> QED
  BY <1>1, <1>2, <1>3, <1>4, <1>5

\* A step of a listener alone keeps the invariant when it does for its owner.
LEMMA ListenerStep ==
  ASSUME IInv, UNCHANGED <<store, image, alias, container, forwards, pc, task>>,
         mishaps \subseteq mishaps', TypeOK',
         \A t \in Actors : FitsHandle(t)', \A s \in Slugs : SlugForward(s)',
         \A h \in Handles : Open(h)' => Open(h)
  PROVE  IInv'
<1>1. \A kinds : Without(kinds)' => Without(kinds)
  BY WithoutBefore
<1>2. TasksInShape' /\ Alone'
  BY <1>1 DEF IInv, TasksInShape, Alone
<1>3. \A t \in Actors : TaskFits(t)'
  <2> TAKE t \in Actors
  <2>1. FitsStore(t)' /\ FitsForward(t)'
    BY <1>1 DEF IInv, TaskFits, FitsStore, FitsForward, Installed
  <2>2. FitsContainer(t)' /\ FitsImage(t)'
    BY <1>1 DEF IInv, TaskFits, FitsContainer, FitsImage, Installed
  <2> QED
    BY <2>1, <2>2 DEF TaskFits
<1>4. \A s \in Slugs : SlugFits(s)'
  <2> TAKE s \in Slugs
  <2>1. SlugRunning(s)' /\ SlugImage(s)'
    BY <1>1 DEF IInv, SlugFits, SlugRunning, SlugImage, Installed, Busy, BeingReset
  <2> QED
    BY <2>1 DEF SlugFits
<1>5. UniquePorts' /\ HandlesApart' /\ ContainersApart'
  BY <1>1 DEF IInv, UniquePorts, HandlesApart, ContainersApart, Installed
<1>6. HandlesKnown'
  BY <1>1 DEF IInv, HandlesKnown
<1> QED
  BY <1>2, <1>3, <1>4, <1>5, <1>6 DEF IInv

\* A bind that finds its port taken finds a listener that has been aborted.
LEMMA BindStep ==
  ASSUME IInv, NEW h \in Handles, Bind(h)
  PROVE  IInv'
<1>1. TypeOK /\ TasksInShape /\ listener[h].state = "spawned" /\ Open(h)
  BY DEF IInv, Bind, Open
<1>2. /\ UNCHANGED <<store, image, alias, container, forwards, pc, task>>
  BY DEF Bind, podman
<1>3. /\ mishaps \subseteq mishaps' /\ mishaps' \subseteq MishapNames
      /\ "abort" \in mishaps' \/ \A g \in Handles : listener[g].state # "closing"
  <2>1. CASE \A g \in Handles : listener[g].state # "closing"
    BY <1>1, <2>1 DEF Bind, TypeOK
  <2>2. CASE ~(\A g \in Handles : listener[g].state # "closing")
    <3>1. Mishap("abort")
      BY <2>2 DEF Bind
    <3> QED
      BY <1>1, <3>1, MishapGives
  <2> QED
    BY <2>1, <2>2
<1>4. listener \in [Handles -> [state : {"free", "spawned", "bound", "closing"},
                                port : Ports \cup {None}]]
  BY <1>1 DEF TypeOK
<1>5. PICK d : d = [listener[h] EXCEPT !.state = "bound"]
  OBVIOUS
<1>6. /\ d \in [state : {"free", "spawned", "bound", "closing"}, port : Ports \cup {None}]
      /\ d.state = "bound" /\ d.port = listener[h].port
  BY <1>4, <1>5
<1>7. /\ NoListener \in [state : {"free", "spawned", "bound", "closing"}, port : Ports \cup {None}]
      /\ NoListener.state = "free"
  BY DEF NoListener
<1>8. /\ \A g \in Handles \ {h} : listener'[g] = listener[g]
      /\ listener' \in [Handles -> [state : {"free", "spawned", "bound", "closing"},
                                    port : Ports \cup {None}]]
      /\ listener'[h] = d \/ (listener'[h] = NoListener /\ ~Without({"overlap", "abort"})')
  <2>1. CASE \E g \in Handles \ {h} : /\ listener[g].state \in {"bound", "closing"}
                                      /\ listener[g].port = listener[h].port
    <3>1. listener' = [listener EXCEPT ![h] = NoListener]
      BY <2>1 DEF Bind
    <3>2. ASSUME Without({"overlap", "abort"})' PROVE FALSE
      <4>1. Without({"overlap"}) /\ \A g \in Handles : listener[g].state # "closing"
        BY <1>3, <3>2 DEF Without
      <4>2. PICK g \in Handles \ {h} : listener[g].state = "bound" /\ listener[g].port = listener[h].port
        BY <2>1, <4>1
      <4>3. Open(g)
        BY <4>2 DEF Open
      <4> QED
        BY <1>1, <4>1, <4>2, <4>3, OneListener
    <3> QED
      BY <1>4, <1>7, <3>1, <3>2
  <2>2. CASE ~(\E g \in Handles \ {h} : /\ listener[g].state \in {"bound", "closing"}
                                        /\ listener[g].port = listener[h].port)
    <3>1. listener' = [listener EXCEPT ![h] = d]
      BY <1>5, <2>2 DEF Bind
    <3> QED
      BY <1>4, <1>6, <3>1
  <2> QED
    BY <2>1, <2>2
<1>9. TypeOK'
  BY <1>1, <1>3, <1>8 DEF Bind, TypeOK, podman
<1>10. \A kinds : Without(kinds)' => Without(kinds)
  BY <1>3, WithoutBefore
<1>11. /\ listener'[h].state # "closing"
       /\ Open(h)' => listener'[h].port = listener[h].port
       /\ Without({"overlap", "abort"})' => Open(h)'
  BY <1>6, <1>7, <1>8 DEF Open
<1>12. \A t \in Actors : FitsHandle(t)'
  <2> TAKE t \in Actors
  <2>1. task[t].handle \in Handles \cup {None}
    BY <1>1 DEF TasksInShape, TaskStates
  <2>2. FitsHandle(t)
    BY DEF IInv, TaskFits
  <2>3. CASE task[t].handle = h
    BY <1>1, <1>2, <1>10, <1>11, <2>2, <2>3 DEF FitsHandle
  <2>4. CASE task[t].handle # h
    BY <1>2, <1>8, <1>10, <2>1, <2>2, <2>4 DEF FitsHandle, Open
  <2> QED
    BY <2>3, <2>4
<1>13. \A s \in Slugs : SlugForward(s)'
  <2> TAKE s \in Slugs
  <2>1. forwards[s] \in Handles \cup {None}
    BY <1>1 DEF TypeOK
  <2>2. SlugForward(s)
    BY DEF IInv, SlugFits
  <2>3. CASE forwards[s] = h
    BY <1>1, <1>2, <1>10, <1>11, <2>2, <2>3 DEF SlugForward, Installed
  <2>4. CASE forwards[s] # h
    BY <1>2, <1>8, <1>10, <2>1, <2>2, <2>4 DEF SlugForward, Open, Installed
  <2> QED
    BY <2>3, <2>4
<1>14. \A g \in Handles : Open(g)' => Open(g)
  BY <1>1, <1>8 DEF Open
<1> QED
  BY <1>2, <1>3, <1>9, <1>12, <1>13, <1>14, ListenerStep

\* A listener that has been aborted is nobody's.
LEMMA CloseListenerStep ==
  ASSUME IInv, NEW h \in Handles, CloseListener(h)
  PROVE  IInv'
<1>1. TypeOK /\ TasksInShape /\ listener[h].state = "closing"
  BY DEF IInv, CloseListener
<1>2. /\ UNCHANGED <<store, image, alias, container, forwards, pc, task>>
      /\ mishaps' = mishaps /\ mishaps \subseteq mishaps'
  BY DEF CloseListener, podman
<1>3. /\ NoListener \in [state : {"free", "spawned", "bound", "closing"}, port : Ports \cup {None}]
      /\ NoListener.state = "free"
  BY DEF NoListener
<1>4. /\ \A g \in Handles \ {h} : listener'[g] = listener[g]
      /\ listener'[h].state = "free"
      /\ listener' \in [Handles -> [state : {"free", "spawned", "bound", "closing"},
                                    port : Ports \cup {None}]]
  BY <1>1, <1>3 DEF TypeOK, CloseListener
<1>5. TypeOK'
  BY <1>1, <1>4 DEF CloseListener, TypeOK, podman
<1>6. \A kinds : Without(kinds)' => Without(kinds)
  BY <1>2, WithoutBefore
<1>7. \A t \in Actors : FitsHandle(t)'
  <2> TAKE t \in Actors
  <2>1. task[t].handle \in Handles \cup {None} /\ FitsHandle(t)
    BY <1>1 DEF TasksInShape, TaskStates, IInv, TaskFits
  <2>2. CASE task[t].handle = h
    <3>1. \A kinds : "overlap" \in kinds => ~Without(kinds)'
      BY <1>1, <1>2, <1>6, <2>1, <2>2, AppLauncherAssumption DEF FitsHandle, Without
    <3> QED
      BY <3>1 DEF FitsHandle
  <2>3. CASE task[t].handle # h
    BY <1>2, <1>4, <1>6, <2>1, <2>3 DEF FitsHandle, Open
  <2> QED
    BY <2>2, <2>3
<1>8. \A s \in Slugs : SlugForward(s)'
  <2> TAKE s \in Slugs
  <2>1. forwards[s] \in Handles \cup {None} /\ SlugForward(s)
    BY <1>1 DEF TypeOK, IInv, SlugFits
  <2>2. CASE forwards[s] = h
    <3>1. \A kinds : "overlap" \in kinds => ~Without(kinds)'
      BY <1>1, <1>2, <1>6, <2>1, <2>2, AppLauncherAssumption DEF SlugForward, Without
    <3> QED
      BY <3>1 DEF SlugForward
  <2>3. CASE forwards[s] # h
    BY <1>2, <1>4, <1>6, <2>1, <2>3 DEF SlugForward, Open, Installed
  <2> QED
    BY <2>2, <2>3
<1>9. \A g \in Handles : Open(g)' => Open(g)
  BY <1>4 DEF Open
<1> QED
  BY <1>2, <1>5, <1>7, <1>8, <1>9, ListenerStep

-----------------------------------------------------------------------------
(* The virtual machine and the process *)

\* What podman held is gone, and the mishap on record.
LEMMA StopVmStep ==
  ASSUME IInv, StopVm
  PROVE  IInv'
<1>1. TypeOK
  BY DEF IInv
<1>2. /\ UNCHANGED <<store, image, forwards, listener, pc, task>>
      /\ alias' = [s \in Slugs |-> None] /\ container' = [s \in Slugs |-> None]
      /\ mishaps' = mishaps \cup {"vm"} /\ mishaps' \subseteq MishapNames
  BY <1>1, MishapGives DEF StopVm, NoPodman, net
<1>3. TypeOK'
  BY <1>1, <1>2 DEF StopVm, NoPodman, TypeOK, net
<1>4. \A kinds : Without(kinds)' => Without(kinds) /\ "vm" \notin kinds
  BY <1>2 DEF Without
<1>5. TasksInShape' /\ Alone'
  BY <1>2, <1>4 DEF IInv, TasksInShape, Alone
<1>6. \A t \in Actors : TaskFits(t)'
  <2> TAKE t \in Actors
  <2>1. FitsStore(t)' /\ FitsForward(t)'
    BY <1>2, <1>4 DEF IInv, TaskFits, FitsStore, FitsForward, Installed
  <2>2. FitsHandle(t)' /\ FitsImage(t)'
    BY <1>2, <1>4 DEF IInv, TaskFits, FitsHandle, FitsImage, Open
  <2>3. FitsContainer(t)'
    BY <1>4 DEF FitsContainer
  <2> QED
    BY <2>1, <2>2, <2>3 DEF TaskFits
<1>7. \A s \in Slugs : SlugFits(s)'
  <2> TAKE s \in Slugs
  <2>1. SlugForward(s)'
    BY <1>2, <1>4 DEF IInv, SlugFits, SlugForward, Open, Installed
  <2>2. SlugRunning(s)'
    BY <1>2, <1>4 DEF IInv, SlugFits, SlugRunning, Installed, Busy, BeingReset
  <2>3. SlugImage(s)'
    BY <1>2, <1>4 DEF IInv, SlugFits, SlugImage, Installed, Busy
  <2> QED
    BY <2>1, <2>2, <2>3 DEF SlugFits
<1>8. UniquePorts' /\ HandlesApart' /\ HandlesKnown'
  BY <1>2, <1>4 DEF IInv, UniquePorts, HandlesApart, HandlesKnown, Installed, Open
<1>9. ContainersApart'
  BY <1>2, ContainersLeft DEF IInv
<1> QED
  BY <1>3, <1>5, <1>6, <1>7, <1>8, <1>9 DEF IInv

\* The machine boots.
LEMMA StartVmStep ==
  ASSUME IInv, StartVm
  PROVE  IInv'
<1>1. UNCHANGED <<store, image, loaded, alias, container, volume, forwards, listener, window, pc, task, boot, mishaps>>
  BY DEF StartVm, net
<1>2. vmUp' = TRUE /\ TypeOK
  BY DEF StartVm, IInv
<1> QED
  BY <1>1, <1>2, StutterInv DEF TypeOK

\* A new launcher: what is on the disk is left, and no command.
LEMMA RestartStep ==
  ASSUME IInv, Restart
  PROVE  IInv' /\ PortStays
<1>1. TypeOK
  BY DEF IInv
<1>2. /\ alias' = [s \in Slugs |-> None] /\ container' = [s \in Slugs |-> None]
      /\ forwards' = [s \in Slugs |-> None] /\ listener' = [h \in Handles |-> NoListener]
      /\ pc' = [t \in Actors |-> "idle"] /\ task' = [t \in Actors |-> NoTask]
      /\ mishaps' = mishaps \cup {"restart"} /\ mishaps' \subseteq MishapNames
  BY <1>1, MishapGives DEF Restart, NoPodman
<1>3. /\ NoListener \in [state : {"free", "spawned", "bound", "closing"}, port : Ports \cup {None}]
      /\ NoListener.state = "free"
  BY DEF NoListener
<1>4. /\ store' \in [Slugs -> Apps \cup {None}]
      /\ \A s \in Slugs : Installed(s) => store'[s] # None /\ store'[s].port = store[s].port /\ ~store'[s].running
      /\ \A s \in Slugs : ~Installed(s) => store'[s] = None
  <2>1. store' = [s \in Slugs |-> IF Installed(s) THEN [store[s] EXCEPT !.running = FALSE] ELSE None]
    BY DEF Restart
  <2>2. ASSUME NEW s \in Slugs, Installed(s)
        PROVE  store'[s] \in Apps /\ store'[s] # None /\ store'[s].port = store[s].port /\ ~store'[s].running
    <3>1. store[s] \in Apps
      BY <1>1, <2>2 DEF TypeOK, Installed
    <3>2. PICK app : app = [store[s] EXCEPT !.running = FALSE]
      OBVIOUS
    <3>3. app \in Apps /\ app.port = store[s].port /\ ~app.running
      BY <3>1, <3>2 DEF Apps
    <3>4. app # None
      BY <3>3, AppLauncherAssumption
    <3>5. store'[s] = app
      BY <2>1, <2>2, <3>2
    <3> QED
      BY <3>3, <3>4, <3>5
  <2>3. \A s \in Slugs : ~Installed(s) => store'[s] = None
    BY <2>1
  <2>4. store' \in [Slugs -> Apps \cup {None}]
    <3>1. \A s \in Slugs : store'[s] \in Apps \cup {None}
      BY <2>2, <2>3
    <3> QED
      BY <2>1, <3>1
  <2> QED
    BY <2>2, <2>3, <2>4
<1>5. TypeOK'
  <2>1. /\ vmUp' = FALSE /\ loaded' = {} /\ volume' = {} /\ boot' = TRUE /\ image' = image
        /\ window' = [s \in Slugs |-> None]
    BY DEF Restart, NoPodman
  <2> QED
    BY <1>1, <1>2, <1>3, <1>4, <2>1 DEF TypeOK
<1>6. /\ "idle" \in Labels /\ NoTask \in TaskStates /\ NoTask.op = "none" /\ NoTask.slug = None
      /\ NoTask.handle = None /\ \A t \in Actors : Shape(t, "idle", NoTask)
  BY IdleInShape, NoTaskFields DEF Labels
<1>7. TasksInShape'
  BY <1>2, <1>6 DEF TasksInShape
<1>8. Alone'
  BY <1>2, <1>6 DEF Alone, Apart
<1>9. \A t \in Actors : TaskFits(t)'
  BY <1>2, <1>6, FreeTask DEF FreeLabels
<1>10. \A s \in Slugs : SlugFits(s)'
  <2> TAKE s \in Slugs
  <2>1. ~Without({"overlap", "restart", "cutoff"})'
    BY <1>2 DEF Without
  <2>2. SlugForward(s)' /\ SlugImage(s)'
    BY <1>2, <2>1 DEF SlugForward, SlugImage
  <2>3. SlugRunning(s)'
    BY <1>4 DEF SlugRunning, Installed
  <2> QED
    BY <2>2, <2>3 DEF SlugFits
<1>11. UniquePorts' /\ PortStays
  BY <1>2, <1>4, PortsLeft DEF IInv, Installed
<1>12. HandlesApart' /\ HandlesKnown'
  BY <1>2, <1>3, <1>6 DEF HandlesApart, HandlesKnown, Open
<1>13. ContainersApart'
  BY <1>2, ContainersLeft DEF IInv
<1> QED
  BY <1>5, <1>7, <1>8, <1>9, <1>10, <1>11, <1>12, <1>13 DEF IInv

-----------------------------------------------------------------------------
(* The theorems *)

\* Nothing is installed at first.
LEMMA InitInv == Init => IInv
<1> SUFFICES ASSUME Init PROVE IInv
  OBVIOUS
<1>1. /\ NoListener \in [state : {"free", "spawned", "bound", "closing"}, port : Ports \cup {None}]
      /\ NoListener.state = "free"
  BY DEF NoListener
<1>2. TypeOK
  BY <1>1 DEF Init, TypeOK
<1>3. /\ "idle" \in Labels /\ NoTask \in TaskStates /\ NoTask.op = "none" /\ NoTask.slug = None
      /\ NoTask.handle = None /\ \A t \in Actors : Shape(t, "idle", NoTask)
  BY IdleInShape, NoTaskFields DEF Labels
<1>4. TasksInShape /\ Alone
  BY <1>3 DEF Init, TasksInShape, Alone, Apart
<1>5. \A t \in Actors : TaskFits(t)
  <2> TAKE t \in Actors
  <2>1. pc[t] = "idle" /\ task[t] = NoTask
    BY DEF Init
  <2> QED
    BY <1>3, <2>1 DEF TaskFits, FitsStore, FitsForward, FitsHandle, FitsContainer, FitsImage, Ported, Served
<1>6. \A s \in Slugs : SlugFits(s)
  BY DEF Init, SlugFits, SlugForward, SlugRunning, SlugImage, Installed
<1>7. UniquePorts /\ HandlesApart /\ HandlesKnown /\ ContainersApart
  BY <1>1, <1>3 DEF Init, UniquePorts, HandlesApart, HandlesKnown, ContainersApart, Installed, Open
<1> QED
  BY <1>2, <1>4, <1>5, <1>6, <1>7 DEF IInv

\* A step that leaves the store leaves the ports.
LEMMA StorelessStep == UNCHANGED store => PortStays
  BY DEF PortStays

\* A step of a command under way keeps the invariant, and every port.
LEMMA TaskStepInv ==
  ASSUME IInv, NEW t \in Actors, TaskStep(t)
  PROVE  IInv' /\ PortStays
<1>1. CASE LinkWaits(t)
  BY <1>1, LinkWaitsStep, StorelessStep DEF LinkWaits
<1>2. CASE Fetch(t)
  BY <1>2, FetchStep, StorelessStep DEF Fetch
<1>3. CASE StartUnpack(t)
  BY <1>3, StartUnpackStep, StorelessStep DEF StartUnpack
<1>4. CASE FinishUnpack(t)
  BY <1>4, FinishUnpackStep, StorelessStep DEF FinishUnpack
<1>5. CASE LoadImage(t)
  BY <1>5, LoadImageStep, StorelessStep DEF LoadImage
<1>6. CASE GetPort(t)
  BY <1>6, GetPortStep, StorelessStep DEF GetPort
<1>7. CASE UpsertApp(t)
  BY <1>7, UpsertAppStep
<1>8. CASE Allocate(t)
  BY <1>8, AllocateStep
<1>9. CASE TagImage(t)
  BY <1>9, TagImageStep, StorelessStep DEF TagImage
<1>10. CASE RunContainer(t)
  BY <1>10, RunContainerStep, StorelessStep DEF RunContainer
<1>11. CASE FindVsock(t)
  BY <1>11, FindVsockStep, StorelessStep DEF FindVsock
<1>12. CASE Unforward(t)
  BY <1>12, UnforwardStep, StorelessStep DEF Unforward
<1>13. CASE StartForwarding(t)
  BY <1>13, StartForwardingStep, StorelessStep DEF StartForwarding
<1>14. CASE InsertForward(t)
  BY <1>14, InsertForwardStep, StorelessStep DEF InsertForward
<1>15. CASE MarkRunning(t)
  BY <1>15, MarkRunningStep
<1>16. CASE LinkOpens(t)
  BY <1>16, LinkOpensStep, StorelessStep DEF LinkOpens
<1>17. CASE StopContainer(t)
  BY <1>17, StopContainerStep, StorelessStep DEF StopContainer
<1>18. CASE StopForward(t)
  BY <1>18, StopForwardStep, StorelessStep DEF StopForward
<1>19. CASE MarkStopped(t)
  BY <1>19, MarkStoppedStep
<1>20. CASE ResetContainer(t)
  BY <1>20, ResetContainerStep, StorelessStep DEF ResetContainer
<1>21. CASE ResetForward(t)
  BY <1>21, ResetForwardStep, StorelessStep DEF ResetForward
<1>22. CASE ResetStore(t)
  BY <1>22, ResetStoreStep
<1> QED
  BY <1>1, <1>2, <1>3, <1>4, <1>5, <1>6, <1>7, <1>8, <1>9, <1>10, <1>11, <1>12, <1>13, <1>14,
     <1>15, <1>16, <1>17, <1>18, <1>19, <1>20, <1>21, <1>22 DEF TaskStep

\* So does a command that begins.
LEMMA CommandInv ==
  ASSUME IInv, NEW t \in Tasks, Command(t)
  PROVE  IInv' /\ PortStays
<1>1. ASSUME NEW s \in Slugs, NEW v \in Versions, InstallApp(t, s, v) \/ OpenLink(t, s, v)
      PROVE  IInv' /\ PortStays
  <2>1. PICK op, l : /\ Begin(t, op, s, v, l)
                     /\ (op = "install" /\ l = "fetch") \/ (op = "link" /\ l = "wait")
    BY <1>1 DEF InstallApp, OpenLink
  <2>2. IInv'
    BY <2>1, BeginStep
  <2> QED
    BY <2>1, <2>2, StorelessStep DEF Begin
<1>2. ASSUME NEW s \in Slugs, RunApp(t, s) \/ StopApp(t, s)
      PROVE  IInv' /\ PortStays
  <2>1. PICK op, l : /\ Begin(t, op, s, None, l)
                     /\ (op = "run" /\ l = "allocate") \/ (op = "stop" /\ l = "stop")
    BY <1>2 DEF RunApp, StopApp
  <2>2. IInv'
    BY <2>1, BeginStep
  <2> QED
    BY <2>1, <2>2, StorelessStep DEF Begin
<1>3. ASSUME NEW s \in Slugs, OpenApp(t, s)
      PROVE  IInv' /\ PortStays
  BY <1>3, OpenAppStep, StorelessStep DEF OpenApp
<1>4. CASE Reset(t)
  BY <1>4, ResetStep, StorelessStep DEF Reset
<1> QED
  BY <1>1, <1>2, <1>3, <1>4 DEF Command

\* The invariant is inductive, and no step moves a port.
LEMMA NextInv == IInv /\ [Next]_vars => IInv' /\ UniquePorts' /\ PortStays
<1> SUFFICES ASSUME IInv, [Next]_vars PROVE IInv' /\ PortStays
  BY DEF IInv
<1>1. CASE \E t \in Tasks : Command(t)
  BY <1>1, CommandInv
<1>2. CASE \E t \in Actors : TaskStep(t)
  BY <1>2, TaskStepInv
<1>3. CASE \E h \in Handles : Bind(h) \/ CloseListener(h)
  <2>1. IInv'
    BY <1>3, BindStep, CloseListenerStep
  <2>2. UNCHANGED store
    BY <1>3 DEF Bind, CloseListener
  <2> QED
    BY <2>1, <2>2, StorelessStep
<1>4. CASE StartAuto
  BY <1>4, StartAutoStep, StorelessStep DEF StartAuto
<1>5. CASE NextAuto
  BY <1>5, NextAutoStep, StorelessStep DEF NextAuto
<1>6. CASE StopVm
  BY <1>6, StopVmStep, StorelessStep DEF StopVm
<1>7. CASE StartVm
  BY <1>7, StartVmStep, StorelessStep DEF StartVm
<1>8. CASE Restart
  BY <1>8, RestartStep
<1>9. CASE UNCHANGED vars
  <2>1. /\ UNCHANGED <<store, image, alias, container, forwards, listener, pc, task, boot, mishaps>>
        /\ UNCHANGED <<vmUp, loaded, volume, window>>
    BY <1>9 DEF vars, podman, net
  <2>2. TypeOK
    BY DEF IInv
  <2>3. /\ vmUp' \in BOOLEAN /\ loaded' \subseteq Images /\ volume' \subseteq Slugs
        /\ window' \in [Slugs -> Ports \cup {None}]
    BY <2>1, <2>2 DEF TypeOK
  <2> QED
    BY <2>1, <2>3, StutterInv, StorelessStep
<1> QED
  BY <1>1, <1>2, <1>3, <1>4, <1>5, <1>6, <1>7, <1>8, <1>9 DEF Next

\* It holds in every state of the launcher.
LEMMA SpecInv == Spec => []IInv
  BY InitInv, NextInv, PTL DEF Spec

\* A settled slug: nobody works on it, and what is left of its listener is bound.
LEMMA ReachableFromInv == IInv => ReachableApps
<1> SUFFICES ASSUME IInv PROVE RunningIsReachable /\ OnlyInstalledForwarded
  BY DEF IInv, ReachableApps
<1>1. ASSUME NEW s \in Slugs, Settled(s) PROVE ~BeingReset /\ \A labels : ~Busy(s, labels)
  BY <1>1 DEF Settled, BeingReset, Busy
<1>2. ASSUME Without({"overlap", "vm", "abort", "podman"}), NEW s \in Slugs, Settled(s), Installed(s),
             store[s].running
      PROVE  container[s] # None /\ container[s].port = store[s].port /\ Forwarded(s)
  <2>1. /\ Without({"overlap"}) /\ Without({"overlap", "abort"})
        /\ Without({"overlap", "vm", "podman"})
    BY <1>2 DEF Without
  <2>2. SlugRunning(s) /\ SlugForward(s) /\ TypeOK
    BY DEF IInv, SlugFits
  <2>3. container[s] # None /\ container[s].port = store[s].port /\ forwards[s] # None
    BY <1>1, <1>2, <2>1, <2>2 DEF SlugRunning
  <2>4. /\ forwards[s] \in Handles
        /\ listener[forwards[s]] \in [state : {"free", "spawned", "bound", "closing"}, port : Ports \cup {None}]
    BY <2>2, <2>3 DEF TypeOK
  <2>5. listener[forwards[s]].state = "bound" /\ listener[forwards[s]].port = store[s].port
    BY <1>2, <2>1, <2>2, <2>3, <2>4 DEF SlugForward, Open, Settled
  <2>6. listener[forwards[s]] = [state |-> "bound", port |-> store[s].port]
    BY <2>4, <2>5
  <2> QED
    BY <2>3, <2>6 DEF Forwarded
<1>3. ASSUME Without({"overlap"}), NEW s \in Slugs, ~Installed(s) PROVE forwards[s] = None
  BY <1>3 DEF IInv, SlugFits, SlugForward
<1> QED
  BY <1>2, <1>3 DEF RunningIsReachable, OnlyInstalledForwarded

\* What is tagged for a slug is its own, and what a link has run is what it named.
LEMMA ImagesFromInv == IInv => ImagesMatch
<1> SUFFICES ASSUME IInv PROVE OwnImage /\ LinkRunsItsVersion
  BY DEF ImagesMatch
<1>1. OwnImage
  BY DEF IInv, SlugFits, SlugImage, OwnImage
<1>2. ASSUME Without({"overlap", "vm"}), NEW t \in Tasks, At(t, "open")
      PROVE  LET c == container[task[t].slug]
             IN c # None /\ c.image = <<task[t].slug, task[t].version>> /\ c.port = store[task[t].slug].port
  <2>1. t \in Actors /\ pc[t] = "open"
    BY <1>2 DEF Actors, At
  <2>2. TaskFits(t) /\ Shape(t, pc[t], task[t])
    BY <2>1 DEF IInv, TasksInShape
  <2> QED
    BY <1>2, <2>1, <2>2 DEF TaskFits, FitsContainer, Shape
<1> QED
  BY <1>1, <1>2 DEF LinkRunsItsVersion

\* For any number of apps, commands, ports and listeners, with any mishaps: an app
\* that is shown as running can be reached once the commands on it have ended,
\* unless two overlapped, the machine stopped, a listener was slow to close or
\* podman failed; and nothing that is not installed is forwarded.
THEOREM AppsStayReachable == Spec => []ReachableApps
  BY SpecInv, ReachableFromInv, PTL

\* A container runs an image of its own app, and the window a link opens is over
\* the version it named.
THEOREM ImagesStayMatched == Spec => []ImagesMatch
  BY SpecInv, ImagesFromInv, PTL

\* No step gives two apps one port or an app another port than it had.
THEOREM PortsStayKept == Spec => PortsAreKept
<1>1. IInv /\ [Next]_vars => [UniquePorts' /\ PortStays]_vars
  BY NextInv
<1> QED
  BY <1>1, SpecInv, PTL DEF Spec, PortsAreKept
=============================================================================
