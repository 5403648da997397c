---------------------------- MODULE PortAllocation ----------------------------
(***************************************************************************)
(* How host ports are given out.  Project dev servers get theirs from      *)
(* JsonProjectStore::allocate_port (src/src/tauri/src/projects/store.rs),  *)
(* a round-robin scan of MinPort..MaxPort under the store's mutex; apps    *)
(* get theirs from AppStore::allocate_port (apps/store.rs), the lowest     *)
(* port from FirstAppPort on that no app has.  The two stores share        *)
(* nothing.                                                                *)
(*                                                                         *)
(* A command allocates in one critical section and stores the port in      *)
(* another; in between, other commands change other records.               *)
(***************************************************************************)
EXTENDS Integers

CONSTANTS MinPort, MaxPort,   \* ports::MIN_PORT (3001), ports::MAX_PORT (65000)
          FirstAppPort,       \* FIRST_PORT (4100)
          TopPort,            \* u16::MAX
          Projects, Slugs,
          Tasks,              \* bound: commands in flight
          None

PortAssumption ==
  /\ {MinPort, MaxPort, FirstAppPort, TopPort} \subseteq Nat
  /\ MinPort <= MaxPort /\ MaxPort <= TopPort /\ FirstAppPort <= TopPort
  /\ None \notin Nat

VARIABLES next_port,   \* StoredState.next_port
          port,        \* the port field of each stored project, None if absent
          scan,        \* the loop of allocate_port, which holds the mutex
          task,        \* what each command has in hand
          host_port    \* InstalledApp.host_port

vars == <<next_port, port, scan, task, host_port>>

PortRange == MinPort .. MaxPort
RangeSize == MaxPort - MinPort + 1
Claimed == {port[p] : p \in Projects} \ {None}

After(n) == IF n >= MaxPort THEN MinPort ELSE n + 1

Idle == [at |-> "idle"]
Unlocked == scan.pc = "idle"
NoScan == [pc |-> "idle", port |-> MinPort, attempts |-> 0]

Init ==
  /\ next_port = MinPort
  /\ port = [p \in Projects |-> None]
  /\ scan = NoScan
  /\ task = [t \in Tasks |-> Idle]
  /\ host_port = [s \in Slugs |-> None]

-----------------------------------------------------------------------------
(* Commands on projects *)

\* start_project on a project that has a port, and every get that is followed
\* by an update (set_intent, persist_status): the port read is written back.
ReadRecord(t, p) ==
  /\ Unlocked /\ task[t] = Idle
  /\ task' = [task EXCEPT ![t] = [at |-> "store", project |-> p, port |-> port[p]]]
  /\ UNCHANGED <<next_port, port, scan, host_port>>

\* start_project and install_project on a project without a port.
NeedPort(t, p) ==
  /\ Unlocked /\ task[t] = Idle /\ port[p] = None
  /\ task' = [task EXCEPT ![t] = [at |-> "allocate", project |-> p]]
  /\ UNCHANGED <<next_port, port, scan, host_port>>

\* restart_project: force_stop_and_remove, then a fresh port.
Restart(t, p) ==
  /\ Unlocked /\ task[t] = Idle
  /\ port' = [port EXCEPT ![p] = None]
  /\ task' = [task EXCEPT ![t] = [at |-> "allocate", project |-> p]]
  /\ UNCHANGED <<next_port, scan, host_port>>

\* remove_project
Remove(p) ==
  /\ Unlocked /\ port[p] # None
  /\ port' = [port EXCEPT ![p] = None]
  /\ UNCHANGED <<next_port, scan, task, host_port>>

\* The second critical section: store.update.
StorePort(t) ==
  /\ Unlocked /\ task[t].at = "store"
  /\ port' = [port EXCEPT ![task[t].project] = task[t].port]
  /\ task' = [task EXCEPT ![t] = Idle]
  /\ UNCHANGED <<next_port, scan, host_port>>

\* The command fails before it stores: run_install_pipeline, or the update.
GiveUp(t) ==
  /\ task[t].at = "store"
  /\ task' = [task EXCEPT ![t] = Idle]
  /\ UNCHANGED <<next_port, port, scan, host_port>>

-----------------------------------------------------------------------------
(* JsonProjectStore::allocate_port *)

\* Mutant: the scan starts behind next_port.
BeginScanBehind(t) ==
  /\ Unlocked /\ task[t].at = "allocate"
  /\ scan' = [pc |-> "scanning", port |-> After(next_port), attempts |-> 0]
  /\ task' = [task EXCEPT ![t].at = "scan"]
  /\ UNCHANGED <<next_port, port, host_port>>

BeginScan(t) ==
  /\ Unlocked /\ task[t].at = "allocate"
  /\ scan' = [pc |-> "scanning", port |-> next_port, attempts |-> 0]
  /\ task' = [task EXCEPT ![t].at = "scan"]
  /\ UNCHANGED <<next_port, port, host_port>>

\* Mutant: the attempts are not counted.
SkipClaimedForever ==
  /\ scan.pc = "scanning" /\ scan.port \in Claimed
  /\ scan' = [scan EXCEPT !.port = After(scan.port)]
  /\ UNCHANGED <<next_port, port, task, host_port>>

SkipClaimed ==
  /\ scan.pc = "scanning" /\ scan.port \in Claimed
  /\ scan' = [pc |-> IF scan.attempts + 1 >= RangeSize THEN "full" ELSE "scanning",
              port |-> After(scan.port), attempts |-> scan.attempts + 1]
  /\ UNCHANGED <<next_port, port, task, host_port>>

FindFree ==
  /\ scan.pc = "scanning" /\ scan.port \notin Claimed
  /\ scan' = [scan EXCEPT !.pc = "found"]
  /\ UNCHANGED <<next_port, port, task, host_port>>

\* next_port advances whether or not the save succeeds.
ReturnPort(t) ==
  /\ scan.pc = "found" /\ task[t].at = "scan"
  /\ next_port' = After(scan.port)
  /\ \/ task' = [task EXCEPT ![t] = [at |-> "store", project |-> task[t].project,
                                     port |-> scan.port]]
     \/ task' = [task EXCEPT ![t] = Idle]
  /\ scan' = NoScan
  /\ UNCHANGED <<port, host_port>>

ReturnError(t) ==
  /\ scan.pc = "full" /\ task[t].at = "scan"
  /\ task' = [task EXCEPT ![t] = Idle]
  /\ scan' = NoScan
  /\ UNCHANGED <<next_port, port, host_port>>

-----------------------------------------------------------------------------
(* AppStore *)

FreeForApps == (FirstAppPort .. TopPort) \ {host_port[s] : s \in Slugs}

\* AppStore::allocate_port, whole: an app without a port gets the lowest free
\* one.
AllocateAppPort(s) ==
  /\ host_port[s] = None
  /\ \E n \in FreeForApps :
       /\ \A m \in FreeForApps : n <= m
       /\ host_port' = [host_port EXCEPT ![s] = n]
  /\ UNCHANGED <<next_port, port, scan, task>>

\* AppStore::clear
ClearApps ==
  /\ host_port' = [s \in Slugs |-> None]
  /\ UNCHANGED <<next_port, port, scan, task>>

-----------------------------------------------------------------------------
ScanStep == SkipClaimed \/ FindFree \/ \E t \in Tasks : ReturnPort(t) \/ ReturnError(t)

Next ==
  \/ \E t \in Tasks, p \in Projects : ReadRecord(t, p) \/ NeedPort(t, p) \/ Restart(t, p)
  \/ \E p \in Projects : Remove(p)
  \/ \E t \in Tasks : StorePort(t) \/ GiveUp(t) \/ BeginScan(t)
  \/ ScanStep
  \/ \E s \in Slugs : AllocateAppPort(s)
  \/ ClearApps

\* allocate_port runs to its end without awaiting.
Spec == Init /\ [][Next]_vars /\ WF_vars(ScanStep)

-----------------------------------------------------------------------------
(* Properties *)

\* How far round the range b lies from a.
Distance(a, b) == IF b >= a THEN b - a ELSE b - a + RangeSize

TaskState ==
  [at : {"idle"}] \cup [at : {"allocate", "scan"}, project : Projects]
    \cup [at : {"store"}, project : Projects, port : PortRange \cup {None}]

\* Every port the project store keeps, examines or hands out is in its range.
TypeOK ==
  /\ next_port \in PortRange
  /\ port \in [Projects -> PortRange \cup {None}]
  /\ scan \in [pc : {"idle", "scanning", "found", "full"}, port : PortRange,
               attempts : 0 .. RangeSize]
  /\ task \in [Tasks -> TaskState]
  /\ host_port \in [Slugs -> (FirstAppPort .. TopPort) \cup {None}]

\* allocate_port says "all ports in range are claimed" only when they are: the
\* bound on the attempts does not cut the scan short of the last port.
FullMeansClaimed == scan.pc = "full" => PortRange \subseteq Claimed

\* The port found is the first free one from next_port on, round the range: a
\* port that was released comes up again after every other free port.
FirstFreeIsTaken ==
  scan.pc = "found" =>
    /\ scan.port \notin Claimed
    /\ \A n \in PortRange \ Claimed : Distance(next_port, scan.port) <= Distance(next_port, n)

\* allocate_port keeps to its range, finds the port it should, and refuses
\* only when there is none.
AllocationIsRight == TypeOK /\ FullMeansClaimed /\ FirstFreeIsTaken

\* The scan, and with it the mutex every other command waits for, always ends.
ScanEnds == scan.pc = "scanning" ~> scan.pc = "idle"

\* "Project dev servers allocate from 3001, so apps get their own range to
\* avoid collisions" (apps/store.rs:14): no project has the port of an app.
RangesApart ==
  \A p \in Projects, s \in Slugs : port[p] # None => port[p] # host_port[s]

=============================================================================
