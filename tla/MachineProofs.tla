---------------------------- MODULE MachineProofs ----------------------------
(***************************************************************************)
(* What JsonProjectStore::allocate_port computes, for every range of       *)
(* ports, number of projects and of commands; what is kept of the virtual  *)
(* machine, for any number of processes; and what a run in a container has *)
(* come to, for any number of tasks, of handlers and of requests.          *)
(*                                                                         *)
(* The loop of allocate_port needs an invariant of its own: after k        *)
(* attempts it stands k ports behind next_port, round the range, and the k *)
(* ports it has passed are all claimed.  Nobody changes a claim while it   *)
(* runs, for every such step waits for the mutex.                          *)
(*                                                                         *)
(* Started and stopped from the tray alone there is one virtual machine at *)
(* most, and it is the one of the record, of the tray and of vfkit.pid,    *)
(* whatever fails and whenever the launcher dies.  Quit may be chosen      *)
(* beside a start or a stop; the argument is that a start which has not    *)
(* published yet leaves nothing for Quit to take, and that nothing is      *)
(* spawned once it has.                                                    *)
(*                                                                         *)
(* A run is told to have succeeded by the code of a container, and not by  *)
(* the handler that created it.  The argument ties the three together: a   *)
(* handler works for one task that waits for it; while no two tasks are on *)
(* one container the handler of a run is alone at its container, which it  *)
(* found empty and made for that run; and until the first failure the      *)
(* podman service that is there answers, so that no call is lost between.  *)
(* The service is single because a restart kills before it starts, one     *)
(* handler at a time, and a service whose socket is gone is on its way to  *)
(* be killed.                                                              *)
(***************************************************************************)
EXTENDS MachineMC, FiniteSetTheorems, TLAPS

-----------------------------------------------------------------------------
(* The allocation of ports *)

\* What the range of ports is.
LEMMA PortsGiven ==
  /\ {MinPort, MaxPort, FirstAppPort, TopPort} \subseteq Nat
  /\ MinPort <= MaxPort /\ MaxPort <= TopPort /\ FirstAppPort <= TopPort
  /\ None \notin Nat
  BY MachineAssumption DEF Ports!PortAssumption

\* The loop has passed claimed ports only, and knows how many.
LoopInv ==
  scan.pc # "idle" =>
    /\ \A n \in Ports!PortRange : Ports!Distance(next_port, n) < scan.attempts => n \in Ports!Claimed
    /\ scan.attempts < Ports!RangeSize => Ports!Distance(next_port, scan.port) = scan.attempts
    /\ scan.pc = "full" <=> scan.attempts = Ports!RangeSize
    /\ scan.pc = "found" => scan.port \notin Ports!Claimed

PortInv == Ports!TypeOK /\ LoopInv

-----------------------------------------------------------------------------
(* The range is a ring *)

\* After stays in the range: allocate_port never hands out a port beside it.
LEMMA AfterInRange == ASSUME NEW n \in Ports!PortRange PROVE Ports!After(n) \in Ports!PortRange
  BY PortsGiven DEF Ports!After, Ports!PortRange

\* A step round the range is one further from every starting point, or back
\* at it.
LEMMA AfterIsFurther ==
  ASSUME NEW a \in Ports!PortRange, NEW n \in Ports!PortRange, Ports!Distance(a, n) + 1 < Ports!RangeSize
  PROVE  Ports!Distance(a, Ports!After(n)) = Ports!Distance(a, n) + 1
  BY PortsGiven DEF Ports!After, Ports!PortRange, Ports!Distance, Ports!RangeSize

\* Every port of the range is less than its size away.
LEMMA DistanceBound ==
  ASSUME NEW a \in Ports!PortRange, NEW n \in Ports!PortRange
  PROVE  Ports!Distance(a, n) \in 0 .. Ports!RangeSize - 1
  BY PortsGiven DEF Ports!PortRange, Ports!Distance, Ports!RangeSize

\* Two ports as far from a are one port.
LEMMA DistanceInjective ==
  ASSUME NEW a \in Ports!PortRange, NEW m \in Ports!PortRange, NEW n \in Ports!PortRange,
         Ports!Distance(a, m) = Ports!Distance(a, n)
  PROVE  m = n
  BY PortsGiven DEF Ports!PortRange, Ports!Distance, Ports!RangeSize

-----------------------------------------------------------------------------
(* The invariant *)

LEMMA InitPortInv == Ports!Init => PortInv
  <1> SUFFICES ASSUME Ports!Init PROVE PortInv
    OBVIOUS
  <1>1. Ports!TypeOK
    BY PortsGiven
    DEF Ports!Init, Ports!TypeOK, Ports!TaskState, Ports!Idle, Ports!NoScan, Ports!PortRange, Ports!RangeSize
  <1>2. LoopInv
    BY DEF Ports!Init, LoopInv, Ports!NoScan
  <1> QED BY <1>1, <1>2 DEF PortInv

\* Types are kept; that the attempts stay within the range takes LoopInv.
LEMMA TypeStep == PortInv /\ [Ports!Next]_(Ports!vars) => Ports!TypeOK'
  <1> SUFFICES ASSUME Ports!TypeOK, LoopInv, [Ports!Next]_(Ports!vars) PROVE Ports!TypeOK'
    BY DEF PortInv
  <1> USE DEF Ports!TypeOK, Ports!TaskState, Ports!Idle, Ports!NoScan
  <1>0. MinPort \in Ports!PortRange /\ 0 \in 0 .. Ports!RangeSize
    BY PortsGiven DEF Ports!PortRange, Ports!RangeSize
  <1>1. ASSUME NEW t \in Tasks, NEW p \in Projects, Ports!ReadRecord(t, p) PROVE Ports!TypeOK'
    BY <1>1 DEF Ports!ReadRecord
  <1>2. ASSUME NEW t \in Tasks, NEW p \in Projects, Ports!NeedPort(t, p) PROVE Ports!TypeOK'
    BY <1>2 DEF Ports!NeedPort
  <1>3. ASSUME NEW t \in Tasks, NEW p \in Projects, Ports!Restart(t, p) PROVE Ports!TypeOK'
    BY <1>3 DEF Ports!Restart
  <1>4. ASSUME NEW p \in Projects, Ports!Remove(p) PROVE Ports!TypeOK'
    BY <1>4 DEF Ports!Remove
  <1>5. ASSUME NEW t \in Tasks, Ports!StorePort(t) PROVE Ports!TypeOK'
    BY <1>5 DEF Ports!StorePort
  <1>6. ASSUME NEW t \in Tasks, Ports!GiveUp(t) PROVE Ports!TypeOK'
    BY <1>6 DEF Ports!GiveUp
  <1>7. ASSUME NEW t \in Tasks, Ports!BeginScan(t) PROVE Ports!TypeOK'
    BY <1>7, PortsGiven DEF Ports!BeginScan, Ports!PortRange, Ports!RangeSize
  <1>8. ASSUME Ports!SkipClaimed PROVE Ports!TypeOK'
    BY <1>8, AfterInRange, PortsGiven DEF Ports!SkipClaimed, LoopInv, Ports!RangeSize
  <1>9. ASSUME Ports!FindFree PROVE Ports!TypeOK'
    BY <1>9 DEF Ports!FindFree
  <1>10. ASSUME NEW t \in Tasks, Ports!ReturnPort(t) PROVE Ports!TypeOK'
    <2>1. task[t] \in [at : {"allocate", "scan"}, project : Projects] /\ scan.port \in Ports!PortRange
      BY <1>10 DEF Ports!ReturnPort
    <2>2. task' \in [Tasks -> Ports!TaskState]
      BY <1>10, <2>1 DEF Ports!ReturnPort
    <2> QED BY <1>10, <2>1, <2>2, <1>0, AfterInRange DEF Ports!ReturnPort
  <1>11. ASSUME NEW t \in Tasks, Ports!ReturnError(t) PROVE Ports!TypeOK'
    BY <1>11, <1>0 DEF Ports!ReturnError
  <1>12. ASSUME NEW s \in Slugs, Ports!AllocateAppPort(s) PROVE Ports!TypeOK'
    BY <1>12 DEF Ports!AllocateAppPort, Ports!FreeForApps
  <1>13. ASSUME Ports!ClearApps PROVE Ports!TypeOK'
    BY <1>13 DEF Ports!ClearApps
  <1>14. ASSUME UNCHANGED Ports!vars PROVE Ports!TypeOK'
    BY <1>14 DEF Ports!vars
  <1> QED
    BY <1>1, <1>2, <1>3, <1>4, <1>5, <1>6, <1>7, <1>8, <1>9, <1>10, <1>11, <1>12, <1>13,
       <1>14
    DEF Ports!Next, Ports!ScanStep

\* Whoever waits for the mutex, and the apps, leave the loop and the claims be.
LEMMA LoopUndisturbed ==
  ASSUME LoopInv, UNCHANGED <<next_port, port, scan>>
  PROVE  LoopInv'
  BY DEF LoopInv, Ports!Claimed

LEMMA LoopStep == PortInv /\ [Ports!Next]_(Ports!vars) => LoopInv'
  <1> SUFFICES ASSUME Ports!TypeOK, LoopInv, [Ports!Next]_(Ports!vars) PROVE LoopInv'
    BY DEF PortInv
  <1>1. ASSUME Ports!Unlocked, UNCHANGED scan PROVE LoopInv'
    BY <1>1 DEF LoopInv, Ports!Unlocked
  <1>2. ASSUME NEW t \in Tasks, Ports!BeginScan(t) PROVE LoopInv'
    <2>1. /\ next_port' = next_port /\ next_port \in Ports!PortRange
          /\ scan' = [pc |-> "scanning", port |-> next_port, attempts |-> 0]
      BY <1>2 DEF Ports!BeginScan, Ports!TypeOK
    <2>2. \A n \in Ports!PortRange : ~(Ports!Distance(next_port, n) < 0)
      BY <2>1, DistanceBound, PortsGiven DEF Ports!RangeSize
    <2>3. Ports!Distance(next_port, next_port) = 0 /\ Ports!RangeSize # 0
      BY <2>1, PortsGiven DEF Ports!Distance, Ports!PortRange, Ports!RangeSize
    <2> QED BY <2>1, <2>2, <2>3 DEF LoopInv
  <1>3. ASSUME Ports!SkipClaimed PROVE LoopInv'
    <2> DEFINE k == scan.attempts
    <2>1. /\ scan.pc = "scanning" /\ scan.port \in Ports!Claimed /\ Ports!Claimed' = Ports!Claimed
          /\ next_port' = next_port /\ scan'.port = Ports!After(scan.port) /\ scan'.attempts = k + 1
          /\ scan'.pc = IF k + 1 >= Ports!RangeSize THEN "full" ELSE "scanning"
      BY <1>3 DEF Ports!SkipClaimed, Ports!Claimed
    <2>2. /\ scan.port \in Ports!PortRange /\ next_port \in Ports!PortRange
          /\ k \in Nat /\ k < Ports!RangeSize /\ Ports!RangeSize \in Nat
      BY <2>1, PortsGiven DEF Ports!TypeOK, LoopInv, Ports!RangeSize
    <2>3. Ports!Distance(next_port, scan.port) = k
      BY <2>1, <2>2 DEF LoopInv
    <2>4. ASSUME NEW n \in Ports!PortRange, Ports!Distance(next_port, n) < k + 1 PROVE n \in Ports!Claimed
      <3>1. CASE Ports!Distance(next_port, n) < k
        BY <2>1, <3>1 DEF LoopInv
      <3>2. CASE Ports!Distance(next_port, n) = k
        BY <2>1, <2>2, <2>3, <3>2, DistanceInjective
      <3> QED BY <2>2, <2>4, <3>1, <3>2, DistanceBound
    <2>5. k + 1 < Ports!RangeSize => Ports!Distance(next_port, Ports!After(scan.port)) = k + 1
      BY <2>2, <2>3, AfterIsFurther
    <2> QED BY <2>1, <2>2, <2>4, <2>5 DEF LoopInv
  <1>4. ASSUME Ports!FindFree PROVE LoopInv'
    BY <1>4 DEF Ports!FindFree, LoopInv, Ports!Claimed, Ports!TypeOK
  <1>5. ASSUME scan' = Ports!NoScan PROVE LoopInv'
    BY <1>5 DEF LoopInv, Ports!NoScan
  <1> QED
    BY <1>1, <1>2, <1>3, <1>4, <1>5, LoopUndisturbed
    DEF Ports!Next, Ports!ScanStep, Ports!ReadRecord, Ports!NeedPort, Ports!Restart, Ports!Remove, Ports!StorePort, Ports!GiveUp, Ports!ReturnPort,
        Ports!ReturnError, Ports!AllocateAppPort, Ports!ClearApps, Ports!vars

THEOREM PortInvariant == Ports!Spec => []PortInv
  <1>1. PortInv /\ [Ports!Next]_(Ports!vars) => PortInv'
    BY TypeStep, LoopStep DEF PortInv
  <1> QED BY InitPortInv, <1>1, PTL DEF Ports!Spec

-----------------------------------------------------------------------------
(* What follows *)

\* allocate_port (projects/store.rs) keeps to its range whatever the range is.
THEOREM PortTypeCorrect == Ports!Spec => []Ports!TypeOK
  <1>1. PortInv => Ports!TypeOK
    BY DEF PortInv
  <1> QED BY PortInvariant, <1>1, PTL

\* The attempts go exactly once round.
LEMMA FullIsClaimed ==
  ASSUME PortInv PROVE Ports!FullMeansClaimed
  <1> SUFFICES ASSUME Ports!TypeOK, LoopInv, scan.pc = "full", NEW n \in Ports!PortRange
               PROVE  n \in Ports!Claimed
    BY DEF PortInv, Ports!FullMeansClaimed
  <1>1. Ports!Distance(next_port, n) < scan.attempts
    BY DistanceBound, PortsGiven DEF Ports!TypeOK, LoopInv, Ports!RangeSize
  <1> QED BY <1>1 DEF LoopInv

\* No port behind the one the loop stops at is free.
LEMMA FirstIsTaken ==
  ASSUME PortInv PROVE Ports!FirstFreeIsTaken
  <1> SUFFICES ASSUME Ports!TypeOK, LoopInv, scan.pc = "found"
               PROVE  /\ scan.port \notin Ports!Claimed
                      /\ \A n \in Ports!PortRange \ Ports!Claimed :
                           Ports!Distance(next_port, scan.port) <= Ports!Distance(next_port, n)
    BY DEF PortInv, Ports!FirstFreeIsTaken
  <1>1. scan.port \notin Ports!Claimed /\ scan.attempts < Ports!RangeSize
    BY PortsGiven DEF Ports!TypeOK, LoopInv, Ports!RangeSize
  <1>2. Ports!Distance(next_port, scan.port) = scan.attempts
    BY <1>1 DEF LoopInv
  <1>3. ASSUME NEW n \in Ports!PortRange \ Ports!Claimed
        PROVE  scan.attempts <= Ports!Distance(next_port, n)
    BY DistanceBound, PortsGiven DEF LoopInv, Ports!TypeOK, Ports!RangeSize
  <1> QED BY <1>1, <1>2, <1>3

\* The error of allocate_port is true: the attempts go exactly once round.
THEOREM RefusedOnlyWhenFull == Ports!Spec => []Ports!FullMeansClaimed
  BY PortInvariant, FullIsClaimed, PTL

\* The loop finds what the definition of round-robin asks for: the first free
\* port from next_port on.
THEOREM RoundRobin == Ports!Spec => []Ports!FirstFreeIsTaken
  BY PortInvariant, FirstIsTaken, PTL

\* Together: the allocation keeps to its range, takes the first free port and
\* refuses only when there is none (allocate_port).
LEMMA AllocatedRight == PortInv => AllocationIsRight
  BY FullIsClaimed, FirstIsTaken DEF PortInv, AllocationIsRight, Ports!AllocationIsRight

\* So of every behaviour of the allocation alone.
THEOREM AllocationStaysRight == Ports!Spec => []AllocationIsRight
  BY PortInvariant, AllocatedRight, PTL

\* And of the machine, of which the allocation is a part.
THEOREM MachineAllocatesRight == MachineSpec => []AllocationIsRight
  <1>1. MachineInit => PortInv
    BY InitPortInv DEF MachineInit
  <1>2. PortInv /\ [MachineNext]_all => PortInv'
    <2>1. [MachineNext]_all => [Ports!Next]_(Ports!vars)
      BY DEF MachineNext, all, portVars, Ports!vars
    <2> QED BY <2>1, TypeStep, LoopStep DEF PortInv
  <1> QED BY <1>1, <1>2, AllocatedRight, PTL DEF MachineSpec

-----------------------------------------------------------------------------
(* The virtual machine *)

StartAt(labels) == pc["tray_start"] \in labels
Resting == pc["tray_start"] = "idle" /\ pc["tray_stop"] = "idle"
NotQuitting == pc["quit"] = "idle"

Unpublished == {"check", "send", "prepare", "reap", "spawn", "probe", "ping", "publish",
                "fail", "kill", "rmpid", "err"}
StopLabels == {"idle", "stopping", "take", "kill", "rmpid", "stopped", "ok"}

\* Only the three tasks of the menu run, and the tray tells which of the two
\* it shows.
OneAtATime ==
  /\ pc["setup"] = "idle" /\ pc["init_vm"] = "idle"
  /\ StartAt(Unpublished \cup {"idle", "running", "ok"})
  /\ pc["tray_stop"] \in StopLabels /\ pc["quit"] \in StopLabels
  /\ ~StartAt({"idle"}) => pc["tray_stop"] = "idle" /\ tray = "Starting"
  /\ pc["tray_stop"] # "idle" => tray = "Stopping"

\* A start that has not published its Vm is the only one that holds any.
NothingToTake ==
  StartAt(Unpublished) => manager = None /\ pc["quit"] \notin {"kill", "rmpid"}

\* Whoever may be alone with a process is: vfkit.pid, the published gateway,
\* a start that has spawned it, a stop that has taken it.
OneProcess ==
  /\ alive \subseteq {pidfile}
  /\ manager # None => alive \subseteq {manager}
  /\ StartAt({"spawn"}) => alive = {}
  /\ StartAt({"probe", "ping", "publish"}) => alive \subseteq {vm["tray_start"]} /\ vm["tray_start"] # None
  /\ StartAt({"publish"}) => vm["tray_start"] \in alive
  /\ \A t \in Tray!Actors : pc[t] = "kill" => alive \subseteq {vm[t]}
  /\ \A t \in Tray!Actors : pc[t] = "rmpid" => alive = {}

\* What the accounts say at each point where a start or a stop may end.
Accounts ==
  NotQuitting =>
    /\ StartAt({"check"}) => status \in {"Stopped", "Error"}
    /\ StartAt({"running"}) => manager # None /\ manager \in alive
    /\ StartAt({"ok"}) => manager # None /\ manager \in alive /\ status = "Running"
    /\ StartAt({"err"}) => status = "Error"
    /\ pc["tray_stop"] \in {"kill", "rmpid", "stopped", "ok"} => manager = None
    /\ pc["tray_stop"] = "ok" => status = "Stopped"
    /\ Resting => /\ status \in {"Running", "Stopped", "Error"} /\ tray \in {"Running", "Stopped"}
                  /\ (status = "Running") <=> (manager # None)
                  /\ (status = "Running") <=> (tray = "Running")
                  /\ manager # None => manager \in alive

VmInv == Tray!TypeOK /\ OneAtATime /\ NothingToTake /\ OneProcess /\ Accounts

-----------------------------------------------------------------------------
LEMMA InitVmInv == Tray!Init => VmInv
<1> SUFFICES ASSUME Tray!Init PROVE VmInv
  OBVIOUS
<1>1. \A t \in Tray!Actors : pc[t] = "idle" /\ vm[t] = None
  BY DEF Tray!Init, Tray!Launched
<1>2. Tray!TypeOK
  BY <1>1 DEF Tray!Init, Tray!Launched, Tray!TypeOK, Tray!Starting
<1>3. OneAtATime /\ NothingToTake /\ OneProcess /\ Accounts
  BY <1>1 DEF Tray!Init, OneAtATime, NothingToTake, OneProcess, Accounts, Tray!Actors, Tray!StartTasks,
     Tray!StopTasks, StartAt, Unpublished, StopLabels, NotQuitting, Resting
<1>4. QED
  BY <1>2, <1>3 DEF VmInv

-----------------------------------------------------------------------------
(* Each step of each task keeps the invariant. *)

USE DEF Tray!At, Tray!Goto, Tray!Send, Tray!Actors, Tray!StartTasks, Tray!StopTasks, Tray!Starting,
        Tray!waiter, StartAt, Unpublished, StopLabels, NotQuitting, Resting,
        VmInv, Tray!TypeOK, OneAtATime, NothingToTake, OneProcess, Accounts

\* A start: it reaps what an earlier session left before it spawns, holds its
\* Vm alone until it publishes it, and publishes only one that answers.
LEMMA StartKeeps ==
  ASSUME VmInv, Tray!TaskStep("tray_start")
  PROVE  VmInv'
<1>1. CASE Tray!CheckStatus("tray_start")
  BY <1>1 DEF Tray!CheckStatus
<1>2. CASE Tray!SendStarting("tray_start")
  BY <1>2 DEF Tray!SendStarting
<1>3. CASE Tray!Prepare("tray_start")
  BY <1>3 DEF Tray!Prepare
<1>4. CASE Tray!Reap("tray_start")
  BY <1>4 DEF Tray!Reap
<1>5. CASE Tray!Spawn("tray_start")
  BY MachineAssumption, <1>5 DEF Tray!VmLifecycleAssumption, Tray!Spawn
<1>6. CASE Tray!Probe("tray_start")
  BY <1>6 DEF Tray!Probe
<1>7. CASE Tray!Ping("tray_start")
  BY <1>7 DEF Tray!Ping
<1>8. CASE Tray!Publish("tray_start")
  BY <1>8 DEF Tray!Publish
<1>9. CASE Tray!SendRunning("tray_start")
  BY <1>9 DEF Tray!SendRunning
<1>10. CASE Tray!SendError("tray_start")
  BY <1>10 DEF Tray!SendError
<1>11. CASE Tray!FinishStart("tray_start")
  BY <1>11 DEF Tray!FinishStart
<1>12. CASE Tray!Kill("tray_start")
  BY <1>12 DEF Tray!Kill
<1>13. CASE Tray!RemovePidfile("tray_start")
  BY <1>13 DEF Tray!RemovePidfile
<1>14. QED
  BY <1>1, <1>2, <1>3, <1>4, <1>5, <1>6, <1>7, <1>8, <1>9, <1>10, <1>11, <1>12, <1>13 DEF Tray!TaskStep, Tray!StartStep

\* A stop of the tray: it takes the published Vm, which is then nobody else's.
LEMMA TrayStopKeeps ==
  ASSUME VmInv, Tray!TaskStep("tray_stop")
  PROVE  VmInv'
<1>1. CASE Tray!SendStopping("tray_stop")
  BY <1>1 DEF Tray!SendStopping
<1>2. CASE Tray!Take("tray_stop")
  BY <1>2 DEF Tray!Take
<1>3. CASE Tray!Kill("tray_stop")
  BY <1>3 DEF Tray!Kill
<1>4. CASE Tray!RemovePidfile("tray_stop")
  BY <1>4 DEF Tray!RemovePidfile
<1>5. CASE Tray!SendStopped("tray_stop")
  BY <1>5 DEF Tray!SendStopped
<1>6. CASE Tray!FinishTrayStop
  BY <1>6 DEF Tray!FinishTrayStop
<1>7. QED
  BY <1>1, <1>2, <1>3, <1>4, <1>5, <1>6 DEF Tray!TaskStep, Tray!StopStep

\* The end of the launcher, or its death: the processes and vfkit.pid stay.
LEMMA DownKeeps ==
  ASSUME VmInv, Tray!Down
  PROVE  VmInv'
  BY DEF Tray!Down, Tray!Launched

\* Quit takes what is published, beside a start that is then past publishing,
\* or else finds nothing.
LEMMA QuitKeeps ==
  ASSUME VmInv, Tray!TaskStep("quit")
  PROVE  VmInv'
<1>1. CASE Tray!SendStopping("quit")
  BY <1>1 DEF Tray!SendStopping
<1>2. CASE Tray!Take("quit")
  BY <1>2 DEF Tray!Take
<1>3. CASE Tray!Kill("quit")
  BY <1>3 DEF Tray!Kill
<1>4. CASE Tray!RemovePidfile("quit")
  BY <1>4 DEF Tray!RemovePidfile
<1>5. CASE Tray!SendStopped("quit")
  BY <1>5 DEF Tray!SendStopped
<1>6. CASE Tray!Exit
  BY <1>6, DownKeeps DEF Tray!Exit
<1>7. QED
  BY <1>1, <1>2, <1>3, <1>4, <1>5, <1>6 DEF Tray!TaskStep, Tray!StopStep

\* A click begins a start where nothing is published, and a stop where
\* something is; neither is offered once Quit is chosen.
LEMMA ClickKeeps ==
  ASSUME VmInv, Tray!TrayStart \/ Tray!TrayStop \/ Tray!Quit
  PROVE  VmInv'
<1>1. CASE Tray!TrayStart
  BY <1>1 DEF Tray!TrayStart, Tray!MayClick
<1>2. CASE Tray!TrayStop
  BY <1>2 DEF Tray!TrayStop, Tray!MayClick
<1>3. CASE Tray!Quit
  BY <1>3 DEF Tray!Quit, Tray!MayClick
<1>4. QED
  BY <1>1, <1>2, <1>3

\* A deep link that waits changes nothing of the virtual machine.
LEMMA LinkKeeps ==
  ASSUME VmInv, Tray!LinkArrives \/ Tray!Link \/ Tray!LinkTimesOut
  PROVE  VmInv'
<1>1. UNCHANGED <<up, status, manager, tray, pc, vm, alive, pidfile>>
  BY DEF Tray!LinkArrives, Tray!Link, Tray!LinkChecks, Tray!LinkWakes, Tray!LinkTimesOut
<1>2. link' \in {"none", "check", "sleep", "ready", "gave_up"} /\ changed' \in BOOLEAN /\ booted' \in BOOLEAN
  BY DEF Tray!LinkArrives, Tray!Link, Tray!LinkChecks, Tray!LinkWakes, Tray!LinkTimesOut
<1>3. QED
  BY <1>1, <1>2

LEMMA StepKeeps ==
  ASSUME VmInv, Tray!Next
  PROVE  VmInv'
<1>1. CASE Tray!InitVm
  BY <1>1 DEF Tray!InitVm
<1>2. ASSUME NEW t \in {"setup", "init_vm"}, Tray!TaskStep(t) PROVE FALSE
  BY <1>2 DEF Tray!TaskStep, Tray!StartStep, Tray!StopStep, Tray!CheckStatus, Tray!SendStarting,
     Tray!Prepare, Tray!Reap, Tray!Spawn, Tray!Probe, Tray!Ping, Tray!Publish, Tray!SendRunning,
     Tray!SendError, Tray!FinishStart, Tray!Kill, Tray!RemovePidfile, Tray!SetupBegin,
     Tray!AutoStartInstalled
<1>3. CASE \E t \in Tray!Actors : Tray!TaskStep(t)
  BY <1>2, <1>3, StartKeeps, TrayStopKeeps, QuitKeeps
<1>4. CASE Tray!Crash
  BY <1>4, DownKeeps DEF Tray!Crash
<1>5. CASE Tray!Launch
  BY <1>5 DEF Tray!Launch
<1>6. QED
  BY <1>1, <1>3, <1>4, <1>5, ClickKeeps, LinkKeeps DEF Tray!Next

-----------------------------------------------------------------------------
\* What the invariant says of the virtual machine.
LEMMA KeptByInvariant ==
  ASSUME VmInv
  PROVE  Tray!OneVmIsKept
<1>1. Tray!AtMostOneVm
  <2>1. alive = {} \/ alive = {pidfile}
    OBVIOUS
  <2>2. Cardinality({}) = 0 /\ Cardinality({pidfile}) = 1
    BY FS_EmptySet, FS_Singleton
  <2>3. Cardinality(alive) = 0 \/ Cardinality(alive) = 1
    BY <2>1, <2>2, Zenon
  <2>4. Tray!Cardinality(alive) = Cardinality(alive)
    BY Zenon DEF Tray!Cardinality, Cardinality
  <2>5. QED
    BY <2>3, <2>4 DEF Tray!AtMostOneVm
<1>2. Tray!OrphansAreReapable /\ Tray!SettledAgrees
  BY DEF Tray!OrphansAreReapable, Tray!SettledAgrees
<1>3. QED
  BY <1>1, <1>2 DEF Tray!OneVmIsKept

HIDE DEF VmInv

\* Of the virtual machine alone.
THEOREM VmInvariant == Tray!Spec => []VmInv
<1>1. VmInv /\ [Tray!Next]_(Tray!vars) => VmInv'
  BY StepKeeps DEF Tray!vars, VmInv
<1>2. QED
  BY InitVmInv, <1>1, PTL DEF Tray!Spec

\* Whatever dies, and whenever: at most one machine runs, the pid file leads to
\* it, and what is left of a launcher can be ended by the next (VmLifecycle).
THEOREM OneVmIsAlwaysKept == Tray!Spec => []Tray!OneVmIsKept
  BY VmInvariant, KeptByInvariant, PTL

\* And of the machine, of which the virtual machine is a part.
THEOREM MachineKeepsOneVm == MachineSpec => []OneVmIsKept
<1>1. MachineInit => (part = "tray" => VmInv)
  BY InitVmInv DEF MachineInit
<1>2. (part = "tray" => VmInv) /\ [MachineNext]_all => (part = "tray" => VmInv)'
  BY StepKeeps DEF MachineNext, all, vmVars, VmInv
<1>3. (part = "tray" => VmInv) => OneVmIsKept
  BY KeptByInvariant DEF OneVmIsKept
<1>4. QED
  BY <1>1, <1>2, <1>3, PTL DEF MachineSpec

HIDE DEF Tray!At, Tray!Goto, Tray!Send, Tray!Actors, Tray!StartTasks, Tray!StopTasks, Tray!Starting,
        Tray!waiter, StartAt, Unpublished, StopLabels, NotQuitting, Resting,
        Tray!TypeOK, OneAtATime, NothingToTake, OneProcess, Accounts

-----------------------------------------------------------------------------
(* The containers of the guest *)

Restart == {"kill", "unlink", "spawn", "wait"}
GuestCalls == {"start", "status", "health", "remove"}
NativeJobs == {"create", "launch", "end", "tidy", "make"}
BuildJobs == {"run", "poll", "code", "clean", "create", "launch", "end", "tidy"}
DevJobs == {"start", "remove", "make"}

Boxes == [st : {"none", "created", "running", "exited"}, r : 0..Requests, ok : BOOLEAN]
Services == [up : SUBSET Nat, sock : Nat, hung : BOOLEAN]
ThreadStates == [op : {"free", "boot"} \cup GuestCalls,
                 pc : {"free", "check", "op", "create", "launch"} \cup Restart,
                 name : Names, r : 0..Requests, h : Hosts \cup {0}, pid : Nat]
HostStates == [job : {"none"} \cup BuildJobs \cup DevJobs,
               pc : {"idle", "wait", "run", "start", "remove"} \cup NativeJobs,
               name : Names, r : 0..Requests, ans : {"none", "done", "err"}, ok : BOOLEAN,
               polls : 0..MaxPolls]

GuestTypes ==
  /\ backend \in {"vm", "linux", "wsl"}
  /\ box \in [Names -> Boxes]
  /\ podman \in Services /\ IsFiniteSet(podman.up)
  /\ gen \in {1, 2} /\ conn \in 0..gen
  /\ thread \in [Threads -> ThreadStates]
  /\ host \in [Hosts -> HostStates]
  /\ runs \in [n : 0..Requests, done : SUBSET Nat, built : SUBSET Nat]
  /\ runs.built \subseteq 1..runs.n

\* A handler of the agent: at the podman service, or at its operation.
ThreadInShape(c) ==
  /\ c.pc = "free" <=> c.op = "free"
  /\ c.op \in {"free", "boot"} => c.h = 0
  /\ c.op = "boot" => c.pc \in {"check"} \cup Restart
  /\ c.pc \in {"create", "launch"} => c.op = "start"
  /\ c.pid # 0 => c.pc = "wait"
  /\ backend # "vm" => c.pc = "free"

\* A task of the launcher: what it is at, and on which container.
HostInShape(w) ==
  /\ w.pc = "idle" <=> w.job = "none"
  /\ w.pc \in {"idle", "wait"} \/ w.pc = w.job
  /\ w.job \in BuildJobs => w.name = "build"
  /\ w.job \in DevJobs => w.name = "dev"
  /\ w.job \in {"poll", "code", "clean"} => w.pc = "wait"
  /\ w.pc = "wait" => backend = "vm" /\ w.job \in {"run", "start", "remove", "poll", "code", "clean"}
  /\ w.job \in {"create", "launch", "end", "tidy"} => backend = "linux"
  /\ w.pc # "wait" => w.ans = "none"
  /\ w.pc # "idle" => w.r \in 1..runs.n
  /\ w.job = "run" => w.polls = 0

GuestShape ==
  /\ GuestTypes
  /\ \A t \in Threads : ThreadInShape(thread[t])
  /\ \A h \in Hosts : HostInShape(host[h])

Asks(op, job) ==
  \/ op = "start" /\ job \in {"run", "start"}
  \/ op = "status" /\ job = "poll"
  \/ op = "health" /\ job = "code"
  \/ op = "remove" /\ job \in {"clean", "remove"}

\* A handler works for one task, that waits for it.
Linked(c) ==
  c.h # 0 =>
    /\ Waiting(c.h) /\ Asks(c.op, host[c.h].job) /\ c.name = host[c.h].name
    /\ c.op = "start" => c.r = host[c.h].r

HostsApart ==
  \A g, h \in Hosts : g # h /\ host[g].pc # "idle" /\ host[h].pc # "idle" => host[g].name # host[h].name

\* A task has one handler, and a handler a task unless that has given up; no two
\* tasks are on one container; and the agent is the first there was.
GuestLink ==
  /\ \A t \in Threads : Linked(thread[t])
  /\ \A t, u \in Threads : t # u /\ thread[t].h # 0 => thread[u].h # thread[t].h
  /\ Without({"late"}) => \A t \in Threads : thread[t].op \in GuestCalls => thread[t].h # 0
  /\ Without({"agent"}) => gen = 1
  /\ Without({"both"}) => HostsApart

Solo == Without({"race"}) /\ ~({"podman", "agent"} \subseteq mishaps)

\* One handler at a time restarts the service.
OneRestarts == \A t, u \in Threads : Restarting(t) /\ Restarting(u) => t = u

OneUp == (\A p, q \in podman.up : p = q) /\ 0 \notin podman.up

\* It starts one only when there is none.
NoneToStart ==
  \A t \in Threads : At(t, "spawn") \/ (At(t, "unlink") /\ thread[t].op # "boot") => podman.up = {}

\* Before the first failure a service that is there answers.
Answering ==
  "podman" \notin mishaps =>
    /\ podman.up # {} => SocketAlive
    /\ \A t \in Threads : thread[t].pc \in {"kill", "unlink"} => podman.up = {}

\* After it one that has lost its socket is about to be killed.
Doomed ==
  "podman" \in mishaps /\ podman.sock = 0 /\ podman.up # {} =>
    \E t \in Threads : At(t, "kill") /\ thread[t].op = "boot"

SoloService == OneRestarts /\ OneUp /\ NoneToStart /\ Answering /\ Doomed

CalmService == \A t \in Threads : thread[t].pc \in {"op", "create", "launch", "wait"} => SocketAlive

GuestService == (Solo => SoloService) /\ (mishaps = {} => CalmService)

\* What the container holds that its command left, and how it ended.
ExitsTold ==
  LET b == box["build"] IN b.st = "exited" /\ b.ok /\ b.r # 0 => b.r \in runs.done

\* A run begins with no container there.
FreshRun(w) == w.job = "run" /\ w.pc = "run" => box["build"].st = "none"

\* What a run in the virtual machine has come to, as long as nothing goes wrong.
VmRun(w) ==
  LET b == box["build"] IN
  /\ w.job = "run" /\ w.ans # "none" => w.ans = "done" /\ b.st \in {"running", "exited"} /\ b.r = w.r
  /\ w.job = "poll" => w.ans # "err" /\ b.st \in {"running", "exited"} /\ b.r = w.r
  /\ w.job = "poll" /\ w.ans = "done" /\ ~w.ok => b.st = "exited"
  /\ w.job = "code" => w.ans # "err" /\ b.st = "exited" /\ b.r = w.r
  /\ w.job = "code" /\ w.ans = "done" /\ w.ok => b.ok
  /\ w.job = "clean" /\ w.ans # "none" => b.st = "none"

\* What its handler has.
VmHandler(c) ==
  LET b == box["build"] IN
  c.h # 0 /\ c.name = "build" /\ c.op = "start" =>
    IF c.pc = "launch" THEN b.st = "created" /\ b.r = c.r ELSE b.st = "none"

\* What a run on Linux has come to.
LinuxRun(w) ==
  LET b == box["build"] IN
  /\ w.job = "create" => b.st = "none"
  /\ w.job = "launch" => b.st = "created" /\ b.r = w.r
  /\ w.job = "end" => b.st \in {"running", "exited"} /\ b.r = w.r

FreshRuns == mishaps = {} => \A h \in Hosts : FreshRun(host[h])
VmRuns ==
  mishaps = {} /\ backend = "vm" => (\A h \in Hosts : VmRun(host[h])) /\ \A t \in Threads : VmHandler(thread[t])
LinuxRuns == Without({"both"}) => \A h \in Hosts : LinuxRun(host[h])

GuestRun == ExitsTold /\ FreshRuns /\ VmRuns /\ LinuxRuns /\ SuccessIsReal /\ NothingLeft

\* The launcher's own podman has no service.
NoneOnHost == backend # "vm" => podman.up = {}

GuestInv == GuestShape /\ GuestLink /\ GuestService /\ GuestRun /\ NoneOnHost

-----------------------------------------------------------------------------
(* Its types and shapes *)

\* What the constants of the containers are.
LEMMA ContainersGiven == ContainersAssumption
  BY MachineAssumption

USE ContainersGiven DEF Names

\* A number below m + 1 that is in none of three sets with m elements between them.
LEMMA FreshPid ==
  ASSUME GuestTypes
  PROVE  NewPid \in Nat \ {0} /\ NewPid \notin podman.up
<1> DEFINE pids == {thread[t].pid : t \in Threads}
           taken == podman.up \cup {podman.sock} \cup pids
           last == Cardinality(podman.up) + Cardinality(Threads) + 2
<1>1. /\ IsFiniteSet(podman.up) /\ IsFiniteSet(Threads) /\ podman.up \in SUBSET Nat
      /\ Cardinality(podman.up) \in Nat /\ Cardinality(Threads) \in Nat
  BY FS_CardinalityType DEF GuestTypes, Services, ContainersAssumption
<1>2. IsFiniteSet(pids) /\ Cardinality(pids) <= Cardinality(Threads) /\ Cardinality(pids) \in Nat
  <2> DEFINE f == [t \in Threads |-> thread[t].pid]
  <2>1. f \in Surjection(Threads, pids)
    BY DEF Surjection
  <2> HIDE DEF f, pids
  <2>2. QED
    BY <1>1, <2>1, FS_Surjection, FS_CardinalityType
<1>4. /\ IsFiniteSet(podman.up \cup {podman.sock}) 
      /\ Cardinality(podman.up \cup {podman.sock}) \in Nat
      /\ Cardinality(podman.up \cup {podman.sock}) <= Cardinality(podman.up) + 1
  <2>1. /\ IsFiniteSet(podman.up \cup {podman.sock})
        /\ \/ Cardinality(podman.up \cup {podman.sock}) = Cardinality(podman.up)
           \/ Cardinality(podman.up \cup {podman.sock}) = Cardinality(podman.up) + 1
    BY <1>1, FS_AddElement, Zenon
  <2>2. QED
    BY <1>1, <2>1, FS_CardinalityType
<1>5. IsFiniteSet(taken) /\ Cardinality(taken) \in Nat /\ Cardinality(taken) < last
  <2> HIDE DEF pids
  <2>1. /\ IsFiniteSet((podman.up \cup {podman.sock}) \cap pids)
        /\ Cardinality((podman.up \cup {podman.sock}) \cap pids) \in Nat
    BY <1>2, <1>4, FS_Intersection, FS_CardinalityType
  <2>2. /\ IsFiniteSet(taken)
        /\ Cardinality(taken) = Cardinality(podman.up \cup {podman.sock}) + Cardinality(pids)
                                - Cardinality((podman.up \cup {podman.sock}) \cap pids)
    BY <1>2, <1>4, FS_Union
  <2> HIDE DEF taken
  <2>3. QED
    BY <1>1, <1>2, <1>4, <2>1, <2>2, FS_CardinalityType
<1>6. last \in Nat /\ IsFiniteSet(1..last) /\ Cardinality(1..last) = last
  <2>1. last \in Nat
    BY <1>1
  <2> HIDE DEF last
  <2>2. 1 \in Int /\ last \in Int
    BY <2>1
  <2>3. QED
    BY <2>1, <2>2, FS_Interval
<1>7. ~(1..last \subseteq taken)
  <2> HIDE DEF last, taken
  <2>1. SUFFICES ASSUME 1..last \subseteq taken PROVE FALSE
    OBVIOUS
  <2>2. Cardinality(1..last) <= Cardinality(taken)
    BY <1>5, <2>1, FS_Subset
  <2>3. QED
    BY <1>5, <1>6, <2>2
<1>8. \E p \in 1..last : p \notin taken
  BY <1>7
<1>9. NewPid \in 1..last /\ NewPid \notin taken
  BY <1>8 DEF NewPid
<1>10. QED
  BY <1>6, <1>9

USE DEF GuestCalls, NativeJobs, BuildJobs, DevJobs, Restart, Boxes, Services, ThreadStates, HostStates

\* A request takes a free handler, or fails at once over a connection that is gone.
AskedOf(h, op, job) ==
  [host[h] EXCEPT !.pc = "wait", !.job = job, !.ans = "none", !.ok = FALSE,
                  !.polls = IF op = "status" THEN @ + 1 ELSE @]
NewThread(h, op) ==
  [op |-> op, pc |-> "check", name |-> host[h].name, r |-> IF op = "start" THEN host[h].r ELSE 0,
   h |-> h, pid |-> 0]

\* What a request does.
LEMMA AskGives ==
  ASSUME GuestShape, NEW h \in Hosts, NEW op \in GuestCalls, NEW job \in BuildJobs \cup DevJobs,
         Ask(h, op, job)
  PROVE  \/ /\ conn' = gen /\ host' = [host EXCEPT ![h] = AskedOf(h, op, job)]
            /\ \E t \in Threads : At(t, "free") /\ thread' = [thread EXCEPT ![t] = NewThread(h, op)]
         \/ /\ UNCHANGED <<conn, thread>> /\ conn \notin {0, gen}
            /\ host' = [host EXCEPT ![h] = [AskedOf(h, op, job) EXCEPT !.ans = "err"]]
<1>1. AskedOf(h, op, job).name = host[h].name /\ AskedOf(h, op, job).r = host[h].r
  BY DEF AskedOf, GuestShape, GuestTypes
<1>2. CASE (IF host[h].ans = "err" THEN 0 ELSE conn) \in {0, gen}
  BY <1>1, <1>2 DEF Ask, AskedOf, NewThread
<1>3. CASE (IF host[h].ans = "err" THEN 0 ELSE conn) \notin {0, gen}
  BY <1>3 DEF Ask, AskedOf
<1>4. QED
  BY <1>2, <1>3

\* One handler changes.
LEMMA ThreadSet ==
  ASSUME GuestShape, NEW t \in Threads, NEW c \in ThreadStates, ThreadInShape(c),
         thread' = [thread EXCEPT ![t] = c], backend' = backend
  PROVE  thread' \in [Threads -> ThreadStates] /\ \A u \in Threads : ThreadInShape(thread[u])'
<1>1. thread \in [Threads -> ThreadStates] /\ \A u \in Threads : ThreadInShape(thread[u])
  BY DEF GuestShape, GuestTypes
<1>2. thread' \in [Threads -> ThreadStates]
  BY <1>1
<1>3. \A u \in Threads : thread'[u] = c \/ thread'[u] = thread[u]
  BY <1>1
<1>4. QED
  BY <1>1, <1>2, <1>3 DEF ThreadInShape

\* One task changes.
LEMMA HostSet ==
  ASSUME GuestShape, NEW h \in Hosts, NEW w \in HostStates, HostInShape(w)',
         host' = [host EXCEPT ![h] = w], backend' = backend,
         runs'.n = runs.n \/ runs'.n = runs.n + 1
  PROVE  host' \in [Hosts -> HostStates] /\ \A g \in Hosts : HostInShape(host[g])'
<1>1. host \in [Hosts -> HostStates] /\ (\A g \in Hosts : HostInShape(host[g])) /\ runs.n \in Nat
  BY DEF GuestShape, GuestTypes, ContainersAssumption
<1>2. host' \in [Hosts -> HostStates]
  BY <1>1
<1>3. \A g \in Hosts : host'[g] = w \/ host'[g] = host[g]
  BY <1>1
<1>4. \A g \in Hosts : HostInShape(host[g]) => (host[g].pc # "idle" => host[g].r \in 1..runs'.n)
  BY <1>1 DEF HostInShape
<1>5. \A g \in Hosts : host'[g] = host[g] => HostInShape(host[g])'
  BY <1>1, <1>4 DEF HostInShape
<1>6. QED
  BY <1>2, <1>3, <1>5

\* Free handlers and idle tasks are in shape.
LEMMA RestInShape ==
  ASSUME GuestTypes
  PROVE  /\ FreeThread \in ThreadStates /\ ThreadInShape(FreeThread)
         /\ IdleHost \in HostStates /\ HostInShape(IdleHost)
         /\ NoBox \in Boxes /\ Left \in Boxes
  BY DEF FreeThread, IdleHost, NoBox, Left, ThreadInShape, HostInShape, ContainersAssumption, GuestTypes

\* An answer frees the handler and reaches the task that waits.
LEMMA ReplyGives ==
  ASSUME GuestShape, GuestLink, NEW t \in Threads, NEW ans \in {"done", "err"}, NEW ok \in BOOLEAN,
         Reply(t, ans, ok)
  PROVE  /\ thread' = [thread EXCEPT ![t] = FreeThread]
         /\ thread[t].h = 0 => host' = host
         /\ thread[t].h # 0 =>
              /\ thread[t].h \in Hosts /\ Waiting(thread[t].h)
              /\ host' = [host EXCEPT ![thread[t].h] = [host[thread[t].h] EXCEPT !.ans = ans, !.ok = ok]]
<1>1. thread[t].h \in Hosts \cup {0}
  BY DEF GuestShape, GuestTypes
<1>2. thread[t].h # 0 => Waiting(thread[t].h)
  BY DEF GuestLink, Linked
<1>3. QED
  BY <1>1, <1>2 DEF Reply

\* The answer keeps the shape.
LEMMA ReplyInShape ==
  ASSUME GuestShape, GuestLink, NEW t \in Threads, NEW ans \in {"done", "err"}, NEW ok \in BOOLEAN,
         Reply(t, ans, ok), backend' = backend, runs' = runs
  PROVE  /\ thread' \in [Threads -> ThreadStates] /\ \A u \in Threads : ThreadInShape(thread[u])'
         /\ host' \in [Hosts -> HostStates] /\ \A g \in Hosts : HostInShape(host[g])'
<1>1. thread' \in [Threads -> ThreadStates] /\ \A u \in Threads : ThreadInShape(thread[u])'
  BY ReplyGives, ThreadSet, RestInShape DEF GuestShape
<1>2. CASE thread[t].h = 0
  <2>1. host' = host /\ \A g \in Hosts : HostInShape(host[g])
    BY <1>2, ReplyGives DEF GuestShape
  <2>2. QED
    BY <1>1, <2>1 DEF GuestShape, GuestTypes, HostInShape
<1>3. CASE thread[t].h # 0
  <2>1. PICK h : h = thread[t].h
    OBVIOUS
  <2>5. h \in Hosts /\ Waiting(h) /\ host' = [host EXCEPT ![h] = [host[h] EXCEPT !.ans = ans, !.ok = ok]]
    BY <1>3, <2>1, ReplyGives
  <2>0. PICK w : w = [host[h] EXCEPT !.ans = ans, !.ok = ok]
    OBVIOUS
  <2>2. host[h] \in HostStates /\ HostInShape(host[h])
    BY <2>5 DEF GuestShape, GuestTypes
  <2>3. w \in HostStates /\ HostInShape(w)'
    BY <2>0, <2>5, <2>2 DEF HostInShape, Waiting
  <2>4. QED
    BY <1>1, <2>0, <2>5, <2>3, HostSet
<1>4. QED
  BY <1>2, <1>3

\* A step of a handler that moves its label.
LEMMA GoInShape ==
  ASSUME GuestShape, NEW t \in Threads, NEW label, Go(t, label), backend' = backend,
         label \in {"check", "op", "create", "launch"} \cup Restart,
         thread[t].pc \notin {"free", "wait"},
         thread[t].op = "boot" => label \in {"check"} \cup Restart,
         label \in {"create", "launch"} => thread[t].op = "start"
  PROVE  thread' \in [Threads -> ThreadStates] /\ \A u \in Threads : ThreadInShape(thread[u])'
<1> DEFINE c == [thread[t] EXCEPT !.pc = label]
<1>1. thread[t] \in ThreadStates /\ ThreadInShape(thread[t])
  BY DEF GuestShape, GuestTypes
<1>2. c \in ThreadStates /\ ThreadInShape(c)
  BY <1>1 DEF ThreadInShape
<1>3. thread' = [thread EXCEPT ![t] = c]
  BY DEF Go
<1> HIDE DEF c
<1>4. QED
  BY <1>2, <1>3, ThreadSet

\* The steps of the agent's handlers keep the shape.
LEMMA HandlerInShape ==
  ASSUME GuestShape, GuestLink, NEW t \in Threads, Handler(t)
  PROVE  GuestShape'
<1> USE DEF At
<1>1. thread[t] \in ThreadStates /\ ThreadInShape(thread[t])
  BY DEF GuestShape, GuestTypes
<1>2. /\ backend' = backend /\ gen' = gen /\ conn' = conn /\ runs' = runs
  BY DEF Handler, Check, Kill, Unlink, Spawn, Wait, NoService, Reuse, CreateInGuest, Launch, Status, Health, RemoveInGuest
<1>3. /\ host' = host => host' \in [Hosts -> HostStates] /\ \A g \in Hosts : HostInShape(host[g])'
  BY <1>2 DEF GuestShape, GuestTypes, HostInShape
<1>4. /\ podman' \in Services /\ IsFiniteSet(podman'.up)
  <2>0. podman \in Services /\ IsFiniteSet(podman.up) /\ thread[t].pid \in Nat
    BY <1>1 DEF GuestShape, GuestTypes
  <2>1. CASE Spawn(t)
    <3>1. NewPid \in Nat
      BY FreshPid DEF GuestShape
    <3>2. IsFiniteSet(podman.up \cup {NewPid})
      BY <2>0, FS_AddElement
    <3>3. QED
      BY <2>0, <2>1, <3>1, <3>2 DEF Spawn
  <2>2. CASE Wait(t)
    <3>1. IsFiniteSet(podman.up \ {thread[t].pid})
      BY <2>0, FS_RemoveElement
    <3>2. QED
      BY <2>0, <2>2, <3>1 DEF Wait
  <2>3. CASE Kill(t) \/ Unlink(t)
    BY <2>0, <2>3, FS_EmptySet DEF Kill, Unlink
  <2>4. CASE podman' = podman
    BY <2>0, <2>4
  <2>5. QED
    BY <2>1, <2>2, <2>3, <2>4 DEF Handler, Check, NoService, Reuse, CreateInGuest, Launch, Status, Health, RemoveInGuest
<1>5. box' \in [Names -> Boxes]
  <2>1. box \in [Names -> Boxes] /\ thread[t].r \in 0..Requests
    BY <1>1 DEF GuestShape, GuestTypes
  <2>2. /\ \A n \in Names, b \in Boxes : [box EXCEPT ![n] = b] \in [Names -> Boxes]
        /\ \A n \in Names : [box EXCEPT ![n].st = "running"] \in [Names -> Boxes]
    BY <2>1
  <2>3. NoBox \in Boxes /\ [st |-> "created", r |-> thread[t].r, ok |-> FALSE] \in Boxes /\ thread[t].name \in Names
    BY <1>1, <2>1, RestInShape DEF GuestShape
  <2>4. CASE Reuse(t) \/ Launch(t)
    <3>1. box' = box \/ box' = [box EXCEPT ![thread[t].name].st = "running"]
      BY <2>4 DEF Reuse, Launch
    <3>2. QED
      BY <2>1, <2>2, <2>3, <3>1
  <2>5. CASE CreateInGuest(t) \/ RemoveInGuest(t)
    <3>1. \/ box' = box \/ box' = [box EXCEPT ![thread[t].name] = NoBox]
          \/ box' = [box EXCEPT ![thread[t].name] = [st |-> "created", r |-> thread[t].r, ok |-> FALSE]]
      BY <2>5 DEF CreateInGuest, RemoveInGuest, Create
    <3>2. PICK n \in Names, c \in Boxes :
            n = thread[t].name /\ c = [st |-> "created", r |-> thread[t].r, ok |-> FALSE]
      BY <2>3
    <3>3. box' \in {box, [box EXCEPT ![n] = NoBox], [box EXCEPT ![n] = c]}
      BY <3>1, <3>2
    <3>4. QED
      BY <2>1, <2>2, <2>3, <3>3
  <2>6. CASE box' = box
    BY <2>1, <2>6
  <2>7. QED
    BY <2>4, <2>5, <2>6 DEF Handler, Check, Kill, Unlink, Spawn, Wait, NoService, Status, Health
<1>6. /\ thread' \in [Threads -> ThreadStates] /\ \A u \in Threads : ThreadInShape(thread[u])'
      /\ host' \in [Hosts -> HostStates] /\ \A g \in Hosts : HostInShape(host[g])'
  <2>1. CASE Check(t)
    <3>1. CASE thread' = [thread EXCEPT ![t] = FreeThread]
      BY <1>2, <1>3, <2>1, <3>1, ThreadSet, RestInShape DEF Check, GuestShape
    <3>2. CASE \E label \in {"op", "kill", "spawn", "unlink"} : Go(t, label) /\ (thread[t].op = "boot" => label # "op")
      BY <1>1, <1>2, <1>3, <2>1, <3>2, GoInShape DEF Check
    <3>3. QED
      BY <2>1, <3>1, <3>2 DEF Check
  <2>2. CASE Kill(t)
    BY <1>2, <1>3, <2>2, GoInShape DEF Kill
  <2>3. CASE Unlink(t)
    BY <1>2, <1>3, <2>3, GoInShape DEF Unlink
  <2>4. CASE Spawn(t)
    <3> DEFINE c == [thread[t] EXCEPT !.pc = "wait", !.pid = NewPid]
    <3>1. c \in ThreadStates /\ ThreadInShape(c)
      BY <1>1, <2>4, FreshPid DEF Spawn, ThreadInShape, GuestShape
    <3>2. thread' = [thread EXCEPT ![t] = c]
      BY <2>4 DEF Spawn
    <3> HIDE DEF c
    <3>3. QED
      BY <1>2, <1>3, <2>4, <3>1, <3>2, ThreadSet DEF Spawn
  <2>5. CASE Wait(t)
    <3>1. \E c \in {FreeThread, [thread[t] EXCEPT !.pc = "op", !.pid = 0], [thread[t] EXCEPT !.pc = "check", !.pid = 0]} :
            /\ thread' = [thread EXCEPT ![t] = c]
            /\ c = [thread[t] EXCEPT !.pc = "op", !.pid = 0] => thread[t].op # "boot"
      <4>1. CASE thread[t].op # "boot"
        BY <2>5, <4>1 DEF Wait
      <4>2. CASE thread[t].op = "boot" /\ SocketAlive
        BY <2>5, <4>2, <1>1 DEF Wait, FreeThread
      <4>3. CASE thread[t].op = "boot" /\ ~SocketAlive
        BY <2>5, <4>3, <1>1 DEF Wait
      <4>4. QED
        BY <4>1, <4>2, <4>3
    <3>2. PICK c \in {FreeThread, [thread[t] EXCEPT !.pc = "op", !.pid = 0], [thread[t] EXCEPT !.pc = "check", !.pid = 0]} :
            /\ thread' = [thread EXCEPT ![t] = c]
            /\ c = [thread[t] EXCEPT !.pc = "op", !.pid = 0] => thread[t].op # "boot"
      BY <3>1
    <3>3. c \in ThreadStates /\ ThreadInShape(c)
      <4>1. CASE c = FreeThread
        BY <4>1, RestInShape DEF GuestShape
      <4>2. CASE c = [thread[t] EXCEPT !.pc = "op", !.pid = 0]
        BY <1>1, <2>5, <3>2, <4>2 DEF Wait, ThreadInShape
      <4>3. CASE c = [thread[t] EXCEPT !.pc = "check", !.pid = 0]
        BY <1>1, <2>5, <4>3 DEF Wait, ThreadInShape
      <4>4. QED
        BY <3>2, <4>1, <4>2, <4>3
    <3>4. QED
      BY <1>2, <1>3, <2>5, <3>2, <3>3, ThreadSet DEF Wait
  <2>6. CASE \E ans \in {"done", "err"}, ok \in BOOLEAN : Reply(t, ans, ok)
    BY <1>2, <2>6, ReplyInShape
  <2>7. CASE Reuse(t)
    <3>1. CASE Go(t, "create") /\ host' = host
      BY <1>1, <1>2, <1>3, <2>7, <3>1, GoInShape DEF Reuse, Serving
    <3>2. QED
      BY <2>6, <2>7, <3>1 DEF Reuse
  <2>8. CASE CreateInGuest(t)
    <3>1. CASE Go(t, "launch") /\ host' = host
      BY <1>1, <1>2, <1>3, <2>8, <3>1, GoInShape DEF CreateInGuest, Serving
    <3>2. QED
      BY <2>6, <2>8, <3>1 DEF CreateInGuest
  <2>9. CASE NoService(t) \/ Launch(t) \/ RemoveInGuest(t)
    BY <2>6, <2>9 DEF NoService, Launch, RemoveInGuest
  <2>10. CASE Status(t) \/ Health(t)
    <3>1. box \in [Names -> Boxes] /\ thread[t].name \in Names
      BY <1>1 DEF GuestShape, GuestTypes
    <3>2. /\ (box[thread[t].name].st = "running") \in BOOLEAN
          /\ (box[thread[t].name].st # "exited" \/ box[thread[t].name].ok) \in BOOLEAN
      BY <3>1
    <3>3. QED
      BY <2>6, <2>10, <3>2 DEF Status, Health
  <2>11. QED
    BY <2>1, <2>2, <2>3, <2>4, <2>5, <2>7, <2>8, <2>9, <2>10 DEF Handler
<1>7. QED
  BY <1>2, <1>4, <1>5, <1>6 DEF GuestShape, GuestTypes

\* A request keeps the shape.
LEMMA AskInShape ==
  ASSUME GuestShape, NEW h \in Hosts, NEW op \in GuestCalls, NEW job \in BuildJobs \cup DevJobs,
         Ask(h, op, job), backend' = backend, runs'.n = runs.n, backend = "vm",
         Asks(op, job), host[h].pc # "idle",
         job \in BuildJobs => host[h].name = "build", job \in DevJobs => host[h].name = "dev",
         IF op = "status" THEN host[h].polls < MaxPolls ELSE job = "run" => host[h].polls = 0
  PROVE  /\ conn' \in 0..gen
         /\ thread' \in [Threads -> ThreadStates] /\ \A u \in Threads : ThreadInShape(thread[u])'
         /\ host' \in [Hosts -> HostStates] /\ \A g \in Hosts : HostInShape(host[g])'
<1>1. host[h] \in HostStates /\ HostInShape(host[h]) /\ conn \in 0..gen /\ gen \in Nat /\ runs.n \in Nat
  BY DEF GuestShape, GuestTypes
<1>2. AskedOf(h, op, job) \in HostStates /\ [AskedOf(h, op, job) EXCEPT !.ans = "err"] \in HostStates
  <2>1. PICK p : p = IF op = "status" THEN host[h].polls + 1 ELSE host[h].polls
    OBVIOUS
  <2>2. p \in 0..MaxPolls
    <3>1. MaxPolls \in Nat /\ host[h].polls \in 0..MaxPolls
      BY <1>1 DEF ContainersAssumption
    <3>2. CASE op = "status"
      BY <2>1, <3>1, <3>2
    <3>3. CASE op # "status"
      BY <2>1, <3>1, <3>3
    <3>4. QED
      BY <3>2, <3>3
  <2>3. AskedOf(h, op, job) = [host[h] EXCEPT !.pc = "wait", !.job = job, !.ans = "none", !.ok = FALSE, !.polls = p]
    BY <2>1 DEF AskedOf
  <2>4. PICK w \in HostStates : w = host[h]
    BY <1>1
  <2>5. [w EXCEPT !.pc = "wait", !.job = job, !.ans = "none", !.ok = FALSE, !.polls = p] \in HostStates
    BY <2>2
  <2>6. AskedOf(h, op, job) \in HostStates
    BY <2>3, <2>4, <2>5
  <2>7. QED
    BY <2>6
<1>3. PICK v, w : v = AskedOf(h, op, job) /\ w = [AskedOf(h, op, job) EXCEPT !.ans = "err"]
  OBVIOUS
<1>4. HostInShape(v)' /\ HostInShape(w)'
  BY <1>1, <1>3 DEF AskedOf, Asks, HostInShape
<1>5. NewThread(h, op) \in ThreadStates /\ ThreadInShape(NewThread(h, op))
  BY <1>1 DEF NewThread, ThreadInShape, ContainersAssumption
<1>6. CASE /\ conn' = gen /\ host' = [host EXCEPT ![h] = v]
           /\ \E t \in Threads : At(t, "free") /\ thread' = [thread EXCEPT ![t] = NewThread(h, op)]
  <2>1. PICK t \in Threads : At(t, "free") /\ thread' = [thread EXCEPT ![t] = NewThread(h, op)]
    BY <1>6
  <2>2. thread' \in [Threads -> ThreadStates] /\ \A u \in Threads : ThreadInShape(thread[u])'
    BY <1>5, <2>1, ThreadSet
  <2>3. host' \in [Hosts -> HostStates] /\ \A g \in Hosts : HostInShape(host[g])'
    BY <1>2, <1>3, <1>4, <1>6, HostSet
  <2>4. QED
    BY <1>1, <1>6, <2>2, <2>3
<1>7. CASE UNCHANGED <<conn, thread>> /\ host' = [host EXCEPT ![h] = w]
  <2>1. host' \in [Hosts -> HostStates] /\ \A g \in Hosts : HostInShape(host[g])'
    BY <1>2, <1>3, <1>4, <1>7, HostSet
  <2>2. thread' \in [Threads -> ThreadStates] /\ \A u \in Threads : ThreadInShape(thread[u])'
    BY <1>7 DEF GuestShape, GuestTypes, ThreadInShape
  <2>3. QED
    BY <1>1, <1>7, <2>1, <2>2
<1>8. QED
  BY <1>3, <1>6, <1>7, AskGives

\* A task that ends is idle again.
LEMMA IdleInShape ==
  ASSUME GuestShape, NEW h \in Hosts, host' = [host EXCEPT ![h] = IdleHost], thread' = thread,
         backend' = backend, runs'.n = runs.n
  PROVE  /\ thread' \in [Threads -> ThreadStates] /\ \A u \in Threads : ThreadInShape(thread[u])'
         /\ host' \in [Hosts -> HostStates] /\ \A g \in Hosts : HostInShape(host[g])'
<1>1. HostInShape(IdleHost)'
  BY DEF HostInShape, IdleHost
<1>2. QED
  BY <1>1, HostSet, RestInShape DEF GuestShape, GuestTypes, ThreadInShape

\* A result is that of a request.
LEMMA ResultGives ==
  ASSUME GuestShape, NEW h \in Hosts, NEW good, Result(h, good), host[h].pc # "idle"
  PROVE  /\ runs' \in [n : 0..Requests, done : SUBSET Nat, built : SUBSET Nat]
         /\ runs'.n = runs.n /\ runs'.built \subseteq 1..runs'.n /\ runs'.done = runs.done
         /\ runs'.built \subseteq runs.built \cup {host[h].r}
         /\ ~good => runs' = runs
<1>1. host[h].r \in 1..runs.n /\ runs \in [n : 0..Requests, done : SUBSET Nat, built : SUBSET Nat]
      /\ runs.built \subseteq 1..runs.n
  BY DEF GuestShape, GuestTypes, HostInShape
<1>2. QED
  BY <1>1 DEF Result, ContainersAssumption

\* The steps of a task over a call to the agent.
CallStep(h) == Asked(h) \/ RunStarted(h) \/ Polled(h) \/ Coded(h) \/ Cleaned(h) \/ Started(h) \/ Removed(h)

\* Such a step is the next request of its task, or its end.
LEMMA CallGives ==
  ASSUME GuestShape, NEW h \in Hosts, CallStep(h)
  PROVE  /\ UNCHANGED <<backend, box, podman, gen, mishaps>> /\ host[h].pc # "idle" /\ backend = "vm"
         /\ runs' = runs \/ (Coded(h) /\ Result(h, host[h].ans = "done" /\ host[h].ok))
         /\ \/ \E op \in GuestCalls, job \in BuildJobs \cup DevJobs :
                 /\ Ask(h, op, job) /\ Asks(op, job)
                 /\ job \in BuildJobs => host[h].name = "build"
                 /\ job \in DevJobs => host[h].name = "dev"
                 /\ IF op = "status" THEN host[h].polls < MaxPolls ELSE job = "run" => host[h].polls = 0
            \/ Return(h) /\ runs' = runs
<1>1. host[h] \in HostStates /\ HostInShape(host[h]) /\ MaxPolls \in Nat \ {0}
  BY DEF GuestShape, GuestTypes, ContainersAssumption
<1>2. CASE Asked(h)
  BY <1>1, <1>2 DEF Asked, Asks, Do, HostInShape
<1>3. CASE RunStarted(h)
  BY <1>1, <1>3 DEF RunStarted, Answered, Asks, Do, HostInShape
<1>4. CASE Polled(h)
  <2>1. \/ ~host[h].ok /\ Ask(h, "health", "code")
        \/ host[h].ok /\ host[h].polls < MaxPolls /\ Ask(h, "status", "poll")
        \/ Ask(h, "remove", "clean")
    BY <1>1, <1>4 DEF Polled
  <2>2. QED
    BY <1>1, <1>4, <2>1 DEF Polled, Answered, Asks, Do, HostInShape
<1>5. CASE Coded(h)
  BY <1>1, <1>5 DEF Coded, Answered, Asks, Do, HostInShape
<1>6. CASE Cleaned(h) \/ Started(h) \/ Removed(h)
  BY <1>1, <1>6 DEF Cleaned, Started, Removed, Answered, Do, HostInShape
<1>7. QED
  BY <1>2, <1>3, <1>4, <1>5, <1>6 DEF CallStep

\* The steps over a call keep the shape.
LEMMA CallInShape ==
  ASSUME GuestShape, NEW h \in Hosts, CallStep(h)
  PROVE  GuestShape'
<1>1. /\ UNCHANGED <<backend, box, podman, gen, mishaps>> /\ host[h].pc # "idle" /\ backend = "vm"
  BY CallGives
<1>2. /\ runs' \in [n : 0..Requests, done : SUBSET Nat, built : SUBSET Nat]
      /\ runs'.n = runs.n /\ runs'.built \subseteq 1..runs'.n
  <2>1. CASE runs' = runs
    BY <2>1 DEF GuestShape, GuestTypes
  <2>2. CASE Result(h, host[h].ans = "done" /\ host[h].ok)
    BY <1>1, <2>2, ResultGives
  <2>3. QED
    BY <2>1, <2>2, CallGives
<1>3. /\ conn' \in 0..gen
      /\ thread' \in [Threads -> ThreadStates] /\ \A u \in Threads : ThreadInShape(thread[u])'
      /\ host' \in [Hosts -> HostStates] /\ \A g \in Hosts : HostInShape(host[g])'
  <2>1. CASE Return(h)
    <3>1. conn' \in 0..gen
      BY <2>1 DEF Return, GuestShape, GuestTypes
    <3>2. QED
      BY <1>1, <1>2, <2>1, <3>1, IdleInShape DEF Return
  <2>2. CASE \E op \in GuestCalls, job \in BuildJobs \cup DevJobs :
                 /\ Ask(h, op, job) /\ Asks(op, job)
                 /\ job \in BuildJobs => host[h].name = "build"
                 /\ job \in DevJobs => host[h].name = "dev"
                 /\ IF op = "status" THEN host[h].polls < MaxPolls ELSE job = "run" => host[h].polls = 0
    BY <1>1, <1>2, <2>2, AskInShape
  <2>3. QED
    BY <2>1, <2>2, CallGives
<1>4. QED
  BY <1>1, <1>2, <1>3 DEF GuestShape, GuestTypes

\* The steps on Linux and in WSL.
NativeStep(h) ==
  \/ Refuse(h) \/ RemoveStale(h) \/ CreateRun(h) \/ LaunchRun(h) \/ AwaitEnd(h) \/ RemoveRun(h)
  \/ StartNative(h) \/ MakeNative(h) \/ RemoveNative(h)

\* A task on Linux moves on, on the same container and for the same request.
LEMMA ThenInShape ==
  ASSUME GuestShape, NEW h \in Hosts, NEW label \in NativeJobs, Then(h, label), thread' = thread,
         backend' = backend, runs'.n = runs.n, backend # "vm", host[h].pc # "idle",
         label # "make" => host[h].name = "build" /\ backend = "linux",
         label = "make" => host[h].name = "dev"
  PROVE  /\ thread' \in [Threads -> ThreadStates] /\ \A u \in Threads : ThreadInShape(thread[u])'
         /\ host' \in [Hosts -> HostStates] /\ \A g \in Hosts : HostInShape(host[g])'
<1>1. host[h] \in HostStates /\ HostInShape(host[h])
  BY DEF GuestShape, GuestTypes
<1>2. PICK w : w = [host[h] EXCEPT !.pc = label, !.job = label]
  OBVIOUS
<1>3. w \in HostStates /\ HostInShape(w)' /\ host' = [host EXCEPT ![h] = w]
  BY <1>1, <1>2 DEF HostInShape, Then
<1>4. thread' \in [Threads -> ThreadStates] /\ \A u \in Threads : ThreadInShape(thread[u])'
  BY DEF GuestShape, GuestTypes, ThreadInShape
<1>5. QED
  BY <1>3, <1>4, HostSet

\* The steps of the native runtimes keep the shape.
LEMMA NativeInShape ==
  ASSUME GuestShape, NEW h \in Hosts, NativeStep(h)
  PROVE  GuestShape'
<1>1. /\ UNCHANGED <<backend, podman, conn, gen, thread, mishaps>> /\ backend # "vm"
  BY DEF NativeStep, Refuse, RemoveStale, CreateRun, LaunchRun, AwaitEnd, RemoveRun, StartNative, MakeNative,
     RemoveNative, Native
<1>2. /\ host[h] \in HostStates /\ HostInShape(host[h]) /\ box \in [Names -> Boxes]
      /\ runs \in [n : 0..Requests, done : SUBSET Nat, built : SUBSET Nat] /\ runs.built \subseteq 1..runs.n
  BY DEF GuestShape, GuestTypes
<1>3. host[h].pc # "idle"
  BY <1>2 DEF NativeStep, Refuse, RemoveStale, CreateRun, LaunchRun, AwaitEnd, RemoveRun, StartNative, MakeNative,
     RemoveNative, Do
<1>4. /\ runs' \in [n : 0..Requests, done : SUBSET Nat, built : SUBSET Nat]
      /\ runs'.n = runs.n /\ runs'.built \subseteq 1..runs'.n
  <2>1. CASE AwaitEnd(h)
    BY <1>3, <2>1, ResultGives DEF AwaitEnd
  <2>2. CASE runs' = runs
    BY <1>2, <2>2
  <2>3. QED
    BY <2>1, <2>2 DEF NativeStep, Refuse, RemoveStale, CreateRun, LaunchRun, RemoveRun, StartNative, MakeNative,
       RemoveNative
<1>5. box' \in [Names -> Boxes]
  <2>1. \A r \in 0..Requests : /\ [st |-> "created", r |-> r, ok |-> FALSE] \in Boxes
                               /\ [st |-> "running", r |-> r, ok |-> FALSE] \in Boxes
    OBVIOUS
  <2>2. NoBox \in Boxes /\ host[h].r \in 0..Requests
    BY <1>2, RestInShape DEF GuestShape
  <2>3. CASE CreateRun(h) \/ MakeNative(h)
    <3>1. PICK c, d : /\ c = [st |-> "created", r |-> host[h].r, ok |-> FALSE]
                      /\ d = [st |-> "running", r |-> host[h].r, ok |-> FALSE]
      OBVIOUS
    <3>2. c \in Boxes /\ d \in Boxes
      BY <2>1, <2>2, <3>1
    <3>3. box' \in {box, [box EXCEPT !["build"] = c], [box EXCEPT !["dev"] = d]}
      BY <2>3, <3>1 DEF CreateRun, MakeNative, Create
    <3>4. QED
      BY <1>2, <3>2, <3>3
  <2>4. CASE RemoveStale(h) \/ RemoveRun(h) \/ RemoveNative(h)
    BY <1>2, <2>2, <2>4 DEF RemoveStale, RemoveRun, RemoveNative
  <2>5. CASE LaunchRun(h) \/ StartNative(h)
    BY <1>2, <2>5 DEF LaunchRun, StartNative
  <2>6. CASE Refuse(h) \/ AwaitEnd(h)
    BY <1>2, <2>6 DEF Refuse, AwaitEnd
  <2>7. QED
    BY <2>3, <2>4, <2>5, <2>6 DEF NativeStep
<1>6. /\ thread' \in [Threads -> ThreadStates] /\ \A u \in Threads : ThreadInShape(thread[u])'
      /\ host' \in [Hosts -> HostStates] /\ \A g \in Hosts : HostInShape(host[g])'
  <2>1. CASE Done(h)
    BY <1>1, <1>4, <2>1, IdleInShape DEF Done
  <2>2. CASE RemoveStale(h) \/ (CreateRun(h) /\ Then(h, "launch")) \/ (LaunchRun(h) /\ Then(h, "end")) \/ AwaitEnd(h)
    <3>1. host[h].name = "build" /\ backend = "linux"
      BY <1>2, <2>2 DEF RemoveStale, CreateRun, LaunchRun, AwaitEnd, Do, HostInShape
    <3>2. \E label \in NativeJobs \ {"make"} : Then(h, label)
      BY <2>2 DEF RemoveStale, AwaitEnd
    <3>3. QED
      BY <1>1, <1>3, <1>4, <3>1, <3>2, ThenInShape
  <2>3. CASE StartNative(h) /\ Then(h, "make")
    <3>1. host[h].name = "dev"
      BY <1>2, <2>3 DEF StartNative, Do, HostInShape
    <3>2. QED
      BY <1>1, <1>3, <1>4, <2>3, <3>1, ThenInShape
  <2>4. QED
    BY <2>1, <2>2, <2>3 DEF NativeStep, Refuse, CreateRun, LaunchRun, RemoveRun, StartNative, MakeNative, RemoveNative
<1>7. QED
  BY <1>1, <1>4, <1>5, <1>6 DEF GuestShape, GuestTypes

\* The first state is in shape.
LEMMA InitInShape == Init => GuestShape
<1>1. SUFFICES ASSUME Init PROVE GuestShape
  OBVIOUS
<1>2. NoBox \in Boxes /\ Left \in Boxes /\ FreeThread \in ThreadStates /\ IdleHost \in HostStates
  BY DEF NoBox, Left, FreeThread, IdleHost, ContainersAssumption
<1>3. box \in [Names -> Boxes]
  BY <1>1, <1>2 DEF Init
<1>4. /\ thread \in [Threads -> ThreadStates] /\ \A t \in Threads : ThreadInShape(thread[t])
  <2>1. \A t \in Threads : thread[t] \in {FreeThread, [FreeThread EXCEPT !.op = "boot", !.pc = "check"]}
                           /\ (backend # "vm" => thread[t] = FreeThread)
    BY <1>1 DEF Init, Booting
  <2>2. thread = [t \in Threads |-> thread[t]]
    BY <1>1 DEF Init, Booting
  <2>3. PICK c : c = [FreeThread EXCEPT !.op = "boot", !.pc = "check"]
    OBVIOUS
  <2>4. /\ c \in ThreadStates /\ (backend = "vm" => ThreadInShape(c)) /\ ThreadInShape(FreeThread)
    BY <1>2, <2>3 DEF ThreadInShape, FreeThread
  <2>5. \A t \in Threads : thread[t] \in ThreadStates /\ ThreadInShape(thread[t])
    BY <1>2, <2>1, <2>3, <2>4
  <2>6. QED
    BY <2>2, <2>5
<1>5. host \in [Hosts -> HostStates] /\ \A h \in Hosts : HostInShape(host[h])
  BY <1>1, <1>2 DEF Init, HostInShape, IdleHost
<1>6. QED
  BY <1>1, <1>3, <1>4, <1>5, FS_EmptySet DEF Init, GuestShape, GuestTypes, ContainersAssumption

\* Nothing else loses the shape.
LEMMA OtherInShape ==
  ASSUME GuestShape,
         \/ \E h \in Hosts : Build(h) \/ Start(h) \/ Remove(h) \/ GiveUp(h)
         \/ Exit \/ PodmanFails \/ AgentRestarts
  PROVE  GuestShape'
<1>0. /\ box \in [Names -> Boxes] /\ podman \in Services /\ IsFiniteSet(podman.up) /\ gen \in {1, 2} /\ conn \in 0..gen
      /\ runs \in [n : 0..Requests, done : SUBSET Nat, built : SUBSET Nat] /\ runs.built \subseteq 1..runs.n
      /\ thread \in [Threads -> ThreadStates] /\ host \in [Hosts -> HostStates]
      /\ (\A t \in Threads : ThreadInShape(thread[t])) /\ \A h \in Hosts : HostInShape(host[h])
      /\ Requests \in Nat
  BY DEF GuestShape, GuestTypes, ContainersAssumption
<1>1. ASSUME NEW h \in Hosts, Build(h) \/ Start(h) \/ Remove(h) PROVE GuestShape'
  <2>1. PICK job \in {"run", "start", "remove"}, name \in Names :
          Begin(h, job, name) /\ name = IF job = "run" THEN "build" ELSE "dev"
    BY <1>1 DEF Build, Start, Remove
  <2>2. PICK w : w = [IdleHost EXCEPT !.job = job, !.pc = job, !.name = name, !.r = runs.n + 1]
    OBVIOUS
  <2>3. runs' = [runs EXCEPT !.n = runs.n + 1] /\ runs.n < Requests /\ host' = [host EXCEPT ![h] = w]
        /\ UNCHANGED <<backend, box, podman, conn, gen, thread>>
    BY <2>1, <2>2 DEF Begin
  <2>4. /\ runs' \in [n : 0..Requests, done : SUBSET Nat, built : SUBSET Nat] /\ runs'.n = runs.n + 1
        /\ runs'.built \subseteq 1..runs'.n /\ runs.n \in Nat
    BY <1>0, <2>3
  <2>5. w \in HostStates /\ HostInShape(w)'
    <3>1. IdleHost \in HostStates /\ runs.n + 1 \in 0..Requests
      BY <1>0, <2>3, <2>4, RestInShape DEF GuestShape
    <3>2. w \in HostStates
      BY <2>1, <2>2, <3>1
    <3>3. /\ w.job = job /\ w.pc = job /\ w.name = name /\ w.r = runs.n + 1 /\ w.ans = "none" /\ w.polls = 0
      BY <2>2 DEF IdleHost
    <3>4. w.r \in 1..runs'.n
      BY <2>4, <3>3
    <3>5. QED
      BY <2>1, <3>2, <3>3, <3>4 DEF HostInShape
  <2>6. host' \in [Hosts -> HostStates] /\ \A g \in Hosts : HostInShape(host[g])'
    BY <2>3, <2>4, <2>5, HostSet
  <2>7. QED
    BY <2>3, <2>4, <2>6 DEF GuestShape, GuestTypes, ThreadInShape
<1>2. ASSUME NEW h \in Hosts, GiveUp(h) PROVE GuestShape'
  <2>1. PICK w : w = [host[h] EXCEPT !.ans = "err"]
    OBVIOUS
  <2>2. w \in HostStates /\ HostInShape(w)' /\ host' = [host EXCEPT ![h] = w]
    BY <1>0, <1>2, <2>1 DEF GiveUp, HostInShape, Waiting
  <2>3. host' \in [Hosts -> HostStates] /\ \A g \in Hosts : HostInShape(host[g])'
    BY <1>2, <2>2, HostSet DEF GiveUp
  <2>4. thread' \in [Threads -> ThreadStates] /\ \A t \in Threads : ThreadInShape(thread[t])'
    <3>1. \A t \in Threads : thread'[t] \in {thread[t], [thread[t] EXCEPT !.h = 0]}
      BY <1>2 DEF GiveUp
    <3>2. thread' = [t \in Threads |-> thread'[t]] /\ backend' = backend
      BY <1>2 DEF GiveUp
    <3>3. \A t \in Threads : LET c == [thread[t] EXCEPT !.h = 0] IN c \in ThreadStates /\ ThreadInShape(c)
      BY <1>0 DEF ThreadInShape
    <3>4. \A t \in Threads : thread'[t] \in ThreadStates /\ ThreadInShape(thread[t])'
      BY <1>0, <3>1, <3>2, <3>3 DEF ThreadInShape
    <3>5. QED
      BY <3>2, <3>4
  <2>5. QED
    BY <1>0, <1>2, <2>3, <2>4 DEF GiveUp, GuestShape, GuestTypes
<1>3. CASE Exit
  <2>1. box' \in [Names -> Boxes] /\ runs' \in [n : 0..Requests, done : SUBSET Nat, built : SUBSET Nat]
        /\ runs'.n = runs.n /\ runs'.built = runs.built
    <3>1. PICK ok \in BOOLEAN :
            /\ box' = [box EXCEPT !["build"].st = "exited", !["build"].ok = ok]
            /\ runs' = IF ok THEN [runs EXCEPT !.done = @ \cup {box["build"].r}] ELSE runs
      BY <1>3 DEF Exit
    <3>2. box' \in [Names -> Boxes]
      <4>1. PICK b : b = [box["build"] EXCEPT !.st = "exited", !.ok = ok]
        OBVIOUS
      <4>0. box["build"] \in Boxes
        BY <1>0
      <4>2. b \in Boxes
        BY <4>0, <4>1
      <4>3. box' = [box EXCEPT !["build"] = b]
        BY <1>0, <3>1, <4>1
      <4>4. QED
        BY <1>0, <4>2, <4>3
    <3>3. box["build"].r \in Nat
      BY <1>0
    <3>4. QED
      BY <1>0, <3>1, <3>2, <3>3
  <2>2. QED
    BY <1>0, <1>3, <2>1 DEF Exit, GuestShape, GuestTypes, ThreadInShape, HostInShape
<1>4. CASE PodmanFails
  <2>1. podman' \in Services /\ IsFiniteSet(podman'.up)
    <3>1. IsFiniteSet(podman.up \ {podman.sock})
      BY <1>0, FS_RemoveElement
    <3>2. podman' = [podman EXCEPT !.up = podman.up \ {podman.sock}] \/ podman' = [podman EXCEPT !.hung = TRUE]
      BY <1>4 DEF PodmanFails
    <3>3. PICK u \in SUBSET Nat : u = podman.up \ {podman.sock}
      BY <1>0
    <3>4. CASE podman' = [podman EXCEPT !.up = u]
      BY <1>0, <3>1, <3>3, <3>4
    <3>5. CASE podman' = [podman EXCEPT !.hung = TRUE]
      BY <1>0, <3>5
    <3>6. QED
      BY <3>2, <3>3, <3>4, <3>5
  <2>2. QED
    BY <1>0, <1>4, <2>1 DEF PodmanFails, GuestShape, GuestTypes, ThreadInShape, HostInShape
<1>5. CASE AgentRestarts
  <2>1. /\ FreeThread \in ThreadStates /\ [FreeThread EXCEPT !.op = "boot", !.pc = "check"] \in ThreadStates
    BY RestInShape DEF GuestShape, FreeThread
  <2>2. /\ thread' \in [Threads -> ThreadStates] /\ \A t \in Threads : ThreadInShape(thread[t])'
    BY <1>5, <2>1 DEF AgentRestarts, Booting, ThreadInShape, FreeThread
  <2>3. host' \in [Hosts -> HostStates] /\ \A h \in Hosts : HostInShape(host[h])'
    BY <1>0, <1>5 DEF AgentRestarts, HostInShape, Waiting
  <2>4. QED
    BY <1>0, <1>5, <2>2, <2>3 DEF AgentRestarts, GuestShape, GuestTypes
<1>6. QED
  BY <1>1, <1>2, <1>3, <1>4, <1>5

-----------------------------------------------------------------------------
(* Handlers and the tasks they work for *)

\* What has not happened after a step had not before it.
LEMMA GuestBefore ==
  ASSUME mishaps \subseteq mishaps', NEW kinds, Without(kinds)'
  PROVE  Without(kinds)
  BY DEF Without

\* A handler goes on with what it does, or for nobody any more.
GoesOn(c, d) ==
  \/ c.h = d.h /\ c.op = d.op /\ c.name = d.name /\ c.r = d.r
  \/ d.h = 0 /\ d.op \notin GuestCalls

\* While handlers go on the tasks keep theirs.
LEMMA GoesOnLinked ==
  ASSUME GuestShape, GuestLink, mishaps \subseteq mishaps', gen' = gen, host' = host,
         \A t \in Threads : GoesOn(thread[t], thread'[t])
  PROVE  GuestLink'
<1>1. \A t \in Threads : Linked(thread[t]) => Linked(thread[t])'
  BY DEF GoesOn, Linked, Waiting
<1>2. (\A t, u \in Threads : t # u /\ thread[t].h # 0 => thread[u].h # thread[t].h)'
  BY DEF GoesOn, GuestLink
<1>3. Without({"late"})' => (\A t \in Threads : thread[t].op \in GuestCalls => thread[t].h # 0)'
  BY GuestBefore DEF GoesOn, GuestLink
<1>4. (Without({"agent"}) => gen = 1)'
  BY GuestBefore DEF GuestLink
<1>5. (Without({"both"}) => HostsApart)'
  BY GuestBefore DEF GuestLink, HostsApart
<1>6. QED
  BY <1>1, <1>2, <1>3, <1>4, <1>5 DEF GuestLink

\* While every task but h keeps its place, and h its container or none, the
\* containers are apart.
LEMMA ApartKept ==
  ASSUME GuestShape, Without({"both"}) => HostsApart, mishaps \subseteq mishaps', NEW h \in Hosts,
         NEW w, host' = [host EXCEPT ![h] = w],
         w.pc = "idle" \/ (host[h].pc # "idle" /\ w.name = host[h].name)
  PROVE  (Without({"both"}) => HostsApart)'
<1>1. \A g \in Hosts : host'[g].pc # "idle" => host[g].pc # "idle" /\ host'[g].name = host[g].name
  BY DEF GuestShape, GuestTypes
<1>2. QED
  BY <1>1, GuestBefore DEF HostsApart

\* An answer unties the two.
LEMMA ReplyLinked ==
  ASSUME GuestShape, GuestLink, NEW t \in Threads, NEW ans \in {"done", "err"}, NEW ok \in BOOLEAN,
         Reply(t, ans, ok), gen' = gen, mishaps' = mishaps
  PROVE  GuestLink'
<1>1. thread \in [Threads -> ThreadStates] /\ host \in [Hosts -> HostStates] /\ thread' = [thread EXCEPT ![t] = FreeThread]
  BY ReplyGives DEF GuestShape, GuestTypes
<1>2. CASE thread[t].h = 0
  <2>1. FreeThread.h = 0 /\ FreeThread.op \notin GuestCalls
    BY DEF FreeThread
  <2>2. \A u \in Threads : GoesOn(thread[u], thread'[u])
    BY <1>1, <2>1 DEF GoesOn
  <2>3. QED
    BY <1>2, <2>2, ReplyGives, GoesOnLinked
<1>3. CASE thread[t].h # 0
  <2>1. PICK h : h = thread[t].h
    OBVIOUS
  <2>2. PICK w : w = [host[h] EXCEPT !.ans = ans, !.ok = ok]
    OBVIOUS
  <2>3. h \in Hosts /\ Waiting(h) /\ host' = [host EXCEPT ![h] = w]
    BY <1>3, <2>1, <2>2, ReplyGives
  <2>4. thread'[t] = FreeThread /\ \A u \in Threads \ {t} : thread'[u] = thread[u] /\ thread[u].h # h
    BY <1>1, <1>3, <2>1 DEF GuestLink
  <2>5. \A g \in Hosts \ {h} : host'[g] = host[g]
    BY <1>1, <2>3
  <2>6. \A u \in Threads : thread'[u].h # 0 => thread'[u].h \in Hosts \ {h}
    BY <1>1, <2>4 DEF FreeThread
  <2>7. \A u \in Threads : Linked(thread[u])'
    BY <2>4, <2>5, <2>6 DEF GuestLink, Linked, Waiting, FreeThread
  <2>8. (\A v, u \in Threads : v # u /\ thread[v].h # 0 => thread[u].h # thread[v].h)'
    BY <2>4 DEF GuestLink, FreeThread
  <2>9. (Without({"late"}) => \A u \in Threads : thread[u].op \in GuestCalls => thread[u].h # 0)'
    BY <2>4 DEF GuestLink, FreeThread, Without
  <2>10. (Without({"both"}) => HostsApart)'
    <3>1. w.name = host[h].name /\ host[h].pc # "idle"
      BY <1>1, <2>2, <2>3 DEF Waiting
    <3>2. QED
      BY <2>3, <3>1, ApartKept DEF GuestLink
  <2>11. QED
    BY <2>7, <2>8, <2>9, <2>10 DEF GuestLink, Without
<1>4. QED
  BY <1>2, <1>3

\* The steps of the handlers.
LEMMA HandlerLinked ==
  ASSUME GuestShape, GuestLink, NEW t \in Threads, Handler(t)
  PROVE  GuestLink'
<1>1. thread \in [Threads -> ThreadStates] /\ ThreadInShape(thread[t])
  BY DEF GuestShape, GuestTypes
<1>2. mishaps \subseteq mishaps' /\ gen' = gen
  BY DEF Handler, Check, Kill, Unlink, Spawn, Wait, NoService, Reuse, CreateInGuest, Launch, Status, Health,
     RemoveInGuest, Happen
<1>3. CASE host' = host /\ \E c \in ThreadStates : thread' = [thread EXCEPT ![t] = c] /\ GoesOn(thread[t], c)
  <2>1. \A u \in Threads : GoesOn(thread[u], thread'[u])
    BY <1>1, <1>3 DEF GoesOn
  <2>2. QED
    BY <1>2, <1>3, <2>1, GoesOnLinked
<1>4. CASE host' = host /\ \E label : Go(t, label)
  <2>1. \A u \in Threads : GoesOn(thread[u], thread'[u])
    BY <1>1, <1>4 DEF GoesOn, Go
  <2>2. QED
    BY <1>2, <1>4, <2>1, GoesOnLinked
<1>5. CASE mishaps' = mishaps /\ \E ans \in {"done", "err"}, ok \in BOOLEAN : Reply(t, ans, ok)
  BY <1>2, <1>5, ReplyLinked
<1>6. CASE Check(t)
  <2>1. CASE thread' = [thread EXCEPT ![t] = FreeThread]
    <3>1. \A u \in Threads : GoesOn(thread[u], thread'[u])
      <4>1. thread[t].op = "boot" \/ thread[t].pc = "free"
        BY <1>1, <1>6, <2>1 DEF Check, Go, FreeThread
      <4>2. QED
        BY <1>1, <2>1 DEF GoesOn, FreeThread
    <3>2. QED
      BY <1>2, <1>6, <3>1, GoesOnLinked DEF Check
  <2>2. QED
    BY <1>4, <1>6, <2>1 DEF Check
<1>7. CASE Kill(t) \/ Unlink(t)
  BY <1>4, <1>7 DEF Kill, Unlink
<1>8. CASE Spawn(t) \/ Wait(t)
  <2>1. \A u \in Threads : GoesOn(thread[u], thread'[u])
    <3>1. PICK c \in {[thread[t] EXCEPT !.pc = "wait", !.pid = NewPid], [thread[t] EXCEPT !.pc = "op", !.pid = 0],
                      [thread[t] EXCEPT !.pc = "check", !.pid = 0], FreeThread} :
            thread' = [thread EXCEPT ![t] = c] /\ (c = FreeThread => thread[t].op = "boot")
      <4>1. CASE Spawn(t)
        <5>1. thread' = [thread EXCEPT ![t] = [thread[t] EXCEPT !.pc = "wait", !.pid = NewPid]]
          BY <1>1, <4>1 DEF Spawn
        <5>2. [thread[t] EXCEPT !.pc = "wait", !.pid = NewPid] # FreeThread
          BY <1>1, <4>1 DEF FreeThread
        <5>3. QED
          BY <5>1, <5>2
      <4>2. CASE Wait(t) /\ thread[t].op # "boot"
        <5>1. thread' = [thread EXCEPT ![t] = [thread[t] EXCEPT !.pc = "op", !.pid = 0]]
          BY <1>1, <4>2 DEF Wait
        <5>2. [thread[t] EXCEPT !.pc = "op", !.pid = 0] # FreeThread
          BY <1>1 DEF FreeThread
        <5>3. QED
          BY <5>1, <5>2
      <4>3. CASE Wait(t) /\ thread[t].op = "boot"
        BY <1>1, <4>3 DEF Wait
      <4>4. QED
        BY <1>8, <4>1, <4>2, <4>3
    <3>2. GoesOn(thread[t], c)
      <4>1. FreeThread.h = 0 /\ FreeThread.op \notin GuestCalls
        BY DEF FreeThread
      <4>2. \A d \in {[thread[t] EXCEPT !.pc = "wait", !.pid = NewPid], [thread[t] EXCEPT !.pc = "op", !.pid = 0],
                      [thread[t] EXCEPT !.pc = "check", !.pid = 0]} : GoesOn(thread[t], d)
        BY <1>1 DEF GoesOn
      <4>3. QED
        BY <3>1, <4>1, <4>2 DEF GoesOn
    <3>3. QED
      BY <1>1, <3>1, <3>2 DEF GoesOn
  <2>2. QED
    BY <1>2, <1>8, <2>1, GoesOnLinked DEF Spawn, Wait
<1>9. CASE NoService(t) \/ Reuse(t) \/ CreateInGuest(t) \/ Launch(t) \/ RemoveInGuest(t)
  BY <1>4, <1>5, <1>9 DEF NoService, Reuse, CreateInGuest, Launch, RemoveInGuest
<1>10. CASE Status(t) \/ Health(t)
  <2>1. box \in [Names -> Boxes] /\ thread[t].name \in Names
    BY <1>1 DEF GuestShape, GuestTypes
  <2>2. /\ (box[thread[t].name].st = "running") \in BOOLEAN
        /\ (box[thread[t].name].st # "exited" \/ box[thread[t].name].ok) \in BOOLEAN
    BY <2>1
  <2>3. QED
    BY <1>5, <1>10, <2>2 DEF Status, Health
<1>11. QED
  BY <1>6, <1>7, <1>8, <1>9, <1>10 DEF Handler

\* A request ties a task to a handler.
LEMMA AskLinked ==
  ASSUME GuestShape, GuestLink, NEW h \in Hosts, NEW op \in GuestCalls, NEW job \in BuildJobs \cup DevJobs,
         Ask(h, op, job), Asks(op, job), ~Waiting(h), host[h].pc # "idle", UNCHANGED <<gen, mishaps>>
  PROVE  GuestLink'
<1>1. thread \in [Threads -> ThreadStates] /\ host \in [Hosts -> HostStates]
  BY DEF GuestShape, GuestTypes
<1>2. \A u \in Threads : thread[u].h # h
  BY DEF GuestLink, Linked, ContainersAssumption
<1>3. \A g \in Hosts \ {h} : host'[g] = host[g]
  BY <1>1, AskGives
<1>4. (Without({"both"}) => HostsApart)'
  <2>1. PICK w : host' = [host EXCEPT ![h] = w] /\ w.name = host[h].name
    <3>1. AskedOf(h, op, job).name = host[h].name /\ [AskedOf(h, op, job) EXCEPT !.ans = "err"].name = host[h].name
      BY <1>1 DEF AskedOf
    <3>2. \E w \in {AskedOf(h, op, job), [AskedOf(h, op, job) EXCEPT !.ans = "err"]} : host' = [host EXCEPT ![h] = w]
      BY AskGives
    <3>3. QED
      BY <3>1, <3>2
  <2>2. QED
    BY <2>1, ApartKept DEF GuestLink
<1>5. CASE thread' = thread
  <2>1. \A u \in Threads : Linked(thread[u])'
    BY <1>1, <1>2, <1>3, <1>5 DEF GuestLink, Linked, Waiting
  <2>2. QED
    BY <1>4, <1>5, <2>1 DEF GuestLink, Without
<1>6. ASSUME host' = [host EXCEPT ![h] = AskedOf(h, op, job)], NEW t \in Threads, At(t, "free"),
             thread' = [thread EXCEPT ![t] = NewThread(h, op)]
      PROVE  GuestLink'
  <2>1. host'[h] = AskedOf(h, op, job) /\ thread'[t] = NewThread(h, op)
        /\ \A u \in Threads \ {t} : thread'[u] = thread[u]
    BY <1>1, <1>6
  <2>2. Linked(thread[t])'
    <3>1. PICK w, c : w = AskedOf(h, op, job) /\ c = NewThread(h, op)
      OBVIOUS
    <3>2. /\ w.pc = "wait" /\ w.ans = "none" /\ w.job = job /\ w.name = host[h].name /\ w.r = host[h].r
          /\ c.h = h /\ c.op = op /\ c.name = host[h].name /\ (op = "start" => c.r = host[h].r)
      BY <1>1, <3>1 DEF AskedOf, NewThread
    <3>3. QED
      BY <2>1, <3>1, <3>2 DEF Linked, Waiting
  <2>3. \A u \in Threads \ {t} : Linked(thread[u])'
    BY <1>1, <1>2, <1>3, <2>1 DEF GuestLink, Linked, Waiting
  <2>4. (\A v, u \in Threads : v # u /\ thread[v].h # 0 => thread[u].h # thread[v].h)'
    BY <1>2, <2>1 DEF GuestLink, NewThread
  <2>5. (Without({"late"}) => \A u \in Threads : thread[u].op \in GuestCalls => thread[u].h # 0)'
    BY <2>1 DEF GuestLink, NewThread, Without, ContainersAssumption
  <2>6. QED
    BY <1>4, <2>2, <2>3, <2>4, <2>5 DEF GuestLink, Without
<1>7. QED
  BY <1>5, <1>6, AskGives

\* A task that no handler works for ends or goes on.
LEMMA QuietLinked ==
  ASSUME GuestShape, GuestLink, NEW h \in Hosts, ~Waiting(h), NEW w, host' = [host EXCEPT ![h] = w],
         w.pc = "idle" \/ (host[h].pc # "idle" /\ w.name = host[h].name),
         UNCHANGED <<thread, gen>>, mishaps \subseteq mishaps'
  PROVE  GuestLink'
<1>1. thread \in [Threads -> ThreadStates] /\ host \in [Hosts -> HostStates]
  BY DEF GuestShape, GuestTypes
<1>2. \A u \in Threads : thread[u].h # h
  BY DEF GuestLink, Linked, ContainersAssumption
<1>3. \A g \in Hosts \ {h} : host'[g] = host[g]
  BY <1>1
<1>4. \A u \in Threads : Linked(thread[u])'
  BY <1>1, <1>2, <1>3 DEF GuestLink, Linked, Waiting
<1>5. (Without({"both"}) => HostsApart)'
  BY ApartKept DEF GuestLink
<1>6. QED
  BY <1>4, <1>5, GuestBefore DEF GuestLink

\* The steps of a task over a call.
LEMMA CallLinked ==
  ASSUME GuestShape, GuestLink, NEW h \in Hosts, CallStep(h)
  PROVE  GuestLink'
<1>1. UNCHANGED <<gen, mishaps>> /\ host[h].pc # "idle"
  BY CallGives
<1>2. ~Waiting(h)
  BY DEF CallStep, Asked, RunStarted, Polled, Coded, Cleaned, Started, Removed, Answered, Do, Waiting
<1>3. CASE Return(h)
  <2>1. PICK w : w = IdleHost
    OBVIOUS
  <2>2. w.pc = "idle" /\ host' = [host EXCEPT ![h] = w] /\ thread' = thread
    BY <1>3, <2>1 DEF Return, IdleHost
  <2>3. QED
    BY <1>1, <1>2, <2>2, QuietLinked
<1>4. QED
  BY <1>1, <1>2, <1>3, CallGives, AskLinked

\* The steps of the native runtimes.
LEMMA NativeLinked ==
  ASSUME GuestShape, GuestLink, NEW h \in Hosts, NativeStep(h)
  PROVE  GuestLink'
<1>1. /\ UNCHANGED <<thread, gen, mishaps>> /\ backend # "vm"
  BY DEF NativeStep, Refuse, RemoveStale, CreateRun, LaunchRun, AwaitEnd, RemoveRun, StartNative, MakeNative,
     RemoveNative, Native
<1>2. host[h] \in HostStates /\ HostInShape(host[h])
  BY DEF GuestShape, GuestTypes
<1>3. host[h].pc # "idle" /\ ~Waiting(h)
  BY <1>1, <1>2 DEF NativeStep, Refuse, RemoveStale, CreateRun, LaunchRun, AwaitEnd, RemoveRun, StartNative, MakeNative,
     RemoveNative, Do, Waiting, HostInShape
<1>4. CASE Done(h)
  <2>1. IdleHost.pc = "idle" /\ host' = [host EXCEPT ![h] = IdleHost]
    BY <1>4 DEF Done, IdleHost
  <2>2. QED
    BY <1>1, <1>3, <2>1, QuietLinked
<1>5. CASE \E label : Then(h, label)
  <2>1. PICK label : host' = [host EXCEPT ![h] = [host[h] EXCEPT !.pc = label, !.job = label]]
    BY <1>2, <1>5 DEF Then
  <2>2. PICK w : w = [host[h] EXCEPT !.pc = label, !.job = label]
    OBVIOUS
  <2>3. w.name = host[h].name
    BY <1>2, <2>2
  <2>4. QED
    BY <1>1, <1>3, <2>1, <2>2, <2>3, QuietLinked
<1>6. QED
  BY <1>4, <1>5 DEF NativeStep, Refuse, RemoveStale, CreateRun, LaunchRun, AwaitEnd, RemoveRun, StartNative, MakeNative,
     RemoveNative

\* Every other step.
LEMMA OtherLinked ==
  ASSUME GuestShape, GuestLink,
         \/ \E h \in Hosts : Build(h) \/ Start(h) \/ Remove(h) \/ GiveUp(h)
         \/ Exit \/ PodmanFails \/ AgentRestarts
  PROVE  GuestLink'
<1>0. /\ thread \in [Threads -> ThreadStates] /\ host \in [Hosts -> HostStates]
      /\ (\A t \in Threads : ThreadInShape(thread[t])) /\ 0 \notin Hosts
  BY DEF GuestShape, GuestTypes, ContainersAssumption
<1>1. ASSUME NEW h \in Hosts, NEW job, NEW name, Begin(h, job, name) PROVE GuestLink'
  <2>1. PICK w : w = [IdleHost EXCEPT !.job = job, !.pc = job, !.name = name, !.r = runs.n + 1]
    OBVIOUS
  <2>2. /\ w.name = name /\ host[h].pc = "idle" /\ host' = [host EXCEPT ![h] = w]
        /\ UNCHANGED <<thread, gen>> /\ mishaps \subseteq mishaps'
    BY <1>1, <2>1 DEF Begin, IdleHost, Happen
  <2>3. \A u \in Threads : thread[u].h # h
    BY <1>0, <2>2 DEF GuestLink, Linked, Waiting
  <2>4. \A u \in Threads : Linked(thread[u])'
    BY <1>0, <2>2, <2>3 DEF GuestLink, Linked, Waiting
  <2>5. (Without({"both"}) => HostsApart)'
    <3>1. SUFFICES ASSUME Without({"both"})' PROVE HostsApart'
      OBVIOUS
    <3>2. HostsApart
      BY <2>2, <3>1, GuestBefore DEF GuestLink
    <3>3. \A g \in Hosts : host[g].pc # "idle" => host[g].name # name
      BY <1>1, <3>1 DEF Begin, Happen, Without
    <3>4. \A g \in Hosts \ {h} : host'[g] = host[g]
      BY <1>0, <2>2
    <3>5. host'[h].name = name
      BY <1>0, <2>2
    <3>6. QED
      BY <3>2, <3>3, <3>4, <3>5 DEF HostsApart
  <2>6. QED
    BY <2>2, <2>4, <2>5, GuestBefore DEF GuestLink
<1>2. ASSUME NEW h \in Hosts, GiveUp(h) PROVE GuestLink'
  <2>1. PICK w : w = [host[h] EXCEPT !.ans = "err"]
    OBVIOUS
  <2>2. /\ host' = [host EXCEPT ![h] = w] /\ gen' = gen /\ mishaps \subseteq mishaps' /\ "late" \in mishaps'
        /\ w.name = host[h].name /\ host[h].pc # "idle"
    BY <1>0, <1>2, <2>1 DEF GiveUp, Happen, Waiting
  <2>3. \A u \in Threads : IF thread[u].h = h THEN thread'[u].h = 0
                           ELSE thread'[u] = thread[u]
    BY <1>0, <1>2 DEF GiveUp
  <2>4. \A u \in Threads : Linked(thread[u])'
    BY <1>0, <2>2, <2>3 DEF GuestLink, Linked, Waiting
  <2>5. (Without({"both"}) => HostsApart)'
    BY <2>2, ApartKept DEF GuestLink
  <2>6. (\A t, u \in Threads : t # u /\ thread[t].h # 0 => thread[u].h # thread[t].h)'
    BY <2>3 DEF GuestLink
  <2>7. QED
    BY <2>2, <2>4, <2>5, <2>6, GuestBefore DEF GuestLink, Without
<1>3. CASE Exit \/ PodmanFails
  BY <1>3, GoesOnLinked DEF Exit, PodmanFails, GoesOn, Happen
<1>4. CASE AgentRestarts
  <2>1. /\ mishaps \subseteq mishaps' /\ "agent" \in mishaps'
        /\ \A t \in Threads : thread'[t].h = 0 /\ thread'[t].op \notin GuestCalls
    BY <1>4 DEF AgentRestarts, Happen, Booting, FreeThread
  <2>2. \A h \in Hosts : host'[h].name = host[h].name /\ host'[h].pc = host[h].pc
    BY <1>0, <1>4 DEF AgentRestarts
  <2>3. QED
    BY <2>1, <2>2, GuestBefore DEF GuestLink, Linked, HostsApart, Without
<1>5. QED
  BY <1>1, <1>2, <1>3, <1>4 DEF Build, Start, Remove

-----------------------------------------------------------------------------
(* The podman service *)

\* What a handler's step does to its label.
LEMMA StepSets ==
  ASSUME GuestShape, NEW t \in Threads
  PROVE  /\ \A label : Go(t, label) =>
              /\ thread'[t].pc = label /\ thread'[t].op = thread[t].op
              /\ \A u \in Threads \ {t} : thread'[u] = thread[u]
         /\ thread' = [thread EXCEPT ![t] = FreeThread] =>
              /\ thread'[t].pc = "free" /\ thread'[t].op = "free"
              /\ \A u \in Threads \ {t} : thread'[u] = thread[u]
         /\ thread[t].pc = "free" <=> thread[t].op = "free"
         /\ thread[t].op = "boot" => thread[t].pc \in {"check"} \cup Restart
         /\ thread[t].pc \in {"create", "launch"} => thread[t].op = "start"
<1>1. thread \in [Threads -> ThreadStates] /\ ThreadInShape(thread[t])
  BY DEF GuestShape, GuestTypes
<1>2. ASSUME NEW label, Go(t, label)
      PROVE  /\ thread'[t].pc = label /\ thread'[t].op = thread[t].op
             /\ \A u \in Threads \ {t} : thread'[u] = thread[u]
  BY <1>1, <1>2 DEF Go
<1>3. thread' = [thread EXCEPT ![t] = FreeThread] =>
        /\ thread'[t].pc = "free" /\ thread'[t].op = "free"
        /\ \A u \in Threads \ {t} : thread'[u] = thread[u]
  BY <1>1 DEF FreeThread
<1>4. QED
  BY <1>1, <1>2, <1>3 DEF ThreadInShape

\* What a step of a restart does to the service.
LEMMA PodmanSets ==
  ASSUME GuestShape
  PROVE  /\ \A S : podman' = [podman EXCEPT !.up = S] =>
              podman'.up = S /\ podman'.sock = podman.sock /\ podman'.hung = podman.hung
         /\ \A n : podman' = [podman EXCEPT !.sock = n] =>
              podman'.up = podman.up /\ podman'.sock = n /\ podman'.hung = podman.hung
         /\ podman' = [podman EXCEPT !.hung = TRUE] =>
              podman'.up = podman.up /\ podman'.sock = podman.sock /\ podman'.hung
  BY DEF GuestShape, GuestTypes

HIDE DEF ThreadStates, HostStates, Boxes, Services, Names, GuestCalls, NativeJobs, BuildJobs, DevJobs
USE DEF Restarting, At

\* What has not gone wrong after a step.
LEMMA SoloBefore ==
  ASSUME mishaps \subseteq mishaps'
  PROVE  (Solo' => Solo) /\ (mishaps' = {} => mishaps = {}) /\ (mishaps = {} => Solo /\ "podman" \notin mishaps)
  BY DEF Solo, Without

\* The two halves of the invariant, after a step in which nothing more goes wrong.
LEMMA ServiceHalves ==
  ASSUME mishaps' = mishaps, Solo => SoloService', mishaps = {} => CalmService'
  PROVE  GuestService'
  BY DEF GuestService, Solo, Without

\* A handler stays away from the restart of the service.
KeepsAway(c, d) ==
  \/ d.pc = c.pc /\ d.op = c.op
  \/ c.pc # "kill" /\ d.pc \in {"free", "check"}
  \/ c.pc \in {"op", "create"} /\ d.pc \in {"create", "launch"}

\* While the handlers stay away nothing is lost of the service.
LEMMA AwayService ==
  ASSUME GuestService, podman' = podman, mishaps' = mishaps,
         \A t \in Threads : KeepsAway(thread[t], thread'[t])
  PROVE  GuestService'
<1>1. SocketAlive' = SocketAlive
  BY DEF SocketAlive
<1>2. \A t \in Threads : thread'[t].pc \in Restart => thread'[t].pc = thread[t].pc /\ thread'[t].op = thread[t].op
  BY DEF KeepsAway
<1>3. \A t \in Threads : thread[t].pc = "kill" => thread'[t].pc = thread[t].pc /\ thread'[t].op = thread[t].op
  BY DEF KeepsAway
<1>4. SoloService => OneRestarts' /\ OneUp'
  BY <1>2 DEF SoloService, OneRestarts, OneUp
<1>5. SoloService => NoneToStart'
  BY <1>2 DEF SoloService, NoneToStart
<1>6. SoloService => Answering' /\ Doomed'
  BY <1>1, <1>2, <1>3 DEF SoloService, Answering, Doomed
<1>7. mishaps = {} => CalmService'
  BY <1>1 DEF GuestService, CalmService, KeepsAway
<1>8. QED
  BY <1>4, <1>5, <1>6, <1>7, ServiceHalves DEF GuestService, SoloService

\* A handler looks at the socket.
LEMMA CheckService ==
  ASSUME GuestShape, GuestService, NEW t \in Threads, Check(t)
  PROVE  GuestService'
<1>0. thread[t].pc = "check" /\ podman' = podman /\ SocketAlive' = SocketAlive
  BY DEF Check, SocketAlive
<1>1. CASE SocketAlive
  <2>1. /\ mishaps' = mishaps /\ (\A u \in Threads \ {t} : thread'[u] = thread[u])
        /\ thread'[t].pc \in {"free", "op"}
    BY <1>1, StepSets DEF Check
  <2>2. SoloService => OneRestarts' /\ OneUp' /\ NoneToStart'
    BY <1>0, <2>1 DEF SoloService, OneRestarts, OneUp, NoneToStart
  <2>3. SoloService => Answering' /\ Doomed'
    BY <1>0, <1>1, <2>1 DEF SoloService, Answering, Doomed
  <2>4. mishaps = {} => CalmService'
    BY <1>0, <1>1, <2>1 DEF GuestService, CalmService
  <2>5. QED
    BY <2>1, <2>2, <2>3, <2>4, ServiceHalves DEF GuestService, SoloService
<1>2. CASE ~SocketAlive
  <2>0. /\ Go(t, IF thread[t].op # "boot" THEN "kill" ELSE IF podman.sock = 0 THEN "spawn" ELSE "unlink")
        /\ Happen(IF \E u \in Threads \ {t} : Restarting(u) THEN {"race"} ELSE {})
    BY <1>2 DEF Check
  <2>1. /\ \A u \in Threads \ {t} : thread'[u] = thread[u]
        /\ thread'[t].op = thread[t].op
        /\ thread'[t].pc = IF thread[t].op # "boot" THEN "kill" ELSE IF podman.sock = 0 THEN "spawn" ELSE "unlink"
    BY <2>0, StepSets
  <2>2. CASE \E u \in Threads \ {t} : Restarting(u)
    <3>1. "race" \in mishaps'
      BY <2>0, <2>2 DEF Happen
    <3>2. QED
      BY <3>1 DEF GuestService, Solo, Without
  <2>3. CASE \A u \in Threads \ {t} : ~Restarting(u)
    <3>1. mishaps' = mishaps
      BY <2>0, <2>3 DEF Happen
    <3>2. SoloService /\ "podman" \notin mishaps => podman.up = {}
      BY <1>2 DEF SoloService, Answering
    <3>3. SoloService /\ podman.sock = 0 => podman.up = {}
      BY <1>0, <2>3, <3>2 DEF SoloService, Doomed
    <3>4. SoloService => OneRestarts' /\ OneUp'
      BY <1>0, <2>1, <2>3 DEF SoloService, OneRestarts, OneUp
    <3>5. SoloService => NoneToStart'
      BY <1>0, <2>1, <2>3, <3>3 DEF SoloService, NoneToStart
    <3>6. SoloService => Answering'
      BY <1>0, <1>2, <2>1, <3>1, <3>2 DEF SoloService, Answering
    <3>7. SoloService => Doomed'
      BY <1>0, <3>3, <3>1, <3>2 DEF Doomed
    <3>8. mishaps = {} => CalmService'
      BY <1>0, <2>1 DEF GuestService, CalmService
    <3>9. QED
      BY <3>1, <3>4, <3>5, <3>6, <3>7, <3>8, ServiceHalves DEF GuestService, SoloService
  <2>4. QED
    BY <2>2, <2>3
<1>3. QED
  BY <1>1, <1>2

\* Before the first failure nobody takes a service away that answers.
LEMMA CalmRestart ==
  ASSUME GuestService, NEW t \in Threads, thread[t].pc \in {"kill", "unlink", "spawn"}, mishaps = {},
         NEW u \in Threads
  PROVE  thread[u].pc \notin {"op", "create", "launch", "wait"}
<1>1. podman.up = {}
  BY SoloBefore DEF GuestService, SoloService, Answering, NoneToStart, At
<1>2. QED
  BY <1>1 DEF GuestService, CalmService, SocketAlive

\* A service that does not answer is killed.
LEMMA KillService ==
  ASSUME GuestShape, GuestService, NEW t \in Threads, Kill(t)
  PROVE  GuestService'
<1>1. /\ podman'.up = {} /\ thread'[t].pc \in {"spawn", "unlink"} /\ thread[t].pc = "kill" /\ mishaps' = mishaps
      /\ \A u \in Threads \ {t} : thread'[u] = thread[u]
  BY StepSets, PodmanSets DEF Kill
<1>2. SoloService => OneRestarts'
  BY <1>1 DEF SoloService, OneRestarts
<1>3. OneUp' /\ NoneToStart' /\ Answering' /\ Doomed'
  BY <1>1 DEF OneUp, NoneToStart, Answering, Doomed
<1>4. mishaps = {} => CalmService'
  BY <1>1, CalmRestart DEF CalmService
<1>5. QED
  BY <1>1, <1>2, <1>3, <1>4, ServiceHalves DEF GuestService, SoloService

\* Its socket is removed.
LEMMA UnlinkService ==
  ASSUME GuestShape, GuestService, NEW t \in Threads, Unlink(t)
  PROVE  GuestService'
<1>1. /\ podman'.up = podman.up /\ thread[t].pc = "unlink" /\ mishaps' = mishaps
      /\ thread'[t].pc = IF thread[t].op = "boot" THEN "kill" ELSE "spawn"
      /\ thread'[t].op = thread[t].op
      /\ \A u \in Threads \ {t} : thread'[u] = thread[u]
  BY StepSets, PodmanSets DEF Unlink
<1>2. SoloService => OneRestarts' /\ OneUp' /\ NoneToStart'
  BY <1>1 DEF SoloService, OneRestarts, OneUp, NoneToStart
<1>3. SoloService /\ "podman" \notin mishaps => podman.up = {}
  BY <1>1 DEF SoloService, Answering
<1>4. SoloService => Answering'
  BY <1>1, <1>3 DEF SoloService, Answering
<1>5. SoloService => Doomed'
  <2>1. CASE thread[t].op = "boot"
    BY <1>1, <2>1 DEF Doomed
  <2>2. CASE thread[t].op # "boot"
    BY <1>1, <2>2 DEF SoloService, NoneToStart, Doomed
  <2>3. QED
    BY <2>1, <2>2
<1>6. mishaps = {} => CalmService'
  BY <1>1, CalmRestart DEF CalmService
<1>7. QED
  BY <1>1, <1>2, <1>4, <1>5, <1>6, ServiceHalves DEF GuestService, SoloService

\* Another is started.
LEMMA SpawnService ==
  ASSUME GuestShape, GuestService, NEW t \in Threads, Spawn(t)
  PROVE  GuestService'
<1>1. PICK p \in Nat \ {0} : p = NewPid
  BY FreshPid DEF GuestShape
<1>2. /\ podman'.up = podman.up \cup {p} /\ podman'.hung = FALSE
      /\ podman'.sock = IF SocketAlive THEN podman.sock ELSE p
      /\ thread[t].pc = "spawn" /\ mishaps' = mishaps
  BY <1>1 DEF Spawn
<1>3. thread'[t].pc = "wait" /\ \A u \in Threads \ {t} : thread'[u] = thread[u]
  BY DEF Spawn, GuestShape, GuestTypes, ThreadStates
<1>4. ASSUME SoloService PROVE SoloService' /\ SocketAlive'
  <2>1. podman.up = {} /\ \A u \in Threads \ {t} : thread[u].pc \notin Restart
    BY <1>2, <1>4 DEF SoloService, NoneToStart, OneRestarts
  <2>2. podman'.up = {p} /\ podman'.sock = p /\ SocketAlive'
    BY <1>2, <2>1 DEF SocketAlive
  <2>3. \A u \in Threads : thread'[u].pc \in Restart => u = t
    BY <1>3, <2>1
  <2>4. OneRestarts' /\ OneUp' /\ NoneToStart'
    BY <1>1, <1>3, <2>2, <2>3 DEF OneRestarts, OneUp, NoneToStart
  <2>5. Answering' /\ Doomed'
    BY <1>1, <1>3, <2>2, <2>3 DEF Answering, Doomed
  <2>6. QED
    BY <2>2, <2>4, <2>5 DEF SoloService
<1>5. mishaps = {} => CalmService'
  BY <1>4, SoloBefore, <1>2 DEF GuestService, CalmService
<1>6. QED
  BY <1>2, <1>4, <1>5, ServiceHalves DEF GuestService

\* Its starter has seen it answer, or takes it away again.
LEMMA WaitService ==
  ASSUME GuestShape, GuestService, NEW t \in Threads, Wait(t)
  PROVE  GuestService'
<1>1. /\ podman'.sock = podman.sock /\ podman'.hung = podman.hung /\ podman'.up \subseteq podman.up
      /\ SocketAlive => podman' = podman
      /\ mishaps' = mishaps /\ thread[t].pc = "wait"
  BY PodmanSets DEF Wait
<1>2. thread'[t].pc \in {"op", "free", "check"} /\ \A u \in Threads \ {t} : thread'[u] = thread[u]
  <2>1. thread \in [Threads -> ThreadStates]
    BY DEF GuestShape, GuestTypes
  <2>2. \A u \in Threads \ {t} : thread'[u] = thread[u]
    BY <2>1 DEF Wait
  <2>3. CASE thread[t].op # "boot"
    BY <2>1, <2>3 DEF Wait, ThreadStates
  <2>4. CASE thread[t].op = "boot"
    <3>1. CASE SocketAlive
      BY <2>1, <2>4, <3>1 DEF Wait, FreeThread
    <3>2. CASE ~SocketAlive
      <4>1. thread' = [thread EXCEPT ![t] = [thread[t] EXCEPT !.pc = "check", !.pid = 0]]
        BY <2>1, <2>4, <3>2 DEF Wait
      <4>2. QED
        BY <2>1, <4>1 DEF ThreadStates
    <3>3. QED
      BY <3>1, <3>2
  <2>5. QED
    BY <2>2, <2>3, <2>4
<1>3. SocketAlive => SocketAlive'
  BY <1>1 DEF SocketAlive
<1>4. SoloService => OneRestarts' /\ OneUp' /\ NoneToStart'
  BY <1>1, <1>2 DEF SoloService, OneRestarts, OneUp, NoneToStart
<1>5. SoloService => Answering'
  BY <1>1, <1>2, <1>3 DEF SoloService, Answering
<1>6. SoloService => Doomed'
  BY <1>1, <1>2 DEF SoloService, Doomed
<1>7. mishaps = {} => CalmService'
  BY <1>1, <1>2, <1>3 DEF GuestService, CalmService
<1>8. QED
  BY <1>1, <1>4, <1>5, <1>6, <1>7, ServiceHalves DEF GuestService, SoloService

\* The steps of the handlers.
LEMMA HandlerService ==
  ASSUME GuestShape, GuestLink, GuestService, NEW t \in Threads, Handler(t)
  PROVE  GuestService'
<1>1. CASE \/ NoService(t) \/ Reuse(t) \/ CreateInGuest(t) \/ Launch(t) \/ Status(t) \/ Health(t) \/ RemoveInGuest(t)
  <2>1. /\ \/ thread' = [thread EXCEPT ![t] = FreeThread]
           \/ thread[t].pc = "op" /\ Go(t, "create")
           \/ thread[t].pc = "create" /\ Go(t, "launch")
        /\ thread[t].pc \in {"op", "create", "launch"}
        /\ podman' = podman /\ mishaps' = mishaps
    BY <1>1 DEF NoService, Reuse, CreateInGuest, Launch, Status, Health, RemoveInGuest, Serving, Reply
  <2>2. \A u \in Threads : KeepsAway(thread[u], thread'[u])
    BY <2>1, StepSets DEF KeepsAway
  <2>3. QED
    BY <2>1, <2>2, AwayService
<1>2. QED
  BY <1>1, CheckService, KillService, UnlinkService, SpawnService, WaitService DEF Handler

\* No task touches it.
LEMMA TaskService ==
  ASSUME GuestShape, GuestLink, GuestService, NEW h \in Hosts, CallStep(h) \/ NativeStep(h)
  PROVE  GuestService'
<1>0. thread \in [Threads -> ThreadStates]
  BY DEF GuestShape, GuestTypes
<1>1. CASE CallStep(h)
  <2>1. podman' = podman /\ mishaps' = mishaps
    BY <1>1, CallGives
  <2>2. thread' = thread \/ \E t \in Threads, op \in GuestCalls : At(t, "free") /\ thread' = [thread EXCEPT ![t] = NewThread(h, op)]
    BY <1>1, CallGives, AskGives DEF Return
  <2>3. \A op : NewThread(h, op).pc = "check"
    BY DEF NewThread
  <2>4. \A t \in Threads : KeepsAway(thread[t], thread'[t])
    BY <1>0, <2>2, <2>3 DEF KeepsAway
  <2>5. QED
    BY <2>1, <2>4, AwayService
<1>2. CASE NativeStep(h)
  BY <1>2, AwayService DEF NativeStep, Refuse, RemoveStale, CreateRun, LaunchRun, AwaitEnd, RemoveRun, StartNative, MakeNative,
     RemoveNative, Native, KeepsAway
<1>3. QED
  BY <1>1, <1>2

\* Every other step.
LEMMA OtherService ==
  ASSUME GuestShape, GuestService,
         \/ \E h \in Hosts : Build(h) \/ Start(h) \/ Remove(h) \/ GiveUp(h)
         \/ Exit \/ PodmanFails \/ AgentRestarts
  PROVE  GuestService'
<1>0. mishaps \subseteq mishaps'
  BY DEF Build, Start, Remove, Begin, GiveUp, Exit, PodmanFails, AgentRestarts, Happen
<1>1. ASSUME \E h \in Hosts : Build(h) \/ Start(h) \/ Remove(h) \/ GiveUp(h) PROVE GuestService'
  <2>1. podman' = podman /\ SocketAlive' = SocketAlive /\ ("podman" \in mishaps' => "podman" \in mishaps)
    BY <1>1 DEF Build, Start, Remove, Begin, GiveUp, Happen, SocketAlive
  <2>2. \A t \in Threads : thread'[t].pc = thread[t].pc /\ thread'[t].op = thread[t].op
    <3>1. CASE \E h \in Hosts : GiveUp(h)
      BY <3>1 DEF GiveUp, GuestShape, GuestTypes, ThreadStates
    <3>2. CASE thread' = thread
      BY <3>2
    <3>3. QED
      BY <1>1, <3>1, <3>2 DEF Build, Start, Remove, Begin
  <2>3. SoloService => OneRestarts' /\ OneUp' /\ NoneToStart'
    BY <2>1, <2>2 DEF SoloService, OneRestarts, OneUp, NoneToStart
  <2>4. SoloService => Answering' /\ Doomed'
    BY <1>0, <2>1, <2>2 DEF SoloService, Answering, Doomed
  <2>5. mishaps' = {} => CalmService'
    BY <1>0, <2>1, <2>2 DEF GuestService, CalmService
  <2>6. QED
    BY <1>0, <2>3, <2>4, <2>5, SoloBefore DEF GuestService, SoloService
<1>2. CASE Exit
  BY <1>2, AwayService DEF Exit, KeepsAway
<1>3. CASE PodmanFails
  <2>1. /\ thread' = thread /\ "podman" \in mishaps' /\ "podman" \notin mishaps /\ SocketAlive
        /\ podman'.up \subseteq podman.up /\ podman'.sock = podman.sock
    BY <1>3, PodmanSets DEF PodmanFails, Happen
  <2>2. SoloService => OneRestarts' /\ OneUp' /\ NoneToStart'
    BY <2>1 DEF SoloService, OneRestarts, OneUp, NoneToStart
  <2>3. SoloService => Answering' /\ Doomed'
    BY <2>1 DEF SoloService, OneUp, Answering, Doomed, SocketAlive
  <2>4. QED
    BY <1>0, <2>1, <2>2, <2>3, SoloBefore DEF GuestService, SoloService
<1>4. CASE AgentRestarts
  <2>1. /\ podman' = podman /\ "agent" \in mishaps' /\ ("podman" \in mishaps' => "podman" \in mishaps)
        /\ SocketAlive' = SocketAlive
    BY <1>4 DEF AgentRestarts, Happen, SocketAlive
  <2>2. \A t \in Threads : thread'[t].pc \in {"free", "check"}
    BY <1>4 DEF AgentRestarts, Booting, FreeThread
  <2>3. SoloService => OneRestarts' /\ OneUp' /\ NoneToStart'
    BY <2>1, <2>2 DEF SoloService, OneRestarts, OneUp, NoneToStart
  <2>4. SoloService /\ Solo' => Answering' /\ Doomed'
    BY <1>0, <2>1, <2>2 DEF SoloService, Answering, Doomed, Solo
  <2>5. QED
    BY <1>0, <2>1, <2>3, <2>4, SoloBefore DEF GuestService, SoloService
<1>5. QED
  BY <1>1, <1>2, <1>3, <1>4

-----------------------------------------------------------------------------
(* What the runs have come to *)

\* A container that is not exited now tells nothing.
LEMMA ExitsKept ==
  ASSUME ExitsTold, runs.done \subseteq runs'.done,
         box'["build"] = box["build"] \/ box'["build"].st # "exited"
  PROVE  ExitsTold'
BY DEF ExitsTold

\* After a mishap little is promised of a run.
LEMMA SpoiltRun ==
  ASSUME GuestShape', ExitsTold', "both" \in mishaps' \/ (mishaps' # {} /\ backend' # "linux")
  PROVE  GuestRun'
<1>1. mishaps' # {} /\ FreshRuns' /\ VmRuns' /\ NothingLeft'
  BY DEF FreshRuns, VmRuns, NothingLeft
<1>2. backend' # "linux" => \A h \in Hosts : LinuxRun(host[h])'
  BY DEF GuestShape, HostInShape, LinuxRun
<1>3. LinuxRuns'
  BY <1>2 DEF LinuxRuns, Without
<1>4. SuccessIsReal'
  BY DEF SuccessIsReal, Without
<1>5. QED
  BY <1>1, <1>3, <1>4 DEF GuestRun

\* What a step leaves of the tasks on other containers, and of the handlers.
TasksKept ==
  \A h \in Hosts : \/ host'[h] = host[h]
                   \/ host'[h].job \notin BuildJobs /\ (host[h].name # "build" \/ host[h].pc = "idle")
HandlersKept == \A t \in Threads : VmHandler(thread[t]) => VmHandler(thread[t])'

\* A step that neither the container of the runs nor their tasks notice.
LEMMA RunStays ==
  ASSUME GuestShape, GuestRun, mishaps \subseteq mishaps', backend' = backend,
         box'["build"] = box["build"], runs'.done = runs.done, runs'.built = runs.built,
         TasksKept, mishaps' = {} /\ backend = "vm" => HandlersKept
  PROVE  GuestRun'
<1>1. ExitsTold'
  BY ExitsKept DEF GuestRun
<1>2. FreshRuns'
  BY DEF TasksKept, GuestRun, FreshRuns, FreshRun, BuildJobs
<1>3. \A h \in Hosts : (VmRun(host[h]) => VmRun(host[h])') /\ (LinuxRun(host[h]) => LinuxRun(host[h])')
  BY DEF TasksKept, VmRun, LinuxRun, BuildJobs
<1>4. VmRuns'
  BY <1>3 DEF HandlersKept, GuestRun, VmRuns
<1>5. LinuxRuns'
  BY <1>3, GuestBefore DEF GuestRun, LinuxRuns
<1>6. SuccessIsReal'
  BY DEF GuestRun, SuccessIsReal, Without
<1>7. NothingLeft'
  BY DEF TasksKept, GuestRun, NothingLeft
<1>8. QED
  BY <1>1, <1>2, <1>4, <1>5, <1>6, <1>7 DEF GuestRun

\* While the containers are apart only one task is on that of the runs, and its
\* handler is the only one there.
LEMMA OnlyBuilder ==
  ASSUME GuestShape, GuestLink, HostsApart, NEW h \in Hosts, host[h].name = "build", host[h].pc # "idle"
  PROVE  /\ \A g \in Hosts \ {h} : host[g].job \notin BuildJobs /\ (host[g].name # "build" \/ host[g].pc = "idle")
         /\ \A u \in Threads : thread[u].h # 0 /\ thread[u].name = "build" => thread[u].h = h
<1>1. \A g \in Hosts \ {h} : host[g].name # "build" \/ host[g].pc = "idle"
  BY DEF HostsApart
<1>2. \A g \in Hosts : host[g].job \in BuildJobs => host[g].name = "build" /\ host[g].pc # "idle"
  BY DEF GuestShape, HostInShape, BuildJobs
<1>3. \A u \in Threads : thread[u].h # 0 => thread[u].h \in Hosts
  BY DEF GuestShape, GuestTypes, ThreadStates
<1>4. \A u \in Threads : thread[u].h # 0 /\ thread[u].name = "build" => thread[u].h = h
  BY <1>1, <1>3 DEF GuestLink, Linked, Waiting
<1>5. QED
  BY <1>1, <1>2, <1>4

\* So a step of that task, or of its handler, need only look after the two.
LEMMA BuilderRun ==
  ASSUME GuestShape, GuestLink, Without({"both"})', mishaps \subseteq mishaps', backend' = backend,
         NEW h \in Hosts, host[h].name = "build", host[h].pc # "idle",
         \A g \in Hosts \ {h} : host'[g] = host[g],
         ExitsTold', LinuxRun(host[h])', SuccessIsReal',
         mishaps' = {} => FreshRun(host[h])',
         mishaps' = {} /\ backend = "vm" =>
           VmRun(host[h])' /\ \A t \in Threads : thread'[t].h # 0 /\ thread'[t].name = "build" => VmHandler(thread[t])',
         mishaps' = {} /\ (host'[h].name # "build" \/ host'[h].pc = "idle") => box'["build"].st = "none"
  PROVE  GuestRun'
<1>1. HostsApart
  BY GuestBefore DEF GuestLink
<1>2. \A g \in Hosts \ {h} : host'[g].job \notin BuildJobs
  BY <1>1, OnlyBuilder
<1>3. \A g \in Hosts \ {h} : FreshRun(host[g])' /\ VmRun(host[g])' /\ LinuxRun(host[g])'
  BY <1>2 DEF FreshRun, VmRun, LinuxRun, BuildJobs
<1>4. \A t \in Threads : (thread'[t].h # 0 /\ thread'[t].name = "build") \/ VmHandler(thread[t])'
  BY DEF VmHandler
<1>5. FreshRuns' /\ LinuxRuns'
  BY <1>3 DEF FreshRuns, LinuxRuns
<1>6. VmRuns'
  BY <1>3, <1>4 DEF VmRuns
<1>7. NothingLeft'
  BY DEF NothingLeft
<1>8. QED
  BY <1>5, <1>6, <1>7 DEF GuestRun

\* Exactly the runs that their containers tell of have ended well.
LEMMA ExitRun ==
  ASSUME GuestShape, GuestRun, Exit
  PROVE  GuestRun'
<1>0. box \in [Names -> Boxes] /\ runs \in [n : 0..Requests, done : SUBSET Nat, built : SUBSET Nat]
  BY DEF GuestShape, GuestTypes
<1>1. PICK ok \in BOOLEAN :
        /\ box' = [box EXCEPT !["build"].st = "exited", !["build"].ok = ok]
        /\ runs' = IF ok THEN [runs EXCEPT !.done = @ \cup {box["build"].r}] ELSE runs
  BY DEF Exit
<1>2. /\ box["build"].st = "running" /\ box'["build"].st = "exited" /\ box'["build"].ok = ok
      /\ box'["build"].r = box["build"].r
  BY <1>0, <1>1 DEF Exit, Boxes, Names
<1>3. /\ runs.done \subseteq runs'.done /\ runs'.built = runs.built /\ (ok => box["build"].r \in runs'.done)
  BY <1>0, <1>1
<1>4. UNCHANGED <<backend, thread, host, mishaps>>
  BY DEF Exit
<1>5. ExitsTold'
  BY <1>2, <1>3 DEF ExitsTold
<1>6. FreshRuns'
  BY <1>2, <1>4 DEF GuestRun, FreshRuns, FreshRun
<1>7. ASSUME NEW h \in Hosts
      PROVE  (VmRun(host[h]) => VmRun(host[h])') /\ (LinuxRun(host[h]) => LinuxRun(host[h])')
  BY <1>2, <1>4 DEF VmRun, LinuxRun
<1>8. \A t \in Threads : VmHandler(thread[t]) => VmHandler(thread[t])'
  BY <1>2, <1>4 DEF VmHandler
<1>9. VmRuns'
  BY <1>4, <1>7, <1>8 DEF GuestRun, VmRuns
<1>10. LinuxRuns'
  BY <1>4, <1>7 DEF GuestRun, LinuxRuns, Without
<1>11. SuccessIsReal' /\ NothingLeft'
  BY <1>2, <1>3, <1>4 DEF GuestRun, SuccessIsReal, NothingLeft, Without
<1>12. QED
  BY <1>5, <1>6, <1>9, <1>10, <1>11 DEF GuestRun

\* The first step of a run.
LEMMA BuildRun ==
  ASSUME GuestShape, GuestShape', GuestRun, NEW h \in Hosts, Build(h)
  PROVE  GuestRun'
<1>1. UNCHANGED <<backend, box, thread>> /\ Begin(h, "run", "build") /\ host \in [Hosts -> HostStates]
  BY DEF Build, Begin, GuestShape, GuestTypes
<1>2. /\ host'[h].job = "run" /\ host'[h].pc = "run" /\ host'[h].name = "build" /\ host'[h].ans = "none"
      /\ \A g \in Hosts \ {h} : host'[g] = host[g]
  BY <1>1 DEF Begin, IdleHost
<1>3. runs'.done = runs.done /\ runs'.built = runs.built
  BY <1>1 DEF Begin, GuestShape, GuestTypes
<1>4. ExitsTold'
  BY <1>1, <1>3, ExitsKept DEF GuestRun
<1>5. CASE \E g \in Hosts : host[g].pc # "idle" /\ host[g].name = "build"
  <2>1. "both" \in mishaps'
    BY <1>1, <1>5 DEF Begin, Happen
  <2>2. QED
    BY <1>4, <2>1, SpoiltRun
<1>6. CASE \A g \in Hosts : host[g].pc = "idle" \/ host[g].name # "build"
  <2>1. mishaps' = mishaps
    BY <1>1, <1>6 DEF Begin, Happen
  <2>2. mishaps = {} => box["build"].st = "none"
    BY <1>6 DEF GuestRun, NothingLeft
  <2>3. FreshRuns'
    BY <1>1, <2>1, <2>2 DEF FreshRuns, FreshRun
  <2>4. \A g \in Hosts : (VmRun(host[g]) => VmRun(host[g])') /\ (LinuxRun(host[g]) => LinuxRun(host[g])')
    BY <1>1, <1>2 DEF VmRun, LinuxRun
  <2>5. \A t \in Threads : VmHandler(thread[t]) => VmHandler(thread[t])'
    BY <1>1 DEF VmHandler
  <2>6. VmRuns'
    BY <1>1, <2>1, <2>4, <2>5 DEF GuestRun, VmRuns
  <2>7. LinuxRuns'
    BY <2>1, <2>4 DEF GuestRun, LinuxRuns, Without
  <2>8. SuccessIsReal'
    BY <1>1, <1>3, <2>1 DEF GuestRun, SuccessIsReal, Without
  <2>9. NothingLeft'
    BY <1>2 DEF NothingLeft
  <2>10. QED
    BY <1>4, <2>3, <2>6, <2>7, <2>8, <2>9 DEF GuestRun
<1>7. QED
  BY <1>5, <1>6

\* Every other step but those of handlers and tasks.
LEMMA OtherRun ==
  ASSUME GuestShape, GuestShape', GuestRun,
         \/ \E h \in Hosts : Build(h) \/ Start(h) \/ Remove(h) \/ GiveUp(h)
         \/ Exit \/ PodmanFails \/ AgentRestarts
  PROVE  GuestRun'
<1>0. host \in [Hosts -> HostStates] /\ runs \in [n : 0..Requests, done : SUBSET Nat, built : SUBSET Nat]
  BY DEF GuestShape, GuestTypes
<1>1. ASSUME NEW h \in Hosts, Start(h) \/ Remove(h) PROVE GuestRun'
  <2>1. PICK job \in {"start", "remove"} : Begin(h, job, "dev")
    BY <1>1 DEF Start, Remove
  <2>2. /\ UNCHANGED <<backend, box, thread>> /\ mishaps \subseteq mishaps'
        /\ runs'.done = runs.done /\ runs'.built = runs.built /\ host[h].pc = "idle"
        /\ host'[h].job = job /\ \A g \in Hosts \ {h} : host'[g] = host[g]
    BY <1>0, <2>1 DEF Begin, Happen, IdleHost
  <2>3. HandlersKept
    BY <2>2 DEF HandlersKept, VmHandler
  <2>4. TasksKept
    BY <2>2 DEF TasksKept, BuildJobs
  <2>5. QED
    BY <2>2, <2>3, <2>4, RunStays
<1>2. CASE (\E h \in Hosts : GiveUp(h)) \/ PodmanFails \/ AgentRestarts
  <2>1. backend' = "vm" /\ box' = box /\ runs' = runs
    BY <1>2 DEF GiveUp, PodmanFails, AgentRestarts, Waiting, GuestShape, HostInShape
  <2>2. mishaps' # {}
    BY <1>2 DEF GiveUp, PodmanFails, AgentRestarts, Happen
  <2>3. QED
    BY <2>1, <2>2, ExitsKept, SpoiltRun DEF GuestRun
<1>3. QED
  BY <1>1, <1>2, BuildRun, ExitRun

\* What a handler of a run does to its container, as long as nothing goes wrong.
LEMMA BuilderServed ==
  ASSUME GuestShape, GuestShape', GuestLink, GuestService, GuestRun, mishaps = {}, backend = "vm", NEW t \in Threads,
         \/ NoService(t) \/ Reuse(t) \/ CreateInGuest(t) \/ Launch(t) \/ Status(t) \/ Health(t) \/ RemoveInGuest(t),
         thread[t].name = "build", ExitsTold'
  PROVE  GuestRun'
<1>0. /\ box \in [Names -> Boxes] /\ thread \in [Threads -> ThreadStates] /\ host \in [Hosts -> HostStates]
      /\ UNCHANGED <<backend, runs, mishaps>>
  BY DEF GuestShape, GuestTypes, NoService, Reuse, CreateInGuest, Launch, Status, Health, RemoveInGuest
<1>1. thread[t].pc \in {"op", "create", "launch"} /\ thread[t].op \in GuestCalls
  <2>1. thread[t].pc \in {"op", "create", "launch"}
    BY DEF NoService, Reuse, CreateInGuest, Launch, Status, Health, RemoveInGuest, Serving
  <2>2. thread[t] \in ThreadStates /\ ThreadInShape(thread[t])
    BY DEF GuestShape, GuestTypes
  <2>3. QED
    BY <2>1, <2>2 DEF ThreadInShape, ThreadStates, Restart
<1>2. ~NoService(t)
  BY <1>1 DEF GuestService, CalmService, NoService
<1>3. PICK h : h = thread[t].h
  OBVIOUS
<1>4. h # 0 /\ Without({"both"})
  BY <1>1, <1>3 DEF GuestLink, Without
<1>5. /\ h \in Hosts /\ Waiting(h) /\ Asks(thread[t].op, host[h].job) /\ host[h].name = "build"
      /\ thread[t].op = "start" => thread[t].r = host[h].r
  <2>1. h \in Hosts
    BY <1>0, <1>3, <1>4 DEF ThreadStates
  <2>2. QED
    BY <1>3, <1>4, <2>1 DEF GuestLink, Linked
<1>6. host[h].pc = "wait" /\ host[h].ans = "none" /\ host[h].job \in {"run", "poll", "code", "clean"}
  <2>1. HostInShape(host[h])
    BY <1>5 DEF GuestShape
  <2>2. host[h].job \notin DevJobs
    BY <1>5, <2>1 DEF HostInShape
  <2>3. QED
    BY <1>5, <2>2 DEF Waiting, Asks, DevJobs
<1>7. VmRun(host[h]) /\ VmHandler(thread[t]) /\ SuccessIsReal
  BY <1>5 DEF GuestRun, VmRuns
<1>8. /\ \A u \in Threads \ {t} : thread'[u] = thread[u]
      /\ \A g \in Hosts \ {h} : host'[g] = host[g]
      /\ host'[h] = host[h] \/ \E ans, ok : host'[h] = [host[h] EXCEPT !.ans = ans, !.ok = ok]
  <2>1. ((Go(t, "create") \/ Go(t, "launch")) /\ host' = host) \/ \E ans, ok : Reply(t, ans, ok)
    BY <1>2 DEF Reuse, CreateInGuest, Launch, Status, Health, RemoveInGuest
  <2>2. CASE (Go(t, "create") \/ Go(t, "launch")) /\ host' = host
    BY <1>0, <2>2 DEF Go
  <2>3. CASE \E ans, ok : Reply(t, ans, ok)
    <3>1. PICK ans, ok : Reply(t, ans, ok)
      BY <2>3
    <3>2. thread' = [thread EXCEPT ![t] = FreeThread] /\ host' = [host EXCEPT ![h].ans = ans, ![h].ok = ok]
      BY <1>3, <1>4, <3>1 DEF Reply
    <3>3. host' = [host EXCEPT ![h] = [host[h] EXCEPT !.ans = ans, !.ok = ok]]
      BY <1>0, <1>5, <3>2 DEF HostStates
    <3>4. \A u \in Threads \ {t} : thread'[u] = thread[u]
      BY <1>0, <3>2
    <3>5. PICK w : w = [host[h] EXCEPT !.ans = ans, !.ok = ok]
      OBVIOUS
    <3>6. host'[h] = w /\ \A g \in Hosts \ {h} : host'[g] = host[g]
      BY <1>0, <1>5, <3>3, <3>5
    <3>7. host'[h] = [host[h] EXCEPT !.ans = ans, !.ok = ok]
      BY <3>5, <3>6
    <3>8. QED
      BY <3>4, <3>6, <3>7
  <2>4. QED
    BY <2>1, <2>2, <2>3
<1>9. host'[h].pc = "wait" /\ host'[h].name = "build" /\ host'[h].job = host[h].job
      /\ host'[h].r = host[h].r
  BY <1>0, <1>5, <1>6, <1>8 DEF HostStates
<1>10. \A u \in Threads \ {t} : ~(thread'[u].h # 0 /\ thread'[u].name = "build")
  <2>1. HostsApart
    BY <1>4 DEF GuestLink
  <2>2. \A u \in Threads \ {t} : thread[u].h # h
    BY <1>3, <1>4 DEF GuestLink
  <2>3. host[h].pc # "idle"
    BY <1>6
  <2>4. \A u \in Threads : thread[u].h # 0 /\ thread[u].name = "build" => thread[u].h = h
    BY <1>5, <2>1, <2>3, OnlyBuilder
  <2>5. QED
    BY <1>8, <2>2, <2>4
<1>11. ASSUME VmRun(host[h])', VmHandler(thread[t])' PROVE GuestRun'
  <2>1. LinuxRun(host[h])' /\ FreshRun(host[h])'
    BY <1>6, <1>9 DEF LinuxRun, FreshRun
  <2>2. SuccessIsReal'
    BY <1>0, <1>7 DEF SuccessIsReal, Without
  <2>3. Without({"both"})'
    BY <1>0, <1>4 DEF Without
  <2>4. \A u \in Threads : thread'[u].h # 0 /\ thread'[u].name = "build" => VmHandler(thread[u])'
    BY <1>10, <1>11
  <2>5. host[h].pc # "idle"
    BY <1>6
  <2>6. QED
    BY <1>0, <1>5, <1>8, <1>9, <1>11, <2>1, <2>2, <2>3, <2>4, <2>5, BuilderRun
<1>12. ASSUME NEW ans, NEW ok, Reply(t, ans, ok)
       PROVE  host'[h].ans = ans /\ host'[h].ok = ok /\ VmHandler(thread[t])'
  BY <1>0, <1>3, <1>4, <1>5, <1>12 DEF Reply, VmHandler, FreeThread, HostStates
<1>13. CASE Reuse(t)
  <2>1. thread[t].op = "start" /\ thread[t].pc = "op"
    BY <1>13 DEF Reuse, Serving
  <2>2. box["build"].st = "none"
    BY <1>3, <1>4, <1>7, <2>1 DEF VmHandler
  <2>3. Go(t, "create") /\ box' = box /\ host' = host
    BY <1>13, <2>2 DEF Reuse
  <2>4. thread'[t].pc = "create"
    BY <1>0, <2>3 DEF Go, ThreadStates
  <2>5. QED
    BY <1>7, <1>11, <2>2, <2>3, <2>4 DEF VmRun, VmHandler
<1>14. CASE CreateInGuest(t)
  <2>1. thread[t].op = "start" /\ thread[t].pc = "create"
    BY <1>14 DEF CreateInGuest, Serving
  <2>2. box["build"].st = "none"
    BY <1>3, <1>4, <1>7, <2>1 DEF VmHandler
  <2>3. Go(t, "launch") /\ Create("build", thread[t].r) /\ host' = host
    BY <1>14, <2>2 DEF CreateInGuest
  <2>4. thread'[t].pc = "launch" /\ thread'[t].r = thread[t].r
    BY <1>0, <2>3 DEF Go, ThreadStates
  <2>5. box'["build"].st = "created" /\ box'["build"].r = thread[t].r
    BY <1>0, <2>3 DEF Create, Names
  <2>6. VmHandler(thread[t])'
    BY <2>4, <2>5 DEF VmHandler
  <2>7. host[h].job = "run"
    BY <1>5, <1>6, <2>1 DEF Asks
  <2>8. VmRun(host[h])'
    BY <1>6, <2>3, <2>7 DEF VmRun
  <2>9. QED
    BY <1>11, <2>6, <2>8
<1>15. CASE Launch(t)
  <2>1. thread[t].op = "start" /\ thread[t].pc = "launch"
    BY <1>15 DEF Launch, Serving
  <2>2. box["build"].st = "created" /\ box["build"].r = thread[t].r
    BY <1>3, <1>4, <1>7, <2>1 DEF VmHandler
  <2>3. Reply(t, "done", TRUE) /\ box' = [box EXCEPT !["build"].st = "running"]
    BY <1>15, <2>2 DEF Launch
  <2>4. box'["build"].st = "running" /\ box'["build"].r = host[h].r
    BY <1>0, <1>5, <2>1, <2>2, <2>3 DEF Names, Boxes
  <2>5. host[h].job = "run"
    BY <1>5, <1>6, <2>1 DEF Asks
  <2>6. VmRun(host[h])'
    BY <1>9, <1>12, <2>3, <2>4, <2>5 DEF VmRun
  <2>7. QED
    BY <1>11, <1>12, <2>3, <2>6
<1>16. CASE Status(t)
  <2>1. /\ host[h].job = "poll" /\ box' = box
        /\ Reply(t, IF box["build"].st = "none" THEN "err" ELSE "done", box["build"].st = "running")
    BY <1>5, <1>6, <1>16 DEF Status, Serving, Asks
  <2>2. box["build"].st \in {"running", "exited"} /\ box["build"].r = host[h].r
    BY <1>7, <2>1 DEF VmRun
  <2>3. Reply(t, "done", box["build"].st = "running")
    BY <2>1, <2>2
  <2>4. host'[h].ans = "done" /\ host'[h].ok = (box["build"].st = "running") /\ VmHandler(thread[t])'
    BY <1>12, <2>3
  <2>5. VmRun(host[h])'
    BY <1>9, <2>1, <2>2, <2>4 DEF VmRun
  <2>6. QED
    BY <1>11, <2>4, <2>5
<1>17. CASE Health(t)
  <2>1. /\ host[h].job = "code" /\ box' = box
        /\ Reply(t, "done", box["build"].st # "exited" \/ box["build"].ok)
    BY <1>5, <1>6, <1>17 DEF Health, Serving, Asks
  <2>2. box["build"].st = "exited" /\ box["build"].r = host[h].r
    BY <1>7, <2>1 DEF VmRun
  <2>3. host'[h].ans = "done" /\ host'[h].ok = (box["build"].st # "exited" \/ box["build"].ok) /\ VmHandler(thread[t])'
    BY <1>12, <2>1
  <2>4. VmRun(host[h])'
    BY <1>9, <2>1, <2>2, <2>3 DEF VmRun
  <2>5. QED
    BY <1>11, <2>3, <2>4
<1>18. CASE RemoveInGuest(t)
  <2>1. /\ host[h].job = "clean" /\ box' = [box EXCEPT !["build"] = NoBox]
        /\ Reply(t, "done", box["build"].st # "none")
    BY <1>5, <1>6, <1>18 DEF RemoveInGuest, Serving, Asks
  <2>2. box'["build"].st = "none"
    BY <1>0, <2>1 DEF NoBox, Names
  <2>3. host'[h].ans = "done" /\ VmHandler(thread[t])'
    BY <1>12, <2>1
  <2>4. VmRun(host[h])'
    BY <1>9, <2>1, <2>2, <2>3 DEF VmRun
  <2>5. QED
    BY <1>11, <2>3, <2>4
<1>19. QED
  BY <1>2, <1>13, <1>14, <1>15, <1>16, <1>17, <1>18

\* The steps of the handlers.
LEMMA HandlerRun ==
  ASSUME GuestShape, GuestShape', GuestLink, GuestService, GuestRun, NEW t \in Threads, Handler(t)
  PROVE  GuestRun'
<1>0. /\ box \in [Names -> Boxes] /\ thread \in [Threads -> ThreadStates] /\ host \in [Hosts -> HostStates]
      /\ ThreadInShape(thread[t])
  BY DEF GuestShape, GuestTypes
<1>1. thread[t].pc # "free"
  BY DEF Handler, Check, Kill, Unlink, Spawn, Wait, NoService, Reuse, CreateInGuest, Launch, Status, Health,
     RemoveInGuest, Serving
<1>2. backend = "vm" /\ UNCHANGED <<backend, runs>> /\ mishaps \subseteq mishaps'
  BY <1>0, <1>1 DEF ThreadInShape, Handler, Check, Kill, Unlink, Spawn, Wait, NoService, Reuse, CreateInGuest, Launch,
     Status, Health, RemoveInGuest, Happen
<1>3. box' = box \/ (Reuse(t) \/ CreateInGuest(t) \/ Launch(t) \/ RemoveInGuest(t))
  BY DEF Handler, Check, Kill, Unlink, Spawn, Wait, NoService, Status, Health
<1>4. /\ thread[t].name # "build" => box'["build"] = box["build"]
      /\ box'["build"] = box["build"] \/ box'["build"].st # "exited"
  <2>1. CASE box' = box
    BY <2>1
  <2>2. CASE Reuse(t) \/ Launch(t)
    <3>1. box' = box \/ box' = [box EXCEPT ![thread[t].name].st = "running"]
      BY <2>2 DEF Reuse, Launch
    <3>2. QED
      BY <1>0, <3>1 DEF Names, Boxes
  <2>3. CASE CreateInGuest(t) \/ RemoveInGuest(t)
    <3>1. box' = box \/ \E b : b.st # "exited" /\ box' = [box EXCEPT ![thread[t].name] = b]
      BY <2>3 DEF CreateInGuest, RemoveInGuest, Create, NoBox
    <3>2. QED
      BY <1>0, <3>1 DEF Names
  <2>4. QED
    BY <1>3, <2>1, <2>2, <2>3
<1>5. ExitsTold'
  BY <1>2, <1>4, ExitsKept DEF GuestRun
<1>6. CASE mishaps' # {}
  BY <1>2, <1>5, <1>6, SpoiltRun
<1>7. CASE mishaps' = {} /\ (Check(t) \/ Kill(t) \/ Unlink(t) \/ Spawn(t) \/ Wait(t))
  <2>1. /\ UNCHANGED <<box, host>> /\ thread[t].pc # "launch"
    BY <1>7 DEF Check, Kill, Unlink, Spawn, Wait
  <2>2. \/ thread'[t].h = 0
        \/ /\ thread'[t].pc # "launch" /\ thread'[t].h = thread[t].h /\ thread'[t].op = thread[t].op
           /\ thread'[t].name = thread[t].name
    <3>1. CASE Check(t) \/ Kill(t) \/ Unlink(t)
      <4>1. thread' = [thread EXCEPT ![t] = FreeThread] \/ \E label : label # "launch" /\ Go(t, label)
        BY <3>1 DEF Check, Kill, Unlink
      <4>2. CASE thread' = [thread EXCEPT ![t] = FreeThread]
        BY <1>0, <4>2 DEF FreeThread
      <4>3. CASE \E label : label # "launch" /\ Go(t, label)
        BY <1>0, <4>3 DEF Go, ThreadStates
      <4>4. QED
        BY <4>1, <4>2, <4>3
    <3>2. CASE Spawn(t)
      BY <1>0, <3>2 DEF Spawn, ThreadStates
    <3>3. CASE Wait(t)
      <4>1. \/ thread' = [thread EXCEPT ![t] = FreeThread]
            \/ \E label : label # "launch" /\ thread' = [thread EXCEPT ![t] = [thread[t] EXCEPT !.pc = label, !.pid = 0]]
        BY <1>0, <3>3 DEF Wait
      <4>2. CASE thread' = [thread EXCEPT ![t] = FreeThread]
        BY <1>0, <4>2 DEF FreeThread
      <4>3. CASE \E label : label # "launch" /\ thread' = [thread EXCEPT ![t] = [thread[t] EXCEPT !.pc = label, !.pid = 0]]
        BY <1>0, <4>3 DEF ThreadStates
      <4>4. QED
        BY <4>1, <4>2, <4>3
    <3>4. QED
      BY <1>7, <3>1, <3>2, <3>3
  <2>3. VmHandler(thread[t]) => VmHandler(thread[t])'
    BY <2>1, <2>2 DEF VmHandler
  <2>4. \A u \in Threads \ {t} : thread'[u] = thread[u]
    BY <1>0, <1>7 DEF Check, Kill, Unlink, Spawn, Wait, Go
  <2>5. HandlersKept /\ TasksKept
    BY <2>1, <2>3, <2>4 DEF HandlersKept, TasksKept, VmHandler
  <2>6. QED
    BY <1>2, <2>1, <2>5, RunStays
<1>8. CASE /\ mishaps' = {}
           /\ \/ NoService(t) \/ Reuse(t) \/ CreateInGuest(t) \/ Launch(t) \/ Status(t) \/ Health(t) \/ RemoveInGuest(t)
  <2>1. CASE thread[t].name = "build"
    BY <1>2, <1>5, <1>8, <2>1, BuilderServed
  <2>2. CASE thread[t].name # "build"
    <3>1. \A u \in Threads \ {t} : thread'[u] = thread[u]
      BY <1>0, <1>8 DEF NoService, Reuse, CreateInGuest, Launch, Status, Health, RemoveInGuest, Reply, Go
    <3>2. thread'[t].h = 0 \/ thread'[t].name # "build"
      BY <1>0, <1>8, <2>2 DEF NoService, Reuse, CreateInGuest, Launch, Status, Health, RemoveInGuest, Reply, Go,
         FreeThread, ThreadStates
    <3>3. HandlersKept
      BY <1>4, <2>2, <3>1, <3>2 DEF HandlersKept, VmHandler
    <3>4. CASE host' = host
      <4>1. TasksKept
        BY <3>4 DEF TasksKept
      <4>2. QED
        BY <1>2, <1>4, <2>2, <3>3, <4>1, RunStays
    <3>5. CASE \E ans, ok : Reply(t, ans, ok) /\ thread[t].h # 0
      <4>1. PICK h \in Hosts : h = thread[t].h
        BY <1>0, <3>5 DEF ThreadStates
      <4>2. host[h].name # "build"
        BY <2>2, <3>5, <4>1 DEF GuestLink, Linked
      <4>3. host[h].job \notin BuildJobs
        BY <4>2 DEF GuestShape, HostInShape
      <4>0. PICK ans, ok : Reply(t, ans, ok)
        BY <3>5
      <4>4. host' = [host EXCEPT ![h].ans = ans, ![h].ok = ok]
        BY <3>5, <4>1, <4>0 DEF Reply
      <4>5. host'[h].job \notin BuildJobs /\ \A g \in Hosts \ {h} : host'[g] = host[g]
        BY <1>0, <4>3, <4>4 DEF HostStates
      <4>6. TasksKept
        BY <4>2, <4>5 DEF TasksKept
      <4>7. QED
        BY <1>2, <1>4, <2>2, <3>3, <4>6, RunStays
    <3>6. host' = host \/ \E ans, ok : Reply(t, ans, ok)
      BY <1>8 DEF NoService, Reuse, CreateInGuest, Launch, Status, Health, RemoveInGuest
    <3>7. thread[t].h = 0 /\ (\E ans, ok : Reply(t, ans, ok)) => host' = host
      BY DEF Reply
    <3>8. QED
      BY <3>4, <3>5, <3>6, <3>7
  <2>3. QED
    BY <2>1, <2>2
<1>9. QED
  BY <1>6, <1>7, <1>8 DEF Handler

\* A task over a call: its next request is answered by a handler, as long as
\* nothing goes wrong.
LEMMA BuilderCalls ==
  ASSUME GuestShape, GuestShape', GuestLink, GuestRun, mishaps = {}, NEW h \in Hosts, CallStep(h),
         host[h].name = "build", ExitsTold'
  PROVE  GuestRun'
<1>0. /\ thread \in [Threads -> ThreadStates] /\ host \in [Hosts -> HostStates] /\ HostInShape(host[h])
      /\ conn \in 0..gen /\ runs.built \subseteq 1..runs.n
  BY DEF GuestShape, GuestTypes
<1>1. /\ UNCHANGED <<backend, box, mishaps>> /\ host[h].pc # "idle" /\ backend = "vm"
  BY CallGives
<1>2. VmRun(host[h]) /\ FreshRun(host[h]) /\ ExitsTold /\ runs.built \subseteq runs.done
  BY <1>1 DEF GuestRun, VmRuns, FreshRuns, SuccessIsReal
<1>3. ~Waiting(h) /\ host[h].job \in {"run", "poll", "code", "clean"} /\ ~Started(h) /\ ~Removed(h)
  <2>1. host[h].job \notin DevJobs
    BY <1>0 DEF HostInShape
  <2>2. QED
    BY <2>1 DEF CallStep, Asked, RunStarted, Polled, Coded, Cleaned, Started, Removed, Answered, Do, Waiting, DevJobs
<1>4. gen = 1 /\ HostsApart /\ Without({"both"})' /\ conn \in {0, gen}
  BY <1>0, <1>1 DEF GuestLink, Without
<1>5. \A u \in Threads : ~(thread[u].h # 0 /\ thread[u].name = "build")
  <2>1. \A u \in Threads : thread[u].h # 0 /\ thread[u].name = "build" => thread[u].h = h
    BY <1>1, <1>4, OnlyBuilder
  <2>2. \A u \in Threads : thread[u].h # 0 => Waiting(thread[u].h)
    BY DEF GuestLink, Linked
  <2>3. QED
    BY <1>3, <2>1, <2>2
<1>6. /\ runs'.done = runs.done /\ runs'.built \subseteq runs'.done
  <2>1. CASE runs' = runs
    BY <1>2, <2>1
  <2>2. CASE Coded(h) /\ Result(h, host[h].ans = "done" /\ host[h].ok)
    <3>1. /\ runs'.built \subseteq runs.built \cup {host[h].r} /\ runs'.done = runs.done
          /\ ~(host[h].ans = "done" /\ host[h].ok) => runs' = runs
      BY <1>1, <2>2, ResultGives
    <3>2. host[h].job = "code" /\ host[h].r # 0
      BY <1>0, <1>1, <2>2 DEF Coded, Answered, Do, HostInShape
    <3>3. host[h].ans = "done" /\ host[h].ok => host[h].r \in runs.done
      BY <1>2, <3>2 DEF VmRun, ExitsTold
    <3>4. QED
      BY <1>2, <3>1, <3>3
  <2>3. QED
    BY <2>1, <2>2, CallGives
<1>7. SuccessIsReal'
  BY <1>6 DEF SuccessIsReal
<1>8. ASSUME NEW op \in GuestCalls, NEW job \in BuildJobs, Ask(h, op, job), Asks(op, job),
             op = "start" => box["build"].st = "none",
             job \in {"poll", "code"} => box["build"].st \in {"running", "exited"} /\ box["build"].r = host[h].r,
             job = "code" => box["build"].st = "exited"
      PROVE  GuestRun'
  <2>1. PICK w : w = AskedOf(h, op, job)
    OBVIOUS
  <2>2. host' = [host EXCEPT ![h] = w]
        /\ \E t \in Threads : At(t, "free") /\ thread' = [thread EXCEPT ![t] = NewThread(h, op)]
    BY <1>4, <1>8, <2>1, AskGives
  <2>3. w.job = job /\ w.pc = "wait" /\ w.ans = "none" /\ w.name = "build" /\ w.r = host[h].r
    BY <1>0, <2>1 DEF AskedOf, HostStates
  <2>4. host'[h] = w /\ \A g \in Hosts \ {h} : host'[g] = host[g]
    BY <1>0, <2>2
  <2>5. job \in {"run", "poll", "code", "clean"}
    BY <1>8 DEF Asks, BuildJobs
  <2>6. VmRun(host[h])' /\ FreshRun(host[h])' /\ LinuxRun(host[h])'
    BY <1>1, <1>8, <2>3, <2>4, <2>5 DEF VmRun, FreshRun, LinuxRun
  <2>7. ASSUME NEW u \in Threads, thread'[u].h # 0 /\ thread'[u].name = "build" PROVE VmHandler(thread[u])'
    <3>1. thread'[u] = NewThread(h, op)
      BY <1>0, <1>5, <2>2, <2>7
    <3>2. NewThread(h, op).pc = "check" /\ NewThread(h, op).op = op
      BY DEF NewThread
    <3>3. QED
      BY <1>1, <1>8, <3>1, <3>2 DEF VmHandler
  <2>8. host'[h].name = "build" /\ host'[h].pc # "idle"
    BY <2>3, <2>4
  <2>9. QED
    BY <1>1, <1>4, <1>7, <2>4, <2>6, <2>7, <2>8, BuilderRun
<1>9. CASE Asked(h)
  <2>1. Do(h, "run", "run") /\ Ask(h, "start", "run")
    BY <1>3, <1>9 DEF Asked, Do
  <2>2. box["build"].st = "none"
    BY <1>2, <2>1 DEF FreshRun, Do
  <2>3. QED
    BY <1>8, <2>1, <2>2 DEF Asks, BuildJobs, GuestCalls
<1>10. CASE RunStarted(h)
  <2>1. host[h].job = "run" /\ host[h].ans # "none"
    BY <1>3, <1>10 DEF RunStarted, Answered, Do, Waiting
  <2>2. host[h].ans = "done" /\ box["build"].st \in {"running", "exited"} /\ box["build"].r = host[h].r
    BY <1>2, <2>1 DEF VmRun
  <2>3. Ask(h, "status", "poll")
    BY <1>10, <2>2 DEF RunStarted
  <2>4. QED
    BY <1>8, <2>2, <2>3 DEF Asks, BuildJobs, GuestCalls
<1>11. CASE Polled(h)
  <2>1. host[h].job = "poll" /\ host[h].ans # "none" /\ host[h].ans \in {"none", "done", "err"} /\ host[h].ok \in BOOLEAN
    BY <1>0, <1>3, <1>11 DEF Polled, Answered, Do, Waiting, HostStates
  <2>2. /\ box["build"].st \in {"running", "exited"} /\ box["build"].r = host[h].r
        /\ ~host[h].ok => box["build"].st = "exited"
    BY <1>2, <2>1 DEF VmRun
  <2>3. \/ ~host[h].ok /\ Ask(h, "health", "code")
        \/ Ask(h, "status", "poll")
        \/ Ask(h, "remove", "clean")
    BY <1>11, <2>1 DEF Polled
  <2>4. QED
    BY <1>8, <2>2, <2>3 DEF Asks, BuildJobs, GuestCalls
<1>12. CASE Coded(h)
  <2>1. Ask(h, "remove", "clean")
    BY <1>12 DEF Coded
  <2>2. QED
    BY <1>8, <2>1 DEF Asks, BuildJobs, GuestCalls
<1>13. CASE Cleaned(h)
  <2>1. host[h].job = "clean" /\ host[h].ans # "none" /\ Return(h)
    BY <1>3, <1>13 DEF Cleaned, Answered, Do, Waiting
  <2>2. box["build"].st = "none"
    BY <1>2, <2>1 DEF VmRun
  <2>3. host'[h] = IdleHost /\ (\A g \in Hosts \ {h} : host'[g] = host[g]) /\ thread' = thread
    BY <1>0, <2>1 DEF Return
  <2>4. VmRun(host[h])' /\ FreshRun(host[h])' /\ LinuxRun(host[h])'
    BY <2>3 DEF VmRun, FreshRun, LinuxRun, IdleHost
  <2>5. \A u \in Threads : thread'[u].h # 0 /\ thread'[u].name = "build" => VmHandler(thread[u])'
    BY <1>5, <2>3
  <2>6. box'["build"].st = "none"
    BY <1>1, <2>2
  <2>7. QED
    BY <1>1, <1>4, <1>7, <2>3, <2>4, <2>5, <2>6, BuilderRun
<1>14. QED
  BY <1>3, <1>9, <1>10, <1>11, <1>12, <1>13 DEF CallStep

\* The steps of a task over a call.
LEMMA CallRun ==
  ASSUME GuestShape, GuestShape', GuestLink, GuestRun, NEW h \in Hosts, CallStep(h)
  PROVE  GuestRun'
<1>0. /\ thread \in [Threads -> ThreadStates] /\ host \in [Hosts -> HostStates] /\ HostInShape(host[h])
  BY DEF GuestShape, GuestTypes
<1>1. UNCHANGED <<backend, box, mishaps>> /\ host[h].pc # "idle" /\ backend = "vm"
  BY CallGives
<1>2. runs'.done = runs.done
  BY <1>1, CallGives, ResultGives
<1>3. ExitsTold'
  BY <1>1, <1>2, ExitsKept DEF GuestRun
<1>4. CASE mishaps # {}
  BY <1>1, <1>3, <1>4, SpoiltRun
<1>5. CASE mishaps = {} /\ host[h].name = "build"
  BY <1>3, <1>5, BuilderCalls
<1>6. CASE mishaps = {} /\ host[h].name # "build"
  <2>1. ~Coded(h)
    BY <1>0, <1>6 DEF Coded, Answered, Do, HostInShape, BuildJobs
  <2>2. runs' = runs
    BY <2>1, CallGives
  <2>3. CASE Return(h)
    <3>1. host'[h].job = "none" /\ (\A g \in Hosts \ {h} : host'[g] = host[g]) /\ thread' = thread
      BY <1>0, <2>3 DEF Return, IdleHost
    <3>2. TasksKept /\ HandlersKept
      BY <1>1, <1>6, <3>1 DEF TasksKept, HandlersKept, VmHandler, BuildJobs
    <3>3. QED
      BY <1>1, <2>2, <3>2, RunStays
  <2>4. CASE \E op \in GuestCalls, job \in BuildJobs \cup DevJobs : Ask(h, op, job) /\ (job \in BuildJobs => host[h].name = "build")
    <3>1. PICK op \in GuestCalls, job \in BuildJobs \cup DevJobs : Ask(h, op, job) /\ job \notin BuildJobs
      BY <1>6, <2>4
    <3>2. PICK w : w = AskedOf(h, op, job)
      OBVIOUS
    <3>3. w.job = job
      BY <1>0, <3>2 DEF AskedOf, HostStates
    <3>4. \/ host' = [host EXCEPT ![h] = w]
          \/ host' = [host EXCEPT ![h] = [w EXCEPT !.ans = "err"]]
      BY <3>1, <3>2, AskGives
    <3>5. host'[h].job = job
      <4>1. CASE host' = [host EXCEPT ![h] = w]
        BY <1>0, <3>3, <4>1
      <4>2. CASE host' = [host EXCEPT ![h] = [w EXCEPT !.ans = "err"]]
        BY <1>0, <3>2, <3>3, <4>2 DEF AskedOf, HostStates
      <4>3. QED
        BY <3>4, <4>1, <4>2
    <3>6. \A g \in Hosts \ {h} : host'[g] = host[g]
      BY <1>0, <3>4
    <3>7. TasksKept
      BY <1>6, <3>1, <3>5, <3>6 DEF TasksKept
    <3>8. thread' = thread \/ \E t \in Threads : thread' = [thread EXCEPT ![t] = NewThread(h, op)]
      BY <3>1, AskGives
    <3>9. NewThread(h, op).name # "build"
      BY <1>6 DEF NewThread
    <3>10. HandlersKept
      BY <1>0, <1>1, <3>8, <3>9 DEF HandlersKept, VmHandler
    <3>11. QED
      BY <1>1, <2>2, <3>7, <3>10, RunStays
  <2>5. QED
    BY <2>3, <2>4, CallGives
<1>7. QED
  BY <1>4, <1>5, <1>6

\* The steps of the native runtimes.
LEMMA NativeRun ==
  ASSUME GuestShape, GuestShape', GuestLink, GuestRun, NEW h \in Hosts, NativeStep(h)
  PROVE  GuestRun'
<1>0. /\ box \in [Names -> Boxes] /\ host \in [Hosts -> HostStates] /\ HostInShape(host[h])
      /\ runs \in [n : 0..Requests, done : SUBSET Nat, built : SUBSET Nat] /\ runs.built \subseteq 1..runs.n
  BY DEF GuestShape, GuestTypes
<1>1. UNCHANGED <<backend, thread, mishaps>> /\ backend # "vm"
  BY DEF NativeStep, Refuse, RemoveStale, CreateRun, LaunchRun, AwaitEnd, RemoveRun, StartNative, MakeNative,
     RemoveNative, Native
<1>2. host[h].pc # "idle"
  BY <1>0 DEF NativeStep, Refuse, RemoveStale, CreateRun, LaunchRun, AwaitEnd, RemoveRun, StartNative, MakeNative,
     RemoveNative, Do
<1>3. runs' = runs \/ (AwaitEnd(h) /\ Result(h, box["build"].st = "exited" /\ box["build"].ok))
  BY DEF NativeStep, Refuse, RemoveStale, CreateRun, LaunchRun, AwaitEnd, RemoveRun, StartNative, MakeNative,
     RemoveNative
<1>4. runs'.done = runs.done
  BY <1>2, <1>3, ResultGives
<1>5. CASE StartNative(h) \/ MakeNative(h) \/ RemoveNative(h)
  <2>1. host[h].job \in {"start", "make", "remove"}
    BY <1>5 DEF StartNative, MakeNative, RemoveNative, Do
  <2>2. host[h].name # "build"
    BY <1>0, <2>1 DEF HostInShape, DevJobs
  <2>3. box'["build"] = box["build"] /\ runs' = runs
    BY <1>0, <1>5 DEF StartNative, MakeNative, RemoveNative, Names
  <2>4. \E w : w.job \notin BuildJobs /\ host' = [host EXCEPT ![h] = w]
    <3>1. IdleHost.job \notin BuildJobs /\ [host[h] EXCEPT !.pc = "make", !.job = "make"].job \notin BuildJobs
      BY <1>0 DEF IdleHost, BuildJobs, HostStates
    <3>2. Done(h) \/ Then(h, "make")
      BY <1>5 DEF StartNative, MakeNative, RemoveNative
    <3>3. CASE Done(h)
      BY <3>1, <3>3 DEF Done
    <3>4. CASE Then(h, "make")
      <4>1. host' = [host EXCEPT ![h] = [host[h] EXCEPT !.pc = "make", !.job = "make"]]
        BY <1>0, <3>4 DEF Then
      <4>2. QED
        BY <3>1, <4>1
    <3>5. QED
      BY <3>2, <3>3, <3>4
  <2>5. TasksKept
    BY <1>0, <2>2, <2>4 DEF TasksKept
  <2>6. QED
    BY <1>1, <2>3, <2>5, RunStays
<1>6. CASE Refuse(h) \/ RemoveStale(h) \/ CreateRun(h) \/ LaunchRun(h) \/ AwaitEnd(h) \/ RemoveRun(h)
  <2>1. host[h].job \in {"run", "create", "launch", "end", "tidy"} /\ host[h].job = host[h].pc
    BY <1>6 DEF Refuse, RemoveStale, CreateRun, LaunchRun, AwaitEnd, RemoveRun, Do
  <2>2. host[h].name = "build"
    BY <1>0, <2>1 DEF HostInShape, BuildJobs
  <2>3. box' = box \/ box'["build"].st # "exited"
    BY <1>0, <1>6 DEF Refuse, RemoveStale, CreateRun, LaunchRun, AwaitEnd, RemoveRun, Create, NoBox, Names, Boxes
  <2>4. ExitsTold'
    BY <1>4, <2>3, ExitsKept DEF GuestRun
  <2>5. CASE "both" \in mishaps \/ (mishaps # {} /\ backend # "linux")
    BY <1>1, <2>4, <2>5, SpoiltRun
  <2>6. CASE "both" \notin mishaps /\ (mishaps # {} => backend = "linux")
    <3>1. Without({"both"})' /\ Without({"both"}) /\ LinuxRun(host[h])
      BY <1>1, <2>6 DEF Without, GuestRun, LinuxRuns
    <3>2. \A g \in Hosts \ {h} : host'[g] = host[g]
      BY <1>0, <1>6 DEF Refuse, RemoveStale, CreateRun, LaunchRun, AwaitEnd, RemoveRun, Done, Then
    <3>3. runs.built \subseteq runs.done
      BY <2>6, <3>1 DEF GuestRun, SuccessIsReal
    <3>4. SuccessIsReal'
      <4>1. CASE runs' = runs
        BY <3>3, <4>1 DEF SuccessIsReal
      <4>2. CASE AwaitEnd(h) /\ Result(h, box["build"].st = "exited" /\ box["build"].ok)
        <5>1. /\ runs'.built \subseteq runs.built \cup {host[h].r}
              /\ ~(box["build"].st = "exited" /\ box["build"].ok) => runs' = runs
          BY <1>2, <4>2, ResultGives
        <5>2. host[h].job = "end" /\ host[h].r # 0
          BY <1>0, <1>2, <4>2 DEF AwaitEnd, Do, HostInShape
        <5>3. box["build"].st = "exited" /\ box["build"].ok => host[h].r \in runs.done
          BY <3>1, <5>2 DEF LinuxRun, GuestRun, ExitsTold
        <5>4. QED
          BY <1>4, <3>3, <5>1, <5>3 DEF SuccessIsReal
      <4>3. QED
        BY <1>3, <4>1, <4>2
    <3>5. ASSUME LinuxRun(host[h])', mishaps = {} => FreshRun(host[h])',
                 mishaps = {} /\ (host'[h].name # "build" \/ host'[h].pc = "idle") => box'["build"].st = "none"
          PROVE  GuestRun'
      BY <1>1, <1>2, <2>2, <2>4, <3>1, <3>2, <3>4, <3>5, BuilderRun
    <3>6. CASE Done(h) /\ (mishaps = {} => box'["build"].st = "none")
      <4>1. host'[h] = IdleHost
        BY <1>0, <3>6 DEF Done
      <4>2. QED
        BY <3>5, <3>6, <4>1 DEF IdleHost, LinuxRun, FreshRun
    <3>7. ASSUME NEW label \in NativeJobs \ {"make"}, Then(h, label),
                 label = "create" => box'["build"].st = "none",
                 label = "launch" => box'["build"].st = "created" /\ box'["build"].r = host[h].r,
                 label = "end" => box'["build"].st = "running" /\ box'["build"].r = host[h].r
          PROVE  GuestRun'
      <4>1. /\ host'[h].job = label /\ host'[h].pc = label /\ host'[h].name = "build"
            /\ host'[h].r = host[h].r
        BY <1>0, <2>2, <3>7 DEF Then, HostStates
      <4>2. LinuxRun(host[h])' /\ FreshRun(host[h])'
        BY <3>7, <4>1 DEF LinuxRun, FreshRun, NativeJobs
      <4>3. label # "idle"
        BY <3>7 DEF NativeJobs
      <4>4. QED
        BY <3>5, <4>1, <4>2, <4>3
    <3>8. CASE Refuse(h)
      <4>1. Done(h) /\ box' = box /\ host[h].job = "run" /\ host[h].pc = "run"
        BY <3>8 DEF Refuse, Do
      <4>2. mishaps = {} => box["build"].st = "none"
        BY <4>1 DEF GuestRun, FreshRuns, FreshRun
      <4>3. QED
        BY <3>6, <4>1, <4>2
    <3>9. CASE RemoveStale(h)
      <4>1. Then(h, "create") /\ box'["build"].st = "none"
        BY <1>0, <3>9 DEF RemoveStale, NoBox, Names
      <4>2. QED
        BY <3>7, <4>1 DEF NativeJobs
    <3>10. CASE CreateRun(h)
      <4>1. box["build"].st = "none"
        BY <3>1, <3>10 DEF CreateRun, Do, LinuxRun
      <4>2. Then(h, "launch") /\ box'["build"].st = "created" /\ box'["build"].r = host[h].r
        BY <1>0, <3>10, <4>1 DEF CreateRun, Create, Names
      <4>3. QED
        BY <3>7, <4>2 DEF NativeJobs
    <3>11. CASE LaunchRun(h)
      <4>1. box["build"].st = "created" /\ box["build"].r = host[h].r
        BY <3>1, <3>11 DEF LaunchRun, Do, LinuxRun
      <4>2. Then(h, "end") /\ box'["build"].st = "running" /\ box'["build"].r = host[h].r
        BY <1>0, <3>11, <4>1 DEF LaunchRun, Names, Boxes
      <4>3. QED
        BY <3>7, <4>2 DEF NativeJobs
    <3>12. CASE AwaitEnd(h)
      BY <3>7, <3>12 DEF AwaitEnd, NativeJobs
    <3>13. CASE RemoveRun(h)
      <4>1. Done(h) /\ box'["build"].st = "none"
        BY <1>0, <3>13 DEF RemoveRun, NoBox, Names
      <4>2. QED
        BY <3>6, <4>1
    <3>14. QED
      BY <1>6, <3>8, <3>9, <3>10, <3>11, <3>12, <3>13
  <2>7. QED
    BY <2>5, <2>6
<1>7. QED
  BY <1>5, <1>6 DEF NativeStep

-----------------------------------------------------------------------------
(* The invariant *)

\* It holds when the launcher starts.
LEMMA GuestInit == Init => GuestInv
<1> SUFFICES ASSUME Init PROVE GuestInv
  OBVIOUS
<1>1. GuestShape
  BY InitInShape
<1>2. /\ \A t \in Threads : thread[t].h = 0 /\ thread[t].pc \in {"free", "check"} /\ thread[t].op \in {"free", "boot"}
      /\ \A h \in Hosts : host[h] = IdleHost
      /\ gen = 1 /\ podman.up = {} /\ mishaps \subseteq {"left"}
  BY DEF Init, Booting, FreeThread
<1>3. GuestLink
  BY <1>2 DEF GuestLink, Linked, HostsApart, IdleHost, GuestCalls
<1>4. SoloService
  BY <1>2 DEF SoloService, OneRestarts, OneUp, NoneToStart, Answering, Doomed
<1>5. CalmService
  BY <1>2 DEF CalmService
<1>6. ExitsTold /\ SuccessIsReal
  BY DEF Init, ExitsTold, SuccessIsReal, NoBox, Left, Names
<1>7. FreshRuns /\ VmRuns /\ LinuxRuns
  BY <1>2 DEF FreshRuns, VmRuns, LinuxRuns, FreshRun, VmRun, VmHandler, LinuxRun, IdleHost
<1>8. NothingLeft
  BY DEF Init, NothingLeft, NoBox, Names
<1>9. QED
  BY <1>1, <1>2, <1>3, <1>4, <1>5, <1>6, <1>7, <1>8 DEF GuestInv, GuestService, GuestRun, NoneOnHost

\* A step that changes nothing loses nothing.
LEMMA GuestStutter ==
  ASSUME GuestInv, UNCHANGED vars
  PROVE  GuestInv'
<1>1. GuestShape'
  BY DEF vars, GuestInv, GuestShape, GuestTypes, ThreadInShape, HostInShape
<1>2. GuestLink'
  BY GoesOnLinked DEF vars, GuestInv, GoesOn
<1>3. GuestService'
  BY AwayService DEF vars, GuestInv, KeepsAway
<1>4. TasksKept /\ HandlersKept
  BY DEF vars, TasksKept, HandlersKept, VmHandler
<1>5. GuestRun'
  BY <1>4, RunStays DEF vars, GuestInv
<1>6. QED
  BY <1>1, <1>2, <1>3, <1>5 DEF vars, GuestInv, NoneOnHost

\* Every step keeps it.
LEMMA GuestStep ==
  ASSUME GuestInv, Next
  PROVE  GuestInv'
<1>1. GuestShape /\ GuestLink /\ GuestService /\ GuestRun /\ NoneOnHost
  BY DEF GuestInv
<1>2. ASSUME NEW t \in Threads, Handler(t) PROVE GuestInv'
  <2>1. GuestShape' /\ GuestLink' /\ GuestService'
    BY <1>1, <1>2, HandlerInShape, HandlerLinked, HandlerService
  <2>2. GuestRun'
    BY <1>1, <1>2, <2>1, HandlerRun
  <2>3. ThreadInShape(thread[t]) /\ thread[t].pc # "free"
    BY <1>1, <1>2 DEF GuestShape, Handler, Check, Kill, Unlink, Spawn, Wait, NoService, Reuse, CreateInGuest, Launch,
       Status, Health, RemoveInGuest, Serving
  <2>4. NoneOnHost'
    BY <2>3, <1>2 DEF NoneOnHost, ThreadInShape, Handler, Check, Kill, Unlink, Spawn, Wait, NoService, Reuse,
       CreateInGuest, Launch, Status, Health, RemoveInGuest
  <2>5. QED
    BY <2>1, <2>2, <2>4 DEF GuestInv
<1>3. ASSUME NEW h \in Hosts, CallStep(h) PROVE GuestInv'
  <2>1. GuestShape' /\ GuestLink' /\ GuestService'
    BY <1>1, <1>3, CallInShape, CallLinked, TaskService
  <2>2. GuestRun'
    BY <1>1, <1>3, <2>1, CallRun
  <2>3. NoneOnHost'
    BY <1>1, <1>3, CallGives DEF NoneOnHost
  <2>4. QED
    BY <2>1, <2>2, <2>3 DEF GuestInv
<1>4. ASSUME NEW h \in Hosts, NativeStep(h) PROVE GuestInv'
  <2>1. GuestShape' /\ GuestLink' /\ GuestService'
    BY <1>1, <1>4, NativeInShape, NativeLinked, TaskService
  <2>2. GuestRun'
    BY <1>1, <1>4, <2>1, NativeRun
  <2>3. NoneOnHost'
    BY <1>1, <1>4 DEF NoneOnHost, NativeStep, Refuse, RemoveStale, CreateRun, LaunchRun, AwaitEnd, RemoveRun, StartNative,
       MakeNative, RemoveNative, Native
  <2>4. QED
    BY <2>1, <2>2, <2>3 DEF GuestInv
<1>5. ASSUME \/ \E h \in Hosts : Build(h) \/ Start(h) \/ Remove(h) \/ GiveUp(h)
             \/ Exit \/ PodmanFails \/ AgentRestarts
      PROVE  GuestInv'
  <2>1. GuestShape' /\ GuestLink' /\ GuestService'
    BY <1>1, <1>5, OtherInShape, OtherLinked, OtherService
  <2>2. GuestRun'
    BY <1>1, <1>5, <2>1, OtherRun
  <2>3. NoneOnHost'
    BY <1>1, <1>5 DEF NoneOnHost, Build, Start, Remove, Begin, GiveUp, Exit, PodmanFails, AgentRestarts
  <2>4. QED
    BY <2>1, <2>2, <2>3 DEF GuestInv
<1>6. QED
  BY <1>2, <1>3, <1>4, <1>5 DEF Next, Task, CallStep, NativeStep

\* A set with no two members has one at most.
LEMMA OneAtMost ==
  ASSUME NEW S, \A p, q \in S : p = q
  PROVE  Cardinality(S) <= 1
<1>1. CASE S = {}
  BY <1>1, FS_EmptySet
<1>2. CASE S # {}
  <2>1. PICK p : p \in S
    BY <1>2
  <2>2. S = {p}
    BY <2>1
  <2>3. Cardinality({p}) = 1
    BY FS_Singleton, Zenon
  <2>4. QED
    BY <2>2, <2>3
<1>3. QED
  BY <1>1, <1>2

\* It says what the run checks.
LEMMA GuestRunsAreReal == GuestInv => RunsAreReal
<1> SUFFICES ASSUME GuestInv PROVE RunsAreReal
  OBVIOUS
<1>1. GuestShape /\ GuestService /\ GuestRun /\ NoneOnHost
  BY DEF GuestInv
<1>2. OneService
  <2>1. Solo => Cardinality(podman.up) <= 1
    BY <1>1, OneAtMost DEF GuestService, SoloService, OneUp
  <2>2. QED
    BY <2>1 DEF Solo, OneService
<1>3. TypeOK
  BY <1>1 DEF TypeOK, GuestShape, GuestTypes, ThreadInShape, NoneOnHost, Boxes, HostStates, ContainersAssumption
<1>4. QED
  BY <1>1, <1>2, <1>3 DEF RunsAreReal, GuestRun

\* In every behaviour of the containers.
THEOREM GuestInvariant == Spec => []GuestInv
<1>1. GuestInv /\ [Next]_vars => GuestInv'
  BY GuestStep, GuestStutter
<1>2. QED
  BY GuestInit, <1>1, PTL DEF Spec

\* A run that its caller is told has succeeded (Runtime::run_to_completion) ran
\* its own command to a good end, in the only podman service there was, and
\* left nothing behind.
THEOREM RunsStayReal == Spec => []RunsAreReal
  BY GuestInvariant, GuestRunsAreReal, PTL

\* And in the machine, of which the containers are a part.
THEOREM MachineRunsAreReal == MachineSpec => []RunsAreReal
<1>1. MachineInit => GuestInv
  BY GuestInit DEF MachineInit
<1>2. GuestInv /\ [MachineNext]_all => GuestInv'
  <2>1. [MachineNext]_all => [Next]_vars
    BY DEF MachineNext, all
  <2>2. QED
    BY <2>1, GuestStep, GuestStutter
<1>3. QED
  BY <1>1, <1>2, GuestRunsAreReal, PTL DEF MachineSpec
=============================================================================
