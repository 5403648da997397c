------------------------------ MODULE MachineMC ------------------------------
(***************************************************************************)
(* Small instances, in one run, of three components that share no state:   *)
(* the containers of the guest, the allocation of ports, and the life of   *)
(* the virtual machine, left to the tray alone ("tray") or started with    *)
(* the launcher ("live").  A behaviour is of one of them, and the others   *)
(* rest in an initial state.                                               *)
(***************************************************************************)
EXTENDS Containers, Integers

CONSTANTS MinPort, MaxPort, FirstAppPort, TopPort, Projects, Slugs, Tasks, None, Vms

VARIABLES part,
          next_port, port, scan, task, host_port,
          up, status, manager, tray, pc, vm, alive, pidfile, link, changed, booted

Ports == INSTANCE PortAllocation
Tray == INSTANCE VmLifecycle WITH AutoStart <- FALSE, Callers <- {"tray_start", "tray_stop", "quit"},
                                  UserWaits <- TRUE
Live == INSTANCE VmLifecycle WITH AutoStart <- TRUE, Callers <- {"init_vm", "tray_stop"}, UserWaits <- TRUE

vmVars == <<up, status, manager, tray, pc, vm, alive, pidfile, link, changed, booted>>
portVars == <<next_port, port, scan, task, host_port>>
all == <<part, vars, portVars, vmVars>>

ASSUME MachineAssumption ==
  ContainersAssumption /\ Ports!PortAssumption /\ Tray!VmLifecycleAssumption /\ Live!VmLifecycleAssumption

MachineInit ==
  /\ part \in {"ports", "tray", "live", "guest"}
  /\ Init /\ Ports!Init
  /\ IF part = "live" THEN Live!Init ELSE Tray!Init
  /\ part # "guest" => backend = "vm" /\ mishaps = {} /\ box["dev"] = NoBox

MachineNext ==
  \/ /\ part = "guest" /\ Next /\ UNCHANGED <<part, portVars, vmVars>>
  \/ /\ part = "ports" /\ Ports!Next /\ UNCHANGED <<part, vars, vmVars>>
  \/ /\ part = "tray" /\ Tray!Next /\ UNCHANGED <<part, vars, portVars>>
  \/ /\ part = "live" /\ Live!Next /\ UNCHANGED <<part, vars, portVars>>

\* The fairness of each part, as its module states it.
MachineFairness ==
  /\ \A t \in Threads : WF_vars(part = "guest" /\ Handler(t))
  /\ \A h \in Hosts : WF_vars(part = "guest" /\ Task(h))
  /\ WF_portVars(part = "ports" /\ Ports!ScanStep)
  /\ \A t \in Tray!Actors :
       WF_vmVars((part = "tray" /\ Tray!TaskStep(t)) \/ (part = "live" /\ Live!TaskStep(t)))
  /\ WF_vmVars((part = "tray" /\ Tray!Link) \/ (part = "live" /\ Live!Link))

MachineSpec == MachineInit /\ [][MachineNext]_all /\ MachineFairness

-----------------------------------------------------------------------------
(* The properties of the parts, which state them, of the behaviours of the
   part: the others rest.  Those of Containers, RunsAreReal and RunsEnd, are
   its own. *)

\* PortAllocation: the scan keeps to its range, finds the port it should, and
\* refuses only when there is none; it always ends.
AllocationIsRight == Ports!AllocationIsRight
ScanEnds == Ports!ScanEnds

\* VmLifecycle: one virtual machine at a time, on which every account agrees;
\* a start ends and is seen to.
OneVmIsKept == part = "tray" => Tray!OneVmIsKept
StartsEnd == Live!StartsEnd
=============================================================================
