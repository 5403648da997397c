------------------------------ MODULE ServicesMC ------------------------------
(***************************************************************************)
(* Small instances, in one run, of three components that share no state:   *)
(* the download of the VM's image, the forwarding of a connection and the  *)
(* launch gate.  A behaviour is of one of them; the others rest in an      *)
(* initial state, in which their properties hold.                          *)
(***************************************************************************)
EXTENDS ImageDownload

CONSTANTS None, MuxBytes, MuxRoom, MuxFaults, Systems, LaunchMishaps

ASSUME ServicesAssumption ==
  /\ None \notin {1, 2} /\ None # "page"
  /\ Systems \subseteq {"windows", "linux", "macos"}

ASSUME MuxAssumption == MuxBytes \in Nat /\ MuxRoom \in Nat

VARIABLES part,
          kind, host, agent, cut, chan, copying, client, service,
          os, machine, distro, autoStart, up, runtime, report, lock, handle, init, vm, starter,
          phase, status, run, launches, launchMishaps

Mux == INSTANCE PortMux WITH N <- MuxBytes, Cap <- MuxRoom, Faults <- MuxFaults, task <- copying
Gate == INSTANCE Launch WITH MaxLaunches <- 2, Mishaps <- LaunchMishaps, call <- init,
                             mishaps <- launchMishaps

muxVars == <<kind, host, agent, cut, chan, copying, client, service>>
gateVars == <<os, machine, distro, autoStart, up, runtime, report, lock, handle, init, vm, starter,
              phase, status, run, launches, launchMishaps>>
all == <<part, vars, muxVars, gateVars>>

ServicesInit ==
  /\ part \in {"image", "mux", "gate"}
  /\ Init /\ Mux!Init /\ Gate!Init
  /\ part # "mux" => kind = "rpc"
  /\ part # "gate" => os = "macos" /\ machine = "image" /\ ~distro /\ ~autoStart

ServicesNext ==
  \/ /\ part = "image" /\ Next /\ UNCHANGED <<part, muxVars, gateVars>>
  \/ /\ part = "mux" /\ Mux!Next /\ UNCHANGED <<part, vars, gateVars>>
  \/ /\ part = "gate" /\ Gate!Next /\ UNCHANGED <<part, vars, muxVars>>

\* The fairness of each part, as its module states it.
Fairness ==
  /\ WF_vars(part = "image" /\ Download) /\ WF_vars(part = "image" /\ Step)
  /\ WF_vars(part = "image" /\ OrphanEnds)
  /\ WF_muxVars(part = "mux" /\ (Mux!Connect \/ Mux!ReadStatus \/ Mux!HostEnds))
  /\ WF_muxVars(part = "mux" /\ (Mux!First \/ Mux!Serve \/ Mux!Bridge \/ Mux!AgentEnds))
  /\ \A t \in Mux!Copies : WF_muxVars(part = "mux" /\ Mux!Copy(t))
  /\ \A w \in Mux!Ways : WF_muxVars(part = "mux" /\ (Mux!Get(w) \/ Mux!See(w)))
  /\ WF_gateVars(part = "gate" /\ Gate!EmitReport) /\ WF_gateVars(part = "gate" /\ Gate!VmStarts)
  /\ WF_gateVars(part = "gate" /\ Gate!EnsureImage)
  /\ WF_gateVars(part = "gate" /\ Gate!CheckDataIntegrity)
  /\ WF_gateVars(part = "gate" /\ (Gate!SetupWindows \/ Gate!SetupMacOS \/ Gate!SetupLinux))
  /\ \A i \in Gate!Calls :
       WF_gateVars(part = "gate" /\ (Gate!TakeWsl(i) \/ Gate!InstallDistro(i) \/ Gate!ProbePodman(i)))

ServicesSpec == ServicesInit /\ [][ServicesNext]_all /\ Fairness

-----------------------------------------------------------------------------
(* The properties of the parts, which state them *)

\* PortMux: a connection is a stream each way; the end of one is told; what
\* serves it ends.
ConnectionIsServed == Mux!ConnectionIsServed

\* Launch: the library opens over a WSL that answers; the distribution is
\* imported once; a loading screen has something under way, which ends.
GateIsTrue == Gate!GateIsTrue
GateSettles == Gate!GateSettles
=============================================================================
