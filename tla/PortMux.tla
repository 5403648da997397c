-------------------------------- MODULE PortMux --------------------------------
(***************************************************************************)
(* One connection from the host to the guest over the socket of the VM     *)
(* (src/src/tauri/src/vm/port_forward.rs and                               *)
(* src/src/agent/src/port_forward.rs).  The first byte tells the agent     *)
(* whether the connection is forwarded to a port, after a handshake, or    *)
(* bridged to its own server of calls; then bytes are copied both ways.    *)
(*                                                                         *)
(* A connection of kind "forward" passes through a task of the host, one   *)
(* of kind "rpc" is the socket of the client of the calls.                 *)
(***************************************************************************)
EXTENDS Naturals, Sequences, SequencesExt

CONSTANTS N,       \* bound: bytes each side sends
          Cap,     \* bound: bytes a channel holds
          Faults   \* what may go wrong: "refused", "reset", "vm"

\* refused: nothing listens at the port, or the agent cannot be reached.
\* reset: an end drops the connection with bytes under way.  vm: the socket
\* of the VM goes.

VARIABLES kind, host, agent, cut,
          chan,    \* the channels: from the client, over the VM's socket, to
                   \* the service, and back
          task,    \* the four copies: of the host and of the agent, each way
          client, service

vars == <<kind, host, agent, cut, chan, task, client, service>>

Ways == {"up", "down"}
Copies == {"hostUp", "hostDown", "agentUp", "agentDown"}
Chans == {"cu", "vu", "su", "sd", "vd", "cd"}
From == [hostUp |-> "cu", agentUp |-> "vu", agentDown |-> "sd", hostDown |-> "vd"]
To == [hostUp |-> "vu", agentUp |-> "su", agentDown |-> "vd", hostDown |-> "cd"]

\* A channel: what is in it, whether its writer has shut it down, whether
\* its reader is gone.
Open == [q |-> <<>>, shut |-> FALSE, gone |-> FALSE]
End0 == [sent |-> 0, got |-> 0, ended |-> FALSE, seen |-> FALSE, wrong |-> FALSE]

\* No frame of a call begins with the first of these.
Magic == N + 1
Ok == N + 2
No == N + 3

Init ==
  /\ kind \in {"forward", "rpc"}
  /\ host = "accepted" /\ agent = "none"
  /\ chan = [c \in Chans |-> Open] /\ task = [c \in Copies |-> "off"]
  /\ client = End0 /\ service = End0 /\ cut = FALSE

Put(c, b) == [chan EXCEPT ![c].q = Append(@, b)]
Room(c) == Len(chan[c].q) < Cap
Closed(cs) == [c \in Chans |-> IF c \in cs THEN [chan[c] EXCEPT !.shut = TRUE, !.gone = TRUE] ELSE chan[c]]

\* A client of the calls writes into the VM's socket itself.
Out == IF kind = "rpc" THEN "vu" ELSE "cu"
In == IF kind = "rpc" THEN "vd" ELSE "cd"
HostSide == {"cu", "cd", "vu", "vd"}
AgentSide == {"vu", "vd", "su", "sd"}

-----------------------------------------------------------------------------
(* The host                                                                 *)

\* proxy_connection connects and sends the handshake.
Connect ==
  /\ host = "accepted"
  /\ IF kind = "rpc" THEN host' = "copying" /\ agent' = "first" /\ UNCHANGED <<chan, cut>>
     ELSE \/ host' = "status" /\ agent' = "first" /\ chan' = Put("vu", Magic) /\ UNCHANGED cut
          \/ "refused" \in Faults /\ host' = "done" /\ chan' = Closed(HostSide) /\ cut' = TRUE /\ UNCHANGED agent
  /\ UNCHANGED <<kind, task, client, service>>

\* The answer decides; an end of the socket is a failure.
ReadStatus ==
  LET v == chan["vd"] IN
  /\ host = "status" /\ (v.q # <<>> \/ v.shut)
  /\ IF v.q # <<>> /\ Head(v.q) = Ok
     THEN /\ host' = "copying" /\ chan' = [chan EXCEPT !["vd"].q = Tail(@)]
          /\ task' = [task EXCEPT !["hostUp"] = "on", !["hostDown"] = "on"]
     ELSE host' = "done" /\ chan' = Closed(HostSide) /\ UNCHANGED task
  /\ UNCHANGED <<kind, agent, cut, client, service>>

\* copy_bidirectional returns at the first error, and when both ways are done.
HostEnds ==
  /\ host = "copying" /\ kind = "forward"
  /\ task["hostUp"] = "failed" \/ task["hostDown"] = "failed" \/ (task["hostUp"] = "ended" /\ task["hostDown"] = "ended")
  /\ host' = "done" /\ chan' = Closed(HostSide) /\ task' = [task EXCEPT !["hostUp"] = "off", !["hostDown"] = "off"]
  /\ UNCHANGED <<kind, agent, cut, client, service>>

-----------------------------------------------------------------------------
(* The agent                                                                *)

FirstOf(c) == Head(chan[c].q)

\* handle_connection: the first byte, or none.
First ==
  /\ agent = "first" /\ (chan["vu"].q # <<>> \/ chan["vu"].shut)
  /\ IF chan["vu"].q = <<>> THEN agent' = "refused" /\ cut' = TRUE /\ chan' = Closed(AgentSide)
     ELSE /\ agent' = (IF FirstOf("vu") = Magic THEN "port" ELSE "bridge") /\ UNCHANGED cut
          /\ chan' = [chan EXCEPT !["vu"].q = Tail(@), !["su"].q = IF FirstOf("vu") = Magic THEN @ ELSE Append(@, FirstOf("vu"))]
  /\ UNCHANGED <<kind, host, task, client, service>>

Start == agent' = "copying" /\ task' = [task EXCEPT !["agentUp"] = "on", !["agentDown"] = "on"] /\ UNCHANGED cut

\* The agent lets go of both sockets, saying what it has said.
Refuse(answer) ==
  /\ "refused" \in Faults /\ agent' = "refused" /\ cut' = TRUE /\ UNCHANGED task
  /\ chan' = [Closed(AgentSide) EXCEPT !["vd"].q = chan["vd"].q \o answer]

\* handle_port_forward: the answer is in the socket before a copy starts.
Serve ==
  /\ agent = "port"
  /\ (Start /\ chan' = Put("vd", Ok)) \/ Refuse(<<No>>)
  /\ UNCHANGED <<kind, host, client, service>>

\* bridge_to_ttrpc: the byte that decided goes first.
Bridge ==
  /\ agent = "bridge"
  /\ (Start /\ UNCHANGED chan) \/ Refuse(<<>>)
  /\ UNCHANGED <<kind, host, client, service>>

\* Both threads have ended; their ends of the sockets go with them.
AgentEnds ==
  /\ agent = "copying" /\ task["agentUp"] \in {"ended", "failed"} /\ task["agentDown"] \in {"ended", "failed"}
  /\ agent' = "done" /\ chan' = Closed(AgentSide) /\ task' = [task EXCEPT !["agentUp"] = "off", !["agentDown"] = "off"]
  /\ UNCHANGED <<kind, host, cut, client, service>>

-----------------------------------------------------------------------------
(* The copies                                                               *)

\* Mutant: the end of the source is not passed on.
CopyKeepsOpen(t) ==
  LET s == From[t]  d == To[t] IN
  /\ task[t] = "on"
  /\ \/ /\ chan[s].q # <<>> /\ ~chan[d].gone /\ Room(d)
        /\ chan' = [chan EXCEPT ![s].q = Tail(@), ![d].q = Append(@, Head(chan[s].q))] /\ UNCHANGED task
     \/ /\ chan[s].q # <<>> /\ chan[d].gone
        /\ task' = [task EXCEPT ![t] = "failed"] /\ UNCHANGED chan
     \/ chan[s].q = <<>> /\ chan[s].shut /\ task' = [task EXCEPT ![t] = "ended"] /\ UNCHANGED chan
  /\ UNCHANGED <<kind, host, agent, cut, client, service>>

\* One byte at a time; a copy that ends or fails shuts its target down.  The
\* sockets stay open until the other copy of the pair is through.
Copy(t) ==
  LET s == From[t]  d == To[t] IN
  /\ task[t] = "on"
  /\ \/ /\ chan[s].q # <<>> /\ ~chan[d].gone /\ Room(d)
        /\ chan' = [chan EXCEPT ![s].q = Tail(@), ![d].q = Append(@, Head(chan[s].q))] /\ UNCHANGED task
     \/ /\ chan[s].q # <<>> /\ chan[d].gone
        /\ task' = [task EXCEPT ![t] = "failed"]
        /\ chan' = [chan EXCEPT ![d].shut = TRUE]
     \/ /\ chan[s].q = <<>> /\ chan[s].shut
        /\ task' = [task EXCEPT ![t] = "ended"] /\ chan' = [chan EXCEPT ![d].shut = TRUE]
  /\ UNCHANGED <<kind, host, agent, cut, client, service>>

-----------------------------------------------------------------------------
(* The two ends                                                             *)

\* An end is there once it is connected: the client from the start.
There(w) == w = "up" \/ agent \in {"copying", "done"}
OutOf(w) == IF w = "up" THEN Out ELSE "sd"
InOf(w) == IF w = "up" THEN In ELSE "su"
EndOf(w) == IF w = "up" THEN client ELSE service
Now(w, e) == IF w = "up" THEN client' = e /\ UNCHANGED service ELSE service' = e /\ UNCHANGED client

Send(w) ==
  LET e == EndOf(w) IN
  /\ There(w) /\ ~e.ended /\ e.sent < N /\ Room(OutOf(w)) /\ ~chan[OutOf(w)].gone
  /\ chan' = Put(OutOf(w), e.sent + 1) /\ Now(w, [e EXCEPT !.sent = @ + 1])
  /\ UNCHANGED <<kind, host, agent, cut, task>>

Finish(w) ==
  LET e == EndOf(w) IN
  /\ There(w) /\ ~e.ended
  /\ chan' = [chan EXCEPT ![OutOf(w)].shut = TRUE] /\ Now(w, [e EXCEPT !.ended = TRUE])
  /\ UNCHANGED <<kind, host, agent, cut, task>>

Get(w) ==
  LET e == EndOf(w)  c == InOf(w) IN
  /\ There(w) /\ ~e.seen /\ chan[c].q # <<>>
  /\ chan' = [chan EXCEPT ![c].q = Tail(@)]
  /\ Now(w, [e EXCEPT !.got = @ + 1, !.wrong = @ \/ Head(chan[c].q) # e.got + 1])
  /\ UNCHANGED <<kind, host, agent, cut, task>>

See(w) ==
  LET e == EndOf(w) IN
  /\ There(w) /\ ~e.seen /\ chan[InOf(w)].q = <<>> /\ chan[InOf(w)].shut
  /\ Now(w, [e EXCEPT !.seen = TRUE])
  /\ UNCHANGED <<kind, host, agent, cut, chan, task>>

\* An end goes, whatever is under way.
Drop(w) ==
  LET e == EndOf(w) IN
  /\ "reset" \in Faults /\ There(w) /\ ~(e.ended /\ e.seen) /\ cut' = TRUE
  /\ chan' = [chan EXCEPT ![OutOf(w)].shut = TRUE, ![InOf(w)].gone = TRUE, ![InOf(w)].q = <<>>]
  /\ Now(w, [e EXCEPT !.ended = TRUE, !.seen = TRUE])
  /\ UNCHANGED <<kind, host, agent, task>>

\* The socket of the VM goes with what is in it.
LoseVm ==
  /\ "vm" \in Faults /\ host \in {"status", "copying"} /\ ~chan["vu"].gone /\ cut' = TRUE
  /\ chan' = [c \in Chans |-> IF c \in {"vu", "vd"} THEN [q |-> <<>>, shut |-> TRUE, gone |-> TRUE] ELSE chan[c]]
  /\ UNCHANGED <<kind, host, agent, task, client, service>>

Next ==
  \/ Connect \/ ReadStatus \/ HostEnds \/ First \/ Serve \/ Bridge \/ AgentEnds \/ LoseVm
  \/ \E t \in Copies : Copy(t)
  \/ \E w \in Ways : Send(w) \/ Finish(w) \/ Get(w) \/ See(w) \/ Drop(w)

\* The tasks and the threads run on, and the ends read; whether and when an
\* end sends or finishes is its own business.
Spec ==
  /\ Init /\ [][Next]_vars
  /\ WF_vars(Connect \/ ReadStatus \/ HostEnds) /\ WF_vars(First \/ Serve \/ Bridge \/ AgentEnds)
  /\ \A t \in Copies : WF_vars(Copy(t))
  /\ \A w \in Ways : WF_vars(Get(w) \/ See(w))

-----------------------------------------------------------------------------
(* Properties                                                               *)

\* The types of the variables.
TypeOK ==
  /\ kind \in {"forward", "rpc"} /\ host \in {"accepted", "status", "copying", "done"}
  /\ agent \in {"none", "first", "port", "bridge", "copying", "done", "refused"}
  /\ \A c \in Chans : Len(chan[c].q) <= Cap + 1 /\ ToSet(chan[c].q) \subseteq (1..N) \cup {Magic, Ok, No}
  /\ task \in [Copies -> {"off", "on", "ended", "failed"}] /\ client.got <= N /\ service.got <= N

Other(w) == IF w = "up" THEN "down" ELSE "up"
Stream == INSTANCE Pipe WITH
  sent <- [w \in Ways |-> EndOf(w).sent], ended <- [w \in Ways |-> EndOf(w).ended],
  got <- [w \in Ways |-> EndOf(Other(w)).got + (IF EndOf(Other(w)).wrong THEN N + 1 ELSE 0)],
  seen <- [w \in Ways |-> EndOf(Other(w)).seen]

\* What the two ends see of a connection is a stream each way that loses,
\* repeats and reorders nothing, whose end comes after everything, and that is
\* cut only when an end, the port or the VM fails: neither the handshake nor
\* the byte that tells the kinds apart shows (handle_connection,
\* proxy_connection, bidirectional_copy).
IsAStream == Stream!Spec

\* An end that finishes is told so at the other end, unless the connection is
\* cut.
EndIsTold == \A w \in Ways : EndOf(w).ended ~> (EndOf(Other(w)).seen \/ cut)

\* When both ends have finished or gone, or the agent has refused, the host's
\* task and the agent's threads end too, though each copy waits for its own
\* source only.
NothingHangs ==
  ((client.ended /\ service.ended) \/ agent = "refused")
    ~> (agent \in {"done", "refused"} /\ (kind = "rpc" \/ host = "done"))

\* What a connection owes its ends.
ConnectionIsServed == []TypeOK /\ IsAStream /\ EndIsTold /\ NothingHangs
=============================================================================
