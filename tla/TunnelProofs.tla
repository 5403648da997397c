---------------------------- MODULE TunnelProofs ----------------------------
(***************************************************************************)
(* The process, the map and the record tell the same of a tunnel, for any  *)
(* number of tunnels and of commands.  As long as no two commands overlap  *)
(* there is one user call at a time and, beside it, at most the            *)
(* reconciler's unshare, which never meets a share that is still making    *)
(* its tunnel: the map has an entry by then.  What each call holds follows *)
(* from that; each conjunct names the mishap that would break it.          *)
(***************************************************************************)
EXTENDS Tunnel, TLAPS

Labels == {"idle", "shareToken", "share", "create", "spawn", "persist", "insert", "wait", "probe",
           "take", "unshareToken", "unshare", "kill", "delete", "clear", "mark", "cleanup"}
Calls == [pc : Labels, op : {"none", "share", "unshare"}, id : Tunnels \cup {None}, token : BOOLEAN]

Making == {"create", "spawn", "persist", "insert"}
Ending == {"kill", "delete", "clear"}

\* Only the launch that follows a crash marks and cleans up, the reconciler
\* only unshares, and a call that is about to touch a process knows which.
CallsOK ==
  /\ call \in [Callers -> Calls]
  /\ call["reconciler"].pc \in Ending \cup {"idle", "unshare", "mark", "cleanup"}
  /\ \A c \in Users : call[c].pc \notin {"mark", "cleanup"}
  /\ \A c \in Callers : call[c].pc \in {"spawn", "persist", "insert", "kill"} => call[c].id \in Tunnels

WatchedUntilCrash == Without({"crash"}) => procs \subseteq watched

\* One user call at a time, and the reconciler's beside one that has made its
\* tunnel or unmakes it.
Alone ==
  /\ \A c, d \in Users : ~At(c, "idle") /\ ~At(d, "idle") => c = d
  /\ ~At("reconciler", "idle") =>
       ~up /\ \A c \in Users : call[c].pc \notin Making \cup {"shareToken", "share"}

\* A call that makes or unmakes a tunnel has the map to itself.
MapIsEmpty == \A c \in Callers : call[c].pc \in Making \cup Ending \cup {"mark", "cleanup"} => active = None

\* A process that is read is in the map or in the hands of a call.
WatchedIsHeld ==
  \A t \in watched : (active # None /\ active.id = t) \/ \E c \in Callers : Holds(c, t)

LiveLinked == Without({"dies"}) => (active # None /\ active.live => active.id \in linked)

\* The record follows the map, but for a call between the two.
RecordFollows ==
  /\ \A c \in Callers : At(c, "insert") => record = call[c].id
  /\ Without({"abort"}) /\ (\A c \in Callers : call[c].pc \notin Ending \cup {"insert", "mark", "cleanup"}) =>
       record = IF active = None THEN None ELSE active.id

\* An entry that is not live is waited for, or about to be removed.
WaitedFor == active # None /\ ~active.live => \E c \in Users : call[c].pc \in {"wait", "take"}

InOrder == Alone /\ MapIsEmpty /\ WatchedIsHeld /\ LiveLinked /\ RecordFollows /\ WaitedFor

IInv == TypeOK /\ CallsOK /\ WatchedUntilCrash /\ (Without({"overlap"}) => InOrder)

-----------------------------------------------------------------------------
(* What a step does to the calls: one moves, and the others stay. *)

Moves(c, label, id) ==
  /\ call' \in [Callers -> Calls]
  /\ call'[c].pc = label /\ call'[c].id = id
  /\ \A d \in Callers \ {c} : call'[d] = call[d]

LEMMA GoMoves ==
  ASSUME CallsOK, NEW c \in Callers, NEW label \in Labels, Go(c, label)
  PROVE  Moves(c, label, call[c].id)
  BY DEF CallsOK, Go, Moves, Calls

\* The same, to a call that is given the tunnel it is about.
LEMMA GoWithMoves ==
  ASSUME CallsOK, NEW c \in Callers, NEW label \in Labels, NEW id \in Tunnels \cup {None}, GoWith(c, label, id)
  PROVE  Moves(c, label, id)
<1>1. [call[c] EXCEPT !.pc = label, !.id = id] \in Calls
  BY DEF CallsOK, Calls
<1>2. QED
  BY <1>1 DEF CallsOK, GoWith, Moves, Calls

\* A call that is over.
LEMMA BackMoves ==
  ASSUME CallsOK, NEW c \in Callers, Back(c)
  PROVE  Moves(c, "idle", None)
  BY DEF CallsOK, Back, Moves, Calls, Idle, Labels

\* A call that has its token.
LEMMA TokenMoves ==
  ASSUME CallsOK, NEW c \in Callers, NEW label \in Labels,
         call' = [call EXCEPT ![c] = [@ EXCEPT !.pc = label, !.token = TRUE]]
  PROVE  Moves(c, label, call[c].id)
<1>1. PICK r \in Calls : r = call[c]
  BY DEF CallsOK
<1>2. [r EXCEPT !.pc = label, !.token = TRUE] \in Calls
  BY <1>1 DEF Calls
<1>3. [r EXCEPT !.pc = label, !.token = TRUE].pc = label /\ [r EXCEPT !.pc = label, !.token = TRUE].id = r.id
  BY <1>1 DEF Calls
<1>4. QED
  BY <1>1, <1>2, <1>3 DEF CallsOK, Moves

USE DEF At, Fine, Mishap, Without, Holds, Labels, Making, Ending, Entries, Callers, NoneUnderWay

\* At the launch nothing is shared.
LEMMA InitIInv == Init => IInv
<1> SUFFICES ASSUME Init PROVE IInv
  OBVIOUS
<1>1. \A c \in Callers : call[c].pc = "idle" /\ call[c].id = None
  BY DEF Init, Idle
<1>2. CallsOK
  BY <1>1 DEF Init, CallsOK, Calls, Idle
<1>3. TypeOK
  BY <1>1 DEF Init, TypeOK
<1>4. WatchedUntilCrash /\ InOrder
  BY <1>1, TunnelAssumption DEF Init, WatchedUntilCrash, InOrder, Alone, MapIsEmpty, WatchedIsHeld,
     LiveLinked,
     RecordFollows, WaitedFor
<1>5. QED
  BY <1>2, <1>3, <1>4 DEF IInv

-----------------------------------------------------------------------------
(* The steps of a call.  Each conjunct follows from where the call was and
   where it goes. *)
LEMMA ShareTokenStep ==
  ASSUME IInv, NEW c \in Callers, ShareToken(c)
  PROVE  IInv'
<1>1. CallsOK
  BY DEF IInv
<1>2. Moves(c, "share", call[c].id) \/ Moves(c, "idle", None)
  BY <1>1, TokenMoves, GoMoves, BackMoves DEF ShareToken
<1>3. QED
  BY <1>2, TunnelAssumption DEF ShareToken, Moves, IInv, TypeOK, CallsOK, WatchedUntilCrash,
     InOrder, Alone, MapIsEmpty, WatchedIsHeld, LiveLinked, RecordFollows, WaitedFor

LEMMA ShareStep ==
  ASSUME IInv, NEW c \in Callers, Share(c)
  PROVE  IInv'
<1>1. CallsOK /\ call[c].pc \in Labels /\ call[c].id \in Tunnels \cup {None}
  BY DEF IInv, CallsOK, Calls
<1>2. (Moves(c, "create", call[c].id) /\ active = None) \/ Moves(c, "idle", None)
  BY <1>1, GoMoves, GoWithMoves, BackMoves DEF IInv, TypeOK, Share
<1>3. QED
  BY <1>2, TunnelAssumption DEF Share, Moves, IInv, TypeOK, CallsOK, WatchedUntilCrash, InOrder,
     Alone, MapIsEmpty, WatchedIsHeld, LiveLinked, RecordFollows, WaitedFor

LEMMA CreateTunnelStep ==
  ASSUME IInv, NEW c \in Callers, CreateTunnel(c)
  PROVE  IInv'
<1>1. CallsOK /\ call[c].pc \in Labels /\ call[c].id \in Tunnels \cup {None}
  BY DEF IInv, CallsOK, Calls
<1>2. (\E t \in Tunnels : Moves(c, "spawn", t)) \/ Moves(c, "idle", None)
  BY <1>1, GoMoves, GoWithMoves, BackMoves DEF IInv, TypeOK, CreateTunnel
<1>3. QED
  BY <1>2, TunnelAssumption DEF CreateTunnel, Moves, IInv, TypeOK, CallsOK, WatchedUntilCrash,
     InOrder, Alone, MapIsEmpty, WatchedIsHeld, LiveLinked, RecordFollows, WaitedFor

\* The new process is in the hands of the call that spawned it.
LEMMA SpawnProcessStep ==
  ASSUME IInv, NEW c \in Callers, SpawnProcess(c)
  PROVE  IInv'
<1>1. CallsOK /\ call[c].pc \in Labels /\ call[c].id \in Tunnels \cup {None}
  BY DEF IInv, CallsOK, Calls
<1>2. \/ Moves(c, "persist", call[c].id) /\ procs' = procs \cup {call[c].id} /\ watched' = watched \cup {call[c].id}
      \/ Moves(c, "idle", None) /\ UNCHANGED <<procs, watched>>
  BY <1>1, GoMoves, GoWithMoves, BackMoves DEF IInv, TypeOK, SpawnProcess
<1>3. TypeOK' /\ CallsOK' /\ WatchedUntilCrash' /\ mishaps \subseteq mishaps'
  BY <1>2, TunnelAssumption DEF SpawnProcess, Moves, IInv, TypeOK, CallsOK, WatchedUntilCrash
<1>4. ASSUME Without({"overlap"})' PROVE InOrder'
  <2>1. InOrder
    BY <1>3, <1>4 DEF IInv
  <2>2. Alone' /\ MapIsEmpty'
    BY <1>2, <1>4, <2>1, TunnelAssumption DEF SpawnProcess, Moves, CallsOK, InOrder, Alone,
       MapIsEmpty
  <2>3. WatchedIsHeld'
    BY <1>2, <1>4, <2>1 DEF SpawnProcess, Moves, CallsOK, InOrder, MapIsEmpty, WatchedIsHeld
  <2>4. LiveLinked'
    BY <1>2, <1>4, <2>1 DEF SpawnProcess, Moves, CallsOK, InOrder, MapIsEmpty, WatchedIsHeld,
       LiveLinked, IInv, TypeOK
  <2>5. RecordFollows'
    BY <1>2, <1>4, <2>1 DEF SpawnProcess, Moves, CallsOK, InOrder, Alone, MapIsEmpty,
       RecordFollows, IInv, TypeOK
  <2>6. WaitedFor'
    BY <1>2, <1>4, <2>1 DEF SpawnProcess, Moves, CallsOK, InOrder, MapIsEmpty, WaitedFor
  <2>7. QED
    BY <2>1, <2>2, <2>3, <2>4, <2>5, <2>6 DEF InOrder
<1>5. QED
  BY <1>3, <1>4 DEF IInv

LEMMA PersistTunnelStep ==
  ASSUME IInv, NEW c \in Callers, PersistTunnel(c)
  PROVE  IInv'
<1>1. CallsOK /\ call[c].pc \in Labels /\ call[c].id \in Tunnels \cup {None}
  BY DEF IInv, CallsOK, Calls
<1>2. Moves(c, "insert", call[c].id)
  BY <1>1, GoMoves, GoWithMoves, BackMoves DEF IInv, TypeOK, PersistTunnel
<1>3. QED
  BY <1>2, TunnelAssumption DEF PersistTunnel, Moves, IInv, TypeOK, CallsOK, WatchedUntilCrash,
     InOrder, Alone, MapIsEmpty, WatchedIsHeld, LiveLinked, RecordFollows, WaitedFor

\* The entry is the call's own: nobody else is under way, and the map was empty.
LEMMA InsertTunnelStep ==
  ASSUME IInv, NEW c \in Callers, InsertTunnel(c)
  PROVE  IInv'
<1>1. CallsOK /\ call[c].pc = "insert" /\ call[c].id \in Tunnels /\ c \in Users
  BY DEF InsertTunnel, IInv, CallsOK
<1>2. Moves(c, "wait", call[c].id)
  BY <1>1, GoMoves DEF InsertTunnel
<1>3. /\ active' \in Entries /\ active' # None /\ active'.id = call[c].id /\ ~active'.live
      /\ UNCHANGED <<remote, procs, watched, linked, record, up, left, mishaps>>
  <2>1. [id |-> call[c].id, live |-> FALSE] \in Entries
    BY <1>1
  <2>2. QED
    BY <2>1, TunnelAssumption DEF InsertTunnel
<1>4. TypeOK' /\ CallsOK' /\ WatchedUntilCrash'
  BY <1>1, <1>2, <1>3, TunnelAssumption DEF IInv, TypeOK, CallsOK, WatchedUntilCrash, Moves
<1>5. ASSUME Without({"overlap"}) PROVE InOrder'
  <2>1. InOrder
    BY <1>5 DEF IInv
  <2>2. active = None /\ \A d \in Callers \ {c} : call[d].pc = "idle" /\ call'[d].pc = "idle"
    BY <1>1, <1>2, <2>1 DEF InOrder, Alone, MapIsEmpty, Moves
  <2>3. Alone' /\ MapIsEmpty' /\ WatchedIsHeld'
    BY <1>1, <1>2, <1>3, <2>1, <2>2, TunnelAssumption DEF InOrder, Alone, MapIsEmpty,
       WatchedIsHeld, Moves
  <2>4. LiveLinked' /\ RecordFollows' /\ WaitedFor'
    BY <1>1, <1>2, <1>3, <2>1, <2>2 DEF InOrder, LiveLinked, RecordFollows, WaitedFor, Moves
  <2>5. QED
    BY <2>3, <2>4 DEF InOrder
<1>6. QED
  BY <1>3, <1>4, <1>5 DEF IInv

LEMMA WaitForLiveStep ==
  ASSUME IInv, NEW c \in Callers, WaitForLive(c)
  PROVE  IInv'
<1>1. CallsOK /\ call[c].pc \in Labels /\ call[c].id \in Tunnels \cup {None}
  BY DEF IInv, CallsOK, Calls
<1>2. (Moves(c, "probe", call[c].id) /\ active # None /\ active.live) \/ Moves(c, "take", call[c].id)
  BY <1>1, GoMoves, GoWithMoves, BackMoves DEF IInv, TypeOK, WaitForLive
<1>3. QED
  BY <1>2, TunnelAssumption DEF WaitForLive, Moves, IInv, TypeOK, CallsOK, WatchedUntilCrash,
     InOrder, Alone, MapIsEmpty, WatchedIsHeld, LiveLinked, RecordFollows, WaitedFor

LEMMA ProbeOriginStep ==
  ASSUME IInv, NEW c \in Callers, ProbeOrigin(c)
  PROVE  IInv'
<1>1. CallsOK /\ call[c].pc \in Labels /\ call[c].id \in Tunnels \cup {None}
  BY DEF IInv, CallsOK, Calls
<1>2. Moves(c, "take", call[c].id) \/ Moves(c, "idle", None)
  BY <1>1, GoMoves, GoWithMoves, BackMoves DEF IInv, TypeOK, ProbeOrigin
<1>3. QED
  BY <1>2, TunnelAssumption DEF ProbeOrigin, Moves, IInv, TypeOK, CallsOK, WatchedUntilCrash,
     InOrder, Alone, MapIsEmpty, WatchedIsHeld, LiveLinked, RecordFollows, WaitedFor

LEMMA UnshareTokenStep ==
  ASSUME IInv, NEW c \in Callers, UnshareToken(c)
  PROVE  IInv'
<1>1. CallsOK
  BY DEF IInv
<1>2. Moves(c, "unshare", call[c].id)
  BY <1>1, TokenMoves, GoMoves, BackMoves DEF UnshareToken
<1>3. QED
  BY <1>2, TunnelAssumption DEF UnshareToken, Moves, IInv, TypeOK, CallsOK, WatchedUntilCrash,
     InOrder, Alone, MapIsEmpty, WatchedIsHeld, LiveLinked, RecordFollows, WaitedFor

LEMMA UnshareStep ==
  ASSUME IInv, NEW c \in Callers, Unshare(c)
  PROVE  IInv'
<1>1. CallsOK /\ call[c].pc \in Labels /\ call[c].id \in Tunnels \cup {None}
  BY DEF IInv, CallsOK, Calls
<1>2. \/ Moves(c, "idle", None) /\ active = None
      \/ Moves(c, "kill", active.id) /\ active # None
  BY <1>1, GoMoves, GoWithMoves, BackMoves DEF IInv, TypeOK, Unshare
<1>3. QED
  BY <1>2, TunnelAssumption DEF Unshare, Moves, IInv, TypeOK, CallsOK, WatchedUntilCrash, InOrder,
     Alone, MapIsEmpty, WatchedIsHeld, LiveLinked, RecordFollows, WaitedFor

\* Whichever entry is there, its process passes from the map to the call.
LEMMA TakeEntryStep ==
  ASSUME IInv, NEW c \in Callers, TakeEntry(c)
  PROVE  IInv'
<1>1. CallsOK /\ call[c].pc \in Labels /\ call[c].id \in Tunnels \cup {None}
  BY DEF IInv, CallsOK, Calls
<1>2. \/ Moves(c, "clear", call[c].id) /\ active = None
      \/ Moves(c, "kill", active.id) /\ active # None
  BY <1>1, GoMoves, GoWithMoves, BackMoves DEF IInv, TypeOK, TakeEntry
<1>3. QED
  BY <1>2, TunnelAssumption DEF TakeEntry, Moves, IInv, TypeOK, CallsOK, WatchedUntilCrash,
     InOrder, Alone, MapIsEmpty, WatchedIsHeld, LiveLinked, RecordFollows, WaitedFor

LEMMA KillProcessStep ==
  ASSUME IInv, NEW c \in Callers, KillProcess(c)
  PROVE  IInv'
<1>1. CallsOK /\ call[c].pc \in Labels /\ call[c].id \in Tunnels \cup {None}
  BY DEF IInv, CallsOK, Calls
<1>2. Moves(c, "delete", call[c].id)
  BY <1>1, GoMoves, GoWithMoves, BackMoves DEF IInv, TypeOK, KillProcess
<1>3. QED
  BY <1>2, TunnelAssumption DEF KillProcess, Moves, IInv, TypeOK, CallsOK, WatchedUntilCrash,
     InOrder, Alone, MapIsEmpty, WatchedIsHeld, LiveLinked, RecordFollows, WaitedFor

LEMMA DeleteTunnelStep ==
  ASSUME IInv, NEW c \in Callers, DeleteTunnel(c)
  PROVE  IInv'
<1>1. CallsOK /\ call[c].pc \in Labels /\ call[c].id \in Tunnels \cup {None}
  BY DEF IInv, CallsOK, Calls
<1>2. Moves(c, "clear", call[c].id)
  BY <1>1, GoMoves, GoWithMoves, BackMoves DEF IInv, TypeOK, DeleteTunnel
<1>3. QED
  BY <1>2, TunnelAssumption DEF DeleteTunnel, Moves, IInv, TypeOK, CallsOK, WatchedUntilCrash,
     InOrder, Alone, MapIsEmpty, WatchedIsHeld, LiveLinked, RecordFollows, WaitedFor

LEMMA ClearRecordStep ==
  ASSUME IInv, NEW c \in Callers, ClearRecord(c)
  PROVE  IInv'
<1>1. CallsOK /\ call[c].pc \in Labels /\ call[c].id \in Tunnels \cup {None}
  BY DEF IInv, CallsOK, Calls
<1>2. Moves(c, "idle", None)
  BY <1>1, GoMoves, GoWithMoves, BackMoves DEF IInv, TypeOK, ClearRecord
<1>3. QED
  BY <1>2, TunnelAssumption DEF ClearRecord, Moves, IInv, TypeOK, CallsOK, WatchedUntilCrash,
     InOrder, Alone, MapIsEmpty, WatchedIsHeld, LiveLinked, RecordFollows, WaitedFor

-----------------------------------------------------------------------------
(* The steps of the user, of the processes, of the project and of the launcher. *)
LEMMA BeginShareStep ==
  ASSUME IInv, NEW c \in Users, BeginShare(c)
  PROVE  IInv'
<1>1. CallsOK /\ [Idle EXCEPT !.op = "share", !.pc = "shareToken"] \in Calls
  BY DEF IInv, CallsOK, Calls, Idle
<1>2. Moves(c, "shareToken", None)
  BY <1>1 DEF CallsOK, BeginShare, Begin, Moves, Idle
<1>3. QED
  BY <1>2, TunnelAssumption DEF BeginShare, Begin, Moves, IInv, TypeOK, CallsOK, WatchedUntilCrash,
     InOrder, Alone, MapIsEmpty, WatchedIsHeld, LiveLinked, RecordFollows, WaitedFor

LEMMA BeginUnshareStep ==
  ASSUME IInv, NEW c \in Users, BeginUnshare(c)
  PROVE  IInv'
<1>1. CallsOK /\ [Idle EXCEPT !.op = "unshare", !.pc = "unshareToken"] \in Calls
  BY DEF IInv, CallsOK, Calls, Idle
<1>2. Moves(c, "unshareToken", None)
  BY <1>1 DEF CallsOK, BeginUnshare, Begin, Moves, Idle
<1>3. QED
  BY <1>2, TunnelAssumption DEF BeginUnshare, Begin, Moves, IInv, TypeOK, CallsOK,
     WatchedUntilCrash, InOrder, Alone, MapIsEmpty, WatchedIsHeld, LiveLinked, RecordFollows,
     WaitedFor

\* A process that is read is the one of the map, if there is one: so it is its
\* own entry that it marks.
LEMMA RegistersStep ==
  ASSUME IInv, NEW t \in Tunnels, Registers(t)
  PROVE  IInv'
<1>1. /\ t \in watched /\ linked' = linked \cup {t}
      /\ UNCHANGED <<remote, procs, watched, record, up, call, left, mishaps>>
      /\ IF active = None THEN active' = None
         ELSE active' \in Entries /\ active' # None /\ active'.id = active.id /\ active'.live
  BY TunnelAssumption DEF Registers, IInv, TypeOK
<1>2. TypeOK' /\ CallsOK' /\ WatchedUntilCrash'
  BY <1>1 DEF IInv, TypeOK, CallsOK, WatchedUntilCrash
<1>3. ASSUME Without({"overlap"}) PROVE InOrder'
  <2>1. InOrder
    BY <1>3 DEF IInv
  <2>2. Alone' /\ MapIsEmpty' /\ WatchedIsHeld' /\ RecordFollows' /\ WaitedFor'
    BY <1>1, <2>1 DEF InOrder, Alone, MapIsEmpty, WatchedIsHeld, RecordFollows, WaitedFor
  <2>3. active # None => active.id = t
    BY <1>1, <2>1 DEF InOrder, MapIsEmpty, WatchedIsHeld
  <2>4. LiveLinked'
    BY <1>1, <2>1, <2>3 DEF InOrder, LiveLinked
  <2>5. QED
    BY <2>2, <2>4 DEF InOrder
<1>4. QED
  BY <1>1, <1>2, <1>3 DEF IInv

LEMMA ProcessDiesStep ==
  ASSUME IInv, NEW t \in Tunnels, ProcessDies(t)
  PROVE  IInv'
<1> QED
  BY TunnelAssumption DEF ProcessDies, Moves, Calls, Begin, Idle, Go, Back, IInv, TypeOK, CallsOK,
     WatchedUntilCrash, InOrder, Alone, MapIsEmpty, WatchedIsHeld, LiveLinked, RecordFollows,
     WaitedFor

\* The reconciler begins where the map has an entry, and so no tunnel is made.
LEMMA LoopUnsharesStep ==
  ASSUME IInv, LoopUnshares
  PROVE  IInv'
<1>1. CallsOK /\ [Idle EXCEPT !.pc = "unshare", !.op = "unshare"] \in Calls
  BY DEF IInv, CallsOK, Calls, Idle
<1>2. Moves("reconciler", "unshare", None)
  BY <1>1 DEF CallsOK, LoopUnshares, Moves, Idle
<1>3. QED
  BY <1>2, TunnelAssumption DEF LoopUnshares, Moves, IInv, TypeOK, CallsOK, WatchedUntilCrash,
     InOrder, Alone, MapIsEmpty, WatchedIsHeld, LiveLinked, RecordFollows, WaitedFor

LEMMA AbortReconcilerStep ==
  ASSUME IInv, AbortReconciler
  PROVE  IInv'
<1> QED
  BY TunnelAssumption DEF AbortReconciler, Moves, Calls, Begin, Idle, Go, Back, IInv, TypeOK,
     CallsOK, WatchedUntilCrash, InOrder, Alone, MapIsEmpty, WatchedIsHeld, LiveLinked,
     RecordFollows, WaitedFor

LEMMA StopAllStep ==
  ASSUME IInv, StopAll
  PROVE  IInv'
<1> QED
  BY TunnelAssumption DEF StopAll, Moves, Calls, Begin, Idle, Go, Back, IInv, TypeOK, CallsOK,
     WatchedUntilCrash, InOrder, Alone, MapIsEmpty, WatchedIsHeld, LiveLinked, RecordFollows,
     WaitedFor

LEMMA ServesStep ==
  ASSUME IInv, Serves
  PROVE  IInv'
<1> QED
  BY TunnelAssumption DEF Serves, Moves, Calls, Begin, Idle, Go, Back, IInv, TypeOK, CallsOK,
     WatchedUntilCrash, InOrder, Alone, MapIsEmpty, WatchedIsHeld, LiveLinked, RecordFollows,
     WaitedFor

LEMMA ServesNoMoreStep ==
  ASSUME IInv, ServesNoMore
  PROVE  IInv'
<1>1. /\ UNCHANGED <<remote, procs, watched, linked, active, record, call, left>> /\ up' = FALSE
      /\ mishaps \subseteq mishaps' /\ mishaps' \subseteq Mishaps
  BY DEF ServesNoMore, IInv, TypeOK
<1>2. TypeOK' /\ CallsOK' /\ WatchedUntilCrash'
  BY <1>1 DEF IInv, TypeOK, CallsOK, WatchedUntilCrash
<1>3. ASSUME Without({"overlap"})' PROVE InOrder'
  <2>1. InOrder
    BY <1>1, <1>3 DEF IInv
  <2>2. Alone' /\ MapIsEmpty' /\ WatchedIsHeld'
    BY <1>1, <2>1 DEF InOrder, Alone, MapIsEmpty, WatchedIsHeld
  <2>3. LiveLinked' /\ RecordFollows' /\ WaitedFor'
    BY <1>1, <2>1 DEF InOrder, LiveLinked, RecordFollows, WaitedFor
  <2>4. QED
    BY <2>2, <2>3 DEF InOrder
<1>4. QED
  BY <1>2, <1>3 DEF IInv

\* A crash leaves nothing in the map and nothing that is read.
LEMMA CrashStep ==
  ASSUME IInv, Crash
  PROVE  IInv'
<1>1. /\ call' \in [Callers -> Calls] /\ call'["reconciler"].pc = "mark"
      /\ \A c \in Users : call'[c].pc = "idle"
      /\ \A c \in Callers : call'[c].id = None
  BY TunnelAssumption DEF Crash, Calls, Idle
<1>2. TypeOK' /\ CallsOK' /\ WatchedUntilCrash'
  BY <1>1, TunnelAssumption DEF Crash, IInv, TypeOK, CallsOK, WatchedUntilCrash
<1>3. InOrder'
  BY <1>1, TunnelAssumption DEF Crash, IInv, InOrder, Alone, MapIsEmpty, WatchedIsHeld, LiveLinked,
     RecordFollows, WaitedFor
<1>4. QED
  BY <1>2, <1>3 DEF IInv

LEMMA MarkAllStoppedStep ==
  ASSUME IInv, MarkAllStopped
  PROVE  IInv'
<1> QED
  BY TunnelAssumption DEF MarkAllStopped, Moves, Calls, Begin, Idle, Go, Back, IInv, TypeOK,
     CallsOK, WatchedUntilCrash, InOrder, Alone, MapIsEmpty, WatchedIsHeld, LiveLinked,
     RecordFollows, WaitedFor

LEMMA CleanupOrphansStep ==
  ASSUME IInv, CleanupOrphans
  PROVE  IInv'
<1> QED
  BY TunnelAssumption DEF CleanupOrphans, Moves, Calls, Begin, Idle, Go, Back, IInv, TypeOK,
     CallsOK, WatchedUntilCrash, InOrder, Alone, MapIsEmpty, WatchedIsHeld, LiveLinked,
     RecordFollows, WaitedFor

LEMMA StepIInv ==
  ASSUME IInv, Next
  PROVE  IInv'
<1>1. ASSUME NEW c \in Users, BeginShare(c) \/ BeginUnshare(c) PROVE IInv'
  BY <1>1, BeginShareStep, BeginUnshareStep
<1>2. ASSUME NEW c \in Callers, Step(c) PROVE IInv'
  BY <1>2, ShareTokenStep, ShareStep, CreateTunnelStep, SpawnProcessStep, PersistTunnelStep,
     InsertTunnelStep, WaitForLiveStep, ProbeOriginStep, UnshareTokenStep, UnshareStep,
     TakeEntryStep, KillProcessStep, DeleteTunnelStep, ClearRecordStep DEF Step
<1>3. ASSUME NEW t \in Tunnels, Registers(t) \/ ProcessDies(t) PROVE IInv'
  BY <1>3, RegistersStep, ProcessDiesStep
<1>4. QED
  BY <1>1, <1>2, <1>3, LoopUnsharesStep, AbortReconcilerStep, StopAllStep, ServesStep,
     ServesNoMoreStep, CrashStep, MarkAllStoppedStep, CleanupOrphansStep DEF Next

\* What the invariant says of the accounts.
LEMMA AccountsFromInvariant ==
  ASSUME IInv
  PROVE  AccountsAgree
<1>1. NoStrayProcess
  BY DEF IInv, InOrder, WatchedUntilCrash, WatchedIsHeld, NoStrayProcess, TypeOK
<1>2. LiveIsLinked
  BY DEF IInv, InOrder, LiveLinked, LiveIsLinked
<1>3. RecordIsActive
  BY DEF IInv, InOrder, RecordFollows, RecordIsActive
<1>4. SharedIsLive
  BY DEF IInv, InOrder, WaitedFor, SharedIsLive
<1>5. QED
  BY <1>1, <1>2, <1>3, <1>4 DEF AccountsAgree, IInv

\* The inductive invariant holds in every behaviour of the tunnels.
THEOREM TunnelInvariant == Spec => []IInv
<1>1. IInv /\ [Next]_vars => IInv'
  BY StepIInv DEF vars, IInv, TypeOK, CallsOK, WatchedUntilCrash, InOrder, Alone, MapIsEmpty,
     WatchedIsHeld, LiveLinked, RecordFollows, WaitedFor
<1>2. QED
  BY InitIInv, <1>1, PTL DEF Spec

\* Whatever fails, and for any number of tunnels and commands, the process, the
\* map and the record tell the same of a tunnel, but for what each part of
\* AccountsAgree excepts (TunnelCoordinator).
THEOREM AccountsAlwaysAgree == Spec => []AccountsAgree
  BY TunnelInvariant, AccountsFromInvariant, PTL
=============================================================================
