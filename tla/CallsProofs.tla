----------------------------- MODULE CallsProofs -----------------------------
(***************************************************************************)
(* No wake-up is lost between a wait and the reconciler, and every call is *)
(* in the ring in its place, for any number of callers and calls, any ring *)
(* and any limits.  The two arguments share no more than the shape of a    *)
(* step: a call moves, or it ends with one entry of the log.               *)
(*                                                                         *)
(* The tree of a project that runs is what the user has made of it, for    *)
(* any number of edits and any channel: what the watcher asks the guest    *)
(* for is done already.                                                    *)
(*                                                                         *)
(* The editors' files are in agreement and keep what the user put there:   *)
(* who is to write what, and who has a file in hand.                       *)
(***************************************************************************)
EXTENDS CallsMC, FiniteSetTheorems, SequenceTheorems, WellFoundedInduction, TLAPS

Labels == {"idle", "look", "listen", "again", "snapshot", "wait", "run"}
Calls == [tool : Tools \cup {None}, at : Labels, heard : Seq(Statuses), limit : Nat, age : 0 .. Rpc]
Entries == [by : Callers, ok : BOOLEAN, over : BOOLEAN, short : BOOLEAN]
Loops == [prev : Statuses \cup {None}, due : Statuses \cup {None}]

Typed ==
  /\ installed \in BOOLEAN /\ stored \in Statuses \cup {None} /\ intent \in {"Run", "Stop"}
  /\ loop \in Loops
  /\ call \in [Callers -> Calls] /\ begun \in 0 .. MaxCalls
  /\ ring \in Seq(Entries) /\ log \in Seq(Entries)
  /\ server \in {"up", "draining", "down"}

\* An event that ends the wait of c is on its way to it.
Coming(c) == \E i \in 1 .. Len(call[c].heard) : Ends(c, call[c].heard[i])

\* What is emitted and not persisted is on its way to a call that listens,
\* unless it has heard it and goes on; what is persisted and would end a wait
\* is on its way, but for the Stopped of a restart.
Waking ==
  /\ \A c \in Callers : At(c, "snapshot", Waits) /\ loop.due # None =>
       \E i \in 1 .. Len(call[c].heard) : call[c].heard[i] = loop.due
  /\ \A c \in Callers : At(c, "wait", Waits) /\ loop.due # None /\ Ends(c, loop.due) => Coming(c)
  /\ loop.due = None /\ (\A d \in Callers : ~At(d, "again", {"restart"})) =>
       \A c \in Callers : At(c, "wait", Waits) /\ Ends(c, stored) => Coming(c)

\* One read takes the whole of a file.
Small == \A a \in Amounts : a <= Chunk

IInv ==
  /\ Typed
  /\ "split" \notin Mishaps => Waking
  /\ RingIsTail
  /\ Small => ShortIsTold
  /\ NoCallInTeardown

-----------------------------------------------------------------------------
(* The ring. *)

\* The last n elements of a sequence, longer by one element: the oldest goes
\* if there were n of them.
Excess(m, n) == IF m > n THEN m - n ELSE 0
LastOf(s, n) == SubSeq(s, 1 + Excess(Len(s), n), Len(s))

LEMMA ExcessGrows ==
  ASSUME NEW m \in Nat, NEW n \in Nat
  PROVE  /\ Excess(m, n) \in 0 .. m /\ Excess(m + 1, n) \in 0 .. m + 1
         /\ m - Excess(m, n) + 1 > n => Excess(m + 1, n) = Excess(m, n) + 1
         /\ m - Excess(m, n) + 1 <= n => Excess(m + 1, n) = 0 /\ Excess(m, n) = 0
  BY DEF Excess

LEMMA LastOfLonger ==
  ASSUME NEW S, NEW s \in Seq(S), NEW e \in S, NEW n \in Nat
  PROVE  LET longer == Append(LastOf(s, n), e)
         IN LastOf(Append(s, e), n) = IF Len(longer) > n THEN Tail(longer) ELSE longer
<1> DEFINE k == Excess(Len(s), n)
           j == Excess(Len(s) + 1, n)
           old == SubSeq(s, 1 + k, Len(s))
           new == SubSeq(Append(s, e), 1 + j, Len(s) + 1)
           longer == Append(old, e)
           shed == IF Len(longer) > n THEN Tail(longer) ELSE longer
<1>0. Len(s) \in Nat
  OBVIOUS
<1>1. /\ k \in 0 .. Len(s) /\ j \in 0 .. Len(s) + 1
      /\ Len(s) - k + 1 > n => j = k + 1
      /\ Len(s) - k + 1 <= n => j = 0 /\ k = 0
  BY <1>0, ExcessGrows
<1> HIDE DEF k, j
<1>2. /\ Append(s, e) \in Seq(S) /\ Len(Append(s, e)) = Len(s) + 1
      /\ \A i \in 1 .. Len(s) : Append(s, e)[i] = s[i]
      /\ Append(s, e)[Len(s) + 1] = e
  BY AppendProperties
<1>3. old \in Seq(S) /\ Len(old) = Len(s) - k /\ \A i \in 1 .. Len(s) - k : old[i] = s[k + i]
  <2>1. \A i \in 1 + k .. Len(s) : s[i] \in S
    BY <1>0, <1>1
  <2>2. /\ old \in Seq(S)
        /\ Len(old) = IF 1 + k <= Len(s) THEN Len(s) - (1 + k) + 1 ELSE 0
        /\ \A i \in 1 .. Len(s) - (1 + k) + 1 : old[i] = s[(1 + k) + i - 1]
    BY <1>0, <1>1, <2>1, SubSeqProperties
  <2>3. QED
    BY <1>0, <1>1, <2>2
<1>4. new \in Seq(S) /\ Len(new) = Len(s) + 1 - j /\ \A i \in 1 .. Len(s) + 1 - j : new[i] = Append(s, e)[j + i]
  <2>1. \A i \in 1 + j .. Len(s) + 1 : Append(s, e)[i] \in S
    BY <1>0, <1>1, <1>2
  <2>2. /\ new \in Seq(S)
        /\ Len(new) = IF 1 + j <= Len(s) + 1 THEN Len(s) + 1 - (1 + j) + 1 ELSE 0
        /\ \A i \in 1 .. Len(s) + 1 - (1 + j) + 1 : new[i] = Append(s, e)[(1 + j) + i - 1]
    BY <1>0, <1>1, <2>1, SubSeqProperties
  <2>3. Len(s) + 1 - (1 + j) + 1 = Len(s) + 1 - j /\ Len(new) = Len(s) + 1 - j
    BY <1>0, <1>1, <2>2
  <2>4. \A i \in 1 .. Len(s) + 1 - j : (1 + j) + i - 1 = j + i
    BY <1>0, <1>1
  <2>5. QED
    BY <2>2, <2>3, <2>4
<1>5. /\ longer \in Seq(S) /\ Len(longer) = Len(old) + 1
      /\ \A i \in 1 .. Len(old) : longer[i] = old[i]
      /\ longer[Len(old) + 1] = e
  BY <1>3, AppendProperties
<1> HIDE DEF old, new, longer
<1>6. shed \in Seq(S) /\ Len(shed) = Len(new) /\ \A i \in 1 .. Len(shed) : shed[i] = new[i]
  <2>1. CASE Len(longer) > n
    <3>1. j = k + 1 /\ Len(longer) = Len(s) - k + 1
      BY <1>0, <1>1, <1>3, <1>5, <2>1
    <3>2. /\ Tail(longer) \in Seq(S) /\ Len(Tail(longer)) = Len(longer) - 1
          /\ \A i \in 1 .. Len(Tail(longer)) : Tail(longer)[i] = longer[i + 1]
      BY <1>5, HeadTailProperties, AppendProperties, <1>3 DEF longer
    <3>3. \A i \in 1 .. Len(s) - k : longer[i + 1] = new[i]
      <4>1. SUFFICES ASSUME NEW i \in 1 .. Len(s) - k PROVE longer[i + 1] = new[i]
        OBVIOUS
      <4>2. new[i] = Append(s, e)[k + 1 + i]
        <5>1. i \in 1 .. Len(s) + 1 - j
          BY <1>0, <1>1, <3>1
        <5>2. QED
          BY <1>4, <3>1, <5>1
      <4>3. CASE i = Len(s) - k
        BY <1>0, <1>1, <1>2, <1>3, <1>5, <4>2, <4>3
      <4>4. CASE i # Len(s) - k
        <5>1. i + 1 \in 1 .. Len(s) - k /\ k + 1 + i \in 1 .. Len(s) /\ k + (i + 1) = k + 1 + i
          BY <1>0, <1>1, <4>4
        <5>2. longer[i + 1] = s[k + 1 + i]
          BY <1>3, <1>5, <5>1
        <5>3. QED
          BY <1>2, <4>2, <5>1, <5>2
      <4>5. QED
        BY <4>3, <4>4
    <3>4. QED
      BY <1>0, <1>1, <1>3, <1>4, <1>5, <2>1, <3>1, <3>2, <3>3
  <2>2. CASE ~(Len(longer) > n)
    <3>1. j = 0 /\ k = 0 /\ Len(longer) = Len(s) + 1 /\ Len(new) = Len(s) + 1
      BY <1>0, <1>1, <1>3, <1>4, <1>5, <2>2
    <3>2. \A i \in 1 .. Len(s) + 1 : longer[i] = new[i]
      BY <1>0, <1>1, <1>2, <1>3, <1>4, <1>5, <3>1
    <3>3. QED
      BY <1>5, <2>2, <3>1, <3>2
  <2>3. QED
    BY <2>1, <2>2
<1>7. shed = new
  <2> HIDE DEF shed
  <2>1. QED
    BY <1>4, <1>6, SeqEqual
<1>8. LastOf(s, n) = old /\ LastOf(Append(s, e), n) = new
  BY <1>2 DEF LastOf, old, new, k, j
<1>9. QED
  BY <1>7, <1>8 DEF longer

-----------------------------------------------------------------------------
(* The shape of a step: one call moves, and goes on or ends with an entry. *)

USE DEF At, Goto, Waits, Tools, Statuses, Labels

Moved(c) == call' \in [Callers -> Calls] /\ \A d \in Callers \ {c} : call'[d] = call[d]
Ended(c) ==
  /\ Moved(c) /\ call'[c] = Idle
  /\ \E e \in Entries : (Small => ~e.short) /\ log' = Append(log, e) /\ ring' = Recorded(e)
Goes(c) == Moved(c) /\ call'[c].at # "idle" /\ UNCHANGED <<ring, log>>
Unrecorded(c) == Moved(c) /\ call'[c] = Idle /\ "wide" \in Mishaps /\ UNCHANGED <<ring, log>>

LEMMA IdleIsACall == Idle \in Calls
  BY AgentCallsAssumption DEF Idle, Calls

LEMMA TellEnds ==
  ASSUME Typed, NEW c \in Callers, NEW what, NEW over \in BOOLEAN,
         NEW short \in BOOLEAN, Small => ~short, Tell(c, what, over, short)
  PROVE  Ended(c)
<1>1. Idle \in Calls
  BY IdleIsACall
<1>2. Moved(c) /\ call'[c] = Idle
  BY <1>1 DEF Tell, Moved, Typed
<1> DEFINE entry == [by |-> c, ok |-> what = "ok", over |-> over, short |-> short]
<1>3. entry \in Entries
  BY DEF Entries
<1>4. entry.short = short /\ log' = Append(log, entry) /\ ring' = Recorded(entry)
  BY DEF Tell
<1> HIDE DEF entry
<1>5. Small => ~entry.short
  BY <1>4
<1>6. QED
  BY <1>2, <1>3, <1>4, <1>5 DEF Ended

\* What is left out of an answer is said, but for the rest of a file that one
\* read does not take.
LEMMA CutIsTold ==
  ASSUME NEW have \in Nat, NEW cap \in Nat
  PROVE  /\ ~Short(have, Cut(have, cap)) /\ ~Short(have, TailLines(have, cap))
         /\ have <= Chunk => ~Short(have, ReadBytes(have, cap))
<1> DEFINE S(got, told) == Short(have, [got |-> got, told |-> told])
           lines == Least(have, IF cap = 0 THEN 1 ELSE cap)
<1>1. ASSUME NEW got, NEW told PROVE S(got, told) <=> got < have /\ ~told
  BY DEF Short
<1>2. /\ Cut(have, cap) = [got |-> Least(have, cap), told |-> have > cap]
      /\ TailLines(have, cap) = [got |-> lines, told |-> lines >= cap]
  BY Zenon DEF Cut, TailLines
<1>3. ReadBytes(have, cap) = [got |-> Least(Least(have, cap), Chunk), told |-> have > cap]
  BY DEF ReadBytes, Cut
<1>4. /\ Least(have, cap) < have => have > cap
      /\ have <= Chunk /\ Least(Least(have, cap), Chunk) < have => have > cap
      /\ lines < have => lines >= cap
  BY AgentCallsAssumption DEF Least
<1>5. ~S(Least(have, cap), have > cap) /\ ~S(lines, lines >= cap)
  BY <1>1, <1>4, Zenon
<1>6. have <= Chunk => ~S(Least(Least(have, cap), Chunk), have > cap)
  BY <1>1, <1>4, Zenon
<1>7. QED
  BY <1>2, <1>3, <1>5, <1>6, Zenon

LEMMA ShortIsBoolean ==
  ASSUME NEW have, NEW cut
  PROVE  Short(have, cut) \in BOOLEAN
  BY DEF Short

LEMMA AnswerEnds ==
  ASSUME Typed, NEW c \in Callers, NEW what, Answer(c, what)
  PROVE  Ended(c)
  BY TellEnds DEF Answer

LEMMA GotoGoes ==
  ASSUME Typed, NEW c \in Callers, NEW label \in Labels \ {"idle"}, Goto(c, label), UNCHANGED <<ring, log>>
  PROVE  Goes(c) /\ call'[c] = [call[c] EXCEPT !.at = label]
  BY DEF Typed, Calls, Goes, Moved

Shape(c) ==
  /\ call[c].at # "idle" /\ UNCHANGED <<begun, server>>
  /\ Ended(c) \/ Goes(c) \/ Unrecorded(c)

LEMMA LifecycleShape ==
  ASSUME Typed, NEW c \in Callers, Unknown(c) \/ Lifecycle(c)
  PROVE  Shape(c)
<1>1. CASE Unknown(c)
  BY <1>1, AnswerEnds, GotoGoes DEF Unknown, Shape
<1>2. CASE StartLook(c)
  BY <1>2, AnswerEnds, GotoGoes DEF StartLook, Shape
<1>3. CASE RestartLook(c)
  BY <1>3, AnswerEnds, GotoGoes DEF RestartLook, Shape
<1>4. CASE RestartStarts(c)
  BY <1>4, AnswerEnds, GotoGoes DEF RestartStarts, Shape
<1>5. CASE StopLook(c)
  BY <1>5, AnswerEnds, GotoGoes DEF StopLook, Shape
<1>6. CASE Listen(c)
  BY <1>6, AnswerEnds, GotoGoes DEF Listen, Shape
<1>7. CASE Snapshot(c)
  BY <1>7, AnswerEnds, GotoGoes DEF Snapshot, Shape
<1>8. CASE Deadline(c)
  BY <1>8, AnswerEnds, GotoGoes DEF Deadline, Shape
<1>9. CASE Hear(c)
  <2>1. PICK r \in Calls : r = call[c] /\ r.heard # <<>>
    BY <1>9 DEF Typed, Hear
  <2>2. CASE Answer(c, "ok") \/ Answer(c, "FAILED")
    BY <1>9, <2>2, AnswerEnds DEF Hear, Shape
  <2>3. CASE call' = [call EXCEPT ![c].heard = Tail(@)] /\ UNCHANGED <<ring, log>>
    <3>1. [r EXCEPT !.heard = Tail(@)] \in Calls /\ [r EXCEPT !.heard = Tail(@)].at = r.at
      BY <2>1, HeadTailProperties DEF Calls
    <3>2. QED
      BY <1>9, <2>1, <2>3, <3>1 DEF Hear, Shape, Goes, Moved, Typed
  <2>4. QED
    BY <1>9, <2>2, <2>3 DEF Hear
<1>10. QED
  BY <1>1, <1>2, <1>3, <1>4, <1>5, <1>6, <1>7, <1>8, <1>9 DEF Lifecycle

\* A step of a call that neither waits nor touches the project.
Aside(c) ==
  /\ Shape(c) /\ UNCHANGED <<project, loop>>
  /\ call[c].at \in {"look", "run"} /\ call'[c].at \in {"idle", "run"}

LEMMA EndsAside ==
  ASSUME NEW c \in Callers, Ended(c), call[c].at \in {"look", "run"},
         UNCHANGED <<project, loop, begun, server>>
  PROVE  Aside(c)
  BY DEF Aside, Shape, Ended, Idle, project

LEMMA ExecShape ==
  ASSUME Typed, NEW c \in Callers, Exec(c) \/ Read(c) \/ TailLogs(c)
  PROVE  Aside(c)
<1>1. PICK r \in Calls : r = call[c]
  BY DEF Typed
<1>2. CASE ExecLook(c)
  <2>1. Limit(r.limit) \in Nat
    BY <1>1, AgentCallsAssumption DEF Limit, Least, Calls
  <2>2. [r EXCEPT !.at = "run", !.limit = Limit(@)] \in Calls /\ [r EXCEPT !.at = "run", !.limit = Limit(@)].at = "run"
    BY <1>1, <2>1 DEF Calls
  <2>3. CASE call' = [call EXCEPT ![c].at = "run", ![c].limit = Limit(@)] /\ UNCHANGED <<ring, log>>
    BY <1>1, <1>2, <2>2, <2>3 DEF ExecLook, Aside, Shape, Goes, Moved, Typed, project
  <2>4. CASE Answer(c, "NOT_RUNNING") \/ Answer(c, "INVALID_INPUT")
    BY <1>2, <2>4, AnswerEnds, EndsAside DEF ExecLook
  <2>5. QED
    BY <1>2, <2>3, <2>4 DEF ExecLook
<1>3. CASE Tick(c)
  <2>1. [r EXCEPT !.age = @ + 1] \in Calls /\ [r EXCEPT !.age = @ + 1].at = r.at
    BY <1>1, <1>3, AgentCallsAssumption DEF Tick, Calls
  <2>2. QED
    BY <1>1, <1>3, <2>1 DEF Tick, Aside, Shape, Goes, Moved, Typed, project
<1>4. CASE ExecEnds(c)
  <2>1. CASE \E have, cap \in Amounts : Tell(c, "ok", TRUE, Short(have, Cut(have, cap)))
    <3>1. PICK have \in Amounts, cap \in Amounts : Tell(c, "ok", TRUE, Short(have, Cut(have, cap)))
      BY <2>1
    <3>2. /\ Short(have, Cut(have, cap)) \in BOOLEAN
          /\ Small => ~Short(have, Cut(have, cap))
      BY CutIsTold, ShortIsBoolean, AgentCallsAssumption DEF Small
    <3>3. QED
      BY <1>4, <3>1, <3>2, TellEnds, EndsAside DEF ExecEnds
  <2>2. CASE "wide" \in Mishaps /\ call' = [call EXCEPT ![c] = Idle] /\ UNCHANGED <<ring, log>>
    <3>1. Idle \in Calls
      BY IdleIsACall
    <3>2. QED
      BY <1>4, <2>2, <3>1 DEF ExecEnds, Aside, Shape, Unrecorded, Moved, Typed, Idle, project
  <2>3. QED
    BY <1>4, <2>1, <2>2 DEF ExecEnds
<1>5. CASE ExecTimesOut(c)
  BY <1>5, AnswerEnds, EndsAside DEF ExecTimesOut
<1>6. CASE ExecGivenUp(c)
  BY <1>6, TellEnds, EndsAside DEF ExecGivenUp
<1>7. CASE Read(c)
  <2>1. CASE \E size, cap \in Amounts : Tell(c, "ok", TRUE, Short(size, ReadBytes(size, cap)))
    <3>1. PICK size \in Amounts, cap \in Amounts : Tell(c, "ok", TRUE, Short(size, ReadBytes(size, cap)))
      BY <2>1
    <3>2. /\ Short(size, ReadBytes(size, cap)) \in BOOLEAN
          /\ Small => ~Short(size, ReadBytes(size, cap))
      BY CutIsTold, ShortIsBoolean, AgentCallsAssumption DEF Small
    <3>3. QED
      BY <1>7, <3>1, <3>2, TellEnds, EndsAside DEF Read
  <2>2. CASE Answer(c, "INVALID_INPUT")
    BY <1>7, <2>2, AnswerEnds, EndsAside DEF Read
  <2>3. QED
    BY <1>7, <2>1, <2>2 DEF Read
<1>8. CASE TailLogs(c)
  <2>1. CASE \E have, asked \in Amounts : Tell(c, "ok", TRUE, Short(have, TailLines(have, asked)))
    <3>1. PICK have \in Amounts, asked \in Amounts : Tell(c, "ok", TRUE, Short(have, TailLines(have, asked)))
      BY <2>1
    <3>2. /\ Short(have, TailLines(have, asked)) \in BOOLEAN
          /\ Small => ~Short(have, TailLines(have, asked))
      BY CutIsTold, ShortIsBoolean, AgentCallsAssumption DEF Small
    <3>3. QED
      BY <1>8, <3>1, <3>2, TellEnds, EndsAside DEF TailLogs
  <2>2. CASE Answer(c, "CONTAINER_FAILED")
    BY <1>8, <2>2, AnswerEnds, EndsAside DEF TailLogs
  <2>3. QED
    BY <1>8, <2>1, <2>2 DEF TailLogs
<1>9. QED
  BY <1>2, <1>3, <1>4, <1>5, <1>6, <1>7, <1>8 DEF Exec

-----------------------------------------------------------------------------
(* The log and the ring under a step of any shape. *)

Under == {c \in Callers : call[c].at # "idle"}

LEMMA RingFollows ==
  ASSUME Typed, RingIsTail, NEW e \in Entries, log' = Append(log, e), ring' = Recorded(e)
  PROVE  /\ ring' = LastOf(log', Cap)
         /\ ring' \in Seq(Entries) /\ log' \in Seq(Entries) /\ Len(log') = Len(log) + 1
<1>1. ring = LastOf(log, Cap)
  BY DEF RingIsTail, LastOf, Excess
<1>2. log \in Seq(Entries) /\ ring \in Seq(Entries) /\ Cap \in Nat
  BY AgentCallsAssumption DEF Typed
<1>3. ring' = LastOf(Append(log, e), Cap)
  BY <1>1, <1>2, LastOfLonger DEF Recorded
<1>4. /\ Append(ring, e) \in Seq(Entries) /\ Append(ring, e) # <<>>
      /\ Append(log, e) \in Seq(Entries) /\ Len(Append(log, e)) = Len(log) + 1
  BY <1>2, AppendProperties
<1>5. Tail(Append(ring, e)) \in Seq(Entries)
  BY <1>4, HeadTailProperties
<1>6. QED
  BY <1>3, <1>4, <1>5 DEF Recorded

\* A call that ends is one call fewer under way.
LEMMA OneFewer ==
  ASSUME NEW c \in Callers, c \in Under, Moved(c), call'[c].at = "idle"
  PROVE  Cardinality(Under') = Cardinality(Under) - 1 /\ Cardinality(Under) \in Nat
<1>1. Under' = Under \ {c}
  BY DEF Under, Moved
<1>2. IsFiniteSet(Under)
  BY AgentCallsAssumption, FS_Subset DEF Under
<1>3. QED
  BY <1>1, <1>2, FS_RemoveElement, FS_CardinalityType

LEMMA AsMany ==
  ASSUME NEW c \in Callers, c \in Under, Moved(c), call'[c].at # "idle"
  PROVE  Under' = Under
  BY DEF Under, Moved

LEMMA ShapeKeepsLog ==
  ASSUME Typed, RingIsTail, Small => ShortIsTold, NoCallInTeardown, NEW c \in Callers, Shape(c)
  PROVE  /\ RingIsTail' /\ (Small => ShortIsTold)' /\ NoCallInTeardown'
         /\ call' \in [Callers -> Calls] /\ begun' \in 0 .. MaxCalls
         /\ ring' \in Seq(Entries) /\ log' \in Seq(Entries)
         /\ server' \in {"up", "draining", "down"}
<1>1. c \in Under /\ Moved(c) /\ begun' = begun /\ server' = server
  BY DEF Shape, Under, Ended, Goes, Unrecorded
<1>2. NoCallInTeardown'
  BY <1>1 DEF NoCallInTeardown, Under
<1>3. call' \in [Callers -> Calls] /\ begun' \in 0 .. MaxCalls /\ server' \in {"up", "draining", "down"}
  BY <1>1 DEF Moved, Typed
<1>4. CASE Ended(c)
  <2>1. PICK e \in Entries : (Small => ~e.short) /\ log' = Append(log, e) /\ ring' = Recorded(e)
    BY <1>4 DEF Ended
  <2>2. /\ ring' = LastOf(log', Cap) /\ Len(log') = Len(log) + 1
        /\ ring' \in Seq(Entries) /\ log' \in Seq(Entries)
    BY <2>1, RingFollows
  <2>3. Cardinality(Under') = Cardinality(Under) - 1 /\ Cardinality(Under) \in Nat
    BY <1>1, <1>4, OneFewer DEF Ended, Idle
  <2>4. "wide" \notin Mishaps => begun' = Len(log') + Cardinality(Under')
    <3>1. Len(log) \in Nat
      BY LenProperties DEF Typed
    <3>2. QED
      BY <1>1, <2>2, <2>3, <3>1 DEF RingIsTail, Under
  <2>5. RingIsTail'
    BY <2>2, <2>4 DEF RingIsTail, Under, LastOf, Excess
  <2>6. Small => ShortIsTold'
    <3>1. SUFFICES ASSUME Small, NEW i \in 1 .. Len(log') PROVE ~log'[i].short
      BY DEF ShortIsTold
    <3>2. \A k \in 1 .. Len(log) : log'[k] = log[k]
      BY <2>1, AppendProperties DEF Typed
    <3>3. log'[Len(log) + 1] = e
      BY <2>1, AppendProperties DEF Typed
    <3>4. i \in 1 .. Len(log) \/ i = Len(log) + 1
      BY <2>2, LenProperties DEF Typed
    <3>5. QED
      BY <2>1, <3>1, <3>2, <3>3, <3>4 DEF ShortIsTold
  <2>7. QED
    BY <1>2, <1>3, <2>2, <2>5, <2>6 DEF Small
<1>5. CASE Goes(c)
  <2>1. Under' = Under
    BY <1>1, <1>5, AsMany DEF Goes
  <2>2. QED
    BY <1>1, <1>2, <1>3, <1>5, <2>1 DEF Goes, RingIsTail, ShortIsTold, Small, Typed, Under
<1>6. CASE Unrecorded(c)
  BY <1>2, <1>3, <1>6 DEF Unrecorded, RingIsTail, ShortIsTold, Small, Typed
<1>7. QED
  BY <1>4, <1>5, <1>6 DEF Shape

-----------------------------------------------------------------------------
(* The waits. *)

\* A step of one call away from the wait.
LEMMA LeavingKeepsWaking ==
  ASSUME Typed, Waking, NEW c \in Callers, Moved(c), UNCHANGED <<stored, loop>>,
         call'[c].at \notin {"snapshot", "wait"},
         ~At(c, "again", {"restart"}) \/ stored = None
  PROVE  Waking'
<1>1. ASSUME stored = None, NEW d \in Callers, call[d].tool \in Waits PROVE ~Ends(d, stored)
  BY <1>1, AgentCallsAssumption DEF Ends, Target
<1>2. \A d \in Callers : call'[d].at \in {"snapshot", "wait"} => d # c /\ call'[d] = call[d]
  BY DEF Moved
<1>3. QED
  BY <1>1, <1>2 DEF Waking, Coming, Ends, Moved

\* A start, or a stop that is not announced.
LEMMA StatusKeepsWaking ==
  ASSUME Typed, loop'.due = None, stored' \in {"Starting", "Stopping", None}
  PROVE  Waking'
  BY AgentCallsAssumption DEF Waking, Ends, Target

LEMMA AsideKeepsWaking ==
  ASSUME Typed, Waking, NEW c \in Callers, Aside(c)
  PROVE  Waking'
<1>1. Moved(c)
  BY DEF Aside, Shape, Ended, Goes, Unrecorded
<1>2. QED
  BY <1>1, LeavingKeepsWaking DEF Aside, project

LEMMA AnswerKeepsWaking ==
  ASSUME Typed, Waking, NEW c \in Callers, NEW what, Answer(c, what), UNCHANGED <<stored, loop>>,
         ~At(c, "again", {"restart"}) \/ stored = None
  PROVE  Waking'
<1>1. Moved(c) /\ call'[c] = Idle
  BY AnswerEnds DEF Ended
<1>2. QED
  BY <1>1, LeavingKeepsWaking DEF Idle

\* What has been emitted and is now persisted was on its way to all who wait.
LEMMA PersistedKeepsWaking ==
  ASSUME Typed, Waking, loop.due # None, Persisted,
         \A d \in Callers : At(d, "wait", Waits)' => call'[d] = call[d]
  PROVE  Waking'
<1>1. loop'.due = None /\ stored' \in {None, loop.due}
  BY DEF Persisted, NoLoop
<1>2. \A d \in Callers : At(d, "wait", Waits)' /\ Ends(d, stored)' => Ends(d, loop.due)
  BY <1>1, AgentCallsAssumption DEF Ends, Target
<1>3. QED
  BY <1>1, <1>2 DEF Waking, Coming, Ends

LEMMA EmitKeepsWaking ==
  ASSUME Typed, Waking, NEW status \in Statuses, Emit(status), loop' = [loop EXCEPT !.due = status]
  PROVE  Waking' /\ call' \in [Callers -> Calls]
<1>1. loop'.due = status /\ status # None
  BY AgentCallsAssumption DEF Typed, Loops
<1>2. ASSUME NEW d \in Callers
      PROVE  /\ call'[d] \in Calls
             /\ At(d, "snapshot", Waits)' \/ At(d, "wait", Waits)' =>
                  \E i \in 1 .. Len(call'[d].heard) : call'[d].heard[i] = status
  <2>1. PICK r \in Calls : r = call[d]
    BY DEF Typed
  <2>2. CASE call[d].at \in {"snapshot", "wait"} /\ call[d].tool \in Waits
    <3>1. call'[d] = [r EXCEPT !.heard = Append(@, status)]
      BY <2>1, <2>2 DEF Emit
    <3>2. /\ Append(r.heard, status) \in Seq(Statuses)
          /\ Len(Append(r.heard, status)) = Len(r.heard) + 1
          /\ Append(r.heard, status)[Len(r.heard) + 1] = status
          /\ Len(r.heard) \in Nat
      BY AppendProperties, LenProperties DEF Calls
    <3>3. call'[d] \in Calls /\ call'[d].heard = Append(r.heard, status)
      BY <3>1, <3>2 DEF Calls
    <3>4. Len(r.heard) + 1 \in 1 .. Len(call'[d].heard)
      BY <3>2, <3>3
    <3>5. QED
      BY <3>2, <3>3, <3>4
  <2>3. CASE ~(call[d].at \in {"snapshot", "wait"} /\ call[d].tool \in Waits)
    BY <2>1, <2>3 DEF Emit
  <2>4. QED
    BY <2>2, <2>3
<1>3. call' \in [Callers -> Calls]
  BY <1>2 DEF Emit
<1>4. QED
  BY <1>1, <1>2, <1>3 DEF Waking, Coming, Ends

LEMMA HearKeepsWaking ==
  ASSUME Typed, Waking, NEW c \in Callers, Hear(c)
  PROVE  Waking'
<1>1. CASE Answer(c, "ok") \/ Answer(c, "FAILED")
  BY <1>1, AnswerKeepsWaking DEF Hear, project
<1>2. CASE ~Ends(c, Head(call[c].heard)) /\ call' = [call EXCEPT ![c].heard = Tail(@)]
  <2>1. PICK r \in Calls : r = call[c] /\ r.heard # <<>>
    BY DEF Typed, Hear
  <2>2. /\ call'[c] = [r EXCEPT !.heard = Tail(@)]
        /\ \A d \in Callers \ {c} : call'[d] = call[d]
    BY <1>2, <2>1 DEF Typed
  <2>3. /\ call'[c].at = r.at /\ call'[c].tool = r.tool /\ call'[c].heard = Tail(r.heard)
        /\ r.at = "wait" /\ call'[c].at = "wait"
    BY <2>1, <2>2 DEF Calls, Hear
  <2>4. ASSUME Coming(c) PROVE Coming(c)'
    <3>1. PICK i \in 1 .. Len(r.heard) : Ends(c, r.heard[i])
      BY <2>1, <2>4 DEF Coming
    <3>2. i # 1
      BY <1>2, <2>1, <3>1, HeadTailProperties DEF Calls
    <3>3. i - 1 \in 1 .. Len(Tail(r.heard)) /\ Tail(r.heard)[i - 1] = r.heard[i]
      BY <2>1, <3>1, <3>2, HeadTailProperties, LenProperties DEF Calls
    <3>4. Ends(c, Tail(r.heard)[i - 1])'
      BY <2>1, <2>3, <3>1, <3>3 DEF Ends
    <3>5. QED
      BY <2>3, <3>3, <3>4 DEF Coming
  <2>5. \A d \in Callers : Coming(d) => Coming(d)'
    BY <2>2, <2>4 DEF Coming, Ends
  <2>6. \A d \in Callers : call'[d].at = call[d].at /\ call'[d].tool = call[d].tool
    BY <2>1, <2>2, <2>3
  <2>7. \A d \in Callers : At(d, "snapshot", Waits)' => call'[d] = call[d]
    BY <2>2, <2>3
  <2>8. stored' = stored /\ loop' = loop
    BY DEF Hear, project
  <2>9. \A d \in Callers : \A x : Ends(d, x)' <=> Ends(d, x')
    BY <2>6 DEF Ends
  <2>10. QED
    BY <2>5, <2>6, <2>7, <2>8 DEF Waking, Ends
<1>3. QED
  BY <1>1, <1>2 DEF Hear

LEMMA LifecycleKeepsWaking ==
  ASSUME Typed, "split" \notin Mishaps, Waking, NEW c \in Callers, Unknown(c) \/ Lifecycle(c)
  PROVE  Waking'
<1>1. CASE Unknown(c)
  BY <1>1, AnswerKeepsWaking DEF Unknown, project
<1>2. CASE StartLook(c)
  BY <1>2, AnswerKeepsWaking, StatusKeepsWaking DEF StartLook, Started, project
<1>3. CASE RestartLook(c)
  <2>1. CASE loop' = NoLoop /\ Goto(c, "again")
    <3>1. At(c, "again", {"restart"})' /\ loop'.due = None
      BY <1>3, <2>1 DEF RestartLook, NoLoop, Typed, Calls
    <3>2. QED
      BY <3>1 DEF Waking
  <2>2. CASE Answer(c, "NOT_INSTALLED") /\ UNCHANGED <<project, loop>>
    BY <1>3, <2>2, AnswerKeepsWaking DEF RestartLook, project
  <2>3. QED
    BY <1>3, <2>1, <2>2 DEF RestartLook
<1>4. CASE RestartStarts(c)
  BY <1>4, AnswerKeepsWaking, StatusKeepsWaking DEF RestartStarts, Started, project
<1>5. CASE StopLook(c)
  <2>1. CASE Goto(c, "listen") /\ UNCHANGED <<ring, log>>
    <3>1. Moved(c) /\ call'[c].at = "listen"
      BY <2>1 DEF Moved, Typed, Calls
    <3>2. QED
      BY <1>5, <3>1, LeavingKeepsWaking DEF StopLook
  <2>2. CASE Answer(c, "ok")
    BY <1>5, <2>2, AnswerKeepsWaking DEF StopLook
  <2>3. QED
    BY <1>5, <2>1, <2>2 DEF StopLook
<1>6. CASE Listen(c)
  <2>1. Moved(c) /\ call'[c].at = "snapshot"
    BY <1>6, GotoGoes DEF Listen, Goes, Typed, Calls
  <2>2. \A d \in Callers : At(d, "wait", Waits)' => call'[d] = call[d]
    BY <2>1 DEF Moved
  <2>3. CASE loop.due # None
    BY <1>6, <2>2, <2>3, PersistedKeepsWaking DEF Listen
  <2>4. CASE loop.due = None
    <3>1. stored' = stored /\ loop' = loop
      BY <1>6, <2>4 DEF Listen
    <3>2. \A d \in Callers \ {c} : call'[d] = call[d]
      BY <2>1 DEF Moved
    <3>3. QED
      BY <1>6, <2>1, <2>4, <3>1, <3>2 DEF Waking, Coming, Ends, Listen
  <2>5. QED
    BY <2>3, <2>4
<1>7. CASE Snapshot(c)
  <2>1. CASE stored \notin {None, Target(call[c].tool), "Failed"} /\ Goto(c, "wait") /\ UNCHANGED <<ring, log>>
    <3>1. /\ call'[c].at = "wait" /\ call'[c].tool = call[c].tool /\ call'[c].heard = call[c].heard
          /\ \A d \in Callers \ {c} : call'[d] = call[d]
      BY <2>1, GotoGoes DEF Goes, Moved, Typed, Calls
    <3>2. stored' = stored /\ loop' = loop /\ ~Ends(c, stored)
      BY <1>7, <2>1 DEF Snapshot, project, Ends
    <3>3. loop.due # None /\ Ends(c, loop.due) => Coming(c)
      BY <1>7 DEF Waking, Snapshot, Coming
    <3>4. QED
      BY <1>7, <3>1, <3>2, <3>3 DEF Waking, Coming, Ends, Snapshot
  <2>2. CASE \E what : Answer(c, what)
    BY <1>7, <2>2, AnswerKeepsWaking DEF Snapshot, project
  <2>3. QED
    BY <1>7, <2>1, <2>2 DEF Snapshot
<1>8. CASE Hear(c)
  BY <1>8, HearKeepsWaking
<1>9. CASE Deadline(c)
  BY <1>9, AnswerKeepsWaking DEF Deadline, project
<1>10. QED
  BY <1>1, <1>2, <1>3, <1>4, <1>5, <1>6, <1>7, <1>8, <1>9 DEF Lifecycle

-----------------------------------------------------------------------------
(* Every step keeps the invariant. *)

LEMMA LifecycleTypes ==
  ASSUME Typed, NEW c \in Callers, Unknown(c) \/ Lifecycle(c)
  PROVE  installed' \in BOOLEAN /\ stored' \in Statuses \cup {None} /\ intent' \in {"Run", "Stop"} /\ loop' \in Loops
<1>1. CASE UNCHANGED <<project, loop>>
  BY <1>1 DEF Typed, project
<1>2. CASE Started
  BY <1>2 DEF Started, Typed, Loops
<1>3. CASE RestartLook(c)
  BY <1>3 DEF RestartLook, NoLoop, Typed, Loops, project
<1>4. CASE StopLook(c)
  BY <1>4 DEF StopLook, Typed
<1>5. CASE Listen(c)
  BY <1>5 DEF Listen, Persisted, NoLoop, Typed, Loops
<1>6. QED
  BY <1>1, <1>2, <1>3, <1>4, <1>5
     DEF Lifecycle, Unknown, StartLook, RestartStarts, Snapshot, Hear, Deadline

LEMMA ServeKeeps ==
  ASSUME IInv, NEW c \in Callers, Serve(c)
  PROVE  IInv'
<1>1. CASE Unknown(c) \/ Lifecycle(c)
  BY <1>1, LifecycleShape, ShapeKeepsLog, LifecycleKeepsWaking, LifecycleTypes DEF IInv, Typed
<1>2. CASE Exec(c) \/ Read(c) \/ TailLogs(c)
  BY <1>2, ExecShape, ShapeKeepsLog, AsideKeepsWaking DEF Aside, IInv, Typed, project
<1>3. QED
  BY <1>1, <1>2 DEF Serve

LEMMA BeginKeeps ==
  ASSUME IInv, NEW c \in Callers, Begin(c)
  PROVE  IInv'
<1>1. PICK tool \in Tools, b \in Budgets :
        call' = [call EXCEPT ![c] = [Idle EXCEPT !.tool = tool, !.at = "look", !.limit = b]]
  BY DEF Begin
<1>2. /\ Moved(c) /\ call'[c].at = "look"
  <2> DEFINE new == [Idle EXCEPT !.tool = tool, !.at = "look", !.limit = b]
  <2>1. new \in Calls /\ new.at = "look"
    <3>1. PICK r \in Calls : r = Idle
      BY IdleIsACall
    <3>2. b \in Nat
      BY AgentCallsAssumption
    <3>3. [r EXCEPT !.tool = tool, !.at = "look", !.limit = b] \in Calls
      BY <3>2 DEF Calls
    <3>4. [r EXCEPT !.tool = tool, !.at = "look", !.limit = b].at = "look"
      BY DEF Calls
    <3>5. QED
      BY <3>1, <3>3, <3>4
  <2> HIDE DEF new
  <2>2. call' = [call EXCEPT ![c] = new]
    BY <1>1 DEF new
  <2>3. QED
    BY <2>1, <2>2 DEF Moved, IInv, Typed
<1>3. /\ begun' = begun + 1 /\ server = "up" /\ call[c].at = "idle" /\ begun < MaxCalls
      /\ UNCHANGED <<project, loop, ring, log, server>>
  BY DEF Begin
<1>4. Under' = Under \cup {c} /\ c \notin Under /\ IsFiniteSet(Under)
  BY <1>2, <1>3, AgentCallsAssumption, FS_Subset DEF Under, Moved
<1>5. Cardinality(Under') = Cardinality(Under) + 1 /\ Cardinality(Under) \in Nat
  BY <1>4, FS_AddElement, FS_CardinalityType
<1>6. "wide" \notin Mishaps => begun' = Len(log') + Cardinality(Under')
  <2>1. Len(log) \in Nat
    BY LenProperties DEF IInv, Typed
  <2>2. QED
    BY <1>3, <1>5, <2>1 DEF IInv, RingIsTail, Under
<1>7. RingIsTail'
  BY <1>3, <1>6 DEF IInv, RingIsTail, Under
<1>8. Typed'
  BY <1>2, <1>3, AgentCallsAssumption DEF IInv, Typed, Moved, project
<1>9. "split" \notin Mishaps => Waking'
  BY <1>2, <1>3, LeavingKeepsWaking DEF IInv, project
<1>10. QED
  BY <1>3, <1>7, <1>8, <1>9 DEF IInv, ShortIsTold, Small, NoCallInTeardown

\* The log and the calls that are under way, when no call moves but by what it
\* hears.
LEMMA OthersKeepLog ==
  ASSUME IInv, UNCHANGED <<begun, ring, log, server>>, \A c \in Callers : call'[c].at = call[c].at
  PROVE  RingIsTail' /\ (Small => ShortIsTold)' /\ NoCallInTeardown'
<1>1. {c \in Callers : call'[c].at # "idle"} = {c \in Callers : call[c].at # "idle"}
  OBVIOUS
<1>2. QED
  BY <1>1 DEF IInv, RingIsTail, ShortIsTold, Small, NoCallInTeardown

LEMMA EmitKeepsPlaces ==
  ASSUME Typed, NEW status \in Statuses, Emit(status), NEW c \in Callers
  PROVE  call'[c].at = call[c].at
<1>1. PICK r \in Calls : r = call[c]
  BY DEF Typed
<1>2. QED
  BY <1>1 DEF Emit, Calls

LEMMA ReconcileKeeps ==
  ASSUME IInv, Reconcile \/ Ui
  PROVE  IInv'
<1>1. CASE LoopRuns \/ LoopStops
  <2>1. PICK status \in Statuses : Emit(status) /\ loop' = [loop EXCEPT !.due = status]
    BY <1>1 DEF LoopRuns, LoopStops
  <2>2. UNCHANGED <<project, begun, ring, log, server>>
    BY <1>1 DEF LoopRuns, LoopStops
  <2>3. RingIsTail' /\ (Small => ShortIsTold)' /\ NoCallInTeardown'
    BY <2>1, <2>2, OthersKeepLog, EmitKeepsPlaces DEF IInv
  <2>4. call' \in [Callers -> Calls]
    <3>1. ASSUME NEW d \in Callers PROVE call'[d] \in Calls
      <4>1. PICK r \in Calls : r = call[d]
        BY DEF IInv, Typed
      <4>2. Append(r.heard, status) \in Seq(Statuses)
        BY AppendProperties DEF Calls
      <4>3. [r EXCEPT !.heard = Append(@, status)] \in Calls
        BY <4>2 DEF Calls
      <4>4. QED
        BY <2>1, <4>1, <4>3 DEF Emit
    <3>2. QED
      BY <2>1, <3>1 DEF Emit
  <2>5. Typed'
    BY <2>1, <2>2, <2>4 DEF IInv, Typed, Loops, project
  <2>6. "split" \notin Mishaps => Waking'
    BY <2>1, EmitKeepsWaking DEF IInv
  <2>7. QED
    BY <2>3, <2>5, <2>6 DEF IInv
<1>2. CASE LoopStopping
  <2>1. /\ loop'.due = None /\ stored' = "Stopping"
        /\ UNCHANGED <<installed, intent, loop, call, begun, ring, log, server>>
    BY <1>2 DEF LoopStopping, Ticks
  <2>2. Waking' /\ Typed'
    BY <2>1, StatusKeepsWaking DEF IInv, Typed
  <2>3. QED
    BY <2>1, <2>2, OthersKeepLog DEF IInv
<1>3. CASE LoopPersists
  <2>1. /\ loop.due # None /\ Persisted
        /\ UNCHANGED <<installed, intent, call, begun, ring, log, server>>
    BY <1>3 DEF LoopPersists
  <2>2. Typed'
    BY <2>1 DEF IInv, Typed, Persisted, NoLoop, Loops
  <2>3. "split" \notin Mishaps => Waking'
    BY <2>1, PersistedKeepsWaking DEF IInv
  <2>4. QED
    BY <2>1, <2>2, <2>3, OthersKeepLog DEF IInv
<1>4. CASE Ui
  <2>1. UNCHANGED <<call, begun, ring, log, server>>
    BY <1>4 DEF Ui
  <2>2. Typed'
    BY <1>4, <2>1 DEF IInv, Typed, Ui, Started, NoLoop, Loops
  <2>3. "split" \notin Mishaps => Waking'
    <3>1. CASE UNCHANGED <<stored, loop>>
      BY <2>1, <3>1 DEF IInv, Waking, Coming, Ends
    <3>2. CASE loop'.due = None /\ stored' \in {"Starting", None}
      BY <3>2, StatusKeepsWaking DEF IInv
    <3>3. QED
      BY <1>4, <3>1, <3>2 DEF Ui, Started, NoLoop
  <2>4. QED
    BY <2>1, <2>2, <2>3, OthersKeepLog DEF IInv
<1>5. QED
  BY <1>1, <1>2, <1>3, <1>4 DEF Reconcile

LEMMA ShutdownKeeps ==
  ASSUME IInv, Quit \/ Drained
  PROVE  IInv'
<1>1. UNCHANGED <<project, call, begun, ring, log>>
  BY DEF Quit, Drained
<1>2. Typed' /\ NoCallInTeardown'
  BY <1>1 DEF IInv, Typed, Quit, Drained, NoCallInTeardown, NoLoop, Loops, project
<1>3. RingIsTail' /\ (Small => ShortIsTold)'
  BY <1>1 DEF IInv, RingIsTail, ShortIsTold, Small
<1>4. "split" \notin Mishaps => Waking'
  <2>1. CASE Quit
    BY <1>1, <2>1 DEF IInv, Waking, Coming, Ends, Quit, project
  <2>2. CASE Drained
    BY <1>1, <2>2 DEF Waking, Drained, NoLoop
  <2>3. QED
    BY <2>1, <2>2
<1>5. QED
  BY <1>2, <1>3, <1>4 DEF IInv

LEMMA InitKeeps ==
  ASSUME Init
  PROVE  IInv
<1>1. Idle \in Calls
  BY IdleIsACall
<1>2. Typed
  BY <1>1, AgentCallsAssumption DEF Init, Typed, NoLoop, Loops
<1>3. {c \in Callers : call[c].at # "idle"} = {} /\ Len(log) = 0
  BY DEF Init, Idle
<1>4. Cardinality({}) = 0
  BY FS_EmptySet
<1>5. SubSeq(<<>>, 1, 0) = <<>>
  BY SubSeqProperties
<1>6. RingIsTail
  <2>1. (IF Len(log) > Cap THEN Len(log) - Cap ELSE 0) = 0
    BY <1>3, AgentCallsAssumption
  <2>2. ring = SubSeq(log, 1 + 0, Len(log))
    BY <1>3, <1>5 DEF Init
  <2>3. begun = Len(log) + Cardinality({c \in Callers : call[c].at # "idle"})
    <3>1. Cardinality({c \in Callers : call[c].at # "idle"}) = 0
      BY <1>3, <1>4
    <3>2. begun = 0
      BY DEF Init
    <3>3. QED
      BY <1>3, <3>1, <3>2
  <2>4. QED
    BY <2>1, <2>2, <2>3 DEF RingIsTail
<1>7. Waking /\ NoCallInTeardown /\ ShortIsTold
  BY <1>3 DEF Init, Idle, Waking, NoLoop, NoCallInTeardown, ShortIsTold
<1>8. QED
  BY <1>2, <1>6, <1>7 DEF IInv

LEMMA NextKeeps ==
  ASSUME IInv, [Next]_vars
  PROVE  IInv'
<1>1. CASE UNCHANGED vars
  BY <1>1 DEF vars, project, IInv, Typed, Waking, Coming, Ends, RingIsTail, ShortIsTold, Small,
     NoCallInTeardown
<1>2. CASE Next
  BY <1>2, BeginKeeps, ServeKeeps, ReconcileKeeps, ShutdownKeeps DEF Next
<1>3. QED
  BY <1>1, <1>2

\* The invariant of the calls: types, the wake-ups that are coming, the ring.
THEOREM CallsInvariant == Spec => []IInv
<1>1. Init => IInv
  BY InitKeeps
<1>2. IInv /\ [Next]_vars => IInv'
  BY NextKeeps
<1>3. QED
  BY <1>1, <1>2, PTL DEF Spec

\* A start, a stop or a restart that waits never misses what it waits for
\* (wait_for_status listens before it looks), whatever the user and the other
\* callers do, provided that no listener is attached between an event and the
\* write that follows at once.
THEOREM NoWakeIsLost ==
  ASSUME "split" \notin Mishaps
  PROVE  Spec => []WakeNotLost
<1>1. IInv => WakeNotLost
  <2>1. SUFFICES ASSUME IInv, NEW c \in Callers, At(c, "wait", Waits), call[c].heard = <<>>, loop.due = None,
                        ~ \E d \in Callers : At(d, "again", {"restart"})
                 PROVE  ~Ends(c, stored)
    BY DEF WakeNotLost, Ends
  <2>2. ~Coming(c)
    BY <2>1 DEF Coming
  <2>3. QED
    BY <2>1, <2>2 DEF IInv, Waking
<1>2. QED
  BY <1>1, CallsInvariant, PTL

\* Every call is recorded in its place, the ring holds the last Cap of them, no
\* answer is short without a word and no call lands in the teardown, where one
\* read takes the whole of a file (read_file's reads stop at a chunk).
THEOREM EveryCallIsWhole ==
  ASSUME \A a \in Amounts : a <= Chunk
  PROVE  Spec => []CallsAreWhole
<1>1. IInv => CallsAreWhole
  <2>1. SUFFICES ASSUME IInv PROVE TypeOK
    BY DEF IInv, CallsAreWhole, Small
  <2>2. \A c \in Callers : call[c].tool \in Tools \cup {None} /\ call[c].age <= Rpc
    BY <2>1, AgentCallsAssumption DEF IInv, Typed, Calls
  <2>3. QED
    BY <2>1, <2>2, AgentCallsAssumption DEF IInv, Typed, Loops, TypeOK
<1>2. QED
  BY <1>1, CallsInvariant, PTL

-----------------------------------------------------------------------------
(* Hot reload of a running project (HotReload) *)

Trees == [Watch!Paths -> {"none", "file", "dir"}]
Seen == Watch!Paths \cup {Watch!Root}
Events == [k : {"create", "both", "from", "to", "remove", "modify"}, p : Seen, q : Seen, dir : BOOLEAN]
Acts == [op : {"touch", "ensure", "remove", "rename"}, p : Seen, q : Seen, dir : BOOLEAN]
Doings == [acts : Seq(Acts), scan : BOOLEAN, cur : Trees]

\* What an event tells is so, and what a call of the agent asks for is done:
\* such a call changes nothing in the tree.
Settled(t, e) ==
  /\ e.k \in {"create", "to"} => Watch!There(t, e.p)
  /\ e.k \in {"from", "remove", "both"} => ~Watch!There(t, e.p)
Done(t, a) ==
  /\ a.op = "ensure" => Watch!There(t, a.p)
  /\ a.op \in {"remove", "rename"} => ~Watch!There(t, a.p)

Waiting == watcherMishaps \cap {"overlap", "unread"} = {}

\* While the tree is the user's: the watcher touches files, or repeats what the
\* user has done.
InStep ==
  /\ tree \in Trees /\ tree = mine
  /\ queue \in Seq(Events) /\ doing \in Doings
  /\ \A i \in 1..Len(doing.acts) : Done(tree, doing.acts[i]) /\ (~gate => doing.acts[i].op = "touch")
  /\ Waiting => \A i \in 1..Len(queue) : Settled(tree, queue[i])

ReloadInv == (~gate => ~v2) /\ (Waiting \/ ~gate => InStep)

\* What a list of events tells of a tree.
Tells(t, ev) == ev \in Seq(Events) /\ \A i \in 1..Len(ev) : Settled(t, ev[i])

LEMMA ReloadNames ==
  /\ Watch!Paths = {"d", "e", "da", "ea"} /\ Watch!Top = {"d", "e"} /\ Watch!Root = "root" /\ Watch!Root \notin Watch!Paths
  /\ Watch!In["d"] = "da" /\ Watch!In["e"] = "ea" /\ Watch!Paths \subseteq Seen /\ Watch!Root \in Seen
  /\ \A x : Watch!Below(x) = IF x \in Watch!Top THEN {Watch!In[x]} ELSE {}
  /\ \A t, x : x # Watch!Root => (Watch!There(t, x) <=> t[x] # "none")
  BY DEF Watch!Paths, Watch!Top, Watch!Root, Watch!In, Seen, Watch!Below, Watch!There

LEMMA OneEvent ==
  ASSUME NEW e \in Events PROVE <<e>> \in Seq(Events) /\ Len(<<e>>) = 1 /\ <<e>>[1] = e
  OBVIOUS

LEMMA OneTells ==
  ASSUME NEW t, NEW e \in Events,
         e.k \in {"create", "to"} => Watch!There(t, e.p), e.k \in {"from", "remove", "both"} => ~Watch!There(t, e.p)
  PROVE  Tells(t, <<e>>)
<1>1. <<e>> \in Seq(Events) /\ Len(<<e>>) = 1 /\ <<e>>[1] = e
  BY OneEvent
<1>2. \A i \in 1..Len(<<e>>) : <<e>>[i] = e
  BY <1>1
<1> QED
  BY <1>1, <1>2 DEF Tells, Settled

LEMMA TwoTell ==
  ASSUME NEW t, NEW a \in Events, NEW b \in Events, a.k \in {"from", "modify"}, b.k \in {"to", "modify"},
         ~Watch!There(t, a.p), Watch!There(t, b.p)
  PROVE  Tells(t, <<a, b>>)
<1>1. \A x, y \in Events : <<x, y>> \in Seq(Events) /\ Len(<<x, y>>) = 2 /\ <<x, y>>[1] = x /\ <<x, y>>[2] = y
  OBVIOUS
<1>2. <<a, b>> \in Seq(Events) /\ Len(<<a, b>>) = 2 /\ <<a, b>>[1] = a /\ <<a, b>>[2] = b
  BY <1>1
<1>3. \A i \in 1..2 : i = 1 \/ i = 2
  OBVIOUS
<1>4. \A i \in 1..Len(<<a, b>>) : <<a, b>>[i] = a \/ <<a, b>>[i] = b
  BY <1>2, <1>3
<1> QED
  BY <1>2, <1>4 DEF Tells, Settled

LEMMA NothingTells == \A t : Tells(t, <<>>)
  BY DEF Tells

LEMMA BothTell ==
  ASSUME NEW t, NEW r, NEW s, Tells(t, r), Tells(t, s)
  PROVE  Tells(t, r \o s)
<1>1. r \in Seq(Events) /\ s \in Seq(Events) /\ r \o s \in Seq(Events)
  BY DEF Tells
<1>2. \A i \in 1..Len(r \o s) : (\E j \in 1..Len(r) : (r \o s)[i] = r[j]) \/ (\E j \in 1..Len(s) : (r \o s)[i] = s[j])
  <2> TAKE i \in 1..Len(r \o s)
  <2>1. Len(r \o s) = Len(r) + Len(s) /\ Len(r) \in Nat /\ Len(s) \in Nat
    BY <1>1
  <2>2. CASE i <= Len(r)
    <3>1. i \in 1..Len(r) /\ (r \o s)[i] = r[i]
      BY <1>1, <2>1, <2>2
    <3> QED
      BY <3>1
  <2>3. CASE i > Len(r)
    <3>1. i - Len(r) \in 1..Len(s) /\ (r \o s)[i] = s[i - Len(r)]
      BY <1>1, <2>1, <2>3
    <3> QED
      BY <3>1
  <2> QED
    BY <2>1, <2>2, <2>3
<1> QED
  BY <1>1, <1>2 DEF Tells, Settled

\* What an edit of the user tells is so.
LEMMA PutTells ==
  ASSUME NEW t \in Trees, NEW p \in Watch!Paths, NEW kind \in {"file", "dir"}
  PROVE  Watch!Put(t, p, kind).t \in Trees /\ Tells(Watch!Put(t, p, kind).t, Watch!Put(t, p, kind).ev)
<1> DEFINE r == Watch!Put(t, p, kind)
           e == Watch!Event("create", p, kind = "dir")
<1>1. r.t = [t EXCEPT ![p] = kind] /\ r.ev = <<Watch!Event("create", p, kind = "dir")>>
  BY DEF Watch!Put
<1>2. r.t \in Trees /\ r.t[p] = kind
  BY <1>1 DEF Trees
<1>3. Watch!There(r.t, p)
  BY <1>2 DEF Watch!There
<1>4. Tells(r.t, <<e>>)
  <2>1. e \in Events /\ e.k = "create" /\ e.p = p
    BY ReloadNames DEF Watch!Event, Events
  <2> HIDE DEF e, r
  <2> QED
    BY <1>3, <2>1, OneTells
<1> QED
  BY <1>1, <1>2, <1>4

LEMMA GoneTells ==
  ASSUME NEW t \in Trees, NEW p \in Watch!Paths
  PROVE  Watch!Gone(t, p).t \in Trees /\ Tells(Watch!Gone(t, p).t, Watch!Gone(t, p).ev)
<1> DEFINE T == [x \in Watch!Paths |-> IF x \in {p} \cup Watch!Below(p) THEN "none" ELSE t[x]]
           under == IF p \in Watch!Top /\ Watch!There(t, Watch!In[p]) THEN <<Watch!Event("remove", Watch!In[p], FALSE)>> ELSE <<>>
           last == Watch!Event("remove", p, Watch!IsDir(t, p))
<1>1. Watch!Gone(t, p).t = T /\ Watch!Gone(t, p).ev = under \o <<last>>
  BY DEF Watch!Gone
<1>2. T \in Trees
  BY DEF Trees
<1>3. Tells(T, <<last>>)
  <2>1. last \in Events /\ last.k = "remove" /\ last.p = p
    <3>1. Watch!IsDir(t, p) \in BOOLEAN
      BY DEF Watch!IsDir
    <3> QED
      BY <3>1, ReloadNames DEF Watch!Event, Events
  <2>2. ~Watch!There(T, p)
    BY ReloadNames
  <2> HIDE DEF T, last
  <2> QED
    BY <2>1, <2>2, OneTells
<1>4. Tells(T, under)
  <2>1. CASE p \in Watch!Top /\ Watch!There(t, Watch!In[p])
    <3> DEFINE e == Watch!Event("remove", Watch!In[p], FALSE)
    <3>1. Watch!In[p] \in Watch!Paths /\ Watch!In[p] \in Watch!Below(p)
      BY <2>1, ReloadNames
    <3>2. e \in Events /\ e.k = "remove" /\ e.p = Watch!In[p]
      BY <3>1, ReloadNames DEF Watch!Event, Events
    <3>3. T[Watch!In[p]] = "none"
      BY <3>1
    <3>4. ~Watch!There(T, Watch!In[p])
      BY <3>1, <3>3, ReloadNames
    <3>5. Tells(T, <<e>>)
      <4> HIDE DEF T, e
      <4> QED
        BY <3>2, <3>4, OneTells
    <3> QED
      BY <2>1, <3>5
  <2>2. CASE ~(p \in Watch!Top /\ Watch!There(t, Watch!In[p]))
    BY <2>2, NothingTells
  <2> QED
    BY <2>1, <2>2
<1> HIDE DEF T, under, last
<1> QED
  BY <1>1, <1>2, <1>3, <1>4, BothTell

LEMMA MovedTells ==
  ASSUME NEW t \in Trees, NEW p \in Watch!Paths, NEW q \in Watch!Paths, Watch!CanMove(t, p, q), NEW mode
  PROVE  /\ Watch!Moved(t, p, q, mode).t \in Trees
         /\ mode \in {"both", "split", "any"} => Tells(Watch!Moved(t, p, q, mode).t, Watch!Moved(t, p, q, mode).ev)
<1> DEFINE T == [x \in Watch!Paths |-> IF x = q THEN t[p] ELSE IF x = p THEN "none"
                   ELSE IF p \in Watch!Top /\ q \in Watch!Top /\ x = Watch!In[q] THEN t[Watch!In[p]]
                   ELSE IF x \in Watch!Below(p) THEN "none" ELSE t[x]]
<1>1. Watch!Moved(t, p, q, mode).t = T
  BY DEF Watch!Moved
<1>2. T \in Trees
  <2>1. \A x \in Watch!Top : Watch!In[x] \in Watch!Paths
    BY ReloadNames
  <2> QED
    BY <2>1 DEF Trees
<1>3. p # q /\ t[p] # "none"
  BY ReloadNames DEF Watch!CanMove
<1>4. T[q] # "none" /\ T[p] = "none"
  BY <1>3
<1>5. Watch!There(T, q) /\ ~Watch!There(T, p)
  BY <1>4, ReloadNames
<1>6. CASE mode = "both"
  <2> DEFINE e == [Watch!Event("both", p, FALSE) EXCEPT !.q = q]
  <2>1. e \in Events /\ e.k = "both" /\ e.p = p
    BY ReloadNames DEF Watch!Event, Events
  <2>2. Watch!Moved(t, p, q, mode).ev = <<e>>
    BY <1>6 DEF Watch!Moved
  <2>3. Tells(T, <<e>>)
    <3> HIDE DEF T, e
    <3> QED
      BY <1>5, <2>1, OneTells
  <2> QED
    BY <1>1, <1>2, <2>2, <2>3
<1>7. CASE mode \in {"split", "any"}
  <2> DEFINE a == Watch!Event(IF mode = "split" THEN "from" ELSE "modify", p, FALSE)
             b == Watch!Event(IF mode = "split" THEN "to" ELSE "modify", q, FALSE)
  <2>1. a \in Events /\ a.k \in {"from", "modify"} /\ a.p = p /\ b \in Events /\ b.k \in {"to", "modify"} /\ b.p = q
    BY ReloadNames DEF Watch!Event, Events
  <2>2. Watch!Moved(t, p, q, mode).ev = <<a, b>>
    BY <1>7 DEF Watch!Moved
  <2>3. Tells(T, <<a, b>>)
    <3> HIDE DEF T, a, b
    <3> QED
      BY <1>5, <2>1, TwoTell
  <2> QED
    BY <1>1, <1>2, <2>2, <2>3
<1> QED
  BY <1>1, <1>2, <1>6, <1>7

\* What the callback leaves in the channel.
LEMMA EmitIs ==
  ASSUME Capacity \in Nat, NEW r, NEW q \in Seq(Events), r.ev \in Seq(Events), NEW kinds, Watch!Emit(r, q, kinds)
  PROVE  /\ tree' = r.t /\ queue' \in Seq(Events) /\ watcherMishaps \cup kinds \subseteq watcherMishaps'
         /\ \A i \in 1..Len(queue') : \E n \in 1..Len(q \o r.ev) : queue'[i] = (q \o r.ev)[n]
<1> DEFINE every == q \o r.ev
           over == Len(every) > Capacity
           last == IF over THEN Capacity ELSE Len(every)
<1>1. /\ tree' = r.t /\ queue' = SubSeq(every, 1, last)
      /\ watcherMishaps' = watcherMishaps \cup (kinds \cup IF over THEN {"full"} ELSE {})
  BY DEF Watch!Emit, Watch!Happen
<1>2. every \in Seq(Events) /\ Len(every) \in Nat
  OBVIOUS
<1>3. last \in 0..Len(every)
  BY <1>2
<1> HIDE DEF every, last
<1>4. queue' \in Seq(Events) /\ Len(queue') = last /\ \A i \in 1..last : queue'[i] = every[i]
  BY <1>1, <1>2, <1>3
<1>5. \A i \in 1..last : i \in 1..Len(every)
  BY <1>2, <1>3
<1>6. \A i \in 1..Len(queue') : \E n \in 1..Len(every) : queue'[i] = every[n]
  BY <1>4, <1>5
<1> QED
  BY <1>1, <1>4, <1>6 DEF every

\* The user edits while the watcher rests, or is not waited for.
LEMMA EditKeeps ==
  ASSUME Capacity \in Nat, ReloadInv, NEW r, NEW shown, NEW kinds, Watch!Edit(r, shown, kinds),
         tree \in Trees => r.t \in Trees /\ Tells(r.t, r.ev)
  PROVE  ReloadInv'
<1>1. /\ Watch!Emit(r, queue, kinds \cup (IF Watch!AtRest THEN {} ELSE {"overlap"}))
      /\ mine' = [p \in Watch!Paths |-> IF r.t[p] # tree[p] THEN r.t[p] ELSE mine[p]]
      /\ UNCHANGED <<gate, v2, doing>>
  BY DEF Watch!Edit
<1> SUFFICES ASSUME Waiting' \/ ~gate PROVE InStep'
  BY <1>1 DEF ReloadInv
<1>2. watcherMishaps \subseteq watcherMishaps' /\ (~Watch!AtRest => "overlap" \in watcherMishaps')
  BY <1>1 DEF Watch!Emit, Watch!Happen
<1>3. InStep
  BY <1>2 DEF ReloadInv, Waiting
<1>4. r.t \in Trees /\ Tells(r.t, r.ev) /\ queue \in Seq(Events) /\ r.ev \in Seq(Events)
  BY <1>3 DEF InStep, Tells
<1>5. /\ tree' = r.t /\ queue' \in Seq(Events)
      /\ \A i \in 1..Len(queue') : \E n \in 1..Len(queue \o r.ev) : queue'[i] = (queue \o r.ev)[n]
  BY <1>1, <1>4, EmitIs
<1>6. mine' = r.t
  BY <1>1, <1>3, <1>4 DEF InStep, Trees
<1>7. ASSUME Waiting', NEW i \in 1..Len(queue') PROVE Settled(tree', queue'[i])
  <2>1. queue = <<>>
    BY <1>2, <1>7 DEF Waiting, Watch!AtRest
  <2>2. queue \o r.ev = r.ev
    BY <1>4, <2>1
  <2>3. PICK n \in 1..Len(r.ev) : queue'[i] = r.ev[n]
    BY <1>5, <1>7, <2>2
  <2>4. Settled(r.t, r.ev[n])
    BY <1>4 DEF Tells
  <2> QED
    BY <1>5, <2>3, <2>4
<1>8. \A i \in 1..Len(doing'.acts) : Done(tree', doing'.acts[i]) /\ (~gate' => doing'.acts[i].op = "touch")
  <2>1. CASE ~gate
    <3>1. doing' = doing /\ gate' = gate /\ \A i \in 1..Len(doing.acts) : doing.acts[i].op = "touch"
      BY <1>1, <1>3, <2>1 DEF InStep
    <3> QED
      BY <3>1 DEF Done
  <2>2. CASE Waiting'
    <3>1. doing'.acts = <<>>
      BY <1>1, <1>2, <2>2 DEF Waiting, Watch!AtRest, Watch!Idle
    <3> QED
      BY <3>1
  <2> QED
    BY <2>1, <2>2
<1> QED
  BY <1>1, <1>3, <1>4, <1>5, <1>6, <1>7, <1>8 DEF InStep

LEMMA UserKeeps ==
  ASSUME Capacity \in Nat, Renames \subseteq {"both", "split", "any"}, ReloadInv, Watch!User
  PROVE  ReloadInv'
<1> PICK p \in Watch!Paths : Watch!New(p) \/ Watch!Save(p) \/ Watch!Delete(p) \/ \E q \in Watch!Paths : Watch!Rename(p, q)
  BY DEF Watch!User
<1>1. CASE Watch!New(p)
  <2>1. PICK kind \in {"file", "dir"} : \E shown, kinds : Watch!Edit(Watch!Put(tree, p, kind), shown, kinds)
    BY <1>1 DEF Watch!New
  <2> QED
    BY <2>1, PutTells, EditKeeps
<1>2. CASE Watch!Save(p)
  <2> DEFINE r == [t |-> tree, ev |-> <<Watch!Event("modify", p, FALSE)>>]
  <2>1. \E kinds : Watch!Edit(r, {p}, kinds)
    BY <1>2 DEF Watch!Save
  <2>2. Watch!Event("modify", p, FALSE) \in Events /\ Watch!Event("modify", p, FALSE).k = "modify"
    BY ReloadNames DEF Watch!Event, Events
  <2>3. Tells(tree, <<Watch!Event("modify", p, FALSE)>>)
    BY <2>2, OneTells
  <2>4. tree \in Trees => r.t \in Trees /\ Tells(r.t, r.ev)
    BY <2>3
  <2> HIDE DEF r
  <2> QED
    BY <2>1, <2>4, EditKeeps
<1>3. CASE Watch!Delete(p)
  <2>1. Watch!Edit(Watch!Gone(tree, p), {}, {})
    BY <1>3 DEF Watch!Delete
  <2> QED
    BY <2>1, GoneTells, EditKeeps
<1>4. CASE \E q \in Watch!Paths : Watch!Rename(p, q)
  <2> PICK q \in Watch!Paths : Watch!Rename(p, q)
    BY <1>4
  <2>1. Watch!CanMove(tree, p, q)
    BY DEF Watch!Rename
  <2>2. PICK mode \in Renames : \E shown, kinds : Watch!Edit(Watch!Moved(tree, p, q, mode), shown, kinds)
    BY DEF Watch!Rename
  <2> QED
    BY <2>1, <2>2, MovedTells, EditKeeps
<1> QED
  BY <1>1, <1>2, <1>3, <1>4

\* actions_from_event: an event that tells what is so asks for what is done.
LEMMA ActionIsDone ==
  ASSUME ReloadInv, NEW e \in Events, Waiting => Settled(tree, e), Waiting \/ ~gate, NEW a, a = Watch!ActionOf(e)
  PROVE  a \in Acts /\ Done(tree, a) /\ (~gate => a.op = "touch")
<1>1. \A op \in {"touch", "ensure", "remove", "rename"}, dir \in BOOLEAN :
        /\ Watch!Act(op, e.p, dir) \in Acts /\ Watch!Act(op, e.q, dir) \in Acts
        /\ Watch!Act(op, e.p, dir).op = op /\ Watch!Act(op, e.q, dir).op = op /\ Watch!Act(op, e.p, dir).p = e.p
  BY DEF Watch!Act, Acts, Events
<1>2. \A t, x : Watch!IsDir(t, x) \in BOOLEAN
  BY DEF Watch!IsDir
<1>3. e.k \in {"create", "both", "from", "to", "remove", "modify"} /\ e.dir \in BOOLEAN /\ e.q \in Seen
  BY DEF Events
<1>4. CASE e.k = "modify"
  <2>1. a = Watch!Act("touch", e.p, FALSE)
    BY <1>4 DEF Watch!ActionOf
  <2> QED
    BY <1>1, <2>1 DEF Done
<1>5. CASE e.k # "modify" /\ ~v2
  <2>1. a = Watch!Act("touch", e.q, FALSE) \/ a = Watch!Act("touch", e.p, FALSE)
    BY <1>3, <1>5 DEF Watch!ActionOf
  <2> QED
    BY <1>1, <2>1 DEF Done
<1>6. CASE e.k # "modify" /\ v2
  <2>1. gate /\ Settled(tree, e)
    BY <1>6 DEF ReloadInv
  <2>2. CASE e.k = "both"
    <3>1. a = [Watch!Act("rename", e.p, FALSE) EXCEPT !.q = e.q]
      BY <1>6, <2>2 DEF Watch!ActionOf
    <3>2. a \in Acts /\ a.op = "rename" /\ a.p = e.p
      BY <1>3, <3>1 DEF Watch!Act, Acts, Events
    <3> QED
      BY <2>1, <2>2, <3>2 DEF Done, Settled
  <2>3. CASE e.k \in {"create", "to"}
    <3>1. \E dir \in BOOLEAN : a = Watch!Act("ensure", e.p, dir)
      BY <1>2, <1>3, <1>6, <2>3 DEF Watch!ActionOf
    <3> QED
      BY <1>1, <2>1, <2>3, <3>1 DEF Done, Settled
  <2>4. CASE e.k \in {"from", "remove"}
    <3>1. \E dir \in BOOLEAN : a = Watch!Act("remove", e.p, dir)
      BY <1>3, <1>6, <2>4 DEF Watch!ActionOf
    <3> QED
      BY <1>1, <2>1, <2>4, <3>1 DEF Done, Settled
  <2> QED
    BY <1>3, <1>6, <2>2, <2>3, <2>4
<1> QED
  BY <1>4, <1>5, <1>6

\* Where the tree, the channel and the user's part are as they were.
LEMMA DoingKeeps ==
  ASSUME ReloadInv, UNCHANGED <<gate, tree, mine>>, watcherMishaps \subseteq watcherMishaps', ~gate => ~v2',
         queue \in Seq(Events) => /\ queue' \in Seq(Events)
                                  /\ \A i \in 1..Len(queue') : \E n \in 1..Len(queue) : queue'[i] = queue[n],
         (Waiting' \/ ~gate) /\ InStep =>
           doing' \in Doings /\ \A i \in 1..Len(doing'.acts) : Done(tree, doing'.acts[i]) /\ (~gate => doing'.acts[i].op = "touch")
  PROVE  ReloadInv'
<1> SUFFICES ASSUME Waiting' \/ ~gate PROVE InStep'
  BY DEF ReloadInv
<1>1. InStep /\ (Waiting' => Waiting)
  BY DEF ReloadInv, Waiting
<1>2. \A i \in 1..Len(doing'.acts) : Done(tree', doing'.acts[i])
  BY <1>1
<1>3. Waiting' => \A i \in 1..Len(queue') : Settled(tree', queue'[i])
  <2> SUFFICES ASSUME Waiting', NEW i \in 1..Len(queue') PROVE Settled(tree, queue'[i])
    OBVIOUS
  <2>1. PICK n \in 1..Len(queue) : queue'[i] = queue[n]
    BY <1>1 DEF InStep
  <2> QED
    BY <1>1, <2>1 DEF InStep
<1> QED
  BY <1>1, <1>2, <1>3 DEF InStep

LEMMA IdleIs == Watch!Idle \in Doings /\ Watch!Idle.acts = <<>>
<1>1. [p \in Watch!Paths |-> "none"] \in Trees /\ <<>> \in Seq(Acts)
  BY DEF Trees
<1> QED
  BY <1>1 DEF Watch!Idle, Doings

LEMMA TailRest ==
  ASSUME NEW S, NEW s \in Seq(S), s # <<>>
  PROVE  Tail(s) \in Seq(S) /\ Head(s) = s[1] /\ 1 \in 1..Len(s) /\ s[1] \in S
         /\ \A i \in 1..Len(Tail(s)) : \E n \in 1..Len(s) : Tail(s)[i] = s[n]
<1>1. Len(s) \in Nat \ {0} /\ Tail(s) \in Seq(S) /\ Len(Tail(s)) = Len(s) - 1 /\ \A i \in 1..(Len(s) - 1) : Tail(s)[i] = s[i + 1]
  OBVIOUS
<1>2. \A i \in 1..(Len(s) - 1) : i + 1 \in 1..Len(s)
  BY ONLY <1>1
<1>3. Head(s) = s[1] /\ 1 \in 1..Len(s) /\ s[1] \in S
  BY <1>1
<1> QED
  BY <1>1, <1>2, <1>3

LEMMA ReceiveKeeps ==
  ASSUME ReloadInv, Watch!Receive PROVE ReloadInv'
<1> DEFINE a == Watch!ActionOf(Head(queue))
<1>1. /\ queue # <<>> /\ queue' = Tail(queue) /\ UNCHANGED <<gate, v2, tree, mine, watcherMishaps>>
      /\ doing' = Watch!Idle \/ doing' = [Watch!Idle EXCEPT !.acts = <<a>>]
  BY DEF Watch!Receive
<1>2. queue \in Seq(Events) => /\ queue' \in Seq(Events)
                               /\ \A i \in 1..Len(queue') : \E n \in 1..Len(queue) : queue'[i] = queue[n]
  BY <1>1, TailRest
<1>3. ASSUME Waiting \/ ~gate, InStep
      PROVE  doing' \in Doings /\ \A i \in 1..Len(doing'.acts) : Done(tree, doing'.acts[i]) /\ (~gate => doing'.acts[i].op = "touch")
  <2>1. Head(queue) \in Events /\ (Waiting => Settled(tree, Head(queue)))
    <3>1. Head(queue) = queue[1] /\ 1 \in 1..Len(queue) /\ queue[1] \in Events
      BY <1>1, <1>3, TailRest DEF InStep
    <3> QED
      BY <1>3, <3>1 DEF InStep
  <2>2. a \in Acts /\ Done(tree, a) /\ (~gate => a.op = "touch")
    BY <1>3, <2>1, ActionIsDone
  <2> HIDE DEF a
  <2>3. \A x \in Acts : <<x>> \in Seq(Acts) /\ Len(<<x>>) = 1 /\ <<x>>[1] = x
    OBVIOUS
  <2>4. CASE doing' = Watch!Idle
    BY <2>4, IdleIs
  <2>5. CASE doing' = [Watch!Idle EXCEPT !.acts = <<a>>]
    <3>1. doing' \in Doings /\ doing'.acts = <<a>>
      BY <2>2, <2>3, <2>5, IdleIs DEF Doings
    <3>2. \A i \in 1..Len(doing'.acts) : doing'.acts[i] = a
      BY <2>2, <2>3, <3>1
    <3> QED
      BY <2>2, <3>1, <3>2
  <2> QED
    BY <1>1, <2>4, <2>5
<1>4. Waiting' <=> Waiting
  BY <1>1 DEF Waiting
<1>5. ~gate => ~v2'
  BY <1>1 DEF ReloadInv
<1> HIDE DEF a
<1> QED
  BY <1>1, <1>2, <1>3, <1>4, <1>5, DoingKeeps

\* A call of the agent that asks for what is done leaves the tree.
LEMMA InGuestStays ==
  ASSUME NEW a \in Acts, Done(tree, a), NEW mode, NEW r, r = Watch!InGuest(a, mode)
  PROVE  r.t = tree /\ Tells(tree, r.ev)
<1>1. Watch!Same(tree).t = tree /\ Tells(tree, Watch!Same(tree).ev)
  BY NothingTells DEF Watch!Same
<1>2. CASE a.op = "touch"
  <2> DEFINE e == Watch!Event("modify", a.p, FALSE)
  <2>1. r = Watch!Same(tree) \/ r = [t |-> tree, ev |-> <<e>>]
    BY <1>2 DEF Watch!InGuest, Watch!TouchFile
  <2>2. Tells(tree, <<e>>)
    <3>1. e \in Events /\ e.k = "modify"
      BY DEF Watch!Event, Events, Acts
    <3> HIDE DEF e
    <3> QED
      BY <3>1, OneTells
  <2> HIDE DEF e
  <2> QED
    BY <1>1, <2>1, <2>2
<1>3. CASE a.op = "ensure"
  BY <1>1, <1>3 DEF Watch!InGuest, Watch!EnsurePath, Done
<1>4. CASE a.op = "remove"
  BY <1>1, <1>4 DEF Watch!InGuest, Watch!RemovePath, Done
<1>5. CASE a.op = "rename"
  BY <1>1, <1>5 DEF Watch!InGuest, Watch!RenamePath, Watch!CanMove, Done
<1> QED
  BY <1>2, <1>3, <1>4, <1>5 DEF Acts

LEMMA ApplyKeeps ==
  ASSUME Capacity \in Nat, ReloadInv, Watch!Apply PROVE ReloadInv'
<1> DEFINE a == Head(doing.acts)
<1>1. /\ doing.acts # <<>> /\ UNCHANGED <<gate, v2, mine>>
      /\ doing' = Watch!Idle \/ doing' = [doing EXCEPT !.acts = Tail(@)]
      /\ \E r, kinds : Watch!Emit(r, queue, kinds) /\ (r = Watch!Same(tree) \/ \E mode : r = Watch!InGuest(a, mode))
  BY DEF Watch!Apply
<1>2. PICK r : /\ \E kinds : Watch!Emit(r, queue, kinds)
               /\ r = Watch!Same(tree) \/ \E mode : r = Watch!InGuest(a, mode)
  BY <1>1
<1> SUFFICES ASSUME Waiting' \/ ~gate PROVE InStep'
  BY <1>1 DEF ReloadInv
<1>3. watcherMishaps \subseteq watcherMishaps'
  BY <1>2 DEF Watch!Emit, Watch!Happen
<1>4. InStep /\ (Waiting' => Waiting)
  BY <1>3 DEF ReloadInv, Waiting
<1>5. doing \in Doings /\ doing.acts \in Seq(Acts)
  BY <1>4 DEF InStep, Doings
<1>6. a = doing.acts[1] /\ 1 \in 1..Len(doing.acts) /\ a \in Acts /\ Tail(doing.acts) \in Seq(Acts)
      /\ \A i \in 1..Len(Tail(doing.acts)) : \E n \in 1..Len(doing.acts) : Tail(doing.acts)[i] = doing.acts[n]
  BY <1>1, <1>5, TailRest
<1>7. Done(tree, a)
  BY <1>4, <1>6 DEF InStep
<1> HIDE DEF a
<1>8. r.t = tree /\ Tells(tree, r.ev)
  <2>1. CASE r = Watch!Same(tree)
    BY <2>1, NothingTells DEF Watch!Same
  <2>2. CASE \E mode : r = Watch!InGuest(a, mode)
    BY <1>6, <1>7, <2>2, InGuestStays
  <2> QED
    BY <1>2, <2>1, <2>2
<1>9. queue \in Seq(Events) /\ r.ev \in Seq(Events) /\ tree \in Trees /\ tree = mine
  BY <1>4, <1>8 DEF InStep, Tells
<1>10. /\ tree' = tree /\ queue' \in Seq(Events)
       /\ \A i \in 1..Len(queue') : \E n \in 1..Len(queue \o r.ev) : queue'[i] = (queue \o r.ev)[n]
  BY <1>2, <1>8, <1>9, EmitIs
<1>11. Waiting' => \A i \in 1..Len(queue') : Settled(tree, queue'[i])
  <2> SUFFICES ASSUME Waiting', NEW i \in 1..Len(queue') PROVE Settled(tree, queue'[i])
    OBVIOUS
  <2>1. Tells(tree, queue)
    BY <1>4, <1>9 DEF InStep, Tells
  <2>2. Tells(tree, queue \o r.ev)
    BY <1>8, <2>1, BothTell
  <2>3. PICK n \in 1..Len(queue \o r.ev) : queue'[i] = (queue \o r.ev)[n]
    BY <1>10
  <2> QED
    BY <2>2, <2>3 DEF Tells
<1>12. doing' \in Doings /\ \A i \in 1..Len(doing'.acts) : Done(tree, doing'.acts[i]) /\ (~gate => doing'.acts[i].op = "touch")
  <2>1. CASE doing' = Watch!Idle
    BY <2>1, IdleIs
  <2>2. CASE doing' = [doing EXCEPT !.acts = Tail(@)]
    <3>1. doing' \in Doings /\ doing'.acts = Tail(doing.acts)
      BY <1>5, <1>6, <2>2 DEF Doings
    <3>2. \A n \in 1..Len(doing.acts) : Done(tree, doing.acts[n]) /\ (~gate => doing.acts[n].op = "touch")
      BY <1>4 DEF InStep
    <3> QED
      BY <1>6, <3>1, <3>2
  <2> QED
    BY <1>1, <2>1, <2>2
<1> QED
  BY <1>1, <1>9, <1>10, <1>11, <1>12 DEF InStep

\* What a list of calls asks for is done.
Asks(s) == s \in Seq(Acts) /\ \A i \in 1..Len(s) : Done(tree, s[i])

LEMMA BothAsk ==
  ASSUME NEW r, NEW s, Asks(r), Asks(s)
  PROVE  Asks(r \o s)
<1>1. r \in Seq(Acts) /\ s \in Seq(Acts) /\ r \o s \in Seq(Acts)
  BY DEF Asks
<1>2. Len(r \o s) = Len(r) + Len(s) /\ Len(r) \in Nat /\ Len(s) \in Nat
  BY <1>1
<1>3. ASSUME NEW i \in 1..Len(r \o s) PROVE Done(tree, (r \o s)[i])
  <2>1. CASE i <= Len(r)
    <3>1. i \in 1..Len(r) /\ (r \o s)[i] = r[i]
      BY <1>1, <1>2, <1>3, <2>1
    <3> QED
      BY <3>1 DEF Asks
  <2>2. CASE i > Len(r)
    <3>1. i - Len(r) \in 1..Len(s) /\ (r \o s)[i] = s[i - Len(r)]
      BY <1>1, <1>2, <1>3, <2>2
    <3> QED
      BY <3>1 DEF Asks
  <2> QED
    BY <1>2, <1>3, <2>1, <2>2
<1> QED
  BY <1>1, <1>3 DEF Asks

LEMMA OneAsks ==
  ASSUME NEW op \in {"touch", "ensure", "remove", "rename"}, NEW p \in Seen, NEW dir \in BOOLEAN,
         Done(tree, Watch!Act(op, p, dir))
  PROVE  Asks(<<Watch!Act(op, p, dir)>>)
<1> DEFINE a == Watch!Act(op, p, dir)
<1>1. a \in Acts
  BY DEF Watch!Act, Acts
<1> HIDE DEF a
<1>2. <<a>> \in Seq(Acts) /\ Len(<<a>>) = 1 /\ <<a>>[1] = a
  BY <1>1
<1>3. \A i \in 1..Len(<<a>>) : <<a>>[i] = a
  BY <1>2
<1> QED
  BY <1>2, <1>3 DEF Asks, a

\* A comparison with the tree as it is asks for nothing new.
LEMMA ScanAsks ==
  ASSUME tree \in Trees PROVE Asks(Watch!Scan(tree))
<1>1. Asks(<<>>)
  BY DEF Asks
<1>2. ASSUME NEW p \in Watch!Paths PROVE Asks(Watch!Went(p, tree)) /\ Asks(Watch!Came(p, tree))
  <2>1. tree[p] \in {"none", "file", "dir"} /\ p \in Seen /\ (Watch!There(tree, p) <=> tree[p] # "none")
    BY <1>2, ReloadNames DEF Trees
  <2>2. \A op, dir : Watch!Act(op, p, dir).op = op /\ Watch!Act(op, p, dir).p = p
    BY DEF Watch!Act
  <2>3. tree[p] = "none" => \A dir \in BOOLEAN : Asks(<<Watch!Act("remove", p, dir)>>)
    <3> SUFFICES ASSUME tree[p] = "none", NEW dir \in BOOLEAN PROVE Asks(<<Watch!Act("remove", p, dir)>>)
      OBVIOUS
    <3>1. Done(tree, Watch!Act("remove", p, dir))
      BY <2>1, <2>2 DEF Done
    <3> QED
      BY <2>1, <3>1, OneAsks
  <2>4. tree[p] # "none" => \A dir \in BOOLEAN : Asks(<<Watch!Act("ensure", p, dir)>>)
    <3> SUFFICES ASSUME tree[p] # "none", NEW dir \in BOOLEAN PROVE Asks(<<Watch!Act("ensure", p, dir)>>)
      OBVIOUS
    <3>1. Done(tree, Watch!Act("ensure", p, dir))
      BY <2>1, <2>2 DEF Done
    <3> QED
      BY <2>1, <3>1, OneAsks
  <2>5. (known[p] = "dir") \in BOOLEAN /\ (tree[p] = "dir") \in BOOLEAN
    OBVIOUS
  <2> QED
    BY <1>1, <2>3, <2>4, <2>5 DEF Watch!Went, Watch!Came
<1>3. /\ Asks(Watch!Went("da", tree)) /\ Asks(Watch!Went("ea", tree)) /\ Asks(Watch!Went("d", tree)) /\ Asks(Watch!Went("e", tree))
      /\ Asks(Watch!Came("d", tree)) /\ Asks(Watch!Came("e", tree)) /\ Asks(Watch!Came("da", tree)) /\ Asks(Watch!Came("ea", tree))
  BY <1>2, ReloadNames
<1> QED
  BY ONLY <1>3, BothAsk DEF Watch!Scan

LEMMA CompareKeeps ==
  ASSUME ReloadInv, Watch!Reconcile PROVE ReloadInv'
<1> DEFINE NoTree == [p \in Watch!Paths |-> "none"]
<1>1. PICK cur, kinds :
        /\ cur \in {tree, NoTree} \cup {[tree EXCEPT ![Watch!In[x]] = "none"] : x \in Watch!Top}
        /\ Watch!Walk(cur, kinds) /\ Watch!Happen(kinds)
        /\ doing' = [acts |-> IF v2 THEN Watch!Scan(cur) ELSE <<Watch!Act("touch", Watch!Root, FALSE)>>, scan |-> TRUE, cur |-> cur]
  BY DEF Watch!Reconcile
<1>2. UNCHANGED <<gate, v2, tree, mine, queue>>
  BY DEF Watch!Reconcile
<1>3. watcherMishaps' = watcherMishaps \cup kinds
  BY <1>1 DEF Watch!Happen
<1>4. ASSUME Waiting' \/ ~gate, InStep
      PROVE  doing' \in Doings /\ \A i \in 1..Len(doing'.acts) : Done(tree, doing'.acts[i]) /\ (~gate => doing'.acts[i].op = "touch")
  <2>1. tree \in Trees
    BY <1>4 DEF InStep
  <2>2. cur \in Trees
    <3>1. NoTree \in Trees /\ \A p : [tree EXCEPT ![p] = "none"] \in Trees
      BY <2>1 DEF Trees
    <3> HIDE DEF NoTree
    <3> QED
      BY <1>1, <2>1, <3>1
  <2>3. CASE v2
    <3>1. gate /\ Waiting'
      BY <1>4, <2>3 DEF ReloadInv
    <3>2. "unread" \notin kinds
      BY <1>3, <3>1 DEF Waiting
    <3>3. cur = tree
      BY <1>1, <3>2 DEF Watch!Walk
    <3>4. Asks(doing'.acts) /\ doing' = [acts |-> doing'.acts, scan |-> TRUE, cur |-> cur]
      BY <1>1, <2>1, <2>3, <3>3, ScanAsks
    <3>5. \A acts \in Seq(Acts), c \in Trees : [acts |-> acts, scan |-> TRUE, cur |-> c] \in Doings
      BY DEF Doings
    <3>6. doing' \in Doings
      BY <2>2, <3>4, <3>5 DEF Asks
    <3> QED
      BY <3>1, <3>4, <3>6 DEF Asks
  <2>4. CASE ~v2
    <3> DEFINE a == Watch!Act("touch", Watch!Root, FALSE)
    <3>1. a.op = "touch" /\ Done(tree, a)
      BY DEF Watch!Act, Done
    <3>2. Asks(<<a>>)
      BY <3>1, ReloadNames, OneAsks
    <3> HIDE DEF a
    <3>3. doing' = [acts |-> <<a>>, scan |-> TRUE, cur |-> cur]
      BY <1>1, <2>4 DEF a
    <3>4. doing' \in Doings /\ doing'.acts = <<a>> /\ \A i \in 1..Len(<<a>>) : <<a>>[i] = a
      BY <2>2, <3>2, <3>3 DEF Doings, Asks
    <3> QED
      BY <3>1, <3>4
  <2> QED
    BY <2>3, <2>4
<1>5. ~gate => ~v2'
  BY <1>2 DEF ReloadInv
<1>6. queue \in Seq(Events) => /\ queue' \in Seq(Events)
                               /\ \A i \in 1..Len(queue') : \E n \in 1..Len(queue) : queue'[i] = queue[n]
  BY <1>2
<1> QED
  BY <1>2, <1>3, <1>4, <1>5, <1>6, DoingKeeps

\* The channel is as it was.
LEMMA RestKeeps ==
  ASSUME ReloadInv, UNCHANGED <<gate, tree, mine, queue>>, watcherMishaps \subseteq watcherMishaps', ~gate => ~v2',
         doing' \in {doing, Watch!Idle}
  PROVE  ReloadInv'
<1>1. InStep => doing' \in Doings
                /\ \A i \in 1..Len(doing'.acts) : Done(tree, doing'.acts[i]) /\ (~gate => doing'.acts[i].op = "touch")
  <2>1. CASE doing' = doing
    BY <2>1 DEF InStep
  <2>2. CASE doing' = Watch!Idle
    BY <2>2, IdleIs
  <2> QED
    BY <2>1, <2>2
<1>2. queue \in Seq(Events) => /\ queue' \in Seq(Events)
                               /\ \A i \in 1..Len(queue') : \E n \in 1..Len(queue) : queue'[i] = queue[n]
  OBVIOUS
<1> QED
  BY <1>1, <1>2, DoingKeeps

LEMMA ReloadStart == Watch!Init => ReloadInv
<1> SUFFICES ASSUME Watch!Init PROVE ReloadInv
  OBVIOUS
<1>1. tree = mine /\ queue = <<>> /\ doing = Watch!Idle
  BY DEF Watch!Init
<1>4. ~gate => ~v2
  BY Zenon DEF Watch!Init
<1>2. tree \in Trees
  BY DEF Watch!Init, Trees
<1>3. <<>> \in Seq(Events) /\ Len(<<>>) = 0
  OBVIOUS
<1> QED
  BY <1>1, <1>2, <1>3, <1>4, IdleIs DEF ReloadInv, InStep

LEMMA ReloadStep ==
  ASSUME Capacity \in Nat, Renames \subseteq {"both", "split", "any"}, ReloadInv, [Watch!Next]_Watch!vars
  PROVE  ReloadInv'
<1>1. CASE Watch!User
  BY <1>1, UserKeeps
<1>2. CASE Watch!Receive
  BY <1>2, ReceiveKeeps
<1>3. CASE Watch!Apply
  BY <1>3, ApplyKeeps
<1>4. CASE Watch!Reconcile
  BY <1>4, CompareKeeps
<1>5. CASE Watch!Reconciled
  <2>1. UNCHANGED <<gate, v2, tree, mine, queue, watcherMishaps>> /\ doing' = Watch!Idle
    BY <1>5 DEF Watch!Reconciled
  <2> QED
    BY <2>1, RestKeeps DEF ReloadInv
<1>6. CASE Watch!Cooling
  <2>1. UNCHANGED <<gate, v2, tree, mine, queue, doing>> /\ watcherMishaps \subseteq watcherMishaps'
    BY <1>6 DEF Watch!Cooling, Watch!Cooled, Watch!Happen
  <2> QED
    BY <2>1, RestKeeps DEF ReloadInv
<1>7. CASE Watch!AskAgain
  <2>1. gate /\ UNCHANGED <<gate, tree, mine, queue, doing>> /\ watcherMishaps \subseteq watcherMishaps'
    BY <1>7 DEF Watch!AskAgain, Watch!Happen
  <2> QED
    BY <2>1, RestKeeps
<1>8. CASE UNCHANGED Watch!vars
  <2>1. UNCHANGED <<gate, v2, tree, mine, queue, doing, watcherMishaps>>
    BY <1>8 DEF Watch!vars
  <2> QED
    BY <2>1, RestKeeps DEF ReloadInv
<1> QED
  BY <1>1, <1>2, <1>3, <1>4, <1>5, <1>6, <1>7, <1>8 DEF Watch!Next, Watch!Watcher

LEMMA WatchGiven == Capacity \in Nat /\ Renames \subseteq {"both", "split", "any"}
  BY CallsAssumption DEF Watch!ReloadAssumption

\* The invariant of hot reload: an event tells what is so, and a call asks for
\* what is done, as long as the user waits for the watcher.
THEOREM ReloadInvariant == Watch!Spec => []ReloadInv
<1>1. ReloadInv /\ [Watch!Next]_Watch!vars => ReloadInv'
  BY ReloadStep, WatchGiven
<1> QED
  BY <1>1, ReloadStart, PTL DEF Watch!Spec

\* For any number of edits, any channel and any mishaps: as long as the user
\* waits for the watcher and every directory can be listed, or the watcher only
\* touches, the tree is what the user has made of it.
THEOREM TreeStaysTheUsers == CallsBehaviour => []TreeIsTheUsers
<1>1. CallsInit => ReloadInv
  BY ReloadStart DEF CallsInit
<1>2. ReloadInv /\ [CallsNext]_all => ReloadInv'
  <2>1. [CallsNext]_all => [Watch!Next]_Watch!vars
    BY DEF CallsNext, all, watchVars, Watch!vars
  <2> QED
    BY <2>1, ReloadStep, WatchGiven
<1>3. ReloadInv => TreeIsTheUsers
  BY DEF ReloadInv, Waiting, InStep, TreeIsTheUsers, Watch!TreeIsTheUsers, Watch!Without
<1> QED
  BY <1>1, <1>2, <1>3, PTL DEF CallsBehaviour

-----------------------------------------------------------------------------
(* The editors' files (EditorFiles) *)

Users == {"main", "tool"}
Edited == {"entry", "settings"}
Steps == {"slug", "mark", "token", "list", "entry", "rule", "settings", "add"} \X Repos
Texts == [text : {"none", "empty", "object", "bad"}, own : BOOLEAN, ours : SUBSET Nat]
EditorJobs == [todo : Seq(Steps), tok : Nat, port : Ports \cup {0}, at : {"read", "truncate", "fill"},
               buf : Texts, failed : BOOLEAN]

EditorTypes ==
  /\ minted \in Nat /\ file \in 0..minted /\ live \in 0..minted
  /\ listed \in Seq(Repos)
  /\ slug \in [Repos -> ({"", "s"} \cup Repos) \X Nat]
  /\ disk \in [Repos -> [Editor!Kinds -> Texts]]
  /\ rule \in [Repos -> Ports \cup {0, Editor!NoRule}]
  /\ job \in [Editor!Tasks -> EditorJobs]
  /\ editorMishaps \subseteq Editor!MishapNames

\* What the launcher puts into a file of each kind: tokens and ports.
Fits(f, k) ==
  /\ f.ours \subseteq IF k = "mcp" THEN 0..minted ELSE Ports
  /\ f.text # "object" => f.ours = {}

FilesFit == \A p \in Repos, k \in Editor!Kinds : Fits(disk[p][k], k)

\* What is still to do, in the order in which it is done.
Ordered(t, s) ==
  /\ \A i \in 2..Len(s) :
       /\ s[i][1] \notin {"slug", "mark", "list"}
       /\ s[i][1] = "add" => s[i - 1][1] = "entry"
       /\ s[i][1] = "settings" => s[i - 1][1] = "rule"
       /\ s[i][1] = "entry" /\ t \in Users => s[i - 1][1] = "token"
  /\ \A i \in 1..Len(s) :
       /\ s[i][1] = "rule" => i < Len(s) /\ s[i + 1][1] = "settings"
       /\ s[i][1] = "add" => i = Len(s)
       /\ s[i][1] \in {"slug", "mark"} => \E n \in 1..Len(s) : s[n][1] = "add"
       /\ s[i][1] \in {"slug", "rule", "settings"} => t = "main"
       /\ s[i][1] = "mark" => t = "tool"
       /\ t \in Editor!Rotations => s[i][1] \in {"list", "entry"}
       /\ t \in Users => s[i][1] # "list" /\ s[i][2] = s[1][2]

\* The fields of a task that is at a file.
JobFits(t, j) ==
  /\ j.tok \in 0..minted
  /\ j.todo = <<>> => j.at = "read"
  /\ j.at # "read" =>
       /\ j.todo[1][1] \in Edited
       /\ j.todo[1][1] = "settings" => j.port # 0 /\ j.buf.ours \subseteq Ports
  /\ \A i \in 1..Len(j.todo) : Editor!Cloned(j.todo[i][2])
  /\ Ordered(t, j.todo)

\* A project without a tree has no files and no rule.
NotCloned(p) == rule[p] = Editor!NoRule /\ \A k \in Editor!Kinds : disk[p][k] = Editor!Absent

EditorShape ==
  /\ EditorTypes /\ FilesFit
  /\ \A t \in Editor!Tasks : JobFits(t, job[t])
  /\ \A p \in Repos : ~Editor!Cloned(p) => NotCloned(p)
  /\ Editor!Cloned(Old) /\ \A i \in 1..Len(listed) : Editor!Cloned(listed[i])

\* The project that a task is to put into the list.
Adding(t, p) == \E i \in 1..Len(job[t].todo) : job[t].todo[i] = <<"add", p>>
Unnamed(t) == job[t].todo # <<>> /\ job[t].todo[1][1] \in {"slug", "mark"}

\* A project in the list has a slug of its own.
SlugInv ==
  /\ \A i \in 1..Len(listed) : slug[listed[i]][1] = "s" \/ slug[listed[i]] = Editor!Slug(listed[i], 1)
  /\ \A i, n \in 1..Len(listed) : listed[i] # listed[n] => slug[listed[i]] # slug[listed[n]]
  /\ \A p \in Repos, t \in Users : Adding(t, p) => \A i \in 1..Len(listed) : listed[i] # p
  /\ \A p \in Repos : ~(Adding("main", p) /\ Adding("tool", p))
  /\ \A p \in Repos : Adding("main", p) /\ ~Unnamed("main") =>
       slug[p][1] = "s" /\ \A i \in 1..Len(listed) : slug[listed[i]] # slug[p]
  /\ \A p \in Repos : Adding("tool", p) /\ ~Unnamed("tool") => slug[p] = Editor!Slug(p, 1)

\* Whoever holds a token: a rotation, and a task that is at an entry.
Holds(t) == job[t].todo # <<>> /\ (t \in Editor!Rotations \/ job[t].todo[1][1] = "entry")
TokensInv ==
  /\ \A t \in Editor!Tasks : Holds(t) => job[t].tok # 0
  /\ \A p \in Repos : 0 \notin disk[p]["mcp"].ours

\* A rotation is on its way to the entry of p.
Sweeps(t, p) ==
  /\ job[t].todo # <<>>
  /\ job[t].todo[1][1] = "list" \/ \E i \in 1..Len(job[t].todo) : job[t].todo[i] = <<"entry", p>>
Fresh(p) == disk[p]["mcp"].ours \subseteq {file}
Current(p) == Fresh(p) \/ \E t \in Editor!Rotations : Sweeps(t, p)
Adds(t, p) == job[t].todo # <<>> /\ job[t].todo[1] = <<"add", p>>

\* An entry holds the token, or a rotation is to write it.
Benign == editorMishaps \subseteq {"race", "bad"}
EntriesInv ==
  Benign =>
    /\ live # 0 => live = file
    /\ \A t \in Editor!Tasks : Holds(t) => job[t].tok = file /\ file # 0
    /\ \A i \in 1..Len(listed) : Current(listed[i])
    /\ \A t \in Users, p \in Repos : Adds(t, p) => Fresh(p)

\* The settings have the port of the rule, or the task that wrote the rule is to
\* write them.
AtSettings(p) == job["main"].todo # <<>> /\ job["main"].todo[1] = <<"settings", p>>
PortTold(p) ==
  \/ rule[p] \notin Ports \/ disk[p]["settings"].text # "object" \/ rule[p] \in disk[p]["settings"].ours
  \/ AtSettings(p)
Unhindered == saves = 0 /\ editorMishaps \cap {"race", "fail", "crash", "torn"} = {}
FilesInv ==
  /\ saves \in Nat
  /\ Unhindered => \A p \in Repos : PortTold(p) /\ (AtSettings(p) => rule[p] = job["main"].port)

\* Whoever has read a file knows what the user has in it.
InHand(t, k, p) ==
  job[t].todo # <<>> /\ (\E op \in Edited : Editor!KindOf(op) = k /\ job[t].todo[1] = <<op, p>>) /\ job[t].at # "read"
Filling(t, k, p) == InHand(t, k, p) /\ job[t].at = "fill"
Calm == editorMishaps \cap {"race", "torn"} = {}
OwnOf(k, p) ==
  \A t \in Editor!Tasks : InHand(t, k, p) =>
    /\ disk[p][k].own => job[t].buf.own
    /\ job[t].buf.own => disk[p][k].own \/ \E u \in Editor!Tasks : Filling(u, k, p)
    /\ \A u \in Editor!Tasks : InHand(u, k, p) => job[u].buf.own = job[t].buf.own
OwnInv == Calm => \A p \in Repos, k \in Editor!Kinds : OwnOf(k, p)

EditorInv == EditorShape /\ SlugInv /\ TokensInv /\ EntriesInv /\ FilesInv /\ OwnInv

-----------------------------------------------------------------------------
(* What is to do *)

LEMMA EditorGiven == Editor!EditorAssumption
  BY CallsAssumption

\* NoRule is no port.
LEMMA NoRuleGiven ==
  /\ Editor!NoRule \in Nat \ {0} /\ Editor!NoRule \notin Ports
  /\ \A port \in Ports : port < Editor!NoRule
<1>1. PICK last \in Ports : \A port \in Ports : port <= last
  BY EditorGiven DEF Editor!EditorAssumption
<1> DEFINE top == Editor!Max(Ports)
<1>2. top \in Ports /\ \A port \in Ports : top >= port
  <2>1. \E x \in Ports : \A y \in Ports : x >= y
    BY <1>1, EditorGiven DEF Editor!EditorAssumption
  <2> QED
    BY <2>1 DEF Editor!Max
<1>3. Editor!NoRule = 1 + top
  BY DEF Editor!NoRule
<1> HIDE DEF top
<1>4. Ports \subseteq Nat \ {0}
  BY EditorGiven DEF Editor!EditorAssumption
<1>5. top \in Nat \ {0}
  BY <1>2, <1>4
<1>6. \A port \in Ports : port < 1 + top
  BY <1>2, <1>4, <1>5
<1>7. 1 + top \in Nat \ {0} /\ 1 + top \notin Ports
  BY <1>5, <1>6
<1> QED
  BY <1>3, <1>6, <1>7

\* What is left of a row without its head.
LEMMA TailIs ==
  ASSUME NEW S, NEW s \in Seq(S), s # <<>>
  PROVE  /\ Tail(s) \in Seq(S) /\ Head(s) = s[1] /\ s[1] \in S
         /\ Len(s) \in Nat \ {0} /\ Len(Tail(s)) = Len(s) - 1
         /\ \A i \in 1..Len(Tail(s)) : Tail(s)[i] = s[i + 1]
         /\ Tail(s) = <<>> <=> Len(s) = 1
<1>1. Tail(s) \in Seq(S) /\ Len(Tail(s)) = Len(s) - 1 /\ Len(s) \in Nat \ {0}
  OBVIOUS
<1>2. Head(s) = s[1] /\ s[1] \in S /\ \A i \in 1..Len(Tail(s)) : Tail(s)[i] = s[i + 1]
  OBVIOUS
<1>3. \A r \in Seq(S) : r = <<>> <=> Len(r) = 0
  OBVIOUS
<1>4. Tail(s) = <<>> <=> Len(Tail(s)) = 0
  BY <1>1, <1>3
<1> QED
  BY <1>1, <1>2, <1>4

LEMMA OrderedTail ==
  ASSUME NEW t \in Editor!Tasks, NEW s \in Seq(Steps), s # <<>>, Ordered(t, s)
  PROVE  Ordered(t, Tail(s))
<1> DEFINE r == Tail(s)
<1>1. /\ Len(s) \in Nat \ {0} /\ Len(r) = Len(s) - 1
      /\ \A i \in 1..Len(r) : r[i] = s[i + 1]
  BY TailIs
<1> HIDE DEF r
<1>2. \A i \in 2..Len(r) : i + 1 \in 2..Len(s) /\ r[i] = s[i + 1] /\ r[i - 1] = s[(i + 1) - 1]
  BY <1>1
<1>3. \A i \in 1..Len(r) : i + 1 \in 2..Len(s) /\ i + 1 \in 1..Len(s) /\ r[i] = s[i + 1]
  BY <1>1
<1>4. \A i \in 2..Len(r) :
       /\ r[i][1] \notin {"slug", "mark", "list"}
       /\ r[i][1] = "add" => r[i - 1][1] = "entry"
       /\ r[i][1] = "settings" => r[i - 1][1] = "rule"
       /\ r[i][1] = "entry" /\ t \in Users => r[i - 1][1] = "token"
  BY <1>2 DEF Ordered
<1>5. \A i \in 1..Len(r) :
       /\ r[i][1] \notin {"slug", "mark"}
       /\ r[i][1] = "rule" => i < Len(r) /\ r[i + 1][1] = "settings"
       /\ r[i][1] \in {"slug", "rule", "settings"} => t = "main"
       /\ r[i][1] = "mark" => t = "tool"
       /\ t \in Editor!Rotations => r[i][1] \in {"list", "entry"}
       /\ t \in Users => r[i][1] # "list"
  <2> TAKE i \in 1..Len(r)
  <2>1. r[i][1] = "rule" => i < Len(r) /\ r[i + 1][1] = "settings"
    <3> SUFFICES ASSUME r[i][1] = "rule" PROVE i < Len(r) /\ r[i + 1][1] = "settings"
      OBVIOUS
    <3>1. i + 1 < Len(s) /\ s[(i + 1) + 1][1] = "settings"
      BY <1>3 DEF Ordered
    <3>2. i + 1 \in 1..Len(r)
      BY <1>1, <3>1
    <3> QED
      BY <1>1, <3>1, <3>2
  <2> QED
    BY <1>3, <2>1 DEF Ordered
<1>6. t \in Users => \A i \in 1..Len(r) : r[i][2] = r[1][2]
  <2> SUFFICES ASSUME t \in Users, NEW i \in 1..Len(r) PROVE r[i][2] = r[1][2]
    OBVIOUS
  <2>1. 1 \in 1..Len(r)
    BY <1>1
  <2>2. s[i + 1][2] = s[1][2] /\ s[1 + 1][2] = s[1][2]
    BY <1>3, <2>1 DEF Ordered
  <2> QED
    BY <1>3, <2>1, <2>2
<1> QED
  BY <1>4, <1>5, <1>6 DEF Ordered, r

\* What commands and calls begin with.
LEMMA TwoTwo ==
  ASSUME NEW a \in Steps, NEW b \in Steps, NEW c \in Steps, NEW d \in Steps,
         NEW s, s = <<a, b>> \o <<c, d>>
  PROVE  s \in Seq(Steps) /\ Len(s) = 4 /\ s[1] = a /\ s[2] = b /\ s[3] = c /\ s[4] = d
  OBVIOUS

LEMMA UpToFour == 1..4 = {1, 2, 3, 4} /\ 2..4 = {2, 3, 4}
<1>1. \A i : i \in 1..4 <=> i \in {1, 2, 3, 4}
  OBVIOUS
<1>2. \A i : i \in 2..4 <=> i \in {2, 3, 4}
  OBVIOUS
<1> QED
  BY <1>1, <1>2

LEMMA OrderedInstall ==
  ASSUME NEW p \in Repos, NEW op \in {"slug", "mark"}, NEW s,
         s = <<<<op, p>>>> \o Editor!Install(p) \o <<<<"add", p>>>>
  PROVE  /\ s[1] = <<op, p>> /\ s[2] = <<"token", p>> /\ s[3] = <<"entry", p>> /\ s[4] = <<"add", p>>
         /\ s \in Seq(Steps) /\ Len(s) = 4
         /\ Ordered(IF op = "slug" THEN "main" ELSE "tool", s)
<1>1. <<op, p>> \in Steps /\ <<"token", p>> \in Steps /\ <<"entry", p>> \in Steps /\ <<"add", p>> \in Steps
  BY DEF Steps
<1>2. s = <<<<op, p>>>> \o <<<<"token", p>>, <<"entry", p>>>> \o <<<<"add", p>>>>
  BY DEF Editor!Install
<1>3. /\ s \in Seq(Steps) /\ Len(s) = 4
      /\ s[1] = <<op, p>> /\ s[2] = <<"token", p>> /\ s[3] = <<"entry", p>> /\ s[4] = <<"add", p>>
  <2> DEFINE x == <<<<op, p>>>>
             y == <<<<"token", p>>, <<"entry", p>>>>
             z == <<<<"add", p>>>>
             r == x \o y
  <2>1. x \in Seq(Steps) /\ Len(x) = 1 /\ x[1] = <<op, p>>
    BY <1>1
  <2>2. y \in Seq(Steps) /\ Len(y) = 2 /\ y[1] = <<"token", p>> /\ y[2] = <<"entry", p>>
    BY <1>1
  <2>3. z \in Seq(Steps) /\ Len(z) = 1 /\ z[1] = <<"add", p>>
    BY <1>1
  <2>4. s = r \o z
    BY <1>2
  <2> HIDE DEF x, y, z
  <2>5. /\ r \in Seq(Steps) /\ Len(r) = Len(x) + Len(y)
        /\ \A i \in 1..Len(x) + Len(y) : r[i] = IF i <= Len(x) THEN x[i] ELSE y[i - Len(x)]
    BY <2>1, <2>2, ConcatProperties, Zenon
  <2> HIDE DEF r
  <2>6. r \in Seq(Steps) /\ Len(r) = 3 /\ r[1] = x[1] /\ r[2] = y[1] /\ r[3] = y[2]
    BY <2>1, <2>2, <2>5
  <2>7. /\ s \in Seq(Steps) /\ Len(s) = Len(r) + Len(z)
        /\ \A i \in 1..Len(r) + Len(z) : s[i] = IF i <= Len(r) THEN r[i] ELSE z[i - Len(r)]
    <3>1. /\ r \o z \in Seq(Steps) /\ Len(r \o z) = Len(r) + Len(z)
          /\ \A i \in 1..Len(r) + Len(z) : (r \o z)[i] = IF i <= Len(r) THEN r[i] ELSE z[i - Len(r)]
      BY <2>3, <2>6, ConcatProperties, Zenon
    <3> QED
      BY <2>4, <3>1, Zenon
  <2>8. Len(s) = 4 /\ s[1] = r[1] /\ s[2] = r[2] /\ s[3] = r[3] /\ s[4] = z[1]
    <3>1. Len(r) = 3 /\ Len(z) = 1 /\ 3 + 1 = 4
      BY <2>3, <2>6
    <3>2. \A i \in 1..4 : s[i] = IF i <= 3 THEN r[i] ELSE z[i - 3]
      BY <2>7, <3>1, Zenon
    <3> QED
      BY <2>7, <3>1, <3>2
  <2> QED
    BY <2>1, <2>2, <2>3, <2>6, <2>7, <2>8
<1>4. 1..Len(s) = {1, 2, 3, 4} /\ 2..Len(s) = {2, 3, 4}
  BY <1>3, UpToFour
<1>5. Ordered(IF op = "slug" THEN "main" ELSE "tool", s)
  BY <1>3, <1>4 DEF Ordered, Users, Editor!Rotations
<1> QED
  BY <1>3, <1>5

LEMMA OrderedOpen ==
  ASSUME NEW p \in Repos, NEW s, s = Editor!Artifacts(p) \o Editor!Install(p)
  PROVE  /\ s[1] = <<"rule", p>> /\ s[2] = <<"settings", p>> /\ s[3] = <<"token", p>> /\ s[4] = <<"entry", p>>
         /\ s \in Seq(Steps) /\ Len(s) = 4 /\ Ordered("main", s)
<1>1. <<"rule", p>> \in Steps /\ <<"settings", p>> \in Steps /\ <<"token", p>> \in Steps /\ <<"entry", p>> \in Steps
  BY DEF Steps
<1>2. s = <<<<"rule", p>>, <<"settings", p>>>> \o <<<<"token", p>>, <<"entry", p>>>>
  BY DEF Editor!Install, Editor!Artifacts
<1>3. /\ s \in Seq(Steps) /\ Len(s) = 4
      /\ s[1] = <<"rule", p>> /\ s[2] = <<"settings", p>> /\ s[3] = <<"token", p>> /\ s[4] = <<"entry", p>>
  BY <1>1, <1>2, TwoTwo
<1>4. 1..Len(s) = {1, 2, 3, 4} /\ 2..Len(s) = {2, 3, 4}
  BY <1>3, UpToFour
<1>5. \A i \in {2, 3, 4} :
        /\ s[i][1] \notin {"slug", "mark", "list"}
        /\ s[i][1] = "add" => s[i - 1][1] = "entry"
        /\ s[i][1] = "settings" => s[i - 1][1] = "rule"
        /\ s[i][1] = "entry" => s[i - 1][1] = "token"
  BY <1>3
<1>6. \A i \in {1, 2, 3, 4} :
        /\ s[i][1] = "rule" => i < 4 /\ s[i + 1][1] = "settings"
        /\ s[i][1] \notin {"slug", "mark", "list"} /\ s[i][2] = s[1][2]
  <2>1. \A i \in {2, 3, 4} : s[i][1] \notin {"slug", "mark", "list", "rule"} /\ s[i][2] = p
    BY <1>3
  <2>2. s[1][2] = p /\ s[1][1] = "rule" /\ s[1 + 1][1] = "settings"
    BY <1>3
  <2> TAKE i \in {1, 2, 3, 4}
  <2>3. CASE i = 1
    <3>1. s[i] = s[1] /\ s[i + 1] = s[1 + 1] /\ i < 4
      BY <2>3
    <3> QED
      BY <2>2, <3>1
  <2>4. CASE i \in {2, 3, 4}
    <3>1. s[i][2] = s[1][2] /\ s[i][1] \notin {"slug", "mark", "list", "rule"}
      BY <2>1, <2>2, <2>4
    <3> QED
      BY <3>1
  <2> QED
    BY <2>3, <2>4
<1>7. Ordered("main", s)
  BY <1>3, <1>4, <1>5, <1>6 DEF Ordered, Users, Editor!Rotations
<1> QED
  BY <1>3, <1>7

-----------------------------------------------------------------------------
(* How a task moves *)

\* A task goes on to what is next.
Advances(t) ==
  /\ job[t].todo # <<>>
  /\ job'[t].todo = Tail(job[t].todo) /\ job'[t].at = "read" /\ job'[t].tok \in 0..minted'
  /\ Tail(job[t].todo) # <<>> => job'[t].port = job[t].port

\* It keeps the token it has.
Carries(t) == Tail(job[t].todo) # <<>> => job'[t].tok = job[t].tok

\* It goes on with the file it is at.
Proceeds(t) ==
  /\ job[t].todo # <<>> /\ job[t].todo[1][1] \in Edited /\ job'[t].at # "read"
  /\ job'[t].todo = job[t].todo /\ job'[t].tok = job[t].tok /\ job'[t].port = job[t].port
  /\ job[t].todo[1][1] = "settings" => job[t].port # 0 /\ job'[t].buf.ours \subseteq Ports

OthersRest(t) == \A u \in Editor!Tasks \ {t} : job'[u] = job[u]
Grows == minted \in Nat /\ minted' \in Nat /\ minted <= minted' /\ \A p \in Repos : Editor!Cloned(p) => Editor!Cloned(p)'

JobsInShape == job \in [Editor!Tasks -> EditorJobs] /\ \A t \in Editor!Tasks : JobFits(t, job[t])

LEMMA NoJobIs ==
  /\ Editor!NoJob \in EditorJobs /\ Editor!NoJob.todo = <<>> /\ Editor!NoJob.at = "read"
  /\ Editor!NoJob.tok = 0 /\ Editor!NoJob.port = 0 /\ Editor!NoJob.failed = FALSE
  /\ Editor!NoJob.buf = Editor!Absent
  /\ Editor!Absent \in Texts /\ Editor!Empty \in Texts
<1>1. Editor!Absent \in Texts
  BY DEF Editor!Absent, Texts
<1>2. Editor!Empty \in Texts
  BY DEF Editor!Empty, Editor!Absent, Texts
<1>3. <<>> \in Seq(Steps) /\ 0 \in Ports \cup {0}
  OBVIOUS
<1> QED
  BY <1>1, <1>2, <1>3 DEF Editor!NoJob, EditorJobs

LEMMA DoingIs ==
  ASSUME NEW t \in Editor!Tasks, job \in [Editor!Tasks -> EditorJobs], NEW op, NEW p
  PROVE  Editor!Doing(t, op, p) <=> job[t].todo # <<>> /\ job[t].todo[1] = <<op, p>>
<1>1. job[t].todo \in Seq(Steps)
  BY DEF EditorJobs
<1> QED
  BY <1>1, TailIs DEF Editor!Doing, Editor!Idle

LEMMA Next1Is ==
  ASSUME NEW j \in EditorJobs, j.todo # <<>>, NEW J, J = Editor!Next1(j)
  PROVE  /\ J \in EditorJobs /\ J.todo = Tail(j.todo) /\ J.at = "read" /\ J.failed = j.failed
         /\ J.tok \in {0, j.tok} /\ J.port \in {0, j.port}
         /\ Tail(j.todo) # <<>> => J.tok = j.tok /\ J.port = j.port
<1>1. /\ j.todo \in Seq(Steps) /\ Tail(j.todo) \in Seq(Steps) /\ Len(j.todo) \in Nat \ {0}
      /\ Tail(j.todo) = <<>> <=> Len(j.todo) = 1
  BY TailIs DEF EditorJobs
<1>2. CASE Len(j.todo) = 1
  <2>1. J = [Editor!NoJob EXCEPT !.failed = j.failed]
    BY <1>2 DEF Editor!Next1
  <2> QED
    BY <1>1, <1>2, <2>1, NoJobIs DEF EditorJobs
<1>3. CASE Len(j.todo) # 1
  <2>1. J = [j EXCEPT !.todo = Tail(@), !.at = "read", !.buf = Editor!Absent]
    BY <1>3 DEF Editor!Next1
  <2> QED
    BY <1>1, <1>3, <2>1, NoJobIs DEF EditorJobs
<1> QED
  BY <1>2, <1>3

LEMMA FailedIs ==
  ASSUME NEW j \in EditorJobs, j.todo # <<>>, NEW t, NEW J, J = Editor!Failed(t, j)
  PROVE  /\ J \in EditorJobs /\ J.todo = Tail(j.todo) /\ J.at = "read"
         /\ J.tok \in {0, j.tok} /\ J.port \in {0, j.port}
         /\ Tail(j.todo) # <<>> => J.tok = j.tok /\ J.port = j.port
<1>1. PICK N : N = Editor!Next1(j)
  OBVIOUS
<1>2. /\ N \in EditorJobs /\ N.todo = Tail(j.todo) /\ N.at = "read"
      /\ N.tok \in {0, j.tok} /\ N.port \in {0, j.port}
      /\ Tail(j.todo) # <<>> => N.tok = j.tok /\ N.port = j.port
  BY <1>1, Next1Is
<1>3. \/ J = [N EXCEPT !.failed = TRUE]
      \/ J = [N EXCEPT !.failed = FALSE]
  <2>1. CASE t \in Editor!Rotations
    BY <1>1, <2>1 DEF Editor!Failed
  <2>2. CASE t \notin Editor!Rotations
    <3>1. (t \in Editor!Rotations) = FALSE
      BY <2>2
    <3>2. J = [N EXCEPT !.failed = (t \in Editor!Rotations)]
      BY <1>1, Zenon DEF Editor!Failed
    <3> QED
      BY <3>1, <3>2, Zenon
  <2> QED
    BY <2>1, <2>2
<1> QED
  BY <1>2, <1>3 DEF EditorJobs

\* A task that goes on is in order.
LEMMA JobsMove ==
  ASSUME JobsInShape, Grows, NEW t \in Editor!Tasks, OthersRest(t),
         job' \in [Editor!Tasks -> EditorJobs], Advances(t) \/ Proceeds(t)
  PROVE  JobsInShape'
<1>1. \A u \in Editor!Tasks \ {t} : JobFits(u, job[u])'
  BY DEF JobsInShape, Grows, OthersRest, JobFits, EditorJobs, Steps
<1>2. /\ job[t] \in EditorJobs /\ JobFits(t, job[t]) /\ job[t].todo \in Seq(Steps) /\ job'[t] \in EditorJobs
      /\ job[t].todo # <<>>
  BY DEF JobsInShape, EditorJobs, Advances, Proceeds
<1>3. PICK s \in Seq(Steps) : s = job[t].todo
  BY <1>2
<1>4. s # <<>> /\ Ordered(t, s) /\ \A i \in 1..Len(s) : Editor!Cloned(s[i][2])' /\ s[i] \in Steps
  <2>1. \A i \in 1..Len(s) : s[i] \in Steps /\ Editor!Cloned(s[i][2])
    BY <1>2, <1>3, ElementOfSeq DEF JobFits
  <2>2. \A i \in 1..Len(s) : Editor!Cloned(s[i][2])'
    BY <2>1 DEF Grows, Steps
  <2> QED
    BY <1>2, <1>3, <2>1, <2>2 DEF JobFits
<1>5. CASE Advances(t)
  <2>1. PICK r \in Seq(Steps) : r = Tail(s)
    BY <1>4, TailIs
  <2>2. /\ Len(s) \in Nat \ {0} /\ Len(r) = Len(s) - 1
        /\ \A i \in 1..Len(r) : r[i] = s[i + 1]
    BY <1>4, <2>1, TailIs
  <2>3. Ordered(t, r)
    BY <1>4, <2>1, OrderedTail
  <2>4. \A i \in 1..Len(r) : i + 1 \in 1..Len(s) /\ r[i] = s[i + 1]
    BY <2>2
  <2>5. \A i \in 1..Len(r) : Editor!Cloned(r[i][2])'
    BY <1>4, <2>4
  <2>6. job'[t].todo = r /\ job'[t].at = "read" /\ job'[t].tok \in 0..minted'
    BY <1>3, <1>5, <2>1 DEF Advances
  <2>7. JobFits(t, job[t])'
    BY <2>3, <2>5, <2>6 DEF JobFits
  <2> QED
    BY <1>1, <2>7 DEF JobsInShape
<1>6. CASE Proceeds(t)
  <2>1. /\ job'[t].todo = s /\ job'[t].tok = job[t].tok /\ job'[t].port = job[t].port
        /\ s[1][1] \in Edited
        /\ s[1][1] = "settings" => job[t].port # 0 /\ job'[t].buf.ours \subseteq Ports
    BY <1>3, <1>6 DEF Proceeds
  <2>2. job[t].tok \in 0..minted'
    BY <1>2 DEF Grows, JobFits
  <2>3. JobFits(t, job[t])'
    BY <1>4, <2>1, <2>2 DEF JobFits
  <2> QED
    BY <1>1, <2>3 DEF JobsInShape
<1> QED
  BY <1>5, <1>6

\* So is one that begins,
LEMMA JobsBegin ==
  ASSUME JobsInShape, Grows, NEW t \in Editor!Tasks, OthersRest(t),
         job' \in [Editor!Tasks -> EditorJobs], NEW s \in Seq(Steps), job'[t].todo = s, job'[t].at = "read",
         job'[t].tok \in 0..minted', Ordered(t, s), \A i \in 1..Len(s) : Editor!Cloned(s[i][2])'
  PROVE  JobsInShape'
<1>1. \A u \in Editor!Tasks \ {t} : JobFits(u, job[u])'
  BY DEF JobsInShape, Grows, OthersRest, JobFits, EditorJobs, Steps
<1> QED
  BY <1>1 DEF JobsInShape, JobFits

\* and everyone while nobody moves.
LEMMA JobsRest ==
  ASSUME JobsInShape, Grows, UNCHANGED job
  PROVE  JobsInShape'
  BY DEF JobsInShape, Grows, JobFits, EditorJobs, Steps

-----------------------------------------------------------------------------
(* Its steps *)

\* Where a task goes with the record of Next1 or Failed.
LEMMA StepAdvances ==
  ASSUME EditorShape, NEW t \in Editor!Tasks, job[t].todo # <<>>, minted \in Nat, minted' \in Nat, minted <= minted',
         job' = [job EXCEPT ![t] = Editor!Next1(job[t])]
  PROVE  /\ job' \in [Editor!Tasks -> EditorJobs] /\ OthersRest(t) /\ Advances(t) /\ Carries(t)
<1>1. job \in [Editor!Tasks -> EditorJobs] /\ job[t] \in EditorJobs /\ job[t].tok \in 0..minted
  BY DEF EditorShape, EditorTypes, JobFits
<1> PICK J : J = Editor!Next1(job[t])
  OBVIOUS
<1>2. /\ J \in EditorJobs /\ J.todo = Tail(job[t].todo) /\ J.at = "read" /\ J.tok \in {0, job[t].tok}
      /\ Tail(job[t].todo) # <<>> => J.tok = job[t].tok /\ J.port = job[t].port
  BY <1>1, Next1Is
<1>3. job' \in [Editor!Tasks -> EditorJobs] /\ job'[t] = J /\ OthersRest(t)
  BY <1>1, <1>2 DEF OthersRest
<1> QED
  BY <1>1, <1>2, <1>3 DEF Advances, Carries

LEMMA FailureAdvances ==
  ASSUME EditorShape, NEW t \in Editor!Tasks, job[t].todo # <<>>, minted \in Nat, minted' \in Nat, minted <= minted',
         job' = [job EXCEPT ![t] = Editor!Failed(t, job[t])]
  PROVE  /\ job' \in [Editor!Tasks -> EditorJobs] /\ OthersRest(t) /\ Advances(t) /\ Carries(t)
<1>1. job \in [Editor!Tasks -> EditorJobs] /\ job[t] \in EditorJobs /\ job[t].tok \in 0..minted
  BY DEF EditorShape, EditorTypes, JobFits
<1> PICK J : J = Editor!Failed(t, job[t])
  OBVIOUS
<1>2. /\ J \in EditorJobs /\ J.todo = Tail(job[t].todo) /\ J.at = "read" /\ J.tok \in {0, job[t].tok}
      /\ Tail(job[t].todo) # <<>> => J.tok = job[t].tok /\ J.port = job[t].port
  BY <1>1, FailedIs
<1>3. job' \in [Editor!Tasks -> EditorJobs] /\ job'[t] = J /\ OthersRest(t)
  BY <1>1, <1>2 DEF OthersRest
<1> QED
  BY <1>1, <1>2, <1>3 DEF Advances, Carries

\* TakeToken: with the token in hand.
LEMMA TokenAdvances ==
  ASSUME EditorShape, NEW t \in Editor!Tasks, NEW p \in Repos, Editor!TakeToken(t, p)
  PROVE  /\ job' \in [Editor!Tasks -> EditorJobs] /\ OthersRest(t) /\ Advances(t)
         /\ job'[t].tok = Editor!Current /\ file' = Editor!Current /\ Editor!Current \in 1..minted'
         /\ minted' \in Nat /\ minted <= minted' /\ (file # 0 => file' = file)
         /\ job[t].todo # <<>> /\ job[t].todo[1] = <<"token", p>>
<1>1. /\ job \in [Editor!Tasks -> EditorJobs] /\ job[t] \in EditorJobs
      /\ minted \in Nat /\ file \in 0..minted
  BY DEF EditorShape, EditorTypes
<1>2. job[t].todo # <<>> /\ job[t].todo[1] = <<"token", p>>
  BY <1>1, DoingIs DEF Editor!TakeToken
<1>3. /\ file' = Editor!Current /\ Editor!Current \in 1..minted' /\ minted' \in Nat /\ minted <= minted'
      /\ (file # 0 => file' = file)
  BY <1>1 DEF Editor!TakeToken, Editor!ReadToken, Editor!Current
<1>4. PICK N : N = Editor!Next1(job[t])
  OBVIOUS
<1>5. N \in EditorJobs /\ N.todo = Tail(job[t].todo) /\ N.at = "read" /\ (Tail(job[t].todo) # <<>> => N.port = job[t].port)
  BY <1>1, <1>2, <1>4, Next1Is
<1>6. job' = [job EXCEPT ![t] = [N EXCEPT !.tok = Editor!Current]]
  BY <1>4 DEF Editor!TakeToken
<1>7. PICK tok \in Nat : tok = Editor!Current
  BY <1>3
<1>8. PICK J : J = [N EXCEPT !.tok = tok]
  OBVIOUS
<1>9. J \in EditorJobs /\ J.todo = N.todo /\ J.at = N.at /\ J.port = N.port /\ J.tok = tok
  BY <1>5, <1>8 DEF EditorJobs
<1>10. job' = [job EXCEPT ![t] = J]
  BY <1>6, <1>7, <1>8
<1>11. job' \in [Editor!Tasks -> EditorJobs] /\ job'[t] = J /\ OthersRest(t)
  BY <1>1, <1>9, <1>10 DEF OthersRest
<1> QED
  BY <1>2, <1>3, <1>5, <1>7, <1>9, <1>11 DEF Advances

\* Begin: a command or call has its steps before it.
LEMMA BeginIs ==
  ASSUME EditorShape, NEW t \in Editor!Tasks, NEW s \in Seq(Steps), NEW port \in Ports \cup {0}, NEW tok \in Nat,
         Editor!Begin(t, s, port, tok)
  PROVE  /\ job' \in [Editor!Tasks -> EditorJobs] /\ OthersRest(t) /\ job[t].todo = <<>>
         /\ job'[t].todo = s /\ job'[t].at = "read" /\ job'[t].tok = tok /\ job'[t].port = port
<1>1. job \in [Editor!Tasks -> EditorJobs] /\ job[t].todo = <<>>
  BY DEF EditorShape, EditorTypes, Editor!Begin, Editor!Idle
<1>2. PICK J : J = [Editor!NoJob EXCEPT !.todo = s, !.port = port, !.tok = tok]
  OBVIOUS
<1>3. J \in EditorJobs /\ J.todo = s /\ J.at = "read" /\ J.tok = tok /\ J.port = port
  BY <1>2, NoJobIs DEF EditorJobs
<1>4. job' = [job EXCEPT ![t] = J]
  BY <1>2 DEF Editor!Begin
<1> QED
  BY <1>1, <1>3, <1>4 DEF OthersRest

\* The merged text is that of a file of its kind.
LEMMA MergedIs ==
  ASSUME NEW k \in Editor!Kinds, NEW f \in Texts, NEW j \in EditorJobs, NEW M, M = Editor!Merged(k, f, j)
  PROVE  /\ M \in Texts /\ M.text = "object" /\ M.own = f.own
         /\ k = "mcp" => M.ours = {j.tok}
         /\ k # "mcp" => M.ours = f.ours \cup {j.port}
<1>1. f.own \in BOOLEAN /\ f.ours \subseteq Nat /\ j.tok \in Nat
  BY DEF Texts, EditorJobs
<1> PICK port \in Nat : port = j.port
  BY EditorGiven DEF EditorJobs, Editor!EditorAssumption
<1>2. M = [text |-> "object", own |-> f.own, ours |-> IF k = "mcp" THEN {j.tok} ELSE f.ours \cup {j.port}]
  BY DEF Editor!Merged, Editor!Whole, Editor!Labelled
<1>3. PICK ours \in SUBSET Nat : ours = IF k = "mcp" THEN {j.tok} ELSE f.ours \cup {j.port}
  <2>1. {j.tok} \in SUBSET Nat /\ f.ours \cup {j.port} \in SUBSET Nat
    <3>1. f.ours \cup {port} \subseteq Nat
      BY <1>1
    <3> QED
      BY <1>1, <3>1
  <2> QED
    BY <2>1
<1>4. M = [text |-> "object", own |-> f.own, ours |-> ours]
  BY <1>2, <1>3
<1> QED
  BY <1>1, <1>3, <1>4 DEF Texts

-----------------------------------------------------------------------------
(* The shape is kept *)

LEMMA HappenIs ==
  ASSUME editorMishaps \subseteq Editor!MishapNames, NEW kinds, Editor!Happen(kinds)
  PROVE  editorMishaps' = editorMishaps \cup kinds /\ editorMishaps' \subseteq Editor!MishapNames
  BY EditorGiven DEF Editor!Happen, Editor!EditorAssumption

\* A write changes one file.
LEMMA DiskPut ==
  ASSUME disk \in [Repos -> [Editor!Kinds -> Texts]], NEW p \in Repos, NEW k \in Editor!Kinds, NEW M \in Texts,
         disk' = [disk EXCEPT ![p][k] = M]
  PROVE  /\ disk' \in [Repos -> [Editor!Kinds -> Texts]] /\ disk'[p][k] = M
         /\ \A q \in Repos, l \in Editor!Kinds : q # p \/ l # k => disk'[q][l] = disk[q][l]
<1>1. PICK d \in [Editor!Kinds -> Texts] : d = [disk[p] EXCEPT ![k] = M]
  OBVIOUS
<1>2. disk' = [disk EXCEPT ![p] = d]
  BY <1>1
<1>3. d[k] = M /\ \A l \in Editor!Kinds : l # k => d[l] = disk[p][l]
  BY <1>1
<1> QED
  BY <1>2, <1>3

\* What fits goes on fitting.
LEMMA FitsOn ==
  ASSUME NEW f, NEW k, Fits(f, k), minted \in Nat, minted' \in Nat, minted <= minted'
  PROVE  f.ours \subseteq (IF k = "mcp" THEN 0..minted' ELSE Ports) /\ (f.text # "object" => f.ours = {})
<1>1. CASE k = "mcp"
  BY <1>1 DEF Fits
<1>2. CASE k # "mcp"
  BY <1>2 DEF Fits
<1> QED
  BY <1>1, <1>2

\* A step that keeps names, list, files and rules, and lets the jobs be as they
\* should.
LEMMA ShapeKept ==
  ASSUME EditorShape, minted' \in Nat, minted <= minted', file' \in 0..minted', live' \in 0..minted',
         UNCHANGED <<listed, slug, disk, rule>>, editorMishaps' \subseteq Editor!MishapNames, JobsInShape'
  PROVE  EditorShape'
<1>1. \A p \in Repos : Editor!Cloned(p)' = Editor!Cloned(p)
  BY DEF Editor!Cloned
<1>2. FilesFit'
  <2> SUFFICES ASSUME NEW p \in Repos, NEW k \in Editor!Kinds PROVE Fits(disk[p][k], k)'
    BY DEF FilesFit
  <2> QED
    BY FitsOn DEF EditorShape, FilesFit, Fits, EditorTypes
<1>3. \A p \in Repos : ~Editor!Cloned(p)' => NotCloned(p)'
  BY <1>1 DEF EditorShape, NotCloned
<1>4. (Editor!Cloned(Old) /\ \A i \in 1..Len(listed) : Editor!Cloned(listed[i]))'
  BY DEF EditorShape, Editor!Cloned
<1>5. EditorTypes'
  BY DEF EditorShape, EditorTypes, JobsInShape
<1>6. (\A t \in Editor!Tasks : JobFits(t, job[t]))'
  BY DEF JobsInShape
<1> QED
  BY <1>2, <1>3, <1>4, <1>5, <1>6 DEF EditorShape

\* One that changes files of projects with a tree.
LEMMA ShapeOfFiles ==
  ASSUME EditorShape, UNCHANGED <<minted, file, live, listed, slug>>, editorMishaps' \subseteq Editor!MishapNames,
         JobsInShape', disk' \in [Repos -> [Editor!Kinds -> Texts]], rule' \in [Repos -> Ports \cup {0, Editor!NoRule}],
         FilesFit', \A p \in Repos : ~Editor!Cloned(p) => rule'[p] = rule[p] /\ disk'[p] = disk[p]
  PROVE  EditorShape'
<1>1. \A p \in Repos : Editor!Cloned(p)' = Editor!Cloned(p)
  BY DEF Editor!Cloned
<1>3. \A p \in Repos : ~Editor!Cloned(p)' => NotCloned(p)'
  BY <1>1 DEF EditorShape, NotCloned
<1>4. (Editor!Cloned(Old) /\ \A i \in 1..Len(listed) : Editor!Cloned(listed[i]))'
  BY DEF EditorShape, Editor!Cloned
<1>5. EditorTypes'
  BY DEF EditorShape, EditorTypes, JobsInShape
<1>6. (\A t \in Editor!Tasks : JobFits(t, job[t]))'
  BY DEF JobsInShape
<1> QED
  BY <1>3, <1>4, <1>5, <1>6 DEF EditorShape

LEMMA ShapeJobs == EditorShape => JobsInShape /\ minted \in Nat
  BY DEF EditorShape, EditorTypes, JobsInShape

LEMMA SameGrows ==
  ASSUME EditorShape, minted' \in Nat, minted <= minted', UNCHANGED slug
  PROVE  Grows
  BY DEF Grows, EditorShape, EditorTypes, Editor!Cloned

LEMMA SpawnShape ==
  ASSUME EditorShape, Editor!Spawn PROVE EditorShape'
<1>1. /\ minted' \in Nat /\ minted <= minted' /\ file' \in 0..minted' /\ live' \in 0..minted'
      /\ UNCHANGED <<listed, slug, disk, rule, job, editorMishaps>>
  <2>1. minted \in Nat /\ file \in 0..minted /\ live \in 0..minted
    BY DEF EditorShape, EditorTypes
  <2>2. CASE file = 0
    BY <2>1, <2>2 DEF Editor!Spawn, Editor!ReadToken, Editor!Current
  <2>3. CASE file # 0
    BY <2>1, <2>3 DEF Editor!Spawn, Editor!ReadToken, Editor!Current
  <2> QED
    BY <2>2, <2>3
<1>2. JobsInShape'
  BY <1>1, SameGrows, ShapeJobs, JobsRest
<1> QED
  BY <1>1, <1>2, ShapeKept DEF EditorShape, EditorTypes

LEMMA LoseTokenShape ==
  ASSUME EditorShape, Editor!LoseToken PROVE EditorShape'
<1>1. /\ minted' = minted /\ minted \in Nat /\ file' \in 0..minted' /\ live' \in 0..minted'
      /\ UNCHANGED <<listed, slug, disk, rule, job>> /\ editorMishaps' \subseteq Editor!MishapNames
  <2>1. Editor!Happen({"gone"}) /\ editorMishaps \subseteq Editor!MishapNames
    BY DEF EditorShape, EditorTypes, Editor!LoseToken
  <2>2. editorMishaps' \subseteq Editor!MishapNames
    BY <2>1, HappenIs
  <2>3. /\ UNCHANGED <<listed, slug, disk, rule, job, minted, live>> /\ file' = 0
    BY DEF Editor!LoseToken
  <2>4. minted \in Nat /\ live \in 0..minted
    BY DEF EditorShape, EditorTypes
  <2> QED
    BY <2>2, <2>3, <2>4
<1>2. JobsInShape'
  BY <1>1, SameGrows, ShapeJobs, JobsRest
<1> QED
  BY <1>1, <1>2, ShapeKept

\* Quit leaves nobody anything to do.
LEMMA QuitIs ==
  ASSUME EditorShape, Editor!Quit
  PROVE  /\ job' \in [Editor!Tasks -> EditorJobs]
         /\ \A t \in Editor!Tasks : job'[t].todo = <<>> /\ job'[t].at = "read" /\ job'[t].tok = 0
         /\ UNCHANGED <<file, minted, listed, slug, disk, rule, commands, saves>>
         /\ live # 0 /\ live' = 0 /\ editorMishaps \subseteq editorMishaps' /\ editorMishaps' \subseteq Editor!MishapNames
         /\ ("torn" \notin editorMishaps' => \A p \in Repos, k \in Editor!Kinds : ~Editor!Torn(k, p))
         /\ (editorMishaps' \cap {"torn", "crash"} = {} => \A t \in Editor!Tasks : job[t].todo = <<>>)
<1>1. \A t \in Editor!Tasks : \E fail \in BOOLEAN : job'[t] = [Editor!NoJob EXCEPT !.failed = fail]
  <2> TAKE t \in Editor!Tasks
  <2>1. job[t].failed \in BOOLEAN
    BY DEF EditorShape, EditorTypes, EditorJobs
  <2>2. job'[t] = [Editor!NoJob EXCEPT !.failed = job[t].failed /\ t \in Editor!Rotations]
    BY DEF Editor!Quit
  <2>3. CASE t \in Editor!Rotations
    <3>1. (job[t].failed /\ t \in Editor!Rotations) = job[t].failed
      BY <2>1, <2>3
    <3> QED
      BY <2>1, <2>2, <3>1, Zenon
  <2>4. CASE t \notin Editor!Rotations
    <3>1. (job[t].failed /\ t \in Editor!Rotations) = FALSE
      BY <2>4
    <3> QED
      BY <2>2, <3>1, Zenon
  <2> QED
    BY <2>3, <2>4
<1>2. \A t \in Editor!Tasks : job'[t] \in EditorJobs /\ job'[t].todo = <<>> /\ job'[t].at = "read" /\ job'[t].tok = 0
  <2> TAKE t \in Editor!Tasks
  <2> PICK bad \in BOOLEAN : job'[t] = [Editor!NoJob EXCEPT !.failed = bad]
    BY <1>1
  <2> QED
    BY NoJobIs DEF EditorJobs
<1>3. job' \in [Editor!Tasks -> EditorJobs]
  <2>1. job' = [t \in Editor!Tasks |-> job'[t]]
    BY DEF Editor!Quit
  <2> QED
    BY <1>2, <2>1
<1>4. PICK kinds : kinds = IF \E p \in Repos, k \in Editor!Kinds : Editor!Torn(k, p) THEN {"torn"}
                           ELSE IF ~Editor!Quiet THEN {"crash"} ELSE {}
  OBVIOUS
<1>5. editorMishaps' = editorMishaps \cup kinds /\ editorMishaps' \subseteq Editor!MishapNames
  BY <1>4, HappenIs DEF Editor!Quit, EditorShape, EditorTypes
<1>6. "torn" \notin editorMishaps' => \A p \in Repos, k \in Editor!Kinds : ~Editor!Torn(k, p)
  BY <1>4, <1>5
<1>7. editorMishaps' \cap {"torn", "crash"} = {} => Editor!Quiet
  BY <1>4, <1>5
<1> QED
  BY <1>2, <1>3, <1>5, <1>6, <1>7 DEF Editor!Quit, Editor!Quiet, Editor!Idle

\* Nobody has anything to do, and so everything is in order.
LEMMA NothingToDo == \A t : Ordered(t, <<>>)
  BY DEF Ordered

LEMMA QuitShape ==
  ASSUME EditorShape, Editor!Quit PROVE EditorShape'
<1>1. JobsInShape'
  <2> SUFFICES ASSUME NEW t \in Editor!Tasks PROVE JobFits(t, job[t])'
    BY QuitIs DEF JobsInShape
  <2>1. job'[t].todo = <<>> /\ job'[t].at = "read" /\ job'[t].tok = 0 /\ minted' = minted /\ minted \in Nat
    BY QuitIs DEF EditorShape, EditorTypes
  <2>2. Len(job'[t].todo) = 0
    BY <2>1
  <2> QED
    BY <2>1, <2>2, NothingToDo DEF JobFits
<1>2. /\ UNCHANGED <<file, minted, listed, slug, disk, rule>> /\ live' = 0
      /\ editorMishaps' \subseteq Editor!MishapNames /\ minted \in Nat /\ file \in 0..minted
  BY QuitIs DEF EditorShape, EditorTypes
<1> QED
  BY <1>1, <1>2, ShapeKept

-----------------------------------------------------------------------------
(* What the steps of a task do *)

AtStep(t, op, p) == job[t].todo # <<>> /\ job[t].todo[1] = <<op, p>>
TaskMoved(t) == job' \in [Editor!Tasks -> EditorJobs] /\ OthersRest(t)

LEMMA AtStepIs ==
  ASSUME EditorShape, NEW t \in Editor!Tasks, NEW op, NEW p
  PROVE  Editor!Doing(t, op, p) <=> AtStep(t, op, p)
  BY DoingIs DEF EditorShape, EditorTypes, AtStep

\* Whoever is at a step of a project has it in its row.
LEMMA AtStepRow ==
  ASSUME EditorShape, NEW t \in Editor!Tasks, NEW op, NEW p, AtStep(t, op, p)
  PROVE  /\ job[t] \in EditorJobs /\ job[t].todo \in Seq(Steps) /\ 1 \in 1..Len(job[t].todo)
         /\ <<op, p>> \in Steps /\ p \in Repos /\ Editor!Cloned(p)
         /\ Ordered(t, job[t].todo) /\ job[t].tok \in 0..minted /\ minted \in Nat
<1>1. /\ job[t] \in EditorJobs /\ job[t].todo \in Seq(Steps) /\ JobFits(t, job[t]) /\ minted \in Nat
  BY DEF EditorShape, EditorTypes, EditorJobs
<1>2. PICK s \in Seq(Steps) : s = job[t].todo
  BY <1>1
<1>3. s # <<>> /\ s[1] = <<op, p>>
  BY <1>2 DEF AtStep
<1>4. Len(s) \in Nat \ {0} /\ s[1] \in Steps
  BY <1>3, TailIs
<1>5. 1 \in 1..Len(s) /\ <<op, p>> \in Steps
  BY <1>3, <1>4
<1>6. p \in Repos
  BY <1>5 DEF Steps
<1>7. Editor!Cloned(s[1][2]) /\ s[1][2] = p
  BY <1>1, <1>2, <1>3, <1>5 DEF JobFits
<1> QED
  BY <1>1, <1>2, <1>5, <1>6, <1>7 DEF JobFits

LEMMA NameIs ==
  ASSUME EditorShape, NEW t \in Editor!Tasks, NEW p \in Repos, Editor!Name(t, p)
  PROVE  /\ TaskMoved(t) /\ Advances(t) /\ Carries(t)
         /\ \/ AtStep(t, "slug", p) /\ slug' = [slug EXCEPT ![p] = Editor!Derive]
            \/ AtStep(t, "mark", p) /\ slug' = [slug EXCEPT ![p] = Editor!Slug(p, 1)]
<1>1. \/ AtStep(t, "slug", p) /\ slug' = [slug EXCEPT ![p] = Editor!Derive]
      \/ AtStep(t, "mark", p) /\ slug' = [slug EXCEPT ![p] = Editor!Slug(p, 1)]
  BY AtStepIs DEF Editor!Name
<1>2. job[t].todo # <<>> /\ minted \in Nat /\ minted' \in Nat /\ minted <= minted' /\ job' = [job EXCEPT ![t] = Editor!Next1(job[t])]
  <2>1. minted' = minted /\ UNCHANGED minted
    BY DEF Editor!Name, Editor!Step
  <2>2. minted \in Nat /\ EditorTypes /\ FilesFit /\ JobFits(t, job[t])
    BY DEF EditorShape, EditorTypes
  <2>3. minted \in Nat /\ minted' \in Nat /\ minted <= minted'
    BY <2>1, <2>2
  <2> QED
    BY <1>1, <2>2, <2>3 DEF Editor!Name, Editor!Step, AtStep, EditorTypes
<1>3. TaskMoved(t) /\ Advances(t) /\ Carries(t)
  BY <1>2, StepAdvances, Zenon DEF TaskMoved
<1> QED
  BY <1>1, <1>3

LEMMA AddIs ==
  ASSUME EditorShape, NEW t \in Editor!Tasks, NEW p \in Repos, Editor!Add(t, p)
  PROVE  TaskMoved(t) /\ Advances(t) /\ Carries(t) /\ AtStep(t, "add", p) /\ listed' = Append(listed, p)
<1>1. AtStep(t, "add", p)
  BY AtStepIs DEF Editor!Add
<1>2. job[t].todo # <<>> /\ minted \in Nat /\ minted' \in Nat /\ minted <= minted' /\ job' = [job EXCEPT ![t] = Editor!Next1(job[t])]
  <2>1. minted' = minted /\ UNCHANGED minted
    BY DEF Editor!Add, Editor!Step
  <2>2. minted \in Nat /\ EditorTypes /\ FilesFit /\ JobFits(t, job[t])
    BY DEF EditorShape, EditorTypes
  <2>3. minted \in Nat /\ minted' \in Nat /\ minted <= minted'
    BY <2>1, <2>2
  <2> QED
    BY <1>1, <2>2, <2>3 DEF Editor!Add, Editor!Step, AtStep, EditorTypes
<1>3. TaskMoved(t) /\ Advances(t) /\ Carries(t)
  BY <1>2, StepAdvances, Zenon DEF TaskMoved
<1> QED
  BY <1>1, <1>3 DEF Editor!Add

\* When the rule cannot be written the settings are left.
Skips(t) ==
  /\ job[t].todo # <<>> /\ Tail(job[t].todo) # <<>>
  /\ job'[t].todo = Tail(Tail(job[t].todo)) /\ job'[t].at = "read" /\ job'[t].tok \in 0..minted'
  /\ Tail(Tail(job[t].todo)) # <<>> => job'[t].tok = job[t].tok /\ job'[t].port = job[t].port

\* After the rule come the settings.
LEMMA RuleThenSettings ==
  ASSUME EditorShape, NEW t \in Editor!Tasks, NEW p \in Repos, AtStep(t, "rule", p)
  PROVE  /\ t = "main" /\ Tail(job[t].todo) # <<>> /\ Tail(job[t].todo) \in Seq(Steps)
         /\ Tail(job[t].todo)[1][1] = "settings"
<1>1. PICK s \in Seq(Steps) : s = job[t].todo
  BY AtStepRow
<1>2. s # <<>> /\ s[1] = <<"rule", p>> /\ Ordered(t, s) /\ 1 \in 1..Len(s)
  <2>1. Ordered(t, job[t].todo) /\ 1 \in 1..Len(job[t].todo)
    BY AtStepRow
  <2> QED
    BY <1>1, <2>1 DEF AtStep
<1>3. s[1][1] = "rule"
  BY <1>2
<1>4. t = "main" /\ 1 < Len(s) /\ s[1 + 1][1] = "settings"
  BY <1>2, <1>3 DEF Ordered
<1>5. PICK r \in Seq(Steps) : r = Tail(s)
  BY <1>2, TailIs
<1>6. Len(r) = Len(s) - 1 /\ \A i \in 1..Len(r) : r[i] = s[i + 1]
  BY <1>2, <1>5, TailIs
<1>7. 1 \in 1..Len(r) /\ r # <<>>
  BY <1>4, <1>6
<1> QED
  BY <1>1, <1>4, <1>5, <1>6, <1>7

LEMMA WriteRuleIs ==
  ASSUME EditorShape, NEW t \in Editor!Tasks, NEW p \in Repos, Editor!WriteRule(t, p)
  PROVE  /\ TaskMoved(t) /\ AtStep(t, "rule", p) /\ t = "main"
         /\ \/ /\ Advances(t) /\ Carries(t) /\ rule' = [rule EXCEPT ![p] = job[t].port] /\ UNCHANGED editorMishaps
            \/ Skips(t) /\ UNCHANGED rule /\ "fail" \in editorMishaps' /\ editorMishaps' = editorMishaps \cup {"fail"}
         /\ editorMishaps' \subseteq Editor!MishapNames
<1>1. AtStep(t, "rule", p)
  BY AtStepIs DEF Editor!WriteRule
<1>2. /\ job[t].todo # <<>> /\ minted \in Nat /\ minted' \in Nat /\ minted <= minted' /\ editorMishaps \subseteq Editor!MishapNames
      /\ job \in [Editor!Tasks -> EditorJobs] /\ job[t] \in EditorJobs /\ job[t].tok \in 0..minted
  <2>1. minted' = minted /\ UNCHANGED minted
    BY DEF Editor!WriteRule
  <2>2. minted \in Nat /\ EditorTypes /\ FilesFit /\ JobFits(t, job[t])
    BY DEF EditorShape, EditorTypes
  <2>3. minted \in Nat /\ minted' \in Nat /\ minted <= minted'
    BY <2>1, <2>2
  <2> QED
    BY <1>1, <2>2, <2>3 DEF Editor!WriteRule, AtStep, EditorTypes, JobFits
<1>3. CASE rule' = [rule EXCEPT ![p] = Editor!RuleOf(job[t])] /\ Editor!Step(t) /\ UNCHANGED editorMishaps
  <2>1. job' = [job EXCEPT ![t] = Editor!Next1(job[t])]
    BY <1>3 DEF Editor!Step
  <2>2. TaskMoved(t) /\ Advances(t) /\ Carries(t)
    BY <1>2, <2>1, StepAdvances, Zenon DEF TaskMoved
  <2> QED
    BY <1>1, <1>2, <1>3, <2>2, RuleThenSettings DEF Editor!RuleOf
<1>4. CASE Editor!Happen({"fail"}) /\ job' = [job EXCEPT ![t] = Editor!Next1(Editor!Next1(@))] /\ UNCHANGED rule
  <2>1. PICK N : N = Editor!Next1(job[t])
    OBVIOUS
  <2>2. /\ N \in EditorJobs /\ N.todo = Tail(job[t].todo) /\ N.todo # <<>> /\ N.tok \in {0, job[t].tok}
        /\ N.tok = job[t].tok /\ N.port = job[t].port
    <3>1. /\ N \in EditorJobs /\ N.todo = Tail(job[t].todo)
          /\ Tail(job[t].todo) # <<>> => N.tok = job[t].tok /\ N.port = job[t].port
      BY <1>2, <2>1, Next1Is
    <3> QED
      BY <1>1, <3>1, RuleThenSettings
  <2>3. PICK J : J = Editor!Next1(N)
    OBVIOUS
  <2>4. /\ J \in EditorJobs /\ J.todo = Tail(N.todo) /\ J.at = "read" /\ J.tok \in {0, N.tok}
        /\ Tail(N.todo) # <<>> => J.tok = N.tok /\ J.port = N.port
    BY <2>2, <2>3, Next1Is
  <2>5. job' = [job EXCEPT ![t] = J]
    BY <1>4, <2>1, <2>3
  <2>6. TaskMoved(t) /\ job'[t] = J
    BY <1>2, <2>4, <2>5 DEF TaskMoved, OthersRest
  <2>7. Skips(t)
    BY <1>2, <2>2, <2>4, <2>6 DEF Skips
  <2>8. editorMishaps' = editorMishaps \cup {"fail"} /\ editorMishaps' \subseteq Editor!MishapNames
    BY <1>2, <1>4, HappenIs
  <2> QED
    BY <1>1, <1>4, <2>6, <2>7, <2>8, RuleThenSettings
<1> QED
  BY <1>3, <1>4 DEF Editor!WriteRule

LEMMA ReadFileIs ==
  ASSUME EditorShape, NEW t \in Editor!Tasks, NEW p \in Repos, NEW op \in Edited, Editor!ReadFile(t, p, op),
         NEW k \in Editor!Kinds, k = Editor!KindOf(op)
  PROVE  /\ TaskMoved(t) /\ AtStep(t, op, p) /\ job[t].at = "read"
         /\ editorMishaps \subseteq editorMishaps' /\ editorMishaps' \subseteq editorMishaps \cup {"race"}
         /\ editorMishaps' \subseteq Editor!MishapNames
         /\ Editor!Torn(k, p) => "race" \in editorMishaps'
         /\ \/ /\ Advances(t) /\ Carries(t)
               /\ \/ op = "settings" /\ (job[t].port = 0 \/ Editor!Merged(k, disk[p][k], job[t]) = disk[p][k])
                  \/ ~Editor!Readable(k, disk[p][k])
            \/ /\ Proceeds(t) /\ job'[t].at = "truncate" /\ job'[t].buf = disk[p][k]
               /\ Editor!Readable(k, disk[p][k])
<1> DEFINE f == disk[p][k]
<1>1. AtStep(t, op, p) /\ job[t].at = "read"
  BY AtStepIs DEF Editor!ReadFile
<1>2. /\ job[t].todo # <<>> /\ minted \in Nat /\ minted' \in Nat /\ minted <= minted' /\ editorMishaps \subseteq Editor!MishapNames
      /\ job \in [Editor!Tasks -> EditorJobs] /\ job[t] \in EditorJobs /\ f \in Texts /\ Fits(f, k)
      /\ job[t].todo[1] = <<op, p>>
  <2>1. minted' = minted /\ UNCHANGED minted
    BY DEF Editor!ReadFile
  <2>2. minted \in Nat /\ EditorTypes /\ FilesFit /\ JobFits(t, job[t])
    BY DEF EditorShape, EditorTypes
  <2>3. minted \in Nat /\ minted' \in Nat /\ minted <= minted'
    BY <2>1, <2>2
  <2> QED
    BY <1>1, <2>2, <2>3 DEF Editor!ReadFile, AtStep, EditorTypes, FilesFit
<1>3. /\ editorMishaps' = editorMishaps \cup (IF Editor!Torn(k, p) THEN {"race"} ELSE {})
      /\ editorMishaps' \subseteq Editor!MishapNames
  <2>1. Editor!Happen(IF Editor!Torn(k, p) THEN {"race"} ELSE {})
    BY DEF Editor!ReadFile
  <2> QED
    BY <1>2, <2>1, HappenIs
<1>4. job' = [job EXCEPT ![t] =
         IF op = "settings" /\ (@.port = 0 \/ Editor!Merged(k, f, @) = f) THEN Editor!Next1(@)
         ELSE IF Editor!Readable(k, f) THEN [@ EXCEPT !.at = "truncate", !.buf = f]
         ELSE Editor!Failed(t, @)]
  BY DEF Editor!ReadFile
<1> HIDE DEF f
<1>5. CASE op = "settings" /\ (job[t].port = 0 \/ Editor!Merged(k, f, job[t]) = f)
  <2>1. job' = [job EXCEPT ![t] = Editor!Next1(job[t])]
    BY <1>4, <1>5
  <2>2. TaskMoved(t) /\ Advances(t) /\ Carries(t)
    BY <1>2, <2>1, StepAdvances, Zenon DEF TaskMoved
  <2> QED
    BY <1>1, <1>3, <1>5, <2>2 DEF f
<1>6. CASE ~(op = "settings" /\ (job[t].port = 0 \/ Editor!Merged(k, f, job[t]) = f)) /\ ~Editor!Readable(k, f)
  <2>1. job' = [job EXCEPT ![t] = Editor!Failed(t, job[t])]
    BY <1>4, <1>6
  <2>2. TaskMoved(t) /\ Advances(t) /\ Carries(t)
    BY <1>2, <2>1, FailureAdvances, Zenon DEF TaskMoved
  <2> QED
    BY <1>1, <1>3, <1>6, <2>2 DEF f
<1>7. CASE ~(op = "settings" /\ (job[t].port = 0 \/ Editor!Merged(k, f, job[t]) = f)) /\ Editor!Readable(k, f)
  <2>1. PICK J : J = [job[t] EXCEPT !.at = "truncate", !.buf = f]
    OBVIOUS
  <2>2. /\ J \in EditorJobs /\ J.todo = job[t].todo /\ J.at = "truncate" /\ J.buf = f
        /\ J.tok = job[t].tok /\ J.port = job[t].port
    BY <1>2, <2>1 DEF EditorJobs
  <2>3. job' = [job EXCEPT ![t] = J]
    BY <1>4, <1>7, <2>1
  <2>4. TaskMoved(t) /\ job'[t] = J
    BY <1>2, <2>2, <2>3 DEF TaskMoved, OthersRest
  <2>5. op = "settings" => job[t].port # 0 /\ f.ours \subseteq Ports
    BY <1>2, <1>7 DEF Fits, Editor!KindOf
  <2>6. job[t].todo[1][1] = op
    BY <1>2
  <2>7. Proceeds(t)
    BY <1>2, <2>2, <2>4, <2>5, <2>6 DEF Proceeds
  <2> QED
    BY <1>1, <1>3, <1>7, <2>2, <2>4, <2>7 DEF f
<1> QED
  BY <1>5, <1>6, <1>7

LEMMA TruncateIs ==
  ASSUME EditorShape, NEW t \in Editor!Tasks, NEW p \in Repos, NEW op \in Edited, Editor!Truncate(t, p, op),
         NEW k \in Editor!Kinds, k = Editor!KindOf(op)
  PROVE  /\ TaskMoved(t) /\ AtStep(t, op, p) /\ job[t].at = "truncate"
         /\ \/ /\ Proceeds(t) /\ job'[t].at = "fill" /\ job'[t].buf = job[t].buf
               /\ disk' = [disk EXCEPT ![p][k] = Editor!Empty] /\ UNCHANGED editorMishaps
            \/ Advances(t) /\ Carries(t) /\ UNCHANGED disk /\ editorMishaps' = editorMishaps \cup {"fail"}
         /\ editorMishaps' \subseteq Editor!MishapNames
<1>1. AtStep(t, op, p) /\ job[t].at = "truncate"
  BY AtStepIs DEF Editor!Truncate
<1>2. /\ job[t].todo # <<>> /\ minted \in Nat /\ minted' \in Nat /\ minted <= minted'
      /\ editorMishaps \subseteq Editor!MishapNames
      /\ job \in [Editor!Tasks -> EditorJobs] /\ job[t] \in EditorJobs /\ JobFits(t, job[t])
      /\ job[t].todo[1] = <<op, p>>
  <2>1. minted' = minted
    BY DEF Editor!Truncate
  <2>2. minted \in Nat /\ EditorTypes /\ JobFits(t, job[t])
    BY DEF EditorShape, EditorTypes
  <2>3. minted \in Nat /\ minted' \in Nat /\ minted <= minted'
    BY <2>1, <2>2
  <2> QED
    BY <1>1, <2>2, <2>3 DEF AtStep, EditorTypes
<1>3. CASE disk' = [disk EXCEPT ![p][k] = Editor!Empty] /\ job' = [job EXCEPT ![t].at = "fill"] /\ UNCHANGED editorMishaps
  <2>1. PICK J : J = [job[t] EXCEPT !.at = "fill"]
    OBVIOUS
  <2>2. /\ J \in EditorJobs /\ J.todo = job[t].todo /\ J.at = "fill" /\ J.buf = job[t].buf
        /\ J.tok = job[t].tok /\ J.port = job[t].port
    BY <1>2, <2>1 DEF EditorJobs
  <2>3. job' = [job EXCEPT ![t] = J]
    BY <1>3, <2>1
  <2>4. TaskMoved(t) /\ job'[t] = J
    BY <1>2, <2>2, <2>3 DEF TaskMoved, OthersRest
  <2>5. job[t].todo[1][1] = op
    BY <1>2
  <2>6. op = "settings" => job[t].port # 0 /\ job[t].buf.ours \subseteq Ports
    BY <1>1, <1>2, <2>5 DEF JobFits
  <2>7. Proceeds(t)
    BY <1>2, <2>2, <2>4, <2>5, <2>6 DEF Proceeds
  <2> QED
    BY <1>1, <1>2, <1>3, <2>2, <2>4, <2>7
<1>4. CASE Editor!Happen({"fail"}) /\ job' = [job EXCEPT ![t] = Editor!Failed(t, @)] /\ UNCHANGED disk
  <2>1. job' = [job EXCEPT ![t] = Editor!Failed(t, job[t])]
    BY <1>4
  <2>2. TaskMoved(t) /\ Advances(t) /\ Carries(t)
    BY <1>2, <2>1, FailureAdvances, Zenon DEF TaskMoved
  <2>3. editorMishaps' = editorMishaps \cup {"fail"} /\ editorMishaps' \subseteq Editor!MishapNames
    BY <1>2, <1>4, HappenIs
  <2> QED
    BY <1>1, <1>4, <2>2, <2>3
<1> QED
  BY <1>3, <1>4 DEF Editor!Truncate

LEMMA FillIs ==
  ASSUME EditorShape, NEW t \in Editor!Tasks, NEW p \in Repos, NEW op \in Edited, Editor!Fill(t, p, op),
         NEW k \in Editor!Kinds, k = Editor!KindOf(op)
  PROVE  /\ TaskMoved(t) /\ AtStep(t, op, p) /\ job[t].at = "fill" /\ Advances(t) /\ Carries(t)
         /\ \E M \in Texts :
              /\ disk' = [disk EXCEPT ![p][k] = M] /\ M.text = "object" /\ M.own = job[t].buf.own
              /\ k = "mcp" => M.ours = {job[t].tok}
              /\ k # "mcp" => M.ours = job[t].buf.ours \cup {job[t].port}
         /\ k # "mcp" => job[t].port \in Ports /\ job[t].buf.ours \subseteq Ports
<1>1. AtStep(t, op, p) /\ job[t].at = "fill"
  BY AtStepIs DEF Editor!Fill
<1>2. /\ job[t].todo # <<>> /\ minted \in Nat /\ minted' \in Nat /\ minted <= minted'
      /\ job \in [Editor!Tasks -> EditorJobs] /\ job[t] \in EditorJobs /\ JobFits(t, job[t])
      /\ job[t].todo[1] = <<op, p>>
  <2>1. minted' = minted
    BY DEF Editor!Fill
  <2>2. minted \in Nat /\ EditorTypes /\ JobFits(t, job[t])
    BY DEF EditorShape, EditorTypes
  <2>3. minted \in Nat /\ minted' \in Nat /\ minted <= minted'
    BY <2>1, <2>2
  <2> QED
    BY <1>1, <2>2, <2>3 DEF AtStep, EditorTypes
<1>3. job' = [job EXCEPT ![t] = Editor!Next1(job[t])]
  BY DEF Editor!Fill, Editor!Step
<1>4. TaskMoved(t) /\ Advances(t) /\ Carries(t)
  BY <1>2, <1>3, StepAdvances, Zenon DEF TaskMoved
<1>5. job[t].buf \in Texts
  BY <1>2 DEF EditorJobs
<1>6. PICK M : M = Editor!Merged(k, job[t].buf, job[t])
  OBVIOUS
<1>7. /\ M \in Texts /\ M.text = "object" /\ M.own = job[t].buf.own
      /\ k = "mcp" => M.ours = {job[t].tok}
      /\ k # "mcp" => M.ours = job[t].buf.ours \cup {job[t].port}
  BY <1>2, <1>5, <1>6, MergedIs
<1>8. disk' = [disk EXCEPT ![p][k] = M]
  BY <1>6 DEF Editor!Fill
<1>9. k # "mcp" => job[t].port \in Ports /\ job[t].buf.ours \subseteq Ports
  <2>1. k # "mcp" => op = "settings"
    BY DEF Editor!KindOf, Edited
  <2>2. job[t].todo[1][1] = op
    BY <1>2
  <2> QED
    BY <1>1, <1>2, <2>1, <2>2 DEF JobFits, EditorJobs
<1> QED
  BY <1>1, <1>4, <1>7, <1>8, <1>9

LEMMA ListIs ==
  ASSUME EditorShape, NEW t \in Editor!Tasks, NEW p \in Repos, Editor!List(t, p)
  PROVE  /\ TaskMoved(t) /\ AtStep(t, "list", p) /\ t \in Editor!Rotations
         /\ job'[t].todo = [i \in 1..Len(listed) |-> <<"entry", listed[i]>>] /\ job'[t].todo \in Seq(Steps)
         /\ Len(job'[t].todo) = Len(listed) /\ Len(listed) \in Nat
         /\ \A i \in 1..Len(listed) : job'[t].todo[i] = <<"entry", listed[i]>> /\ listed[i] \in Repos
         /\ job'[t].at = "read" /\ job'[t].tok = job[t].tok
<1>1. AtStep(t, "list", p)
  BY AtStepIs DEF Editor!List
<1>2. PICK s \in Seq(Steps) : s = job[t].todo
  BY <1>1, AtStepRow
<1>3. /\ job \in [Editor!Tasks -> EditorJobs] /\ job[t] \in EditorJobs /\ JobFits(t, job[t])
      /\ listed \in Seq(Repos) /\ s[1] = <<"list", p>> /\ 1 \in 1..Len(s) /\ Ordered(t, s)
  <2>1. 1 \in 1..Len(job[t].todo) /\ Ordered(t, job[t].todo)
    BY <1>1, AtStepRow
  <2> QED
    BY <1>1, <1>2, <2>1 DEF AtStep, EditorShape, EditorTypes
<1>4. s[1][1] = "list"
  BY <1>3
<1>5. t \in Editor!Rotations
  BY <1>3, <1>4 DEF Ordered, Users, Editor!Tasks
<1>6. job[t].at = "read"
  BY <1>2, <1>3, <1>4 DEF JobFits, Edited
<1>7. PICK r : r = [i \in 1..Len(listed) |-> <<"entry", listed[i]>>]
  OBVIOUS
<1>8. Len(listed) \in Nat /\ \A i \in 1..Len(listed) : listed[i] \in Repos
  BY <1>3, ElementOfSeq
<1>9. r \in Seq(Steps) /\ Len(r) = Len(listed) /\ \A i \in 1..Len(listed) : r[i] = <<"entry", listed[i]>>
  <2>1. \A i \in 1..Len(listed) : <<"entry", listed[i]>> \in Steps
    BY <1>8 DEF Steps
  <2> QED
    BY <1>7, <1>8, <2>1
<1>10. PICK J : J = [job[t] EXCEPT !.todo = r]
  OBVIOUS
<1>11. J \in EditorJobs /\ J.todo = r /\ J.at = job[t].at /\ J.tok = job[t].tok
  BY <1>3, <1>9, <1>10 DEF EditorJobs
<1>12. job' = [job EXCEPT ![t] = J]
  BY <1>7, <1>10 DEF Editor!List
<1>13. TaskMoved(t) /\ job'[t] = J
  BY <1>3, <1>11, <1>12 DEF TaskMoved, OthersRest
<1> QED
  BY <1>1, <1>5, <1>6, <1>7, <1>8, <1>9, <1>11, <1>13

-----------------------------------------------------------------------------
(* Each of them keeps the shape *)

Slugs == ({"", "s"} \cup Repos) \X Nat

LEMMA ShapeMoves ==
  ASSUME EditorShape, minted' \in Nat, file' \in 0..minted', live' \in 0..minted', listed' \in Seq(Repos), slug' \in [Repos -> Slugs],
         disk' \in [Repos -> [Editor!Kinds -> Texts]], rule' \in [Repos -> Ports \cup {0, Editor!NoRule}],
         editorMishaps' \subseteq Editor!MishapNames, Grows, FilesFit', JobsInShape',
         \A p \in Repos : ~Editor!Cloned(p)' => rule'[p] = rule[p] /\ disk'[p] = disk[p],
         (\A i \in 1..Len(listed) : Editor!Cloned(listed[i]))'
  PROVE  EditorShape'
<1>1. \A p \in Repos : ~Editor!Cloned(p)' => NotCloned(p)'
  BY DEF EditorShape, NotCloned, Grows
<1>2. EditorTypes'
  BY DEF EditorTypes, JobsInShape, Slugs
<1>3. (\A t \in Editor!Tasks : JobFits(t, job[t]))'
  BY DEF JobsInShape
<1>4. Editor!Cloned(Old)'
  <2>1. Old \in Repos /\ Editor!Cloned(Old)
    BY EditorGiven DEF Editor!EditorAssumption, EditorShape
  <2>2. \A q : q = Old /\ q \in Repos => Editor!Cloned(q)'
    BY <2>1 DEF Grows
  <2> QED
    BY <2>1, <2>2 DEF Editor!Cloned
<1> QED
  BY <1>1, <1>2, <1>3, <1>4 DEF EditorShape

LEMMA SlugClones ==
  ASSUME NEW p \in Repos, NEW n \in Nat
  PROVE  /\ Editor!Slug(p, n) = <<p, n>> /\ Editor!Slug(p, n) \in Slugs /\ Editor!Slug(p, n) # Editor!Slug("", 0)
         /\ Editor!Slug("s", n) = <<"s", n>> /\ Editor!Slug("s", n) \in Slugs /\ Editor!Slug("s", n) # Editor!Slug("", 0)
         /\ Editor!Slug(p, n) # Editor!Slug("s", n)
<1>1. p # "" /\ p # "s"
  BY EditorGiven DEF Editor!EditorAssumption
<1> QED
  BY <1>1 DEF Editor!Slug, Slugs

\* Who has files keeps fitting ones while they are as they were.
LEMMA FilesStay ==
  ASSUME EditorShape, UNCHANGED disk, minted' \in Nat, minted <= minted'
  PROVE  FilesFit'
<1> SUFFICES ASSUME NEW p \in Repos, NEW k \in Editor!Kinds PROVE Fits(disk[p][k], k)'
  BY DEF FilesFit
<1> QED
  BY FitsOn DEF EditorShape, FilesFit, Fits, EditorTypes

\* The steps that change a token, a file or a row, and no name.
LEMMA RestShape ==
  ASSUME EditorShape, UNCHANGED <<listed, slug, disk>>, minted' \in Nat, minted <= minted', file' \in 0..minted', live' \in 0..minted',
         rule' \in [Repos -> Ports \cup {0, Editor!NoRule}], \A p \in Repos : ~Editor!Cloned(p) => rule'[p] = rule[p],
         editorMishaps' \subseteq Editor!MishapNames, JobsInShape'
  PROVE  EditorShape'
<1>1. Grows /\ FilesFit'
  BY SameGrows, FilesStay DEF EditorShape, EditorTypes
<1>2. \A p \in Repos : ~Editor!Cloned(p)' => ~Editor!Cloned(p)
  BY DEF Editor!Cloned
<1>3. (\A i \in 1..Len(listed) : Editor!Cloned(listed[i]))'
  BY DEF EditorShape, Editor!Cloned
<1>4. listed' \in Seq(Repos) /\ slug' \in [Repos -> Slugs] /\ disk' \in [Repos -> [Editor!Kinds -> Texts]]
  BY DEF EditorShape, EditorTypes, Slugs
<1>5. \A p \in Repos : ~Editor!Cloned(p)' => rule'[p] = rule[p] /\ disk'[p] = disk[p]
  BY <1>2
<1> QED
  BY <1>1, <1>3, <1>4, <1>5, ShapeMoves

LEMMA TakeTokenShape ==
  ASSUME EditorShape, NEW t \in Editor!Tasks, NEW p \in Repos, Editor!TakeToken(t, p)
  PROVE  EditorShape'
<1>1. /\ job' \in [Editor!Tasks -> EditorJobs] /\ OthersRest(t) /\ Advances(t)
      /\ minted' \in Nat /\ minted <= minted' /\ file' \in 0..minted'
  BY TokenAdvances
<1>2. /\ UNCHANGED <<live, listed, slug, disk, rule, editorMishaps>>
  BY DEF Editor!TakeToken
<1>3. live' \in 0..minted' /\ rule' \in [Repos -> Ports \cup {0, Editor!NoRule}] /\ editorMishaps' \subseteq Editor!MishapNames
  <2>1. /\ minted \in Nat /\ file \in 0..minted /\ live \in 0..minted
        /\ rule \in [Repos -> Ports \cup {0, Editor!NoRule}] /\ editorMishaps \subseteq Editor!MishapNames
    BY DEF EditorShape, EditorTypes
  <2> QED
    BY <1>2, <1>1, <2>1
<1>4. Grows
  BY <1>1, <1>2, SameGrows
<1>5. JobsInShape'
  BY <1>1, <1>4, ShapeJobs, JobsMove
<1> QED
  BY <1>1, <1>2, <1>3, <1>5, RestShape

LEMMA ListShape ==
  ASSUME EditorShape, NEW t \in Editor!Tasks, NEW p \in Repos, Editor!List(t, p)
  PROVE  EditorShape'
<1>1. /\ UNCHANGED <<file, minted, live, listed, slug, disk, rule, editorMishaps>>
  BY DEF Editor!List
<1>2. /\ minted' \in Nat /\ minted <= minted' /\ file' \in 0..minted' /\ live' \in 0..minted'
      /\ rule' \in [Repos -> Ports \cup {0, Editor!NoRule}] /\ editorMishaps' \subseteq Editor!MishapNames
  <2>1. /\ minted \in Nat /\ file \in 0..minted /\ live \in 0..minted
        /\ rule \in [Repos -> Ports \cup {0, Editor!NoRule}] /\ editorMishaps \subseteq Editor!MishapNames
    BY DEF EditorShape, EditorTypes
  <2> QED
    BY <1>1, <2>1
<1>3. Grows
  BY <1>1, <1>2, SameGrows
<1> PICK s \in Seq(Steps) : s = job'[t].todo
  BY ListIs
<1>4. /\ job' \in [Editor!Tasks -> EditorJobs] /\ OthersRest(t) /\ job'[t].at = "read" /\ job'[t].tok \in 0..minted'
      /\ t \in Editor!Rotations /\ Len(s) = Len(listed) /\ \A i \in 1..Len(s) : s[i] = <<"entry", listed[i]>>
  <2>1. job[t].tok \in 0..minted /\ AtStep(t, "list", p)
    BY ListIs, AtStepRow
  <2> QED
    BY <1>1, <2>1, ListIs DEF TaskMoved
<1>5. \A i \in 1..Len(s) : Editor!Cloned(s[i][2])'
  <2>1. \A i \in 1..Len(s) : s[i][2] = listed[i] /\ Editor!Cloned(listed[i])
    BY <1>4 DEF EditorShape
  <2> QED
    BY <1>1, <2>1 DEF Editor!Cloned
<1>6. Ordered(t, s)
  <2>1. \A i \in 1..Len(s) : s[i][1] = "entry"
    BY <1>4
  <2>2. \A i \in 2..Len(s) : i \in 1..Len(s)
    BY <1>4
  <2> QED
    BY <1>4, <2>1, <2>2 DEF Ordered, Users, Editor!Rotations
<1>7. JobsInShape'
  BY <1>3, <1>4, <1>5, <1>6, ShapeJobs, JobsBegin
<1> QED
  BY <1>1, <1>2, <1>7, RestShape

LEMMA JobsSkip ==
  ASSUME JobsInShape, Grows, NEW t \in Editor!Tasks, OthersRest(t),
         job' \in [Editor!Tasks -> EditorJobs], Skips(t)
  PROVE  JobsInShape'
<1>1. PICK s \in Seq(Steps) : s = job[t].todo
  BY DEF JobsInShape, EditorJobs
<1>2. s # <<>> /\ Tail(s) # <<>> /\ Ordered(t, s) /\ \A i \in 1..Len(s) : Editor!Cloned(s[i][2])' /\ s[i] \in Steps
  <2>1. \A i \in 1..Len(s) : s[i] \in Steps /\ Editor!Cloned(s[i][2])
    BY <1>1, ElementOfSeq DEF JobsInShape, JobFits
  <2>2. \A i \in 1..Len(s) : Editor!Cloned(s[i][2])'
    BY <2>1 DEF Grows, Steps
  <2> QED
    BY <1>1, <2>1, <2>2 DEF JobsInShape, JobFits, Skips
<1>3. PICK r \in Seq(Steps) : r = Tail(s)
  BY <1>2, TailIs
<1>4. /\ Len(s) \in Nat \ {0} /\ Len(r) = Len(s) - 1 /\ r # <<>> /\ Ordered(t, r)
      /\ \A i \in 1..Len(r) : r[i] = s[i + 1]
  BY <1>2, <1>3, TailIs, OrderedTail
<1>5. PICK q \in Seq(Steps) : q = Tail(r)
  BY <1>4, TailIs
<1>6. /\ Len(q) = Len(r) - 1 /\ Ordered(t, q) /\ \A i \in 1..Len(q) : q[i] = r[i + 1]
  BY <1>4, <1>5, TailIs, OrderedTail
<1>7. \A i \in 1..Len(q) : (i + 1) + 1 \in 1..Len(s) /\ q[i] = s[(i + 1) + 1]
  <2> TAKE i \in 1..Len(q)
  <2>1. i + 1 \in 1..Len(r) /\ (i + 1) + 1 \in 1..Len(s)
    BY <1>4, <1>6
  <2> QED
    BY <1>4, <1>6, <2>1
<1>8. \A i \in 1..Len(q) : Editor!Cloned(q[i][2])'
  BY <1>2, <1>7
<1>9. job'[t].todo = q /\ job'[t].at = "read" /\ job'[t].tok \in 0..minted'
  BY <1>1, <1>3, <1>5 DEF Skips
<1> QED
  BY <1>6, <1>8, <1>9, JobsBegin

LEMMA WriteRuleShape ==
  ASSUME EditorShape, NEW t \in Editor!Tasks, NEW p \in Repos, Editor!WriteRule(t, p)
  PROVE  EditorShape'
<1>1. /\ UNCHANGED <<file, minted, live, listed, slug, disk>>
  BY DEF Editor!WriteRule
<1>2. /\ minted' \in Nat /\ minted <= minted' /\ file' \in 0..minted' /\ live' \in 0..minted'
  <2>1. /\ minted \in Nat /\ file \in 0..minted /\ live \in 0..minted
        /\ rule \in [Repos -> Ports \cup {0, Editor!NoRule}] /\ editorMishaps \subseteq Editor!MishapNames
    BY DEF EditorShape, EditorTypes
  <2> QED
    BY <1>1, <2>1
<1>3. Grows /\ JobsInShape
  BY <1>1, <1>2, SameGrows, ShapeJobs
<1>4. TaskMoved(t) /\ (Advances(t) \/ Skips(t)) /\ editorMishaps' \subseteq Editor!MishapNames /\ AtStep(t, "rule", p)
  BY WriteRuleIs
<1>5. JobsInShape'
  BY <1>3, <1>4, JobsMove, JobsSkip DEF TaskMoved
<1>6. rule' \in [Repos -> Ports \cup {0, Editor!NoRule}] /\ \A q \in Repos : ~Editor!Cloned(q) => rule'[q] = rule[q]
  <2>1. rule \in [Repos -> Ports \cup {0, Editor!NoRule}]
    BY DEF EditorShape, EditorTypes
  <2>2. Editor!Cloned(p) /\ job[t] \in EditorJobs
    BY <1>4, AtStepRow
  <2>3. job[t].port \in Ports \cup {0, Editor!NoRule}
    BY <2>2 DEF EditorJobs
  <2>4. UNCHANGED rule \/ rule' = [rule EXCEPT ![p] = job[t].port]
    BY WriteRuleIs
  <2> QED
    BY <2>1, <2>2, <2>3, <2>4
<1> QED
  BY <1>1, <1>2, <1>4, <1>5, <1>6, RestShape

\* A finite set of numbers has a least one.  The library's least elements are
\* those of well-founded orderings: here of the sets of numbers up to each one.
LEMMA LeastExists ==
  ASSUME NEW S \in SUBSET Nat, IsFiniteSet(S), S # {}
  PROVE  \E p \in S : \A q \in S : p <= q
<1> DEFINE UpTo(p) == {q \in S : q <= p}
           Family == {T \in SUBSET S : \E p \in S : T = UpTo(p)}
<1>1. IsWellFoundedOn(StrictSubsetOrdering(S), SUBSET S)
  BY FS_StrictSubsetOrderingWellFounded, FS_FiniteSubsetsOfFinite
<1>2. \A p \in S : UpTo(p) \in Family
  OBVIOUS
<1>3. Family \subseteq SUBSET S /\ Family # {}
  BY <1>2
<1> HIDE DEF Family
<1>4. PICK T \in Family : \A U \in Family : ~(<<U, T>> \in StrictSubsetOrdering(S))
  <2> DEFINE O == StrictSubsetOrdering(S)
  <2>1. IsWellFoundedOn(O, SUBSET S)
    BY <1>1
  <2> HIDE DEF O
  <2>2. \E x \in Family : \A y \in Family : ~(<<y, x>> \in O)
    BY <1>3, <2>1, WFMin
  <2> QED
    BY <2>2 DEF O
<1>5. PICK p \in S : T = UpTo(p)
  BY <1>4 DEF Family
<1>6. \A q \in S : p <= q
  <2> SUFFICES ASSUME NEW q \in S, q < p PROVE FALSE
    OBVIOUS
  <2>1. UpTo(q) \subseteq UpTo(p) /\ UpTo(q) # UpTo(p)
    <3>1. p \in UpTo(p) /\ p \notin UpTo(q)
      OBVIOUS
    <3>2. \A x \in S : x <= q => x <= p
      OBVIOUS
    <3> QED
      BY <3>1, <3>2
  <2>2. <<UpTo(q), UpTo(p)>> \in StrictSubsetOrdering(S)
    BY <2>1 DEF StrictSubsetOrdering
  <2> QED
    BY <1>2, <1>4, <1>5, <2>2
<1> QED
  BY <1>6

\* derive_slug_unique: there is a number no project of the list has, for there
\* are more numbers than projects, and so there is a first one.
LEMMA DeriveIs ==
  ASSUME EditorShape
  PROVE  \E n \in Nat : Editor!Derive = Editor!Slug("s", n) /\ \A i \in 1..Len(listed) : slug[listed[i]] # Editor!Slug("s", n)
<1> DEFINE size == Cardinality(Repos)
           Taken(n) == \E i \in 1..Len(listed) : slug[listed[i]] = Editor!Slug("s", n)
           free == {n \in 1..(size + 1) : ~Taken(n)}
           First(n) == /\ \A q \in Editor!ToSet(listed) : slug[q] # Editor!Slug("s", n)
                       /\ \A m \in 1..(n - 1) : \E q \in Editor!ToSet(listed) : slug[q] = Editor!Slug("s", m)
<1>1. /\ IsFiniteSet(Repos) /\ size \in Nat /\ listed \in Seq(Repos) /\ Len(listed) \in Nat
      /\ \A i \in 1..Len(listed) : listed[i] \in Repos
  <2>1. IsFiniteSet(Repos)
    <3>1. Editor!IsFiniteSet(Repos)
      BY EditorGiven DEF Editor!EditorAssumption
    <3> QED
      BY <3>1, Zenon DEF Editor!IsFiniteSet, IsFiniteSet
  <2>2. size \in Nat
    BY <2>1, FS_CardinalityType
  <2>3. listed \in Seq(Repos)
    BY DEF EditorShape, EditorTypes
  <2> QED
    BY <2>1, <2>2, <2>3, ElementOfSeq
<1>2. Editor!ToSet(listed) = {listed[i] : i \in 1..Len(listed)}
  BY <1>1 DEF Editor!ToSet
<1>3. free # {}
  <2> SUFFICES ASSUME free = {} PROVE FALSE
    OBVIOUS
  <2> DEFINE Who(n) == CHOOSE q \in Repos : slug[q] = Editor!Slug("s", n)
             f == [n \in 1..(size + 1) |-> Who(n)]
  <2>1. \A n \in 1..(size + 1) : Who(n) \in Repos /\ slug[Who(n)] = Editor!Slug("s", n)
    <3> TAKE n \in 1..(size + 1)
    <3>1. Taken(n)
      OBVIOUS
    <3>2. \E q \in Repos : slug[q] = Editor!Slug("s", n)
      BY <1>1, <3>1
    <3> QED
      BY <3>2
  <2> HIDE DEF Who
  <2>2. f \in [1..(size + 1) -> Repos]
    BY <2>1
  <2>3. \A m, n \in 1..(size + 1) : f[m] = f[n] => m = n
    <3> TAKE m, n \in 1..(size + 1)
    <3> SUFFICES ASSUME f[m] = f[n] PROVE m = n
      OBVIOUS
    <3>1. Editor!Slug("s", m) = Editor!Slug("s", n)
      BY <2>1
    <3> QED
      BY <3>1 DEF Editor!Slug
  <2>4. f \in Injection(1..(size + 1), Repos)
    <3> HIDE DEF f
    <3> QED
      BY <2>2, <2>3 DEF Injection, IsInjective
  <2>5. Cardinality(1..(size + 1)) = size + 1 /\ IsFiniteSet(1..(size + 1))
    <3> HIDE DEF size
    <3>1. 1 \in Int /\ size + 1 \in Int /\ 1 <= size + 1 /\ (size + 1) - 1 + 1 = size + 1
      BY <1>1
    <3> QED
      BY <3>1, FS_Interval
  <2>6. Cardinality(1..(size + 1)) <= size
    <3> HIDE DEF f
    <3> QED
      BY <1>1, <2>4, <2>5, FS_Injection
  <2> HIDE DEF size
  <2> QED
    BY <1>1, <2>5, <2>6
<1>4. free \in SUBSET Nat /\ IsFiniteSet(free)
  <2>1. IsFiniteSet(1..(size + 1))
    <3> HIDE DEF size
    <3> QED
      BY <1>1, FS_Interval
  <2>2. free \subseteq 1..(size + 1)
    OBVIOUS
  <2> HIDE DEF free
  <2>3. IsFiniteSet(free)
    BY <2>1, <2>2, FS_Subset, Zenon
  <2> HIDE DEF size
  <2> QED
    BY <1>1, <2>2, <2>3
<1>5. PICK n \in free : \A m \in free : n <= m
  <2> HIDE DEF free
  <2> QED
    BY <1>3, <1>4, LeastExists
<1>6. First(n) /\ n \in 1..(size + 1)
  <2> HIDE DEF size
  <2>1. \A q \in Editor!ToSet(listed) : slug[q] # Editor!Slug("s", n)
    BY <1>2, <1>5
  <2>2. \A m \in 1..(n - 1) : m \in 1..(size + 1) /\ ~(n <= m)
    BY <1>1, <1>5
  <2>3. \A m \in 1..(n - 1) : Taken(m)
    BY <1>5, <2>2
  <2>4. \A m \in 1..(n - 1) : \E q \in Editor!ToSet(listed) : slug[q] = Editor!Slug("s", m)
    BY <1>2, <2>3
  <2> QED
    BY <1>5, <2>1, <2>4
<1> PICK c : c = CHOOSE m \in 1..(size + 1) : First(m)
  OBVIOUS
<1>7. c \in 1..(size + 1) /\ First(c)
  <2> HIDE DEF First, size
  <2> QED
    BY <1>6
<1>8. Editor!Derive = Editor!Slug("s", c)
  <2>1. Editor!Cardinality(Repos) = size
    BY Zenon DEF Editor!Cardinality, Cardinality
  <2>2. c = CHOOSE m \in 1..(Editor!Cardinality(Repos) + 1) : First(m)
    BY <2>1
  <2> QED
    BY <2>2 DEF Editor!Derive
<1>9. c \in Nat
  <2> HIDE DEF First, size
  <2> QED
    BY <1>1, <1>7
<1>10. \A i \in 1..Len(listed) : slug[listed[i]] # Editor!Slug("s", c)
  BY <1>2, <1>7
<1> QED
  BY <1>8, <1>9, <1>10

\* What the shape says of the variables.
LEMMA ShapeTypes ==
  ASSUME EditorShape
  PROVE  /\ minted \in Nat /\ file \in 0..minted /\ live \in 0..minted
         /\ listed \in Seq(Repos) /\ Len(listed) \in Nat
         /\ \A i \in 1..Len(listed) : listed[i] \in Repos /\ Editor!Cloned(listed[i])
         /\ slug \in [Repos -> Slugs] /\ disk \in [Repos -> [Editor!Kinds -> Texts]]
         /\ rule \in [Repos -> Ports \cup {0, Editor!NoRule}] /\ job \in [Editor!Tasks -> EditorJobs]
         /\ editorMishaps \subseteq Editor!MishapNames
<1>1. listed \in Seq(Repos)
  BY DEF EditorShape, EditorTypes
<1>2. \A i \in 1..Len(listed) : listed[i] \in Repos /\ Editor!Cloned(listed[i])
  BY <1>1, ElementOfSeq DEF EditorShape
<1>3. /\ slug \in [Repos -> Slugs] /\ disk \in [Repos -> [Editor!Kinds -> Texts]]
      /\ rule \in [Repos -> Ports \cup {0, Editor!NoRule}] /\ job \in [Editor!Tasks -> EditorJobs]
  BY DEF EditorShape, EditorTypes, Slugs
<1>4. /\ minted \in Nat /\ file \in 0..minted /\ live \in 0..minted /\ editorMishaps \subseteq Editor!MishapNames
  BY DEF EditorShape, EditorTypes
<1>5. Len(listed) \in Nat
  BY <1>1
<1> QED
  BY <1>1, <1>2, <1>3, <1>4, <1>5

\* Where no token is made or told, their types are as they were.
LEMMA TokensRest ==
  ASSUME EditorShape, UNCHANGED <<minted, file, live>>
  PROVE  minted' \in Nat /\ minted <= minted' /\ file' \in 0..minted' /\ live' \in 0..minted'
<1>1. minted \in Nat /\ file \in 0..minted /\ live \in 0..minted
  BY ShapeTypes
<1> QED
  BY <1>1

\* Who is in the list.
LEMMA ListedIs ==
  ASSUME EditorShape, NEW p
  PROVE  p \in Editor!ToSet(listed) <=> \E i \in 1..Len(listed) : listed[i] = p
  BY DEF Editor!ToSet

\* A name that is given clones no project away.
LEMMA NamedGrows ==
  ASSUME EditorShape, NEW p \in Repos, NEW M \in Slugs, M # Editor!Slug("", 0), slug' = [slug EXCEPT ![p] = M],
         minted' \in Nat, minted <= minted'
  PROVE  Grows /\ slug' \in [Repos -> Slugs] /\ Editor!Cloned(p)' /\ \A q \in Repos : q # p => slug'[q] = slug[q]
<1>1. slug \in [Repos -> Slugs] /\ minted \in Nat
  BY ShapeTypes
<1>2. slug' \in [Repos -> Slugs] /\ slug'[p] = M /\ \A q \in Repos : q # p => slug'[q] = slug[q]
  BY <1>1
<1>3. Editor!Cloned(p)'
  BY <1>2 DEF Editor!Cloned, Editor!Slug
<1>4. \A q \in Repos : Editor!Cloned(q) => Editor!Cloned(q)'
  BY <1>2, <1>3 DEF Editor!Cloned, Editor!Slug
<1> QED
  BY <1>1, <1>2, <1>3, <1>4 DEF Grows

\* What a name can be.
LEMMA NewName ==
  ASSUME EditorShape, NEW t \in Editor!Tasks, NEW p \in Repos, Editor!Name(t, p)
  PROVE  \E M \in Slugs : M # Editor!Slug("", 0) /\ slug' = [slug EXCEPT ![p] = M]
<1>1. CASE slug' = [slug EXCEPT ![p] = Editor!Derive]
  <2> PICK n \in Nat : Editor!Derive = Editor!Slug("s", n)
    BY DeriveIs
  <2> QED
    BY <1>1, SlugClones
<1>2. CASE slug' = [slug EXCEPT ![p] = Editor!Slug(p, 1)]
  BY <1>2, SlugClones
<1> QED
  BY <1>1, <1>2, NameIs

LEMMA NameShape ==
  ASSUME EditorShape, NEW t \in Editor!Tasks, NEW p \in Repos, Editor!Name(t, p)
  PROVE  EditorShape'
<1>1. UNCHANGED <<file, live, minted, listed, disk, rule, editorMishaps>>
  BY DEF Editor!Name
<1>2. minted' \in Nat /\ minted <= minted' /\ file' \in 0..minted' /\ live' \in 0..minted'
  BY <1>1, TokensRest
<1> PICK M \in Slugs : M # Editor!Slug("", 0) /\ slug' = [slug EXCEPT ![p] = M]
  BY NewName
<1>3. Grows /\ slug' \in [Repos -> Slugs]
  BY <1>2, NamedGrows
<1>4. JobsInShape'
  <2>1. TaskMoved(t) /\ Advances(t) /\ JobsInShape
    BY NameIs, ShapeJobs
  <2> QED
    BY <1>3, <2>1, JobsMove DEF TaskMoved
<1>5. FilesFit'
  BY <1>1, <1>2, FilesStay
<1>6. /\ listed' \in Seq(Repos) /\ disk' \in [Repos -> [Editor!Kinds -> Texts]]
      /\ rule' \in [Repos -> Ports \cup {0, Editor!NoRule}] /\ editorMishaps' \subseteq Editor!MishapNames
  BY <1>1, ShapeTypes
<1>7. \A q \in Repos : ~Editor!Cloned(q)' => rule'[q] = rule[q] /\ disk'[q] = disk[q]
  BY <1>1
<1>8. (\A i \in 1..Len(listed) : Editor!Cloned(listed[i]))'
  <2>1. \A i \in 1..Len(listed) : listed[i] \in Repos /\ Editor!Cloned(listed[i])
    BY ShapeTypes
  <2>2. \A i \in 1..Len(listed) : slug'[listed[i]] # Editor!Slug("", 0)
    BY <1>3, <2>1 DEF Grows, Editor!Cloned, Editor!Slug
  <2> QED
    BY <1>1, <2>2 DEF Editor!Cloned, Editor!Slug
<1> QED
  BY <1>2, <1>3, <1>4, <1>5, <1>6, <1>7, <1>8, ShapeMoves

LEMMA AddShape ==
  ASSUME EditorShape, NEW t \in Editor!Tasks, NEW p \in Repos, Editor!Add(t, p)
  PROVE  EditorShape'
<1>1. UNCHANGED <<file, live, minted, slug, disk, rule, editorMishaps>>
  BY DEF Editor!Add
<1>2. minted' \in Nat /\ minted <= minted' /\ file' \in 0..minted' /\ live' \in 0..minted'
  BY <1>1, TokensRest
<1>3. Grows
  BY <1>1, <1>2, SameGrows
<1>4. JobsInShape' /\ Editor!Cloned(p)
  <2>1. TaskMoved(t) /\ Advances(t) /\ JobsInShape /\ AtStep(t, "add", p)
    BY AddIs, ShapeJobs
  <2> QED
    BY <1>3, <2>1, JobsMove, AtStepRow DEF TaskMoved
<1>5. FilesFit'
  BY <1>1, <1>2, FilesStay
<1>6. /\ slug' \in [Repos -> Slugs] /\ disk' \in [Repos -> [Editor!Kinds -> Texts]]
      /\ rule' \in [Repos -> Ports \cup {0, Editor!NoRule}] /\ editorMishaps' \subseteq Editor!MishapNames
  BY <1>1, ShapeTypes
<1>7. \A q \in Repos : ~Editor!Cloned(q)' => rule'[q] = rule[q] /\ disk'[q] = disk[q]
  BY <1>1
<1> PICK l \in Seq(Repos) : l = listed
  BY ShapeTypes
<1>8. listed' = Append(l, p)
  BY AddIs
<1>9. /\ Append(l, p) \in Seq(Repos) /\ Len(l) \in Nat /\ Len(Append(l, p)) = Len(l) + 1
      /\ \A i \in 1..Len(l) : Append(l, p)[i] = l[i] /\ Editor!Cloned(l[i])
      /\ Append(l, p)[Len(l) + 1] = p
  BY AppendProperties, ShapeTypes
<1>10. \A i \in 1..(Len(l) + 1) : Editor!Cloned(Append(l, p)[i])
  <2> TAKE i \in 1..(Len(l) + 1)
  <2>1. i \in 1..Len(l) \/ i = Len(l) + 1
    BY <1>9
  <2> QED
    BY <1>4, <1>9, <2>1
<1>11. (\A i \in 1..Len(listed) : Editor!Cloned(listed[i]))'
  BY <1>1, <1>8, <1>9, <1>10 DEF Editor!Cloned
<1>12. listed' \in Seq(Repos)
  BY <1>8, <1>9
<1> QED
  BY <1>2, <1>3, <1>4, <1>5, <1>6, <1>7, <1>11, <1>12, ShapeMoves

\* A write of one file of a project with a tree.
LEMMA PutShape ==
  ASSUME EditorShape, NEW p \in Repos, NEW k \in Editor!Kinds, NEW M \in Texts, Fits(M, k), Editor!Cloned(p),
         disk' = [disk EXCEPT ![p][k] = M], UNCHANGED <<minted, file, live, listed, slug, rule>>,
         editorMishaps' \subseteq Editor!MishapNames, JobsInShape'
  PROVE  EditorShape'
<1>1. disk \in [Repos -> [Editor!Kinds -> Texts]] /\ rule \in [Repos -> Ports \cup {0, Editor!NoRule}]
  BY ShapeTypes
<1>2. /\ disk' \in [Repos -> [Editor!Kinds -> Texts]] /\ disk'[p][k] = M
      /\ \A q \in Repos, l \in Editor!Kinds : q # p \/ l # k => disk'[q][l] = disk[q][l]
  BY <1>1, DiskPut
<1>3. FilesFit'
  <2> SUFFICES ASSUME NEW q \in Repos, NEW l \in Editor!Kinds PROVE Fits(disk[q][l], l)'
    BY DEF FilesFit
  <2>1. CASE q = p /\ l = k
    BY <2>1, <1>2 DEF Fits
  <2>2. CASE q # p \/ l # k
    <3>1. Fits(disk[q][l], l)
      BY DEF EditorShape, FilesFit
    <3> QED
      BY <2>2, <3>1, <1>2 DEF Fits
  <2> QED
    BY <2>1, <2>2
<1>4. \A q \in Repos : ~Editor!Cloned(q) => rule'[q] = rule[q] /\ disk'[q] = disk[q]
  BY <1>1
<1>5. rule' \in [Repos -> Ports \cup {0, Editor!NoRule}]
  BY <1>1
<1> QED
  BY <1>2, <1>3, <1>4, <1>5, ShapeOfFiles

LEMMA ReadFileShape ==
  ASSUME EditorShape, NEW t \in Editor!Tasks, NEW p \in Repos, NEW op \in Edited, Editor!ReadFile(t, p, op)
  PROVE  EditorShape'
<1>1. UNCHANGED <<file, live, minted, listed, slug, disk, rule>>
  BY DEF Editor!ReadFile
<1>2. minted' \in Nat /\ minted <= minted' /\ file' \in 0..minted' /\ live' \in 0..minted'
  BY <1>1, TokensRest
<1>3. Grows /\ JobsInShape
  BY <1>1, <1>2, SameGrows, ShapeJobs
<1> PICK k \in Editor!Kinds : k = Editor!KindOf(op)
  BY DEF Editor!KindOf, Editor!Kinds
<1>4. TaskMoved(t) /\ (Advances(t) \/ Proceeds(t)) /\ editorMishaps' \subseteq Editor!MishapNames
  BY ReadFileIs
<1>5. JobsInShape'
  BY <1>3, <1>4, JobsMove DEF TaskMoved
<1>6. rule' \in [Repos -> Ports \cup {0, Editor!NoRule}] /\ \A q \in Repos : ~Editor!Cloned(q) => rule'[q] = rule[q]
  BY <1>1, ShapeTypes
<1> QED
  BY <1>1, <1>2, <1>4, <1>5, <1>6, RestShape

LEMMA EmptyFits == \A k : Fits(Editor!Empty, k) /\ Fits(Editor!Absent, k)
  BY DEF Fits, Editor!Empty, Editor!Absent

LEMMA TruncateShape ==
  ASSUME EditorShape, NEW t \in Editor!Tasks, NEW p \in Repos, NEW op \in Edited, Editor!Truncate(t, p, op)
  PROVE  EditorShape'
<1>1. UNCHANGED <<file, live, minted, listed, slug, rule>>
  BY DEF Editor!Truncate
<1>2. minted' \in Nat /\ minted <= minted' /\ file' \in 0..minted' /\ live' \in 0..minted'
  BY <1>1, TokensRest
<1>3. Grows /\ JobsInShape
  BY <1>1, <1>2, SameGrows, ShapeJobs
<1> PICK k \in Editor!Kinds : k = Editor!KindOf(op)
  BY DEF Editor!KindOf, Editor!Kinds
<1>4. TaskMoved(t) /\ AtStep(t, op, p) /\ (Advances(t) \/ Proceeds(t)) /\ editorMishaps' \subseteq Editor!MishapNames
  BY TruncateIs
<1>5. JobsInShape'
  BY <1>3, <1>4, JobsMove DEF TaskMoved
<1>6. CASE disk' = [disk EXCEPT ![p][k] = Editor!Empty]
  <2>1. Editor!Cloned(p) /\ Editor!Empty \in Texts /\ Fits(Editor!Empty, k)
    BY <1>4, AtStepRow, NoJobIs, EmptyFits
  <2> QED
    BY <1>1, <1>4, <1>5, <1>6, <2>1, PutShape
<1>7. CASE UNCHANGED disk
  <2>1. rule' \in [Repos -> Ports \cup {0, Editor!NoRule}] /\ \A q \in Repos : ~Editor!Cloned(q) => rule'[q] = rule[q]
    BY <1>1, ShapeTypes
  <2> QED
    BY <1>1, <1>2, <1>4, <1>5, <1>7, <2>1, RestShape
<1> QED
  BY <1>6, <1>7, TruncateIs

LEMMA FillShape ==
  ASSUME EditorShape, NEW t \in Editor!Tasks, NEW p \in Repos, NEW op \in Edited, Editor!Fill(t, p, op)
  PROVE  EditorShape'
<1>1. UNCHANGED <<file, live, minted, listed, slug, rule, editorMishaps>>
  BY DEF Editor!Fill
<1>2. minted' \in Nat /\ minted <= minted' /\ file' \in 0..minted' /\ live' \in 0..minted'
  BY <1>1, TokensRest
<1>3. Grows /\ JobsInShape
  BY <1>1, <1>2, SameGrows, ShapeJobs
<1> PICK k \in Editor!Kinds : k = Editor!KindOf(op)
  BY DEF Editor!KindOf, Editor!Kinds
<1>4. TaskMoved(t) /\ AtStep(t, op, p) /\ Advances(t)
  BY FillIs
<1>5. JobsInShape'
  BY <1>3, <1>4, JobsMove DEF TaskMoved
<1> PICK M \in Texts :
       /\ disk' = [disk EXCEPT ![p][k] = M] /\ M.text = "object" /\ M.own = job[t].buf.own
       /\ k = "mcp" => M.ours = {job[t].tok}
       /\ k # "mcp" => M.ours = job[t].buf.ours \cup {job[t].port}
  BY FillIs
<1>6. k # "mcp" => job[t].port \in Ports /\ job[t].buf.ours \subseteq Ports
  BY FillIs
<1>7. k = "mcp" => job[t].tok \in 0..minted
  BY <1>4, AtStepRow
<1>8. Fits(M, k)
  <2>1. k = "mcp" => M.ours \subseteq 0..minted
    BY <1>7
  <2>2. k # "mcp" => M.ours \subseteq Ports
    BY <1>6
  <2> QED
    BY <2>1, <2>2 DEF Fits
<1>9. editorMishaps' \subseteq Editor!MishapNames /\ Editor!Cloned(p)
  BY <1>1, <1>4, AtStepRow, ShapeTypes
<1> QED
  BY <1>1, <1>5, <1>8, <1>9, PutShape

\* A save by the user leaves one of three texts.
LEMMA SaveIs ==
  ASSUME EditorShape, NEW p \in Repos, NEW k \in Editor!Kinds, Editor!Save(p, k)
  PROVE  /\ Editor!Cloned(p) /\ saves' = saves + 1 /\ UNCHANGED <<file, live, minted, listed, slug, rule, job>>
         /\ editorMishaps \subseteq editorMishaps' /\ editorMishaps' \subseteq editorMishaps \cup {"race", "bad"}
         /\ editorMishaps' \subseteq Editor!MishapNames
         /\ \E M \in Texts : disk' = [disk EXCEPT ![p][k] = M] /\ (M.ours = {} \/ (M.text = "object" /\ M.ours = disk[p][k].ours))
         /\ "race" \notin editorMishaps' => \A t \in Editor!Writers(k, p) : job[t].at = "read"
<1> DEFINE kinds == IF \E t \in Editor!Writers(k, p) : job[t].at # "read" THEN {"race"} ELSE {}
<1>1. /\ Editor!Cloned(p) /\ saves' = saves + 1 /\ UNCHANGED <<file, live, minted, listed, slug, rule, job>>
  BY DEF Editor!Save
<1>2. editorMishaps \subseteq Editor!MishapNames /\ disk[p][k] \in Texts
  BY ShapeTypes
<1>3. CASE /\ disk' = [disk EXCEPT ![p][k] = Editor!Whole(TRUE, disk[p][k].ours)] /\ Editor!Happen(kinds)
  <2>1. editorMishaps' = editorMishaps \cup kinds /\ editorMishaps' \subseteq Editor!MishapNames
    BY <1>2, <1>3, HappenIs
  <2> PICK M : M = Editor!Whole(TRUE, disk[p][k].ours)
    OBVIOUS
  <2>2. M \in Texts /\ M.text = "object" /\ M.ours = disk[p][k].ours
    BY <1>2 DEF Editor!Whole, Texts
  <2>3. disk' = [disk EXCEPT ![p][k] = M]
    BY <1>3
  <2>4. \E N \in Texts : disk' = [disk EXCEPT ![p][k] = N] /\ (N.ours = {} \/ (N.text = "object" /\ N.ours = disk[p][k].ours))
    BY <2>2, <2>3, Zenon
  <2> QED
    BY <1>1, <2>1, <2>4
<1>4. CASE /\ disk' = [disk EXCEPT ![p][k] = [Editor!Absent EXCEPT !.text = "bad", !.own = TRUE]] /\ Editor!Happen({"bad"})
           /\ \A t \in Editor!Writers(k, p) : job[t].at = "read"
  <2>1. editorMishaps' = editorMishaps \cup {"bad"} /\ editorMishaps' \subseteq Editor!MishapNames
    BY <1>2, <1>4, HappenIs
  <2> PICK M : M = [Editor!Absent EXCEPT !.text = "bad", !.own = TRUE]
    OBVIOUS
  <2>2. M \in Texts /\ M.ours = {}
    BY DEF Editor!Absent, Texts
  <2>3. disk' = [disk EXCEPT ![p][k] = M]
    BY <1>4
  <2>4. \E N \in Texts : disk' = [disk EXCEPT ![p][k] = N] /\ (N.ours = {} \/ (N.text = "object" /\ N.ours = disk[p][k].ours))
    BY <2>2, <2>3, Zenon
  <2> QED
    BY <1>1, <1>4, <2>1, <2>4
<1>5. CASE disk' = [disk EXCEPT ![p][k] = Editor!Empty] /\ Editor!Writers(k, p) = {} /\ UNCHANGED editorMishaps
  <2>1. Editor!Empty \in Texts /\ Editor!Empty.ours = {}
    BY DEF Editor!Empty, Editor!Absent, Texts
  <2>2. \E N \in Texts : disk' = [disk EXCEPT ![p][k] = N] /\ (N.ours = {} \/ (N.text = "object" /\ N.ours = disk[p][k].ours))
    BY <1>5, <2>1, Zenon
  <2> QED
    BY <1>1, <1>2, <1>5, <2>2
<1> QED
  BY <1>3, <1>4, <1>5 DEF Editor!Save

LEMMA SaveShape ==
  ASSUME EditorShape, NEW p \in Repos, NEW k \in Editor!Kinds, Editor!Save(p, k)
  PROVE  EditorShape'
<1>1. /\ Editor!Cloned(p) /\ UNCHANGED <<file, live, minted, listed, slug, rule, job>>
      /\ editorMishaps' \subseteq Editor!MishapNames
  BY SaveIs
<1>2. minted' \in Nat /\ minted <= minted'
  BY <1>1, TokensRest
<1>3. Grows /\ JobsInShape
  BY <1>1, <1>2, SameGrows, ShapeJobs
<1>4. JobsInShape'
  BY <1>1, <1>3, JobsRest
<1> PICK M \in Texts : disk' = [disk EXCEPT ![p][k] = M] /\ (M.ours = {} \/ (M.text = "object" /\ M.ours = disk[p][k].ours))
  BY SaveIs
<1>5. Fits(M, k)
  <2>1. Fits(disk[p][k], k)
    BY DEF EditorShape, FilesFit
  <2> QED
    BY <2>1 DEF Fits
<1> QED
  BY <1>1, <1>4, <1>5, PutShape

\* A command that changes nothing but tokens as it begins.
LEMMA OpenIs ==
  ASSUME EditorShape, NEW p \in Repos, Editor!Open(p)
  PROVE  \E s \in Seq(Steps), port \in Ports \cup {0} :
           /\ TaskMoved("main") /\ job["main"].todo = <<>> /\ job'["main"].todo = s /\ job'["main"].at = "read"
           /\ job'["main"].tok = 0 /\ job'["main"].port = port
           /\ s[1] = <<"rule", p>> /\ s[2] = <<"settings", p>> /\ s[3] = <<"token", p>> /\ s[4] = <<"entry", p>>
           /\ Len(s) = 4 /\ Ordered("main", s) /\ Editor!Cloned(p)
<1> PICK s : s = Editor!Artifacts(p) \o Editor!Install(p)
  OBVIOUS
<1>1. /\ s[1] = <<"rule", p>> /\ s[2] = <<"settings", p>> /\ s[3] = <<"token", p>> /\ s[4] = <<"entry", p>>
      /\ s \in Seq(Steps) /\ Len(s) = 4 /\ Ordered("main", s)
  BY OrderedOpen, Zenon
<1>2. PICK port \in Ports \cup {0} : Editor!Begin("main", s, port, 0)
  BY DEF Editor!Open
<1>3. "main" \in Editor!Tasks
  BY DEF Editor!Tasks
<1>4. /\ TaskMoved("main") /\ job["main"].todo = <<>> /\ job'["main"].todo = s /\ job'["main"].at = "read"
      /\ job'["main"].tok = 0 /\ job'["main"].port = port
  <2>1. s \in Seq(Steps) /\ 0 \in Nat /\ Editor!Begin("main", s, port, 0)
    BY <1>1, <1>2
  <2>2. job' \in [Editor!Tasks -> EditorJobs] /\ OthersRest("main") /\ job["main"].todo = <<>>
        /\ job'["main"].todo = s /\ job'["main"].at = "read" /\ job'["main"].tok = 0 /\ job'["main"].port = port
    BY <1>3, <2>1, BeginIs, Zenon
  <2> QED
    BY <2>2 DEF TaskMoved
<1>5. Editor!Cloned(p)
  <2>1. p \in Editor!ToSet(listed)
    BY DEF Editor!Open
  <2> QED
    BY <2>1, ListedIs, ShapeTypes
<1> QED
  BY <1>1, <1>4, <1>5

LEMMA OpenShape ==
  ASSUME EditorShape, NEW p \in Repos, Editor!Open(p)
  PROVE  EditorShape'
<1>1. UNCHANGED <<file, live, minted, listed, slug, disk, rule, editorMishaps>>
  BY DEF Editor!Open
<1>2. minted' \in Nat /\ minted <= minted' /\ file' \in 0..minted' /\ live' \in 0..minted'
  BY <1>1, TokensRest
<1>3. Grows /\ JobsInShape
  BY <1>1, <1>2, SameGrows, ShapeJobs
<1> PICK s \in Seq(Steps), port \in Ports \cup {0} :
           /\ TaskMoved("main") /\ job["main"].todo = <<>> /\ job'["main"].todo = s /\ job'["main"].at = "read"
           /\ job'["main"].tok = 0 /\ job'["main"].port = port
           /\ s[1] = <<"rule", p>> /\ s[2] = <<"settings", p>> /\ s[3] = <<"token", p>> /\ s[4] = <<"entry", p>>
           /\ Len(s) = 4 /\ Ordered("main", s) /\ Editor!Cloned(p)
  BY OpenIs
<1>4. \A i \in 1..Len(s) : Editor!Cloned(s[i][2])'
  <2>1. Editor!Cloned(p)'
    BY <1>3 DEF Grows
  <2>2. \A i \in 1..Len(s) : s[i][2] = p
    BY UpToFour
  <2> QED
    BY <2>1, <2>2
<1>5. JobsInShape'
  <2>1. "main" \in Editor!Tasks /\ 0 \in 0..minted'
    BY <1>2 DEF Editor!Tasks
  <2> QED
    BY <1>3, <1>4, <2>1, JobsBegin DEF TaskMoved
<1>6. /\ rule' \in [Repos -> Ports \cup {0, Editor!NoRule}] /\ \A q \in Repos : ~Editor!Cloned(q) => rule'[q] = rule[q]
      /\ editorMishaps' \subseteq Editor!MishapNames
  BY <1>1, ShapeTypes
<1> QED
  BY <1>1, <1>2, <1>5, <1>6, RestShape

\* mcp_rotate_token: a new token, in the file and in the listener.
LEMMA RotationIs ==
  ASSUME EditorShape, NEW t \in Editor!Rotations, Editor!BeginRotation(t)
  PROVE  /\ TaskMoved(t) /\ t \in Editor!Tasks /\ job[t].todo = <<>> /\ job'[t].todo = <<<<"list", Old>>>>
         /\ job'[t].at = "read" /\ job'[t].tok = minted'
         /\ minted' = minted + 1 /\ file' = minted' /\ live' = minted' /\ live # 0
         /\ UNCHANGED <<listed, slug, disk, rule, saves>>
         /\ editorMishaps \subseteq editorMishaps' /\ editorMishaps' \subseteq Editor!MishapNames
         /\ "twice" \notin editorMishaps' => \A u \in Editor!Rotations : job[u].todo = <<>>
         /\ "behind" \notin editorMishaps' => \A u \in Users : job[u].todo = <<>>
<1> PICK s : s = <<<<"list", Old>>>>
  OBVIOUS
<1>1. s \in Seq(Steps) /\ 0 \in Ports \cup {0} /\ t \in Editor!Tasks
  <2>1. Old \in Repos
    BY EditorGiven DEF Editor!EditorAssumption
  <2>2. <<"list", Old>> \in Steps
    BY <2>1 DEF Steps
  <2> QED
    BY <2>2 DEF Editor!Tasks
<1>2. minted \in Nat /\ editorMishaps \subseteq Editor!MishapNames
  BY ShapeTypes
<1>3. minted + 1 \in Nat
  BY <1>2
<1>4. /\ Editor!Begin(t, s, 0, minted + 1)
      /\ minted' = minted + 1 /\ file' = minted + 1 /\ live' = minted + 1 /\ live # 0
      /\ UNCHANGED <<listed, slug, disk, rule, saves>>
  BY DEF Editor!BeginRotation, Editor!Rotate
<1>5. /\ TaskMoved(t) /\ job[t].todo = <<>> /\ job'[t].todo = s /\ job'[t].at = "read" /\ job'[t].tok = minted + 1
  BY <1>1, <1>3, <1>4, BeginIs DEF TaskMoved
<1> PICK twice : twice = IF \E u \in Editor!Rotations : ~Editor!Idle(u) THEN {"twice"} ELSE {}
  OBVIOUS
<1> PICK behind : behind = IF \E u \in {"main", "tool"} : ~Editor!Idle(u) THEN {"behind"} ELSE {}
  OBVIOUS
<1>6. Editor!Happen(twice \cup behind)
  BY DEF Editor!BeginRotation
<1>7. editorMishaps' = editorMishaps \cup (twice \cup behind) /\ editorMishaps' \subseteq Editor!MishapNames
  BY <1>2, <1>6, HappenIs
<1>8. "twice" \notin editorMishaps' => \A u \in Editor!Rotations : job[u].todo = <<>>
  BY <1>7 DEF Editor!Idle
<1>9. "behind" \notin editorMishaps' => \A u \in Users : job[u].todo = <<>>
  BY <1>7 DEF Editor!Idle, Users
<1> QED
  BY <1>1, <1>4, <1>5, <1>7, <1>8, <1>9

LEMMA RotationShape ==
  ASSUME EditorShape, NEW t \in Editor!Rotations, Editor!BeginRotation(t)
  PROVE  EditorShape'
<1>1. /\ TaskMoved(t) /\ t \in Editor!Tasks /\ job'[t].todo = <<<<"list", Old>>>> /\ job'[t].at = "read" /\ job'[t].tok = minted'
      /\ minted' = minted + 1 /\ file' = minted' /\ live' = minted'
      /\ UNCHANGED <<listed, slug, disk, rule>> /\ editorMishaps' \subseteq Editor!MishapNames
  BY RotationIs
<1>2. minted' \in Nat /\ minted <= minted' /\ file' \in 0..minted' /\ live' \in 0..minted'
  BY <1>1, ShapeTypes
<1>3. Grows /\ JobsInShape
  BY <1>1, <1>2, SameGrows, ShapeJobs
<1> PICK s : s = <<<<"list", Old>>>>
  OBVIOUS
<1>4. Old \in Repos /\ <<"list", Old>> \in Steps
  BY EditorGiven DEF Editor!EditorAssumption, Steps
<1>5. s \in Seq(Steps) /\ Len(s) = 1 /\ s[1] = <<"list", Old>>
  BY <1>4
<1>6. Ordered(t, s)
  <2>1. \A i \in 2..Len(s) : FALSE
    BY <1>5
  <2>2. \A i \in 1..Len(s) : i = 1
    BY <1>5
  <2> QED
    BY <1>5, <2>1, <2>2 DEF Ordered, Users, Editor!Rotations
<1>7. Editor!Cloned(Old)
  BY DEF EditorShape
<1>8. \A i \in 1..Len(s) : Editor!Cloned(s[i][2])'
  BY <1>3, <1>4, <1>5, <1>7 DEF Grows
<1>9. JobsInShape'
  BY <1>1, <1>2, <1>3, <1>5, <1>6, <1>8, JobsBegin DEF TaskMoved
<1>10. /\ rule' \in [Repos -> Ports \cup {0, Editor!NoRule}] /\ \A q \in Repos : ~Editor!Cloned(q) => rule'[q] = rule[q]
  BY <1>1, ShapeTypes
<1> QED
  BY <1>1, <1>2, <1>9, <1>10, RestShape

\* A command or call that has neither a port nor a token yet.
LEMMA BeginPlain ==
  ASSUME EditorShape, NEW t \in Editor!Tasks, NEW s \in Seq(Steps), Editor!Begin(t, s, 0, 0)
  PROVE  /\ TaskMoved(t) /\ job[t].todo = <<>> /\ job'[t].todo = s /\ job'[t].at = "read" /\ job'[t].tok = 0
<1>1. job \in [Editor!Tasks -> EditorJobs] /\ job[t].todo = <<>>
  BY DEF EditorShape, EditorTypes, Editor!Begin, Editor!Idle
<1>2. PICK J : J = [Editor!NoJob EXCEPT !.todo = s, !.port = 0, !.tok = 0]
  OBVIOUS
<1>3. J \in EditorJobs /\ J.todo = s /\ J.at = "read" /\ J.tok = 0
  BY <1>2, NoJobIs DEF EditorJobs
<1>4. job' = [job EXCEPT ![t] = J]
  BY <1>2 DEF Editor!Begin
<1> QED
  BY <1>1, <1>3, <1>4 DEF OthersRest, TaskMoved

\* import: the clone has a name and a tree.
LEMMA ImportIs ==
  ASSUME EditorShape, NEW p \in Repos, Editor!Import(p)
  PROVE  /\ ~Editor!Cloned(p) /\ slug' = [slug EXCEPT ![p] = Editor!Slug(p, 0)]
         /\ \E M \in Texts : disk' = [disk EXCEPT ![p]["settings"] = M] /\ M.ours = {}
         /\ UNCHANGED <<file, live, minted, listed, rule, saves, editorMishaps>>
         /\ TaskMoved("main") /\ job["main"].todo = <<>> /\ job'["main"].at = "read" /\ job'["main"].tok = 0
         /\ \E s \in Seq(Steps) :
              /\ job'["main"].todo = s /\ Len(s) = 4 /\ Ordered("main", s)
              /\ s[1] = <<"slug", p>> /\ s[2] = <<"token", p>> /\ s[3] = <<"entry", p>> /\ s[4] = <<"add", p>>
<1> PICK s \in Seq(Steps) :
       /\ s[1] = <<"slug", p>> /\ s[2] = <<"token", p>> /\ s[3] = <<"entry", p>> /\ s[4] = <<"add", p>>
       /\ Len(s) = 4 /\ Ordered("main", s) /\ Editor!Begin("main", s, 0, 0)
  <2> PICK r : r = <<<<"slug", p>>>> \o Editor!Install(p) \o <<<<"add", p>>>>
    OBVIOUS
  <2> PICK o : o = "slug"
    OBVIOUS
  <2>1. o \in {"slug", "mark"} /\ r = <<<<o, p>>>> \o Editor!Install(p) \o <<<<"add", p>>>> /\ (o = "slug" <=> "main" = "main")
    OBVIOUS
  <2>2. /\ r[1] = <<"slug", p>> /\ r[2] = <<"token", p>> /\ r[3] = <<"entry", p>> /\ r[4] = <<"add", p>>
        /\ r \in Seq(Steps) /\ Len(r) = 4 /\ Ordered("main", r)
    BY <2>1, OrderedInstall
  <2>3. Editor!Begin("main", r, 0, 0)
    BY DEF Editor!Import
  <2> QED
    BY <2>2, <2>3, Zenon
<1>1. s \in Seq(Steps)
  OBVIOUS
<1>3. "main" \in Editor!Tasks
  BY DEF Editor!Tasks
<1>4. /\ TaskMoved("main") /\ job["main"].todo = <<>> /\ job'["main"].todo = s /\ job'["main"].at = "read"
      /\ job'["main"].tok = 0
  BY <1>1, <1>3, BeginPlain
<1>5. /\ ~Editor!Cloned(p) /\ slug' = [slug EXCEPT ![p] = Editor!Slug(p, 0)]
      /\ UNCHANGED <<file, live, minted, listed, rule, saves, editorMishaps>>
  BY DEF Editor!Import
<1>6. \E M \in Texts : disk' = [disk EXCEPT ![p]["settings"] = M] /\ M.ours = {}
  <2> PICK own \in BOOLEAN : disk' = [disk EXCEPT ![p]["settings"] = IF own THEN Editor!Whole(TRUE, {}) ELSE Editor!Absent]
    BY DEF Editor!Import
  <2> PICK M : M = IF own THEN Editor!Whole(TRUE, {}) ELSE Editor!Absent
    OBVIOUS
  <2>1. M \in Texts /\ M.ours = {}
    BY DEF Editor!Whole, Editor!Absent, Texts
  <2>2. disk' = [disk EXCEPT ![p]["settings"] = M]
    OBVIOUS
  <2> QED
    BY <2>1, <2>2, Zenon
<1>7. \E r \in Seq(Steps) :
              /\ job'["main"].todo = r /\ Len(r) = 4 /\ Ordered("main", r)
              /\ r[1] = <<"slug", p>> /\ r[2] = <<"token", p>> /\ r[3] = <<"entry", p>> /\ r[4] = <<"add", p>>
  BY <1>4, Zenon
<1> QED
  BY <1>4, <1>5, <1>6, <1>7

\* fork_project: the child has a name and a copy of the tree.
LEMMA ForkIs ==
  ASSUME EditorShape, NEW p \in Repos, NEW q \in Repos, Editor!Fork(p, q)
  PROVE  /\ ~Editor!Cloned(q) /\ p \in Editor!ToSet(listed) /\ slug' = [slug EXCEPT ![q] = Editor!Slug(q, 0)]
         /\ disk' = [disk EXCEPT ![q] = disk[p]] /\ rule' = [rule EXCEPT ![q] = rule[p]] /\ live # 0
         /\ UNCHANGED <<file, live, minted, listed, saves>>
         /\ editorMishaps \subseteq editorMishaps' /\ editorMishaps' \subseteq editorMishaps \cup {"race"}
         /\ editorMishaps' \subseteq Editor!MishapNames
         /\ "race" \notin editorMishaps' => \A t \in Editor!Tasks : job[t].todo # <<>> => job[t].todo[1][2] # p
         /\ TaskMoved("tool") /\ job["tool"].todo = <<>> /\ job'["tool"].at = "read" /\ job'["tool"].tok = 0
         /\ \E s \in Seq(Steps) :
              /\ job'["tool"].todo = s /\ Len(s) = 4 /\ Ordered("tool", s)
              /\ s[1] = <<"mark", q>> /\ s[2] = <<"token", q>> /\ s[3] = <<"entry", q>> /\ s[4] = <<"add", q>>
<1> PICK s \in Seq(Steps) :
       /\ s[1] = <<"mark", q>> /\ s[2] = <<"token", q>> /\ s[3] = <<"entry", q>> /\ s[4] = <<"add", q>>
       /\ Len(s) = 4 /\ Ordered("tool", s) /\ Editor!Begin("tool", s, 0, 0)
  <2> PICK r : r = <<<<"mark", q>>>> \o Editor!Install(q) \o <<<<"add", q>>>>
    OBVIOUS
  <2> PICK o : o = "mark"
    OBVIOUS
  <2>1. o \in {"slug", "mark"} /\ r = <<<<o, q>>>> \o Editor!Install(q) \o <<<<"add", q>>>> /\ (o = "slug" <=> "tool" = "main")
    OBVIOUS
  <2>2. /\ r[1] = <<"mark", q>> /\ r[2] = <<"token", q>> /\ r[3] = <<"entry", q>> /\ r[4] = <<"add", q>>
        /\ r \in Seq(Steps) /\ Len(r) = 4 /\ Ordered("tool", r)
    BY <2>1, OrderedInstall
  <2>3. Editor!Begin("tool", r, 0, 0)
    BY DEF Editor!Fork
  <2> QED
    BY <2>2, <2>3, Zenon
<1>1. s \in Seq(Steps)
  OBVIOUS
<1>3. "tool" \in Editor!Tasks
  BY DEF Editor!Tasks
<1>4. /\ TaskMoved("tool") /\ job["tool"].todo = <<>> /\ job'["tool"].todo = s /\ job'["tool"].at = "read"
      /\ job'["tool"].tok = 0
  BY <1>1, <1>3, BeginPlain
<1>5. /\ ~Editor!Cloned(q) /\ p \in Editor!ToSet(listed) /\ slug' = [slug EXCEPT ![q] = Editor!Slug(q, 0)]
      /\ disk' = [disk EXCEPT ![q] = disk[p]] /\ rule' = [rule EXCEPT ![q] = rule[p]] /\ live # 0
      /\ UNCHANGED <<file, live, minted, listed, saves>>
  BY DEF Editor!Fork
<1> PICK kinds : kinds = IF \E t \in Editor!Tasks : ~Editor!Idle(t) /\ Head(job[t].todo)[2] = p THEN {"race"} ELSE {}
  OBVIOUS
<1>6. editorMishaps' = editorMishaps \cup kinds /\ editorMishaps' \subseteq Editor!MishapNames
  <2>1. Editor!Happen(kinds) /\ editorMishaps \subseteq Editor!MishapNames
    BY ShapeTypes DEF Editor!Fork
  <2> QED
    BY <2>1, HappenIs
<1>7. "race" \notin editorMishaps' => \A t \in Editor!Tasks : job[t].todo # <<>> => job[t].todo[1][2] # p
  <2> SUFFICES ASSUME "race" \notin editorMishaps', NEW t \in Editor!Tasks, job[t].todo # <<>> PROVE job[t].todo[1][2] # p
    OBVIOUS
  <2>1. ~(~Editor!Idle(t) /\ Head(job[t].todo)[2] = p)
    BY <1>6
  <2>2. job[t].todo \in Seq(Steps)
    BY ShapeTypes DEF EditorJobs
  <2>3. Head(job[t].todo) = job[t].todo[1]
    BY <2>2, TailIs
  <2> QED
    BY <2>1, <2>3 DEF Editor!Idle
<1>8. \E r \in Seq(Steps) :
              /\ job'["tool"].todo = r /\ Len(r) = 4 /\ Ordered("tool", r)
              /\ r[1] = <<"mark", q>> /\ r[2] = <<"token", q>> /\ r[3] = <<"entry", q>> /\ r[4] = <<"add", q>>
  BY <1>4, Zenon
<1>9. editorMishaps \subseteq editorMishaps' /\ editorMishaps' \subseteq editorMishaps \cup {"race"}
  BY <1>6
<1> QED
  BY <1>4, <1>5, <1>6, <1>7, <1>8, <1>9

\* Both give a project a tree, and a task the rest.
LEMMA CloneShape ==
  ASSUME EditorShape, NEW q \in Repos, slug' = [slug EXCEPT ![q] = Editor!Slug(q, 0)],
         UNCHANGED <<file, live, minted, listed>>, NEW t \in Editor!Tasks, TaskMoved(t),
         NEW s \in Seq(Steps), job'[t].todo = s, Len(s) = 4, Ordered(t, s), \A i \in 1..4 : s[i][2] = q,
         job'[t].at = "read", job'[t].tok = 0,
         disk' \in [Repos -> [Editor!Kinds -> Texts]], rule' \in [Repos -> Ports \cup {0, Editor!NoRule}],
         \A p \in Repos : p # q => disk'[p] = disk[p] /\ rule'[p] = rule[p],
         \A k \in Editor!Kinds : Fits(disk'[q][k], k), editorMishaps' \subseteq Editor!MishapNames
  PROVE  EditorShape'
<1>1. minted' \in Nat /\ minted <= minted' /\ file' \in 0..minted' /\ live' \in 0..minted'
  BY TokensRest
<1>2. Grows /\ slug' \in [Repos -> Slugs] /\ Editor!Cloned(q)'
  <2> PICK M : M = Editor!Slug(q, 0)
    OBVIOUS
  <2>1. M \in Slugs /\ M # Editor!Slug("", 0)
    <3>1. 0 \in Nat
      OBVIOUS
    <3> QED
      BY <3>1, SlugClones, Zenon
  <2>2. slug' = [slug EXCEPT ![q] = M]
    OBVIOUS
  <2> QED
    BY <1>1, <2>1, <2>2, NamedGrows
<1>3. JobsInShape'
  <2>1. JobsInShape /\ 0 \in 0..minted'
    BY <1>1, ShapeJobs
  <2>2. \A i \in 1..Len(s) : Editor!Cloned(s[i][2])'
    BY <1>2
  <2> QED
    BY <1>2, <2>1, <2>2, JobsBegin DEF TaskMoved
<1>4. FilesFit'
  <2> SUFFICES ASSUME NEW p \in Repos, NEW k \in Editor!Kinds PROVE Fits(disk[p][k], k)'
    BY DEF FilesFit
  <2>1. CASE p = q
    BY <2>1 DEF Fits
  <2>2. CASE p # q
    <3>1. Fits(disk[p][k], k)
      BY DEF EditorShape, FilesFit
    <3> QED
      BY <2>2, <3>1 DEF Fits
  <2> QED
    BY <2>1, <2>2
<1>5. \A p \in Repos : ~Editor!Cloned(p)' => rule'[p] = rule[p] /\ disk'[p] = disk[p]
  BY <1>2
<1>6. (\A i \in 1..Len(listed) : Editor!Cloned(listed[i]))'
  <2>1. \A i \in 1..Len(listed) : listed[i] \in Repos /\ Editor!Cloned(listed[i])
    BY ShapeTypes
  <2>2. \A i \in 1..Len(listed) : slug'[listed[i]] # Editor!Slug("", 0)
    BY <1>2, <2>1 DEF Grows, Editor!Cloned, Editor!Slug
  <2> QED
    BY <2>2 DEF Editor!Cloned, Editor!Slug
<1>7. listed' \in Seq(Repos)
  BY ShapeTypes
<1> QED
  BY <1>1, <1>2, <1>3, <1>4, <1>5, <1>6, <1>7, ShapeMoves

LEMMA ImportShape ==
  ASSUME EditorShape, NEW p \in Repos, Editor!Import(p)
  PROVE  EditorShape'
<1> PICK M \in Texts : disk' = [disk EXCEPT ![p]["settings"] = M] /\ M.ours = {}
  BY ImportIs
<1> PICK s \in Seq(Steps) :
       /\ job'["main"].todo = s /\ Len(s) = 4 /\ Ordered("main", s)
       /\ s[1] = <<"slug", p>> /\ s[2] = <<"token", p>> /\ s[3] = <<"entry", p>> /\ s[4] = <<"add", p>>
  BY ImportIs
<1>1. /\ ~Editor!Cloned(p) /\ slug' = [slug EXCEPT ![p] = Editor!Slug(p, 0)]
      /\ UNCHANGED <<file, live, minted, listed, rule, editorMishaps>>
      /\ TaskMoved("main") /\ job'["main"].at = "read" /\ job'["main"].tok = 0
  BY ImportIs
<1>2. disk \in [Repos -> [Editor!Kinds -> Texts]] /\ "settings" \in Editor!Kinds /\ "main" \in Editor!Tasks
  BY ShapeTypes DEF Editor!Kinds, Editor!Tasks
<1>3. /\ disk' \in [Repos -> [Editor!Kinds -> Texts]] /\ disk'[p]["settings"] = M
      /\ \A q \in Repos, l \in Editor!Kinds : q # p \/ l # "settings" => disk'[q][l] = disk[q][l]
  BY <1>2, DiskPut
<1>4. \A q \in Repos : q # p => disk'[q] = disk[q]
  BY <1>2
<1>5. \A k \in Editor!Kinds : Fits(disk'[p][k], k)
  <2> TAKE k \in Editor!Kinds
  <2>1. Fits(disk[p][k], k)
    BY DEF EditorShape, FilesFit
  <2>2. CASE k = "settings"
    BY <1>3, <2>2 DEF Fits
  <2>3. CASE k # "settings"
    BY <1>3, <2>1, <2>3 DEF Fits
  <2> QED
    BY <2>2, <2>3
<1>6. \A i \in 1..4 : s[i][2] = p
  BY UpToFour
<1>7. /\ rule' \in [Repos -> Ports \cup {0, Editor!NoRule}] /\ editorMishaps' \subseteq Editor!MishapNames
  BY <1>1, ShapeTypes
<1>8. \A q \in Repos : q # p => disk'[q] = disk[q] /\ rule'[q] = rule[q]
  BY <1>1, <1>4
<1>9. job'["main"].todo = s /\ Len(s) = 4 /\ Ordered("main", s) /\ TaskMoved("main") /\ job'["main"].at = "read" /\ job'["main"].tok = 0
  BY <1>1
<1>10. UNCHANGED <<file, live, minted, listed>>
  BY <1>1
<1>11. slug' = [slug EXCEPT ![p] = Editor!Slug(p, 0)]
  BY <1>1
<1>12. "main" \in Editor!Tasks /\ disk' \in [Repos -> [Editor!Kinds -> Texts]]
  BY <1>2, <1>3
<1> QED
  BY <1>5, <1>6, <1>7, <1>8, <1>9, <1>10, <1>11, <1>12, CloneShape, ZenonT(60)

LEMMA ForkShape ==
  ASSUME EditorShape, NEW p \in Repos, NEW q \in Repos, Editor!Fork(p, q)
  PROVE  EditorShape'
<1> PICK s \in Seq(Steps) :
       /\ job'["tool"].todo = s /\ Len(s) = 4 /\ Ordered("tool", s)
       /\ s[1] = <<"mark", q>> /\ s[2] = <<"token", q>> /\ s[3] = <<"entry", q>> /\ s[4] = <<"add", q>>
  BY ForkIs
<1>1. /\ slug' = [slug EXCEPT ![q] = Editor!Slug(q, 0)]
      /\ disk' = [disk EXCEPT ![q] = disk[p]] /\ rule' = [rule EXCEPT ![q] = rule[p]]
      /\ UNCHANGED <<file, live, minted, listed>> /\ editorMishaps' \subseteq Editor!MishapNames
      /\ TaskMoved("tool") /\ job'["tool"].at = "read" /\ job'["tool"].tok = 0
  BY ForkIs
<1>2. /\ disk \in [Repos -> [Editor!Kinds -> Texts]] /\ "tool" \in Editor!Tasks
      /\ rule \in [Repos -> Ports \cup {0, Editor!NoRule}]
  BY ShapeTypes DEF Editor!Tasks
<1>3. /\ disk' \in [Repos -> [Editor!Kinds -> Texts]] /\ disk'[q] = disk[p]
      /\ \A r \in Repos : r # q => disk'[r] = disk[r] /\ rule'[r] = rule[r]
      /\ rule' \in [Repos -> Ports \cup {0, Editor!NoRule}]
  BY <1>1, <1>2
<1>4. \A k \in Editor!Kinds : Fits(disk'[q][k], k)
  BY <1>3 DEF EditorShape, FilesFit
<1>5. \A i \in 1..4 : s[i][2] = q
  BY UpToFour
<1>6. \A r \in Repos : r # q => disk'[r] = disk[r] /\ rule'[r] = rule[r]
  BY <1>3
<1>7. job'["tool"].todo = s /\ Len(s) = 4 /\ Ordered("tool", s) /\ TaskMoved("tool") /\ job'["tool"].at = "read" /\ job'["tool"].tok = 0
  BY <1>1
<1> QED
  BY <1>1, <1>2, <1>3, <1>4, <1>5, <1>6, <1>7, CloneShape, ZenonT(60)

-----------------------------------------------------------------------------
(* A project in the list has a slug of its own *)

\* The row of a task, with its items.
LEMMA RowIs ==
  ASSUME EditorShape, NEW t \in Editor!Tasks
  PROVE  /\ job[t] \in EditorJobs /\ job[t].todo \in Seq(Steps) /\ Len(job[t].todo) \in Nat
         /\ job[t].todo # <<>> => 1 \in 1..Len(job[t].todo)
         /\ \A i \in 1..Len(job[t].todo) : job[t].todo[i] \in Steps /\ Editor!Cloned(job[t].todo[i][2])
         /\ Ordered(t, job[t].todo)
<1> PICK s \in Seq(Steps) : s = job[t].todo
  BY ShapeTypes DEF EditorJobs
<1>1. Len(s) \in Nat /\ (s # <<>> => 1 \in 1..Len(s))
  BY TailIs
<1>2. \A i \in 1..Len(s) : s[i] \in Steps
  BY ElementOfSeq
<1>3. JobFits(t, job[t]) /\ job[t] \in EditorJobs
  BY ShapeTypes DEF EditorShape
<1> QED
  BY <1>1, <1>2, <1>3 DEF JobFits

\* A task that moves on has no more to do.
LEMMA LeftIs ==
  ASSUME EditorShape, NEW t \in Editor!Tasks, TaskMoved(t), Advances(t) \/ Proceeds(t) \/ Skips(t)
  PROVE  \A i \in 1..Len(job'[t].todo) : \E n \in 1..Len(job[t].todo) : job'[t].todo[i] = job[t].todo[n]
<1> PICK s \in Seq(Steps) : s = job[t].todo
  BY RowIs
<1> PICK r : r = job'[t].todo
  OBVIOUS
<1>1. CASE Advances(t)
  <2>1. s # <<>> /\ r = Tail(s)
    BY <1>1 DEF Advances
  <2>2. Len(s) \in Nat \ {0} /\ Len(r) = Len(s) - 1 /\ \A i \in 1..Len(r) : r[i] = s[i + 1]
    BY <2>1, TailIs
  <2>3. \A i \in 1..Len(r) : i + 1 \in 1..Len(s)
    BY <2>2
  <2> QED
    BY <2>2, <2>3
<1>2. CASE Proceeds(t)
  BY <1>2 DEF Proceeds
<1>3. CASE Skips(t)
  <2> PICK q \in Seq(Steps) : q = Tail(s)
    BY <1>3, TailIs DEF Skips
  <2>1. s # <<>> /\ q # <<>> /\ r = Tail(q)
    BY <1>3 DEF Skips
  <2>2. Len(s) \in Nat \ {0} /\ Len(q) = Len(s) - 1 /\ \A i \in 1..Len(q) : q[i] = s[i + 1]
    BY <2>1, TailIs
  <2>3. Len(r) = Len(q) - 1 /\ \A i \in 1..Len(r) : r[i] = q[i + 1]
    <3>1. Len(Tail(q)) = Len(q) - 1 /\ \A i \in 1..Len(Tail(q)) : Tail(q)[i] = q[i + 1]
      BY <2>1, TailIs, Zenon
    <3> QED
      BY <2>1, <3>1, Zenon
  <2>4. \A i \in 1..Len(r) : (i + 1) \in 1..Len(q) /\ (i + 1) + 1 \in 1..Len(s)
    BY <2>2, <2>3
  <2>5. \A i \in 1..Len(r) : r[i] = s[(i + 1) + 1]
    BY <2>2, <2>3, <2>4
  <2> QED
    BY <2>4, <2>5
<1> QED
  BY <1>1, <1>2, <1>3

\* Names and list as they were, and no one to be added who was not.
LEMMA SlugKept ==
  ASSUME SlugInv, UNCHANGED <<slug, listed>>,
         \A p \in Repos, t \in Users : Adding(t, p)' => Adding(t, p) /\ (Unnamed(t) => Unnamed(t)')
  PROVE  SlugInv'
<1>1. (\A i \in 1..Len(listed) : slug[listed[i]][1] = "s" \/ slug[listed[i]] = Editor!Slug(listed[i], 1))'
  BY DEF SlugInv, Editor!Slug
<1>2. (\A i, n \in 1..Len(listed) : listed[i] # listed[n] => slug[listed[i]] # slug[listed[n]])'
  BY DEF SlugInv
<1>3. "main" \in Users /\ "tool" \in Users
  BY DEF Users
<1>4. \A p \in Repos, t \in Users : Adding(t, p)' => \A i \in 1..Len(listed) : listed[i] # p
  BY DEF SlugInv
<1>5. \A p \in Repos : ~(Adding("main", p)' /\ Adding("tool", p)')
  BY <1>3 DEF SlugInv
<1>6. \A p \in Repos : Adding("main", p)' /\ ~Unnamed("main")' =>
        slug[p][1] = "s" /\ \A i \in 1..Len(listed) : slug[listed[i]] # slug[p]
  BY <1>3 DEF SlugInv
<1>7. \A p \in Repos : Adding("tool", p)' /\ ~Unnamed("tool")' => slug[p] = Editor!Slug(p, 1)
  BY <1>3 DEF SlugInv
<1>8. listed' = listed /\ slug' = slug
  OBVIOUS
<1> HIDE DEF Adding, Unnamed
<1> QED
  BY <1>1, <1>2, <1>4, <1>5, <1>6, <1>7, <1>8 DEF SlugInv, Editor!Slug

\* A task at any other step.
LEMMA SlugMoves ==
  ASSUME EditorShape, SlugInv, UNCHANGED <<slug, listed>>, NEW t \in Editor!Tasks, TaskMoved(t),
         NEW op, op \notin {"slug", "mark"}, NEW p, AtStep(t, op, p), Advances(t) \/ Proceeds(t) \/ Skips(t)
  PROVE  SlugInv'
<1>1. ~Unnamed(t)
  BY DEF AtStep, Unnamed
<1>2. \A q \in Repos : Adding(t, q)' => Adding(t, q)
  BY LeftIs DEF Adding
<1>3. \A u \in Users : u # t => u \in Editor!Tasks /\ job'[u] = job[u]
  BY DEF Users, Editor!Tasks, TaskMoved, OthersRest
<1>4. \A q \in Repos, u \in Users : Adding(u, q)' => Adding(u, q) /\ (Unnamed(u) => Unnamed(u)')
  <2> TAKE q \in Repos, u \in Users
  <2>1. CASE u = t
    BY <1>1, <1>2, <2>1
  <2>2. CASE u # t
    BY <1>3, <2>2 DEF Adding, Unnamed
  <2> QED
    BY <2>1, <2>2
<1> QED
  BY <1>4, SlugKept

\* Nobody moves.
LEMMA SlugRests ==
  ASSUME SlugInv, UNCHANGED <<slug, listed, job>>
  PROVE  SlugInv'
<1>1. \A p \in Repos, t \in Users : Adding(t, p)' => Adding(t, p) /\ (Unnamed(t) => Unnamed(t)')
  BY DEF Adding, Unnamed
<1> QED
  BY <1>1, SlugKept

\* A row with nothing to add.
LEMMA SlugPlain ==
  ASSUME EditorShape, SlugInv, UNCHANGED <<slug, listed>>, NEW t \in Editor!Tasks, TaskMoved(t), \A p \in Repos : ~Adding(t, p)'
  PROVE  SlugInv'
<1>1. \A u \in Users : u # t => u \in Editor!Tasks /\ job'[u] = job[u]
  BY DEF Users, Editor!Tasks, TaskMoved, OthersRest
<1>2. \A q \in Repos, u \in Users : Adding(u, q)' => Adding(u, q) /\ (Unnamed(u) => Unnamed(u)')
  <2> TAKE q \in Repos, u \in Users
  <2>1. CASE u = t
    BY <2>1
  <2>2. CASE u # t
    BY <1>1, <2>2 DEF Adding, Unnamed
  <2> QED
    BY <2>1, <2>2
<1> QED
  BY <1>2, SlugKept

\* Who is to be added has a tree.
LEMMA AddingCloned ==
  ASSUME EditorShape, NEW t \in Editor!Tasks, NEW p, Adding(t, p)
  PROVE  Editor!Cloned(p) /\ (t \in Users => job[t].todo[1][2] = p)
<1> PICK i \in 1..Len(job[t].todo) : job[t].todo[i] = <<"add", p>>
  BY DEF Adding
<1>1. Editor!Cloned(job[t].todo[i][2]) /\ Ordered(t, job[t].todo)
  BY RowIs
<1>2. job[t].todo[i][2] = p
  OBVIOUS
<1>3. t \in Users => job[t].todo[i][2] = job[t].todo[1][2]
  BY <1>1 DEF Ordered
<1> QED
  BY <1>1, <1>2, <1>3

\* A name before the tree is in the list.
LEMMA SlugImport ==
  ASSUME EditorShape, SlugInv, NEW t \in Users, NEW q \in Repos, ~Editor!Cloned(q), UNCHANGED listed,
         slug' = [slug EXCEPT ![q] = Editor!Slug(q, 0)], TaskMoved(t), NEW s \in Seq(Steps), job'[t].todo = s, s # <<>>,
         s[1][1] \in {"slug", "mark"}, \A i \in 1..Len(s) : s[i][1] = "add" => s[i][2] = q
  PROVE  SlugInv'
<1>1. t \in Editor!Tasks /\ \A u \in Users : u # t => u \in Editor!Tasks /\ job'[u] = job[u]
  BY DEF Users, Editor!Tasks, TaskMoved, OthersRest
<1>2. Unnamed(t)' /\ \A p \in Repos : Adding(t, p)' => p = q
  BY DEF Unnamed, Adding
<1>3. \A i \in 1..Len(listed) : listed[i] \in Repos /\ listed[i] # q /\ slug'[listed[i]] = slug[listed[i]]
  BY ShapeTypes
<1>4. \A p \in Repos, u \in Users : u # t => /\ Adding(u, p)' <=> Adding(u, p)
                                             /\ Unnamed(u)' <=> Unnamed(u)
                                             /\ Adding(u, p) => p # q /\ slug'[p] = slug[p]
  <2> TAKE p \in Repos, u \in Users
  <2> SUFFICES ASSUME u # t PROVE /\ Adding(u, p)' <=> Adding(u, p)
                                  /\ Unnamed(u)' <=> Unnamed(u)
                                  /\ Adding(u, p) => p # q /\ slug'[p] = slug[p]
    OBVIOUS
  <2>1. (Adding(u, p)' <=> Adding(u, p)) /\ (Unnamed(u)' <=> Unnamed(u))
    BY <1>1 DEF Adding, Unnamed
  <2>2. Adding(u, p) => p # q
    BY <1>1, AddingCloned
  <2>3. p # q => slug'[p] = slug[p]
    BY ShapeTypes
  <2> QED
    BY <2>1, <2>2, <2>3
<1>5. listed' = listed
  OBVIOUS
<1>6. \A i \in 1..Len(listed) : slug'[listed[i]][1] = "s" \/ slug'[listed[i]] = Editor!Slug(listed[i], 1)
  BY <1>3 DEF SlugInv
<1>7. \A i, n \in 1..Len(listed) : listed[i] # listed[n] => slug'[listed[i]] # slug'[listed[n]]
  BY <1>3 DEF SlugInv
<1>8. \A p \in Repos, u \in Users : Adding(u, p)' => \A i \in 1..Len(listed) : listed[i] # p
  <2> TAKE p \in Repos, u \in Users
  <2>1. CASE u = t
    BY <1>2, <1>3, <2>1
  <2>2. CASE u # t
    BY <1>4, <2>2 DEF SlugInv
  <2> QED
    BY <2>1, <2>2
<1>9. \A p \in Repos : ~(Adding("main", p)' /\ Adding("tool", p)')
  <2>1. \A u \in Users : u # t => ~Adding(u, q)'
    BY <1>4
  <2>2. {"main", "tool"} = Users /\ (t = "main" \/ t = "tool")
    BY DEF Users
  <2> QED
    BY <1>2, <2>1, <2>2
<1>10. \A p \in Repos : Adding("main", p)' /\ ~Unnamed("main")' =>
         slug'[p][1] = "s" /\ \A i \in 1..Len(listed) : slug'[listed[i]] # slug'[p]
  <2> SUFFICES ASSUME NEW p \in Repos, Adding("main", p)', ~Unnamed("main")'
               PROVE  slug'[p][1] = "s" /\ \A i \in 1..Len(listed) : slug'[listed[i]] # slug'[p]
    OBVIOUS
  <2>1. "main" \in Users /\ t # "main"
    BY <1>2 DEF Users
  <2>2. Adding("main", p) /\ ~Unnamed("main") /\ slug'[p] = slug[p]
    BY <1>4, <2>1
  <2>3. slug[p][1] = "s" /\ \A i \in 1..Len(listed) : slug[listed[i]] # slug[p]
    BY <2>2 DEF SlugInv
  <2> QED
    BY <1>3, <2>2, <2>3
<1>11. \A p \in Repos : Adding("tool", p)' /\ ~Unnamed("tool")' => slug'[p] = Editor!Slug(p, 1)
  <2> SUFFICES ASSUME NEW p \in Repos, Adding("tool", p)', ~Unnamed("tool")' PROVE slug'[p] = Editor!Slug(p, 1)
    OBVIOUS
  <2>1. "tool" \in Users /\ t # "tool"
    BY <1>2 DEF Users
  <2>2. Adding("tool", p) /\ ~Unnamed("tool") /\ slug'[p] = slug[p]
    BY <1>4, <2>1
  <2> QED
    BY <2>2 DEF SlugInv
<1>12. (\A i \in 1..Len(listed) : slug[listed[i]][1] = "s" \/ slug[listed[i]] = Editor!Slug(listed[i], 1))'
  BY <1>5, <1>6 DEF Editor!Slug
<1>13. (\A i, n \in 1..Len(listed) : listed[i] # listed[n] => slug[listed[i]] # slug[listed[n]])'
  BY <1>5, <1>7
<1>14. (\A p \in Repos, u \in Users : Adding(u, p) => \A i \in 1..Len(listed) : listed[i] # p)'
  BY <1>5, <1>8
<1>15. (\A p \in Repos : Adding("main", p) /\ ~Unnamed("main") =>
          slug[p][1] = "s" /\ \A i \in 1..Len(listed) : slug[listed[i]] # slug[p])'
  BY <1>5, <1>10
<1>16. (\A p \in Repos : Adding("tool", p) /\ ~Unnamed("tool") => slug[p] = Editor!Slug(p, 1))'
  BY <1>11 DEF Editor!Slug
<1> QED
  BY <1>9, <1>12, <1>13, <1>14, <1>15, <1>16 DEF SlugInv

\* Whoever names a project is to add it.
LEMMA NamerAdds ==
  ASSUME EditorShape, NEW t \in Editor!Tasks, NEW p \in Repos, NEW op \in {"slug", "mark"}, AtStep(t, op, p)
  PROVE  t = (IF op = "slug" THEN "main" ELSE "tool") /\ t \in Users /\ Adding(t, p)
<1> PICK s \in Seq(Steps) : s = job[t].todo
  BY RowIs
<1>1. 1 \in 1..Len(s) /\ s[1] = <<op, p>> /\ Ordered(t, s) /\ \A i \in 1..Len(s) : s[i] \in Steps
  BY RowIs DEF AtStep
<1>2. s[1][1] = op /\ s[1][2] = p
  BY <1>1
<1>3. t = (IF op = "slug" THEN "main" ELSE "tool") /\ t \in Users
  BY <1>1, <1>2 DEF Ordered, Users
<1>4. PICK n \in 1..Len(s) : s[n][1] = "add"
  BY <1>1, <1>2 DEF Ordered
<1>5. s[n][2] = p /\ s[n] \in Steps
  BY <1>1, <1>2, <1>3, <1>4 DEF Ordered
<1>6. s[n] = <<"add", p>>
  BY <1>4, <1>5 DEF Steps
<1> QED
  BY <1>3, <1>6 DEF Adding

\* derive_slug_unique and fork_project: the name it gets.
LEMMA SlugNamed ==
  ASSUME EditorShape, SlugInv, NEW t \in Editor!Tasks, NEW p \in Repos, Editor!Name(t, p)
  PROVE  SlugInv'
<1>1. TaskMoved(t) /\ Advances(t) /\ listed' = listed
  BY NameIs DEF Editor!Name
<1>2. t \in Users /\ Adding(t, p)
  BY NameIs, NamerAdds
<1>3. \A u \in Users : u # t => u \in Editor!Tasks /\ job'[u] = job[u]
  BY <1>1, <1>2 DEF Users, Editor!Tasks, TaskMoved, OthersRest
<1>4. \A q \in Repos : Adding(t, q)' => Adding(t, q) /\ q = p
  <2>1. \A q \in Repos : Adding(t, q)' => Adding(t, q)
    BY <1>1, LeftIs DEF Adding
  <2>2. \A q \in Repos : Adding(t, q) => q = p
    <3>1. job[t].todo[1][2] = p
      BY <1>2, AddingCloned
    <3> QED
      BY <1>2, <3>1, AddingCloned
  <2> QED
    BY <2>1, <2>2
<1>5. \A i \in 1..Len(listed) : listed[i] \in Repos /\ listed[i] # p
  BY <1>2, ShapeTypes DEF SlugInv
<1>6. \E M \in Slugs : /\ slug' = [slug EXCEPT ![p] = M]
                       /\ t = "main" => M[1] = "s" /\ \A i \in 1..Len(listed) : slug[listed[i]] # M
                       /\ t = "tool" => M = Editor!Slug(p, 1)
  <2>1. CASE AtStep(t, "slug", p) /\ slug' = [slug EXCEPT ![p] = Editor!Derive]
    <3> PICK n \in Nat : Editor!Derive = Editor!Slug("s", n) /\ \A i \in 1..Len(listed) : slug[listed[i]] # Editor!Slug("s", n)
      BY DeriveIs
    <3> PICK M : M = Editor!Slug("s", n)
      OBVIOUS
    <3>1. M \in Slugs /\ M[1] = "s" /\ \A i \in 1..Len(listed) : slug[listed[i]] # M
      BY SlugClones DEF Editor!Slug
    <3>2. slug' = [slug EXCEPT ![p] = M]
      BY <2>1
    <3>3. t = "main"
      BY <2>1, NamerAdds
    <3>4. t # "tool"
      BY <3>3
    <3> QED
      BY <3>1, <3>2, <3>4, Zenon
  <2>2. CASE AtStep(t, "mark", p) /\ slug' = [slug EXCEPT ![p] = Editor!Slug(p, 1)]
    <3> PICK M : M = Editor!Slug(p, 1)
      OBVIOUS
    <3>1. M \in Slugs
      BY SlugClones
    <3>2. slug' = [slug EXCEPT ![p] = M]
      BY <2>2
    <3>3. t = "tool"
      BY <2>2, NamerAdds
    <3>4. t # "main"
      BY <3>3
    <3> QED
      BY <3>1, <3>2, <3>4, Zenon
  <2> QED
    BY <2>1, <2>2, NameIs
<1> PICK M \in Slugs : /\ slug' = [slug EXCEPT ![p] = M]
                       /\ t = "main" => M[1] = "s" /\ \A i \in 1..Len(listed) : slug[listed[i]] # M
                       /\ t = "tool" => M = Editor!Slug(p, 1)
  BY <1>6
<1>7. slug'[p] = M /\ \A q \in Repos : q # p => slug'[q] = slug[q]
  BY ShapeTypes
<1>8. \A u \in Users, q \in Repos : u # t => /\ Adding(u, q)' <=> Adding(u, q)
                                             /\ Unnamed(u)' <=> Unnamed(u)
                                             /\ Adding(u, q) => q # p /\ slug'[q] = slug[q]
  <2> SUFFICES ASSUME NEW u \in Users, NEW q \in Repos, u # t
               PROVE  /\ Adding(u, q)' <=> Adding(u, q)
                      /\ Unnamed(u)' <=> Unnamed(u)
                      /\ Adding(u, q) => q # p /\ slug'[q] = slug[q]
    OBVIOUS
  <2>1. (Adding(u, q)' <=> Adding(u, q)) /\ (Unnamed(u)' <=> Unnamed(u))
    BY <1>3 DEF Adding, Unnamed
  <2>2. ~(Adding("main", p) /\ Adding("tool", p)) /\ u \in {"main", "tool"} /\ t \in {"main", "tool"}
    BY <1>2 DEF SlugInv, Users
  <2>3. ~Adding(u, p)
    BY <1>2, <2>2
  <2> QED
    BY <1>7, <2>1, <2>3
<1>9. \A i \in 1..Len(listed) : slug'[listed[i]] = slug[listed[i]]
  BY <1>5, <1>7
<1>10. (\A i \in 1..Len(listed) : slug[listed[i]][1] = "s" \/ slug[listed[i]] = Editor!Slug(listed[i], 1))'
  <2>1. \A i \in 1..Len(listed) : slug'[listed[i]][1] = "s" \/ slug'[listed[i]] = Editor!Slug(listed[i], 1)
    BY <1>9 DEF SlugInv
  <2> QED
    BY <1>1, <2>1 DEF Editor!Slug
<1>11. (\A i, n \in 1..Len(listed) : listed[i] # listed[n] => slug[listed[i]] # slug[listed[n]])'
  BY <1>1, <1>9 DEF SlugInv
<1>12. (\A q \in Repos, u \in Users : Adding(u, q) => \A i \in 1..Len(listed) : listed[i] # q)'
  <2>1. \A q \in Repos, u \in Users : Adding(u, q)' => \A i \in 1..Len(listed) : listed[i] # q
    BY <1>4, <1>5, <1>8 DEF SlugInv
  <2> QED
    BY <1>1, <2>1
<1>13. \A q \in Repos : ~(Adding("main", q)' /\ Adding("tool", q)')
  <2> SUFFICES ASSUME NEW q \in Repos, Adding("main", q)', Adding("tool", q)' PROVE FALSE
    OBVIOUS
  <2>1. "main" \in Users /\ "tool" \in Users
    BY DEF Users
  <2>2. Adding("main", q) /\ Adding("tool", q)
    BY <1>4, <1>8, <2>1
  <2> QED
    BY <2>2 DEF SlugInv
<1>14. (\A q \in Repos : Adding("main", q) /\ ~Unnamed("main") =>
          slug[q][1] = "s" /\ \A i \in 1..Len(listed) : slug[listed[i]] # slug[q])'
  <2> SUFFICES ASSUME NEW q \in Repos, Adding("main", q)', ~Unnamed("main")'
               PROVE  slug'[q][1] = "s" /\ \A i \in 1..Len(listed) : slug'[listed[i]] # slug'[q]
    BY <1>1
  <2>1. CASE t = "main"
    BY <1>4, <1>7, <1>9, <2>1
  <2>2. CASE t # "main"
    <3>1. "main" \in Users
      BY DEF Users
    <3>2. Adding("main", q) /\ ~Unnamed("main") /\ slug'[q] = slug[q]
      BY <1>8, <2>2, <3>1
    <3>3. slug[q][1] = "s" /\ \A i \in 1..Len(listed) : slug[listed[i]] # slug[q]
      BY <3>2 DEF SlugInv
    <3> QED
      BY <1>9, <3>2, <3>3
  <2> QED
    BY <2>1, <2>2
<1>15. (\A q \in Repos : Adding("tool", q) /\ ~Unnamed("tool") => slug[q] = Editor!Slug(q, 1))'
  <2> SUFFICES ASSUME NEW q \in Repos, Adding("tool", q)', ~Unnamed("tool")' PROVE slug'[q] = Editor!Slug(q, 1)
    BY DEF Editor!Slug
  <2>1. CASE t = "tool"
    BY <1>4, <1>7, <2>1
  <2>2. CASE t # "tool"
    <3>1. "tool" \in Users
      BY DEF Users
    <3>2. Adding("tool", q) /\ ~Unnamed("tool") /\ slug'[q] = slug[q]
      BY <1>8, <2>2, <3>1
    <3> QED
      BY <3>2 DEF SlugInv
  <2> QED
    BY <2>1, <2>2
<1> HIDE DEF Adding, Unnamed
<1> QED
  BY <1>10, <1>11, <1>12, <1>13, <1>14, <1>15 DEF SlugInv

\* Whoever adds a project has nothing more to do.
LEMMA AddsLast ==
  ASSUME EditorShape, NEW t \in Editor!Tasks, NEW p \in Repos, AtStep(t, "add", p), Advances(t)
  PROVE  t \in Users /\ Adding(t, p) /\ ~Unnamed(t) /\ job'[t].todo = <<>> /\ \A q : ~Adding(t, q)'
<1> PICK s \in Seq(Steps) : s = job[t].todo
  BY RowIs
<1>1. 1 \in 1..Len(s) /\ s[1] = <<"add", p>> /\ Ordered(t, s) /\ s # <<>>
  BY RowIs DEF AtStep
<1>2. s[1][1] = "add"
  BY <1>1
<1>3. t \notin Editor!Rotations /\ Len(s) = 1
  BY <1>1, <1>2 DEF Ordered
<1>4. t \in Users
  BY <1>3 DEF Users, Editor!Tasks
<1>5. Adding(t, p) /\ ~Unnamed(t)
  BY <1>1, <1>2 DEF Adding, Unnamed
<1>6. job'[t].todo = <<>>
  <2>1. Tail(s) = <<>>
    BY <1>1, <1>3, TailIs
  <2> QED
    BY <2>1 DEF Advances
<1>7. \A q : ~Adding(t, q)'
  <2>1. Len(<<>>) = 0 /\ 1..0 = {}
    OBVIOUS
  <2> QED
    BY <1>6, <2>1 DEF Adding
<1> QED
  BY <1>4, <1>5, <1>6, <1>7

\* The list is longer by the project that is added.
LEMMA AppendIs ==
  ASSUME EditorShape, NEW p \in Repos, listed' = Append(listed, p)
  PROVE  /\ Len(listed') = Len(listed) + 1 /\ Len(listed) \in Nat /\ listed'[Len(listed) + 1] = p
         /\ \A i \in 1..Len(listed) : listed'[i] = listed[i]
         /\ \A i \in 1..Len(listed') : i \in 1..Len(listed) \/ (i = Len(listed) + 1 /\ listed'[i] = p)
         /\ Len(listed) + 1 \in 1..Len(listed')
<1> PICK l \in Seq(Repos) : l = listed
  BY ShapeTypes
<1>1. /\ Len(l) \in Nat /\ Len(Append(l, p)) = Len(l) + 1
      /\ \A i \in 1..Len(l) : Append(l, p)[i] = l[i] /\ Append(l, p)[Len(l) + 1] = p
      /\ Append(l, p)[Len(l) + 1] = p
  BY AppendProperties
<1>2. \A i \in 1..(Len(l) + 1) : i \in 1..Len(l) \/ i = Len(l) + 1
  BY <1>1
<1>3. Len(l) + 1 \in 1..(Len(l) + 1)
  BY <1>1
<1> QED
  BY <1>1, <1>2, <1>3

\* add: the name of the project is no other's in the list.
LEMMA SlugAdded ==
  ASSUME EditorShape, SlugInv, NEW t \in Editor!Tasks, NEW p \in Repos, Editor!Add(t, p)
  PROVE  SlugInv'
<1>1. TaskMoved(t) /\ Advances(t) /\ AtStep(t, "add", p) /\ listed' = Append(listed, p) /\ slug' = slug
  BY AddIs DEF Editor!Add
<1>2. t \in Users /\ Adding(t, p) /\ ~Unnamed(t) /\ \A q : ~Adding(t, q)'
  BY <1>1, AddsLast
<1>3. \A u \in Users : u # t => u \in Editor!Tasks /\ job'[u] = job[u]
  BY <1>1, <1>2 DEF Users, Editor!Tasks, TaskMoved, OthersRest
<1>4. /\ Len(listed') = Len(listed) + 1 /\ Len(listed) \in Nat /\ listed'[Len(listed) + 1] = p
      /\ \A i \in 1..Len(listed) : listed'[i] = listed[i]
      /\ \A i \in 1..Len(listed') : i \in 1..Len(listed) \/ (i = Len(listed) + 1 /\ listed'[i] = p)
  BY <1>1, AppendIs
<1>5. \A i \in 1..Len(listed) : listed[i] # p /\ listed[i] \in Repos
  BY <1>2, ShapeTypes DEF SlugInv
<1>6. p # "s"
  BY EditorGiven DEF Editor!EditorAssumption
<1>7. slug[p][1] = "s" \/ slug[p] = Editor!Slug(p, 1)
  BY <1>2 DEF SlugInv, Users
<1>8. \A i \in 1..Len(listed) : slug[listed[i]] # slug[p]
  <2>1. CASE t = "main"
    BY <1>2, <2>1 DEF SlugInv
  <2>2. CASE t = "tool"
    <3>1. slug[p] = Editor!Slug(p, 1)
      BY <1>2, <2>2 DEF SlugInv
    <3>2. slug[p][1] = p
      BY <3>1 DEF Editor!Slug
    <3> TAKE i \in 1..Len(listed)
    <3>3. slug[listed[i]][1] = "s" \/ slug[listed[i]] = Editor!Slug(listed[i], 1)
      BY DEF SlugInv
    <3>4. slug[listed[i]][1] = "s" \/ slug[listed[i]][1] = listed[i]
      BY <3>3 DEF Editor!Slug
    <3> QED
      BY <1>5, <1>6, <3>2, <3>4
  <2> QED
    BY <1>2, <2>1, <2>2 DEF Users
<1>9. \A u \in Users, q \in Repos : u # t => /\ Adding(u, q)' <=> Adding(u, q)
                                             /\ Unnamed(u)' <=> Unnamed(u)
                                             /\ Adding(u, q) => q # p
  <2> SUFFICES ASSUME NEW u \in Users, NEW q \in Repos, u # t
               PROVE  /\ Adding(u, q)' <=> Adding(u, q)
                      /\ Unnamed(u)' <=> Unnamed(u)
                      /\ Adding(u, q) => q # p
    OBVIOUS
  <2>1. (Adding(u, q)' <=> Adding(u, q)) /\ (Unnamed(u)' <=> Unnamed(u))
    BY <1>3 DEF Adding, Unnamed
  <2>2. ~(Adding("main", p) /\ Adding("tool", p)) /\ u \in {"main", "tool"} /\ t \in {"main", "tool"}
    BY <1>2 DEF SlugInv, Users
  <2>3. ~Adding(u, p)
    BY <1>2, <2>2
  <2> QED
    BY <2>1, <2>3
<1> HIDE DEF Adding, Unnamed
<1>10. (\A i \in 1..Len(listed) : slug[listed[i]][1] = "s" \/ slug[listed[i]] = Editor!Slug(listed[i], 1))'
  <2> SUFFICES ASSUME NEW i \in 1..Len(listed') PROVE slug[listed'[i]][1] = "s" \/ slug[listed'[i]] = Editor!Slug(listed'[i], 1)
    BY <1>1 DEF Editor!Slug
  <2>1. CASE i \in 1..Len(listed)
    BY <1>4, <2>1 DEF SlugInv
  <2>2. CASE listed'[i] = p
    BY <1>7, <2>2
  <2> QED
    BY <1>4, <2>1, <2>2
<1>11. (\A i, n \in 1..Len(listed) : listed[i] # listed[n] => slug[listed[i]] # slug[listed[n]])'
  <2> SUFFICES ASSUME NEW i \in 1..Len(listed'), NEW n \in 1..Len(listed'), listed'[i] # listed'[n]
               PROVE  slug[listed'[i]] # slug[listed'[n]]
    BY <1>1
  <2>1. CASE i \in 1..Len(listed) /\ n \in 1..Len(listed)
    BY <1>4, <2>1 DEF SlugInv
  <2>2. CASE i \in 1..Len(listed) /\ listed'[n] = p
    BY <1>4, <1>8, <2>2
  <2>3. CASE listed'[i] = p /\ n \in 1..Len(listed)
    BY <1>4, <1>8, <2>3
  <2> QED
    BY <1>4, <2>1, <2>2, <2>3
<1>12. (\A q \in Repos, u \in Users : Adding(u, q) => \A i \in 1..Len(listed) : listed[i] # q)'
  <2> SUFFICES ASSUME NEW q \in Repos, NEW u \in Users, Adding(u, q)', NEW i \in 1..Len(listed') PROVE listed'[i] # q
    OBVIOUS
  <2>1. u # t /\ Adding(u, q) /\ q # p
    BY <1>2, <1>9
  <2>2. \A n \in 1..Len(listed) : listed[n] # q
    BY <2>1 DEF SlugInv
  <2> QED
    BY <1>4, <2>1, <2>2
<1>13. \A q \in Repos : ~(Adding("main", q)' /\ Adding("tool", q)')
  BY <1>2 DEF Users
<1>14. (\A q \in Repos : Adding("main", q) /\ ~Unnamed("main") =>
          slug[q][1] = "s" /\ \A i \in 1..Len(listed) : slug[listed[i]] # slug[q])'
  <2> SUFFICES ASSUME NEW q \in Repos, Adding("main", q)', ~Unnamed("main")'
               PROVE  slug[q][1] = "s" /\ \A i \in 1..Len(listed') : slug[listed'[i]] # slug[q]
    BY <1>1
  <2>1. "main" \in Users /\ t # "main"
    BY <1>2 DEF Users
  <2>2. Adding("main", q) /\ ~Unnamed("main") /\ q # p
    BY <1>9, <2>1
  <2>3. slug[q][1] = "s" /\ \A i \in 1..Len(listed) : slug[listed[i]] # slug[q]
    BY <2>2 DEF SlugInv
  <2>4. slug[p] # slug[q]
    <3>1. t = "tool"
      BY <1>2, <2>1 DEF Users
    <3>2. slug[p] = Editor!Slug(p, 1)
      BY <1>2, <3>1 DEF SlugInv
    <3>3. slug[p][1] = p
      BY <3>2 DEF Editor!Slug
    <3> QED
      BY <1>6, <2>3, <3>3
  <2> QED
    BY <1>4, <2>3, <2>4
<1>15. (\A q \in Repos : Adding("tool", q) /\ ~Unnamed("tool") => slug[q] = Editor!Slug(q, 1))'
  <2> SUFFICES ASSUME NEW q \in Repos, Adding("tool", q)', ~Unnamed("tool")' PROVE slug[q] = Editor!Slug(q, 1)
    BY <1>1 DEF Editor!Slug
  <2>1. "tool" \in Users /\ t # "tool"
    BY <1>2 DEF Users
  <2>2. Adding("tool", q) /\ ~Unnamed("tool")
    BY <1>9, <2>1
  <2> QED
    BY <2>2 DEF SlugInv
<1> QED
  BY <1>10, <1>11, <1>12, <1>13, <1>14, <1>15 DEF SlugInv

LEMMA SlugOfImport ==
  ASSUME EditorShape, SlugInv, NEW p \in Repos, Editor!Import(p)
  PROVE  SlugInv'
<1> PICK s \in Seq(Steps) :
       /\ job'["main"].todo = s /\ Len(s) = 4 /\ Ordered("main", s)
       /\ s[1] = <<"slug", p>> /\ s[2] = <<"token", p>> /\ s[3] = <<"entry", p>> /\ s[4] = <<"add", p>>
  BY ImportIs
<1>1. /\ ~Editor!Cloned(p) /\ slug' = [slug EXCEPT ![p] = Editor!Slug(p, 0)]
      /\ UNCHANGED listed /\ TaskMoved("main")
  BY ImportIs
<1>2. s # <<>> /\ s[1][1] \in {"slug", "mark"} /\ \A i \in 1..Len(s) : s[i][1] = "add" => s[i][2] = p
  <2>1. \A i \in 1..Len(s) : s[i][2] = p
    BY UpToFour
  <2> QED
    BY <2>1
<1>3. "main" \in Users
  BY DEF Users
<1> QED
  BY <1>1, <1>2, <1>3, SlugImport, ZenonT(60)

LEMMA SlugOfFork ==
  ASSUME EditorShape, SlugInv, NEW p \in Repos, NEW q \in Repos, Editor!Fork(p, q)
  PROVE  SlugInv'
<1> PICK s \in Seq(Steps) :
       /\ job'["tool"].todo = s /\ Len(s) = 4 /\ Ordered("tool", s)
       /\ s[1] = <<"mark", q>> /\ s[2] = <<"token", q>> /\ s[3] = <<"entry", q>> /\ s[4] = <<"add", q>>
  BY ForkIs
<1>1. /\ ~Editor!Cloned(q) /\ slug' = [slug EXCEPT ![q] = Editor!Slug(q, 0)]
      /\ UNCHANGED listed /\ TaskMoved("tool")
  BY ForkIs
<1>2. s # <<>> /\ s[1][1] \in {"slug", "mark"} /\ \A i \in 1..Len(s) : s[i][1] = "add" => s[i][2] = q
  <2>1. \A i \in 1..Len(s) : s[i][2] = q
    BY UpToFour
  <2> QED
    BY <2>1
<1>3. "tool" \in Users
  BY DEF Users
<1> QED
  BY <1>1, <1>2, <1>3, SlugImport, ZenonT(60)

LEMMA SlugOfOpen ==
  ASSUME EditorShape, SlugInv, NEW p \in Repos, Editor!Open(p)
  PROVE  SlugInv'
<1> PICK s \in Seq(Steps), port \in Ports \cup {0} :
           /\ TaskMoved("main") /\ job["main"].todo = <<>> /\ job'["main"].todo = s /\ job'["main"].at = "read"
           /\ job'["main"].tok = 0 /\ job'["main"].port = port
           /\ s[1] = <<"rule", p>> /\ s[2] = <<"settings", p>> /\ s[3] = <<"token", p>> /\ s[4] = <<"entry", p>>
           /\ Len(s) = 4 /\ Ordered("main", s) /\ Editor!Cloned(p)
  BY OpenIs
<1>1. UNCHANGED <<slug, listed>> /\ "main" \in Editor!Tasks
  BY DEF Editor!Open, Editor!Tasks
<1>2. \A i \in 1..Len(s) : s[i][1] # "add"
  BY UpToFour
<1>3. \A q \in Repos : ~Adding("main", q)'
  BY <1>2 DEF Adding
<1> QED
  BY <1>1, <1>3, SlugPlain

LEMMA SlugOfRotation ==
  ASSUME EditorShape, SlugInv, NEW t \in Editor!Rotations, Editor!BeginRotation(t)
  PROVE  SlugInv'
<1>1. TaskMoved(t) /\ t \in Editor!Tasks /\ job'[t].todo = <<<<"list", Old>>>> /\ UNCHANGED <<listed, slug>>
  BY RotationIs
<1>2. \A q \in Repos : ~Adding(t, q)'
  BY <1>1 DEF Adding
<1> QED
  BY <1>1, <1>2, SlugPlain

LEMMA SlugOfQuit ==
  ASSUME EditorShape, SlugInv, Editor!Quit
  PROVE  SlugInv'
<1>1. (\A t \in Editor!Tasks : job'[t].todo = <<>>) /\ UNCHANGED <<slug, listed>>
  BY QuitIs
<1>2. \A p \in Repos, t \in Users : ~Adding(t, p)'
  BY <1>1 DEF Adding, Users, Editor!Tasks
<1> QED
  BY <1>1, <1>2, SlugKept

LEMMA SlugOfList ==
  ASSUME EditorShape, SlugInv, NEW t \in Editor!Tasks, NEW p \in Repos, Editor!List(t, p)
  PROVE  SlugInv'
<1>1. TaskMoved(t) /\ Len(job'[t].todo) = Len(listed) /\ \A i \in 1..Len(listed) : job'[t].todo[i] = <<"entry", listed[i]>>
  BY ListIs
<1>2. \A q \in Repos : ~Adding(t, q)'
  BY <1>1 DEF Adding
<1>3. UNCHANGED <<slug, listed>>
  BY DEF Editor!List
<1> QED
  BY <1>1, <1>2, <1>3, SlugPlain

\* The rest neither name nor add a project.
LEMMA SlugOfStep ==
  ASSUME EditorShape, SlugInv, NEW t \in Editor!Tasks, NEW p \in Repos, NEW op \in Edited,
         \/ Editor!TakeToken(t, p) \/ Editor!WriteRule(t, p)
         \/ Editor!ReadFile(t, p, op) \/ Editor!Truncate(t, p, op) \/ Editor!Fill(t, p, op)
  PROVE  SlugInv'
<1> PICK k \in Editor!Kinds : k = Editor!KindOf(op)
  BY DEF Editor!KindOf, Editor!Kinds
<1>1. UNCHANGED <<slug, listed>>
  BY DEF Editor!TakeToken, Editor!WriteRule, Editor!ReadFile, Editor!Truncate, Editor!Fill
<1>2. op \notin {"slug", "mark"} /\ "token" \notin {"slug", "mark"} /\ "rule" \notin {"slug", "mark"}
  BY DEF Edited
<1>3. CASE Editor!TakeToken(t, p)
  <2>1. TaskMoved(t) /\ AtStep(t, "token", p) /\ Advances(t)
    BY <1>3, TokenAdvances DEF TaskMoved, AtStep
  <2> QED
    BY <1>1, <1>2, <2>1, SlugMoves
<1>4. CASE Editor!WriteRule(t, p)
  <2>1. TaskMoved(t) /\ AtStep(t, "rule", p) /\ (Advances(t) \/ Skips(t))
    BY <1>4, WriteRuleIs
  <2> QED
    BY <1>1, <1>2, <2>1, SlugMoves
<1>5. CASE Editor!ReadFile(t, p, op) \/ Editor!Truncate(t, p, op) \/ Editor!Fill(t, p, op)
  <2>1. TaskMoved(t) /\ AtStep(t, op, p) /\ (Advances(t) \/ Proceeds(t))
    BY <1>5, ReadFileIs, TruncateIs, FillIs
  <2> QED
    BY <1>1, <1>2, <2>1, SlugMoves
<1> QED
  BY <1>3, <1>4, <1>5

-----------------------------------------------------------------------------
(* Who holds a token *)

HoldsKept(t) == Holds(t)' => Holds(t) /\ job'[t].tok = job[t].tok

\* What is next in a row.
LEMMA SecondIs ==
  ASSUME EditorShape, NEW t \in Editor!Tasks, Advances(t), job'[t].todo # <<>>
  PROVE  /\ 2 \in 2..Len(job[t].todo) /\ 2 \in 1..Len(job[t].todo) /\ job'[t].todo[1] = job[t].todo[2]
         /\ Tail(job[t].todo) # <<>> /\ 2 - 1 = 1
<1> PICK s \in Seq(Steps) : s = job[t].todo
  BY RowIs
<1> PICK r \in Seq(Steps) : r = Tail(s)
  BY TailIs DEF Advances
<1>1. s # <<>> /\ r # <<>> /\ job'[t].todo = r
  BY DEF Advances
<1>2. Len(s) \in Nat \ {0} /\ Len(r) = Len(s) - 1 /\ (\A i \in 1..Len(r) : r[i] = s[i + 1])
  <2>1. Len(s) \in Nat \ {0} /\ Len(Tail(s)) = Len(s) - 1 /\ (\A i \in 1..Len(Tail(s)) : Tail(s)[i] = s[i + 1])
    BY <1>1, TailIs, Zenon
  <2> QED
    BY <2>1, Zenon
<1>3. Len(r) \in Nat \ {0}
  BY <1>1, TailIs, Zenon
<1>4. 1 \in 1..Len(r) /\ 1 + 1 = 2 /\ 2 \in 2..Len(s) /\ 2 \in 1..Len(s)
  BY ONLY <1>2, <1>3
<1>5. r[1] = s[2]
  BY <1>2, <1>4
<1> QED
  BY <1>1, <1>4, <1>5

\* What comes before an entry, the settings and an "add".
LEMMA NextStep ==
  ASSUME EditorShape, NEW t \in Editor!Tasks, NEW op, NEW p, AtStep(t, op, p), Advances(t),
         NEW o, NEW q, AtStep(t, o, q)'
  PROVE  /\ o \notin {"slug", "mark", "list"}
         /\ o = "entry" /\ t \in Users => op = "token"
         /\ o = "settings" => op = "rule"
         /\ o = "add" => op = "entry"
         /\ t \in Users => q = p
<1> PICK s \in Seq(Steps) : s = job[t].todo
  BY RowIs
<1>1. 2 \in 2..Len(s) /\ 2 \in 1..Len(s) /\ s[2] = <<o, q>> /\ s[1] = <<op, p>> /\ 2 - 1 = 1
  BY SecondIs DEF AtStep
<1>2. Ordered(t, s)
  BY RowIs
<1>3. s[2][1] = o /\ s[2][2] = q /\ s[1][1] = op /\ s[1][2] = p
  BY <1>1
<1>4. /\ s[2][1] \notin {"slug", "mark", "list"}
      /\ s[2][1] = "add" => s[1][1] = "entry"
      /\ s[2][1] = "settings" => s[1][1] = "rule"
      /\ s[2][1] = "entry" /\ t \in Users => s[1][1] = "token"
  BY <1>1, <1>2 DEF Ordered
<1>5. t \in Users => s[2][2] = s[1][2]
  BY <1>1, <1>2 DEF Ordered
<1> QED
  BY <1>3, <1>4, <1>5

\* The head of a row.
LEMMA HeadIs ==
  ASSUME EditorShape, NEW t \in Editor!Tasks, job[t].todo # <<>>
  PROVE  job[t].todo[1] \in Steps /\ AtStep(t, job[t].todo[1][1], job[t].todo[1][2])
<1>1. job[t].todo[1] \in Steps
  BY RowIs
<1> QED
  BY <1>1 DEF AtStep, Steps

LEMMA UsersOrRotations == Editor!Tasks = Users \cup Editor!Rotations /\ Users \cap Editor!Rotations = {}
  BY DEF Users, Editor!Tasks, Editor!Rotations

\* A task that advances from anything but the reading of the token.
LEMMA HoldsAdvance ==
  ASSUME EditorShape, EditorShape', NEW t \in Editor!Tasks, NEW op, NEW p, AtStep(t, op, p), op # "token", Advances(t), Carries(t)
  PROVE  HoldsKept(t)
<1> SUFFICES ASSUME Holds(t)' PROVE Holds(t) /\ job'[t].tok = job[t].tok
  BY DEF HoldsKept
<1>1. job'[t].todo # <<>>
  BY DEF Holds
<1>2. Tail(job[t].todo) # <<>> /\ job[t].todo # <<>>
  BY <1>1, SecondIs DEF AtStep
<1>3. job'[t].tok = job[t].tok
  BY <1>2 DEF Carries
<1>4. t \in Editor!Rotations
  <2> SUFFICES ASSUME t \notin Editor!Rotations PROVE FALSE
    OBVIOUS
  <2>1. t \in Users
    BY UsersOrRotations
  <2>2. job'[t].todo[1][1] = "entry"
    BY DEF Holds
  <2> PICK q : q = job'[t].todo[1][2]
    OBVIOUS
  <2>3. AtStep(t, "entry", q)'
    <3>1. job'[t].todo[1] \in Steps
      <4> PICK r \in Seq(Steps) : r = job'[t].todo
        BY DEF EditorShape, EditorTypes, EditorJobs
      <4> QED
        BY <1>1, TailIs
    <3> QED
      BY <1>1, <2>2, <3>1 DEF AtStep, Steps
  <2> QED
    BY <2>1, <2>3, NextStep
<1> QED
  BY <1>2, <1>3, <1>4 DEF Holds

LEMMA HoldsProceed ==
  ASSUME NEW t, Proceeds(t) PROVE HoldsKept(t)
  BY DEF Proceeds, HoldsKept, Holds

\* A task that has not moved.
LEMMA HoldsRest ==
  ASSUME NEW t, job'[t] = job[t] PROVE HoldsKept(t)
  BY DEF HoldsKept, Holds

\* After the settings come the token.
LEMMA HoldsSkip ==
  ASSUME EditorShape, NEW t \in Editor!Tasks, NEW p \in Repos, AtStep(t, "rule", p), Skips(t), EditorShape'
  PROVE  HoldsKept(t)
<1> SUFFICES ASSUME Holds(t)' PROVE FALSE
  BY DEF HoldsKept
<1>1. t = "main" /\ t \in Users /\ t \notin Editor!Rotations
  BY RuleThenSettings DEF Users, Editor!Rotations
<1>2. job'[t].todo # <<>> /\ job'[t].todo[1][1] = "entry"
  BY <1>1 DEF Holds
<1> PICK s \in Seq(Steps) : s = job[t].todo
  BY RowIs
<1> PICK r \in Seq(Steps) : r = Tail(s) /\ r # <<>> /\ r[1][1] = "settings"
  BY RuleThenSettings
<1>3. s # <<>> /\ Ordered(t, s)
  BY RowIs DEF AtStep
<1>4. Ordered(t, r)
  BY <1>3, OrderedTail
<1> PICK q \in Seq(Steps) : q = Tail(r)
  BY TailIs
<1>5. q # <<>> /\ q = job'[t].todo
  BY <1>2 DEF Skips
<1>6. Len(r) \in Nat \ {0} /\ Len(q) = Len(r) - 1 /\ (\A i \in 1..Len(q) : q[i] = r[i + 1])
  <2>1. Len(r) \in Nat \ {0} /\ Len(Tail(r)) = Len(r) - 1 /\ (\A i \in 1..Len(Tail(r)) : Tail(r)[i] = r[i + 1])
    BY TailIs, Zenon
  <2> QED
    BY <2>1, Zenon
<1>7. 1 \in 1..Len(q) /\ 2 \in 2..Len(r) /\ 1 + 1 = 2 /\ 2 - 1 = 1
  <2>1. Len(q) \in Nat \ {0}
    BY <1>5, TailIs, Zenon
  <2> QED
    BY ONLY <1>6, <2>1
<1>8. r[2][1] = "entry"
  <2>1. q[1] = r[2]
    BY <1>6, <1>7
  <2> QED
    BY <1>2, <1>5, <2>1
<1>9. r[1][1] = "token"
  BY <1>1, <1>4, <1>7, <1>8 DEF Ordered
<1> QED
  BY <1>9

\* A command or call begins with no token.
LEMMA HoldsBegin ==
  ASSUME NEW t \in Users, job'[t].todo[1][1] # "entry" PROVE HoldsKept(t)
  BY UsersOrRotations DEF HoldsKept, Holds

\* The others keep what they hold.
LEMMA HoldsOthers ==
  ASSUME NEW t \in Editor!Tasks, TaskMoved(t), HoldsKept(t) PROVE \A u \in Editor!Tasks : HoldsKept(u)
<1>1. \A u \in Editor!Tasks : u # t => job'[u] = job[u]
  BY DEF TaskMoved, OthersRest
<1> QED
  BY <1>1, HoldsRest

\* What nobody holds anew: any step but the reading of the token and a rotation.
LEMMA HoldsStep ==
  ASSUME EditorShape, EditorShape', NEW t \in Editor!Tasks, NEW p \in Repos, NEW op \in Edited,
         \/ Editor!Name(t, p) \/ Editor!Add(t, p) \/ Editor!List(t, p) \/ Editor!WriteRule(t, p)
         \/ Editor!ReadFile(t, p, op) \/ Editor!Truncate(t, p, op) \/ Editor!Fill(t, p, op)
  PROVE  \A u \in Editor!Tasks : HoldsKept(u)
<1> PICK k \in Editor!Kinds : k = Editor!KindOf(op)
  BY DEF Editor!KindOf, Editor!Kinds
<1>1. CASE Editor!Name(t, p)
  <2>1. TaskMoved(t) /\ Advances(t) /\ Carries(t) /\ (AtStep(t, "slug", p) \/ AtStep(t, "mark", p))
    BY <1>1, NameIs
  <2> QED
    BY <2>1, HoldsAdvance, HoldsOthers
<1>2. CASE Editor!Add(t, p)
  <2>1. TaskMoved(t) /\ Advances(t) /\ Carries(t) /\ AtStep(t, "add", p)
    BY <1>2, AddIs
  <2> QED
    BY <2>1, HoldsAdvance, HoldsOthers
<1>3. CASE Editor!List(t, p)
  <2>1. TaskMoved(t) /\ AtStep(t, "list", p) /\ t \in Editor!Rotations /\ job'[t].tok = job[t].tok
    BY <1>3, ListIs
  <2>2. HoldsKept(t)
    BY <2>1 DEF HoldsKept, Holds, AtStep
  <2> QED
    BY <2>1, <2>2, HoldsOthers
<1>4. CASE Editor!WriteRule(t, p)
  <2>1. TaskMoved(t) /\ AtStep(t, "rule", p) /\ ((Advances(t) /\ Carries(t)) \/ Skips(t))
    BY <1>4, WriteRuleIs
  <2> QED
    BY <2>1, HoldsAdvance, HoldsSkip, HoldsOthers
<1>5. CASE Editor!ReadFile(t, p, op) \/ Editor!Truncate(t, p, op) \/ Editor!Fill(t, p, op)
  <2>1. TaskMoved(t) /\ AtStep(t, op, p) /\ ((Advances(t) /\ Carries(t)) \/ Proceeds(t)) /\ op # "token"
    BY <1>5, ReadFileIs, TruncateIs, FillIs DEF Edited
  <2> QED
    BY <2>1, HoldsAdvance, HoldsProceed, HoldsOthers
<1> QED
  BY <1>1, <1>2, <1>3, <1>4, <1>5

-----------------------------------------------------------------------------
(* An entry holds the token *)

Listed(q) == \E n \in 1..Len(listed) : listed[n] = q

\* What a step does to the entry of a project.
EntryGoesOn(q) ==
  /\ Editor!Cloned(q) /\ Fresh(q) => Fresh(q)'
  /\ Listed(q)' => Listed(q) \/ Fresh(q)'
  /\ Listed(q) => \A t \in Editor!Rotations : Sweeps(t, q) => Sweeps(t, q)' \/ Fresh(q)'
  /\ \A t \in Users : Adds(t, q)' => Adds(t, q) \/ Fresh(q)'

LEMMA TokensKept ==
  ASSUME TokensInv, \A t \in Editor!Tasks : HoldsKept(t), \A p \in Repos : 0 \notin disk'[p]["mcp"].ours
  PROVE  TokensInv'
  BY DEF TokensInv, HoldsKept

LEMMA AddsCloned ==
  ASSUME EditorShape, NEW t \in Editor!Tasks, NEW p, Adds(t, p)
  PROVE  Editor!Cloned(p)
<1>1. AtStep(t, "add", p)
  BY DEF Adds, AtStep
<1> QED
  BY <1>1, AtStepRow

LEMMA EntriesKept ==
  ASSUME EditorShape, EditorShape', EntriesInv, editorMishaps \subseteq editorMishaps', UNCHANGED <<file, live>>,
         \A t \in Editor!Tasks : HoldsKept(t), Benign' => \A q \in Repos : EntryGoesOn(q)
  PROVE  EntriesInv'
<1> SUFFICES ASSUME Benign'
             PROVE  /\ live' # 0 => live' = file'
                    /\ \A t \in Editor!Tasks : Holds(t)' => job'[t].tok = file' /\ file' # 0
                    /\ (\A i \in 1..Len(listed) : Current(listed[i]))'
                    /\ \A t \in Users, p \in Repos : Adds(t, p)' => Fresh(p)'
  BY DEF EntriesInv
<1>1. Benign /\ \A q \in Repos : EntryGoesOn(q)
  BY DEF Benign
<1>2. live' # 0 => live' = file'
  BY <1>1 DEF EntriesInv
<1>3. \A t \in Editor!Tasks : Holds(t)' => job'[t].tok = file' /\ file' # 0
  BY <1>1 DEF EntriesInv, HoldsKept
<1>4. \A q \in Repos : Listed(q)' => Current(q)'
  <2> SUFFICES ASSUME NEW q \in Repos, Listed(q)', ~Fresh(q)' PROVE \E t \in Editor!Rotations : Sweeps(t, q)'
    BY DEF Current
  <2>1. Listed(q)
    BY <1>1 DEF EntryGoesOn
  <2>2. Current(q) /\ Editor!Cloned(q)
    BY <1>1, <2>1, ShapeTypes DEF Listed, EntriesInv
  <2>3. ~Fresh(q)
    BY <1>1, <2>2 DEF EntryGoesOn
  <2>4. PICK t \in Editor!Rotations : Sweeps(t, q)
    BY <2>2, <2>3 DEF Current
  <2> QED
    BY <1>1, <2>1, <2>4 DEF EntryGoesOn
<1>5. (\A i \in 1..Len(listed) : Current(listed[i]))'
  <2> PICK l \in Seq(Repos) : l = listed'
    BY DEF EditorShape, EditorTypes
  <2>1. \A i \in 1..Len(l) : l[i] \in Repos
    BY ElementOfSeq
  <2>2. \A i \in 1..Len(l) : \A q \in Repos : q = l[i] => Listed(q)'
    BY DEF Listed
  <2>3. \A i \in 1..Len(l) : \A q \in Repos : q = l[i] => Current(q)'
    BY <1>4, <2>2
  <2> QED
    BY <2>1, <2>3 DEF Current, Fresh, Sweeps
<1>6. \A t \in Users, p \in Repos : Adds(t, p)' => Fresh(p)'
  <2> SUFFICES ASSUME NEW t \in Users, NEW p \in Repos, Adds(t, p)', ~Fresh(p)' PROVE FALSE
    OBVIOUS
  <2>1. Adds(t, p) /\ t \in Editor!Tasks
    BY <1>1, UsersOrRotations DEF EntryGoesOn
  <2>2. Fresh(p) /\ Editor!Cloned(p)
    BY <1>1, <2>1, AddsCloned DEF EntriesInv
  <2> QED
    BY <1>1, <2>2 DEF EntryGoesOn
<1> QED
  BY <1>2, <1>3, <1>5, <1>6

\* A rotation goes on to the entries that are left.
LEMMA SweepsMove ==
  ASSUME EditorShape, NEW t \in Editor!Tasks, TaskMoved(t), NEW op, op # "list", NEW p, AtStep(t, op, p),
         Advances(t) \/ Proceeds(t) \/ (Skips(t) /\ op = "rule"),
         NEW u \in Editor!Rotations, NEW q, Sweeps(u, q), ~(op = "entry" /\ p = q /\ Advances(t))
  PROVE  Sweeps(u, q)'
<1>1. CASE u # t
  <2>1. job'[u] = job[u]
    BY <1>1, UsersOrRotations DEF TaskMoved, OthersRest
  <2> QED
    BY <2>1 DEF Sweeps
<1>2. CASE u = t
  <2> PICK s \in Seq(Steps) : s = job[t].todo
    BY RowIs
  <2>1. s # <<>> /\ s[1] = <<op, p>> /\ 1 \in 1..Len(s) /\ Ordered(t, s)
    BY RowIs DEF AtStep
  <2>2. op = "entry"
    <3>1. s[1][1] = op
      BY <2>1
    <3> QED
      BY <1>2, <2>1, <3>1 DEF Ordered
  <2>3. PICK i \in 1..Len(s) : s[i] = <<"entry", q>>
    BY <1>2, <2>1, <2>2 DEF Sweeps
  <2>4. CASE Proceeds(t)
    BY <1>2, <2>4 DEF Proceeds, Sweeps
  <2>5. CASE Advances(t)
    <3>1. i # 1
      BY <2>1, <2>2, <2>3, <2>5
    <3> PICK r : r = Tail(s)
      OBVIOUS
    <3>2. Len(s) \in Nat \ {0} /\ Len(r) = Len(s) - 1 /\ (\A n \in 1..Len(r) : r[n] = s[n + 1]) /\ (r = <<>> <=> Len(s) = 1)
      <4>1. Len(s) \in Nat \ {0} /\ Len(Tail(s)) = Len(s) - 1 /\ (\A n \in 1..Len(Tail(s)) : Tail(s)[n] = s[n + 1])
            /\ (Tail(s) = <<>> <=> Len(s) = 1)
        BY <2>1, TailIs, Zenon
      <4> QED
        BY <4>1, Zenon
    <3>3. i - 1 \in 1..Len(r) /\ (i - 1) + 1 = i /\ Len(s) # 1
      BY <3>1, <3>2
    <3>4. r[i - 1] = <<"entry", q>> /\ r # <<>>
      BY <2>3, <3>2, <3>3
    <3>5. job'[t].todo = r
      BY <2>5 DEF Advances
    <3> QED
      BY <1>2, <3>3, <3>4, <3>5 DEF Sweeps
  <2> QED
    BY <2>2, <2>4, <2>5
<1> QED
  BY <1>1, <1>2

\* Whoever comes to add a project has been at its entry.
LEMMA AddsMove ==
  ASSUME EditorShape, NEW t \in Editor!Tasks, TaskMoved(t), NEW op, NEW p \in Repos, AtStep(t, op, p),
         Advances(t) \/ Proceeds(t) \/ (Skips(t) /\ op = "rule"),
         NEW u \in Users, NEW q, Adds(u, q)'
  PROVE  Adds(u, q) \/ (op = "entry" /\ p = q /\ Advances(t))
<1>1. CASE u # t
  <2>1. job'[u] = job[u]
    BY <1>1, UsersOrRotations DEF TaskMoved, OthersRest
  <2> QED
    BY <2>1 DEF Adds
<1>2. CASE u = t /\ Advances(t)
  <2>1. AtStep(t, "add", q)'
    BY <1>2 DEF Adds, AtStep
  <2> QED
    BY <1>2, <2>1, NextStep
<1>3. CASE u = t /\ Proceeds(t)
  BY <1>3 DEF Proceeds, Adds
<1>4. CASE u = t /\ Skips(t) /\ op = "rule"
  <2> PICK s \in Seq(Steps) : s = job[t].todo
    BY RowIs
  <2> PICK r \in Seq(Steps) : r = Tail(s) /\ r # <<>> /\ r[1][1] = "settings"
    BY <1>4, RuleThenSettings
  <2>1. s # <<>> /\ Ordered(t, s)
    BY RowIs DEF AtStep
  <2>2. Ordered(t, r)
    BY <2>1, OrderedTail
  <2> PICK l \in Seq(Steps) : l = Tail(r)
    BY TailIs
  <2>3. l # <<>> /\ l[1] = <<"add", q>>
    BY <1>4 DEF Skips, Adds
  <2>4. Len(r) \in Nat \ {0} /\ Len(l) = Len(r) - 1 /\ (\A i \in 1..Len(l) : l[i] = r[i + 1]) /\ Len(l) \in Nat \ {0}
    <3>1. Len(r) \in Nat \ {0} /\ Len(Tail(r)) = Len(r) - 1 /\ (\A i \in 1..Len(Tail(r)) : Tail(r)[i] = r[i + 1])
      <4>1. r \in Seq(Steps) /\ r # <<>>
        OBVIOUS
      <4> QED
        BY ONLY <4>1, TailIs
    <3>2. Len(l) \in Nat \ {0}
      BY <2>3, TailIs, Zenon
    <3> QED
      BY <3>1, <3>2, Zenon
  <2>5. 1 \in 1..Len(l) /\ 2 \in 2..Len(r) /\ 1 + 1 = 2 /\ 2 - 1 = 1
    BY ONLY <2>4
  <2>6. r[2] = <<"add", q>>
    BY <2>3, <2>4, <2>5
  <2>7. r[2][1] = "add"
    BY ONLY <2>6
  <2>8. r[1][1] = "entry"
    BY <2>2, <2>5, <2>7 DEF Ordered
  <2> QED
    BY <2>8
<1> QED
  BY <1>1, <1>2, <1>3, <1>4

\* A task at anything but the list of the projects.
LEMMA EntriesMove ==
  ASSUME EditorShape, NEW t \in Editor!Tasks, TaskMoved(t), NEW op, op # "list", NEW p \in Repos, AtStep(t, op, p),
         Advances(t) \/ Proceeds(t) \/ (Skips(t) /\ op = "rule"),
         op = "entry" /\ Advances(t) => Fresh(p)',
         NEW q \in Repos, Editor!Cloned(q) /\ Fresh(q) => Fresh(q)', Listed(q)' => Listed(q) \/ Fresh(q)'
  PROVE  EntryGoesOn(q)
<1>2. \A u \in Editor!Rotations : Sweeps(u, q) => Sweeps(u, q)' \/ Fresh(q)'
  <2> SUFFICES ASSUME NEW u \in Editor!Rotations, Sweeps(u, q), ~Fresh(q)' PROVE Sweeps(u, q)'
    OBVIOUS
  <2>1. ~(op = "entry" /\ p = q /\ Advances(t))
    OBVIOUS
  <2> QED
    BY <2>1, SweepsMove
<1>3. \A u \in Users : Adds(u, q)' => Adds(u, q) \/ Fresh(q)'
  <2> SUFFICES ASSUME NEW u \in Users, Adds(u, q)', ~Fresh(q)' PROVE Adds(u, q)
    OBVIOUS
  <2> QED
    BY AddsMove
<1> QED
  BY <1>2, <1>3 DEF EntryGoesOn

\* What the writers do to an entry.
LEMMA TruncateEntry ==
  ASSUME EditorShape, NEW t \in Editor!Tasks, NEW p \in Repos, NEW op \in Edited, Editor!Truncate(t, p, op)
  PROVE  /\ UNCHANGED <<file, live, listed>> /\ editorMishaps \subseteq editorMishaps'
         /\ \A q \in Repos : disk'[q]["mcp"].ours \subseteq disk[q]["mcp"].ours
         /\ Benign' => Proceeds(t)
<1> PICK k \in Editor!Kinds : k = Editor!KindOf(op)
  BY DEF Editor!KindOf, Editor!Kinds
<1>1. disk \in [Repos -> [Editor!Kinds -> Texts]] /\ Editor!Empty \in Texts /\ "mcp" \in Editor!Kinds
  BY ShapeTypes, NoJobIs DEF Editor!Kinds
<1>2. Editor!Empty.ours = {}
  BY DEF Editor!Empty, Editor!Absent
<1>3. \A q \in Repos : disk'[q]["mcp"].ours \subseteq disk[q]["mcp"].ours
  <2>1. CASE disk' = [disk EXCEPT ![p][k] = Editor!Empty]
    <3>1. /\ disk'[p][k] = Editor!Empty
          /\ \A q \in Repos, l \in Editor!Kinds : q # p \/ l # k => disk'[q][l] = disk[q][l]
      BY <1>1, <2>1, DiskPut
    <3> TAKE q \in Repos
    <3>2. disk'[q]["mcp"] = Editor!Empty \/ disk'[q]["mcp"] = disk[q]["mcp"]
      BY <1>1, <3>1
    <3> QED
      BY <1>2, <3>2
  <2>2. CASE UNCHANGED disk
    BY <2>2
  <2> QED
    BY <2>1, <2>2, TruncateIs
<1>4. UNCHANGED <<file, live, listed>>
  BY DEF Editor!Truncate
<1>5. editorMishaps \subseteq editorMishaps' /\ (Benign' => Proceeds(t))
  BY TruncateIs DEF Benign
<1> QED
  BY <1>3, <1>4, <1>5

LEMMA FillEntry ==
  ASSUME EditorShape, NEW t \in Editor!Tasks, NEW p \in Repos, NEW op \in Edited, Editor!Fill(t, p, op)
  PROVE  /\ UNCHANGED <<file, live, listed, editorMishaps>>
         /\ \A q \in Repos : disk'[q]["mcp"].ours = disk[q]["mcp"].ours \/ (disk'[q]["mcp"].ours = {job[t].tok} /\ op = "entry")
         /\ op = "entry" => Holds(t) /\ disk'[p]["mcp"].ours = {job[t].tok}
<1> PICK k \in Editor!Kinds : k = Editor!KindOf(op)
  BY DEF Editor!KindOf, Editor!Kinds
<1> PICK M \in Texts :
       /\ disk' = [disk EXCEPT ![p][k] = M] /\ M.text = "object" /\ M.own = job[t].buf.own
       /\ k = "mcp" => M.ours = {job[t].tok}
       /\ k # "mcp" => M.ours = job[t].buf.ours \cup {job[t].port}
  BY FillIs
<1>1. disk \in [Repos -> [Editor!Kinds -> Texts]] /\ "mcp" \in Editor!Kinds
  BY ShapeTypes DEF Editor!Kinds
<1>2. /\ disk'[p][k] = M
      /\ \A q \in Repos, l \in Editor!Kinds : q # p \/ l # k => disk'[q][l] = disk[q][l]
  BY <1>1, DiskPut
<1>3. k = "mcp" <=> op = "entry"
  BY DEF Editor!KindOf, Edited
<1>4. \A q \in Repos : disk'[q]["mcp"].ours = disk[q]["mcp"].ours \/ (disk'[q]["mcp"].ours = {job[t].tok} /\ op = "entry")
  BY <1>1, <1>2, <1>3
<1>5. op = "entry" => Holds(t)
  BY FillIs DEF AtStep, Holds
<1>6. op = "entry" => disk'[p]["mcp"].ours = {job[t].tok}
  BY <1>2, <1>3
<1>7. UNCHANGED <<file, live, listed, editorMishaps>>
  BY DEF Editor!Fill
<1> QED
  BY <1>4, <1>5, <1>6, <1>7

LEMMA TruncateTokens ==
  ASSUME EditorShape, EditorShape', TokensInv, EntriesInv, NEW t \in Editor!Tasks, NEW p \in Repos, NEW op \in Edited,
         Editor!Truncate(t, p, op)
  PROVE  TokensInv' /\ EntriesInv'
<1>1. \A u \in Editor!Tasks : HoldsKept(u)
  BY HoldsStep
<1>2. /\ UNCHANGED <<file, live, listed>> /\ editorMishaps \subseteq editorMishaps'
      /\ \A q \in Repos : disk'[q]["mcp"].ours \subseteq disk[q]["mcp"].ours
      /\ Benign' => Proceeds(t)
  BY TruncateEntry
<1>3. TokensInv'
  BY <1>1, <1>2, TokensKept DEF TokensInv
<1>4. TaskMoved(t) /\ AtStep(t, op, p) /\ op # "list" /\ (Proceeds(t) => job'[t].todo = job[t].todo)
  <2> PICK k \in Editor!Kinds : k = Editor!KindOf(op)
    BY DEF Editor!KindOf, Editor!Kinds
  <2> QED
    BY TruncateIs DEF Edited, Proceeds
<1>5. ~(Advances(t) /\ Proceeds(t))
  BY DEF Advances, Proceeds
<1>6. \A q \in Repos : Fresh(q) => Fresh(q)'
  BY <1>2 DEF Fresh
<1>7. \A q \in Repos : Listed(q)' => Listed(q)
  BY <1>2 DEF Listed
<1>8. Benign' => \A q \in Repos : EntryGoesOn(q)
  <2> SUFFICES ASSUME Benign', NEW q \in Repos PROVE EntryGoesOn(q)
    OBVIOUS
  <2>1. Proceeds(t) /\ ~Advances(t)
    BY <1>2, <1>5
  <2> QED
    BY <1>4, <1>6, <1>7, <2>1, EntriesMove
<1>9. EntriesInv'
  BY <1>1, <1>2, <1>8, EntriesKept
<1> QED
  BY <1>3, <1>9

LEMMA FillTokens ==
  ASSUME EditorShape, EditorShape', TokensInv, EntriesInv, NEW t \in Editor!Tasks, NEW p \in Repos, NEW op \in Edited,
         Editor!Fill(t, p, op)
  PROVE  TokensInv' /\ EntriesInv'
<1>1. \A u \in Editor!Tasks : HoldsKept(u)
  BY HoldsStep
<1>2. /\ UNCHANGED <<file, live, listed, editorMishaps>>
      /\ \A q \in Repos : disk'[q]["mcp"].ours = disk[q]["mcp"].ours \/ (disk'[q]["mcp"].ours = {job[t].tok} /\ op = "entry")
      /\ op = "entry" => Holds(t) /\ disk'[p]["mcp"].ours = {job[t].tok}
  BY FillEntry
<1>3. TokensInv'
  <2>1. \A q \in Repos : 0 \notin disk'[q]["mcp"].ours
    BY <1>2 DEF TokensInv
  <2> QED
    BY <1>1, <2>1, TokensKept
<1>4. TaskMoved(t) /\ AtStep(t, op, p) /\ op # "list" /\ Advances(t)
  <2> PICK k \in Editor!Kinds : k = Editor!KindOf(op)
    BY DEF Editor!KindOf, Editor!Kinds
  <2> QED
    BY FillIs DEF Edited
<1>5. Benign' /\ op = "entry" => job[t].tok = file
  BY <1>2 DEF Benign, EntriesInv
<1>6. Benign' => \A q \in Repos : Fresh(q) => Fresh(q)'
  BY <1>2, <1>5 DEF Fresh
<1>7. \A q \in Repos : Listed(q)' => Listed(q)
  BY <1>2 DEF Listed
<1>8. Benign' /\ op = "entry" => Fresh(p)'
  BY <1>2, <1>5 DEF Fresh
<1>9. Benign' => \A q \in Repos : EntryGoesOn(q)
  BY <1>4, <1>6, <1>7, <1>8, EntriesMove
<1>10. EntriesInv'
  BY <1>1, <1>2, <1>9, EntriesKept
<1> QED
  BY <1>3, <1>10

\* A file that cannot be read has no entry.
LEMMA ReadFileTokens ==
  ASSUME EditorShape, EditorShape', TokensInv, EntriesInv, NEW t \in Editor!Tasks, NEW p \in Repos, NEW op \in Edited,
         Editor!ReadFile(t, p, op)
  PROVE  TokensInv' /\ EntriesInv'
<1>1. \A u \in Editor!Tasks : HoldsKept(u)
  BY HoldsStep
<1>2. UNCHANGED <<file, live, listed, disk>>
  BY DEF Editor!ReadFile
<1>3. TokensInv'
  BY <1>1, <1>2, TokensKept DEF TokensInv
<1> PICK k \in Editor!Kinds : k = Editor!KindOf(op)
  BY DEF Editor!KindOf, Editor!Kinds
<1>4. /\ TaskMoved(t) /\ AtStep(t, op, p) /\ (Advances(t) \/ Proceeds(t)) /\ editorMishaps \subseteq editorMishaps'
      /\ Advances(t) => op = "settings" \/ ~Editor!Readable(k, disk[p][k])
  <2>1. ~(Advances(t) /\ Proceeds(t))
    BY DEF Advances, Proceeds
  <2> QED
    BY <2>1, ReadFileIs
<1>5. op = "entry" /\ Advances(t) => Fresh(p)'
  <2> SUFFICES ASSUME op = "entry", Advances(t) PROVE Fresh(p)'
    OBVIOUS
  <2>1. k = "mcp"
    BY DEF Editor!KindOf
  <2>2. disk[p][k].text # "object"
    BY <1>4 DEF Editor!Readable
  <2>3. disk[p][k].ours = {}
    BY <2>2 DEF EditorShape, FilesFit, Fits
  <2> QED
    BY <1>2, <2>1, <2>3 DEF Fresh
<1>6. \A q \in Repos : (Fresh(q) => Fresh(q)') /\ (Listed(q)' => Listed(q))
  BY <1>2 DEF Fresh, Listed
<1>7. \A q \in Repos : EntryGoesOn(q)
  <2>1. op # "list"
    BY DEF Edited
  <2> QED
    BY <1>4, <1>5, <1>6, <2>1, EntriesMove
<1>8. EntriesInv'
  BY <1>1, <1>2, <1>4, <1>7, EntriesKept
<1> QED
  BY <1>3, <1>8

\* The steps that write no file: a name, the rule and the list.
LEMMA PlainTokens ==
  ASSUME EditorShape, EditorShape', TokensInv, EntriesInv, NEW t \in Editor!Tasks, NEW p \in Repos,
         Editor!Name(t, p) \/ Editor!WriteRule(t, p) \/ Editor!Add(t, p)
  PROVE  TokensInv' /\ EntriesInv'
<1>1. \A u \in Editor!Tasks : HoldsKept(u)
  <2>1. "entry" \in Edited
    BY DEF Edited
  <2> QED
    BY <2>1, HoldsStep
<1>2. UNCHANGED <<file, live, disk>>
  BY DEF Editor!Name, Editor!WriteRule, Editor!Add
<1>3. TokensInv'
  BY <1>1, <1>2, TokensKept DEF TokensInv
<1>4. editorMishaps \subseteq editorMishaps'
  BY WriteRuleIs DEF Editor!Name, Editor!Add
<1>5. \A q \in Repos : Fresh(q) => Fresh(q)'
  BY <1>2 DEF Fresh
<1>6. Benign' => Benign
  BY <1>4 DEF Benign
<1>7. \E op : /\ op \notin {"list", "entry"} /\ TaskMoved(t) /\ AtStep(t, op, p) /\ (Advances(t) \/ (Skips(t) /\ op = "rule"))
              /\ Editor!Add(t, p) => op = "add"
  <2>1. CASE Editor!Name(t, p)
    <3>1. ~(Editor!Add(t, p) /\ Editor!Name(t, p))
      BY AddIs, NameIs DEF AtStep
    <3> QED
      BY <2>1, <3>1, NameIs
  <2>2. CASE Editor!WriteRule(t, p)
    <3>1. ~(Editor!Add(t, p) /\ Editor!WriteRule(t, p))
      BY AddIs, WriteRuleIs DEF AtStep
    <3> QED
      BY <2>2, <3>1, WriteRuleIs
  <2>3. CASE Editor!Add(t, p)
    BY <2>3, AddIs
  <2> QED
    BY <2>1, <2>2, <2>3
<1> PICK op : /\ op \notin {"list", "entry"} /\ TaskMoved(t) /\ AtStep(t, op, p) /\ (Advances(t) \/ (Skips(t) /\ op = "rule"))
              /\ Editor!Add(t, p) => op = "add"
  BY <1>7
<1>8. Benign' => \A q \in Repos : Listed(q)' => Listed(q) \/ Fresh(q)'
  <2> SUFFICES ASSUME Benign', NEW q \in Repos, Listed(q)', ~Listed(q) PROVE Fresh(q)'
    OBVIOUS
  <2>1. listed' # listed
    BY DEF Listed
  <2>2. Editor!Add(t, p)
    BY <2>1 DEF Editor!Name, Editor!WriteRule
  <2>3. listed' = Append(listed, p) /\ AtStep(t, "add", p) /\ Advances(t)
    BY <2>2, AddIs
  <2>4. \A i \in 1..Len(listed') : (i \in 1..Len(listed) /\ listed'[i] = listed[i]) \/ listed'[i] = p
    BY <2>3, AppendIs
  <2>5. q = p
    BY <2>4 DEF Listed
  <2>6. t \in Users
    BY <2>3, AddsLast
  <2>7. Adds(t, p)
    BY <2>3 DEF AtStep, Adds
  <2> QED
    BY <1>5, <1>6, <2>5, <2>6, <2>7 DEF EntriesInv
<1>9. Benign' => \A q \in Repos : EntryGoesOn(q)
  BY <1>5, <1>8, EntriesMove
<1>10. EntriesInv'
  BY <1>1, <1>2, <1>4, <1>9, EntriesKept
<1> QED
  BY <1>3, <1>10

\* sweep_token: the entries of the projects that are listed.
LEMMA ListTokens ==
  ASSUME EditorShape, EditorShape', TokensInv, EntriesInv, NEW t \in Editor!Tasks, NEW p \in Repos, Editor!List(t, p)
  PROVE  TokensInv' /\ EntriesInv'
<1>1. \A u \in Editor!Tasks : HoldsKept(u)
  <2>1. "entry" \in Edited
    BY DEF Edited
  <2> QED
    BY <2>1, HoldsStep
<1>2. UNCHANGED <<file, live, listed, disk, editorMishaps>>
  BY DEF Editor!List
<1>3. TokensInv'
  BY <1>1, <1>2, TokensKept DEF TokensInv
<1>4. /\ TaskMoved(t) /\ t \in Editor!Rotations /\ Len(job'[t].todo) = Len(listed) /\ Len(listed) \in Nat
      /\ \A i \in 1..Len(listed) : job'[t].todo[i] = <<"entry", listed[i]>>
  BY ListIs
<1>5. \A u \in Editor!Tasks : u # t => job'[u] = job[u]
  BY <1>4 DEF TaskMoved, OthersRest
<1>6. \A q \in Repos : EntryGoesOn(q)
  <2> TAKE q \in Repos
  <2>1. (Fresh(q) => Fresh(q)') /\ (Listed(q)' => Listed(q))
    BY <1>2 DEF Fresh, Listed
  <2>2. Listed(q) => Sweeps(t, q)'
    <3> SUFFICES ASSUME Listed(q) PROVE Sweeps(t, q)'
      OBVIOUS
    <3>1. PICK n \in 1..Len(listed) : listed[n] = q
      BY DEF Listed
    <3>2. job'[t].todo[n] = <<"entry", q>>
      BY <1>4, <3>1
    <3>3. job'[t].todo # <<>>
      <4>1. Len(listed) # 0
        BY <1>4, <3>1
      <4> QED
        BY <1>4, <4>1
    <3> QED
      BY <1>4, <3>1, <3>2, <3>3 DEF Sweeps
  <2>3. \A u \in Editor!Rotations : u # t /\ Sweeps(u, q) => Sweeps(u, q)'
    BY <1>5, UsersOrRotations DEF Sweeps
  <2>4. \A u \in Users : Adds(u, q)' => Adds(u, q)
    BY <1>4, <1>5, UsersOrRotations DEF Adds
  <2> QED
    BY <2>1, <2>2, <2>3, <2>4 DEF EntryGoesOn
<1>7. EntriesInv'
  BY <1>1, <1>2, <1>6, EntriesKept
<1> QED
  BY <1>3, <1>7

\* TokenFile::current: no one holds a token when there was none.
LEMMA TakeTokenTokens ==
  ASSUME EditorShape, EditorShape', TokensInv, EntriesInv, NEW t \in Editor!Tasks, NEW p \in Repos, Editor!TakeToken(t, p)
  PROVE  TokensInv' /\ EntriesInv'
<1>1. /\ TaskMoved(t) /\ AtStep(t, "token", p) /\ Advances(t)
      /\ job'[t].tok = file' /\ file' \in 1..minted' /\ minted' \in Nat /\ (file # 0 => file' = file)
  BY TokenAdvances DEF TaskMoved, AtStep
<1>2. UNCHANGED <<live, listed, disk, editorMishaps>>
  BY DEF Editor!TakeToken
<1>3. \A u \in Editor!Tasks : u # t => job'[u] = job[u]
  BY <1>1 DEF TaskMoved, OthersRest
<1>4. t \in Users
  <2>1. t \in Editor!Rotations => FALSE
    <3>1. 1 \in 1..Len(job[t].todo) /\ Ordered(t, job[t].todo) /\ job[t].todo[1] = <<"token", p>>
      BY <1>1, RowIs DEF AtStep
    <3>2. job[t].todo[1][1] = "token"
      BY <3>1
    <3> QED
      BY <3>1, <3>2 DEF Ordered
  <2> QED
    BY <2>1, UsersOrRotations
<1>5. TokensInv'
  <2>1. \A u \in Editor!Tasks : Holds(u)' => job'[u].tok # 0
    <3> SUFFICES ASSUME NEW u \in Editor!Tasks, Holds(u)' PROVE job'[u].tok # 0
      OBVIOUS
    <3>1. CASE u = t
      BY <1>1, <3>1
    <3>2. CASE u # t
      BY <1>3, <3>2 DEF Holds, TokensInv
    <3> QED
      BY <3>1, <3>2
  <2>2. \A q \in Repos : 0 \notin disk'[q]["mcp"].ours
    BY <1>2 DEF TokensInv
  <2> QED
    BY <2>1, <2>2 DEF TokensInv
<1>6. EntriesInv'
  <2> SUFFICES ASSUME Benign' PROVE /\ live' # 0 => live' = file'
                                    /\ \A u \in Editor!Tasks : Holds(u)' => job'[u].tok = file' /\ file' # 0
                                    /\ (\A i \in 1..Len(listed) : Current(listed[i]))'
                                    /\ \A u \in Users, q \in Repos : Adds(u, q)' => Fresh(q)'
    BY DEF EntriesInv
  <2>1. /\ live # 0 => live = file
        /\ \A u \in Editor!Tasks : Holds(u) => job[u].tok = file /\ file # 0
        /\ \A i \in 1..Len(listed) : Current(listed[i])
        /\ \A u \in Users, q \in Repos : Adds(u, q) => Fresh(q)
    BY <1>2 DEF EntriesInv, Benign
  <2>2. live' # 0 => live' = file'
    BY <1>1, <1>2, <2>1
  <2>3. \A u \in Editor!Tasks : Holds(u)' => job'[u].tok = file' /\ file' # 0
    <3> SUFFICES ASSUME NEW u \in Editor!Tasks, Holds(u)' PROVE job'[u].tok = file' /\ file' # 0
      OBVIOUS
    <3>1. CASE u = t
      BY <1>1, <3>1
    <3>2. CASE u # t
      <4>1. Holds(u) /\ job'[u] = job[u]
        BY <1>3, <3>2 DEF Holds
      <4>2. job[u].tok = file /\ file # 0
        BY <2>1, <4>1
      <4> QED
        BY <1>1, <4>1, <4>2
    <3> QED
      BY <3>1, <3>2
  <2>4. \A q \in Repos : Fresh(q) => Fresh(q)'
    BY <1>1, <1>2 DEF Fresh, TokensInv
  <2>5. \A u \in Editor!Rotations, q \in Repos : Sweeps(u, q) => Sweeps(u, q)'
    BY <1>3, <1>4, UsersOrRotations DEF Sweeps
  <2>6. \A q \in Repos : Current(q) => Current(q)'
    BY <2>4, <2>5 DEF Current
  <2>7. (\A i \in 1..Len(listed) : Current(listed[i]))'
    <3>1. \A i \in 1..Len(listed) : listed[i] \in Repos
      BY ShapeTypes
    <3>2. \A i \in 1..Len(listed) : \A q \in Repos : q = listed[i] => Current(q)'
      BY <2>1, <2>6
    <3> QED
      BY <1>2, <3>1, <3>2 DEF Current, Fresh, Sweeps
  <2>8. \A u \in Users, q \in Repos : Adds(u, q)' => Fresh(q)'
    <3> SUFFICES ASSUME NEW u \in Users, NEW q \in Repos, Adds(u, q)' PROVE Fresh(q)'
      OBVIOUS
    <3>1. Adds(u, q)
      BY <1>1, AddsMove
    <3> QED
      BY <2>1, <2>4, <3>1
  <2> QED
    BY <2>2, <2>3, <2>7, <2>8
<1> QED
  BY <1>5, <1>6

\* spawn: the listener has the token of the file.
LEMMA SpawnTokens ==
  ASSUME EditorShape, EditorShape', TokensInv, EntriesInv, Editor!Spawn
  PROVE  TokensInv' /\ EntriesInv'
<1>1. /\ live' = file' /\ (file # 0 => file' = file) /\ UNCHANGED <<listed, disk, job, editorMishaps>>
  BY DEF Editor!Spawn, Editor!ReadToken, Editor!Current
<1>2. TokensInv'
  BY <1>1 DEF TokensInv, Holds
<1>3. EntriesInv'
  <2> SUFFICES ASSUME Benign' PROVE /\ live' # 0 => live' = file'
                                    /\ \A u \in Editor!Tasks : Holds(u)' => job'[u].tok = file' /\ file' # 0
                                    /\ (\A i \in 1..Len(listed) : Current(listed[i]))'
                                    /\ \A u \in Users, q \in Repos : Adds(u, q)' => Fresh(q)'
    BY DEF EntriesInv
  <2>1. /\ \A u \in Editor!Tasks : Holds(u) => job[u].tok = file /\ file # 0
        /\ \A i \in 1..Len(listed) : Current(listed[i])
        /\ \A u \in Users, q \in Repos : Adds(u, q) => Fresh(q)
    BY <1>1 DEF EntriesInv, Benign
  <2>2. \A u \in Editor!Tasks : Holds(u)' => job'[u].tok = file' /\ file' # 0
    BY <1>1, <2>1 DEF Holds
  <2>3. \A q \in Repos : Fresh(q) => Fresh(q)'
    BY <1>1 DEF Fresh, TokensInv
  <2>4. \A q \in Repos : Current(q) => Current(q)'
    BY <1>1, <2>3 DEF Current, Sweeps
  <2>5. (\A i \in 1..Len(listed) : Current(listed[i]))'
    <3>1. \A i \in 1..Len(listed) : listed[i] \in Repos
      BY ShapeTypes
    <3>2. \A i \in 1..Len(listed) : \A q \in Repos : q = listed[i] => Current(q)'
      BY <2>1, <2>4
    <3> QED
      BY <1>1, <3>1, <3>2 DEF Current, Fresh, Sweeps
  <2>6. \A u \in Users, q \in Repos : Adds(u, q)' => Fresh(q)'
    BY <1>1, <2>1, <2>3 DEF Adds
  <2> QED
    BY <1>1, <2>2, <2>5, <2>6
<1> QED
  BY <1>2, <1>3

LEMMA LoseTokenTokens ==
  ASSUME EditorShape, TokensInv, Editor!LoseToken
  PROVE  TokensInv' /\ EntriesInv'
<1>1. UNCHANGED <<disk, job>>
  BY DEF Editor!LoseToken
<1>2. "gone" \in editorMishaps'
  <2>1. Editor!Happen({"gone"}) /\ editorMishaps \subseteq Editor!MishapNames
    BY ShapeTypes DEF Editor!LoseToken
  <2> QED
    BY <2>1, HappenIs
<1>3. ~Benign'
  BY <1>2 DEF Benign
<1>4. EntriesInv'
  BY <1>3 DEF EntriesInv
<1>5. TokensInv'
  BY <1>1 DEF TokensInv, Holds
<1> QED
  BY <1>4, <1>5

\* The user has no token to put into a file.
LEMMA SaveTokens ==
  ASSUME EditorShape, EditorShape', TokensInv, EntriesInv, NEW p \in Repos, NEW k \in Editor!Kinds, Editor!Save(p, k)
  PROVE  TokensInv' /\ EntriesInv'
<1>1. UNCHANGED <<file, live, listed, job>> /\ editorMishaps \subseteq editorMishaps'
  BY SaveIs
<1> PICK M \in Texts : disk' = [disk EXCEPT ![p][k] = M] /\ (M.ours = {} \/ (M.text = "object" /\ M.ours = disk[p][k].ours))
  BY SaveIs
<1>2. \A q \in Repos : disk'[q]["mcp"].ours \subseteq disk[q]["mcp"].ours
  <2>1. disk \in [Repos -> [Editor!Kinds -> Texts]] /\ "mcp" \in Editor!Kinds
    BY ShapeTypes DEF Editor!Kinds
  <2>2. /\ disk'[p][k] = M
        /\ \A q \in Repos, l \in Editor!Kinds : q # p \/ l # k => disk'[q][l] = disk[q][l]
    BY <2>1, DiskPut
  <2> TAKE q \in Repos
  <2>3. CASE q = p /\ k = "mcp"
    BY <2>2, <2>3
  <2>4. CASE q # p \/ k # "mcp"
    BY <2>1, <2>2, <2>4
  <2> QED
    BY <2>3, <2>4
<1>3. \A u \in Editor!Tasks : HoldsKept(u)
  BY <1>1 DEF HoldsKept, Holds
<1>4. TokensInv'
  BY <1>2, <1>3, TokensKept DEF TokensInv
<1>5. \A q \in Repos : EntryGoesOn(q)
  BY <1>1, <1>2 DEF EntryGoesOn, Fresh, Listed, Sweeps, Adds
<1>6. EntriesInv'
  BY <1>1, <1>3, <1>5, EntriesKept
<1> QED
  BY <1>4, <1>6

\* A command or call begins: no one adds a project yet.
LEMMA BeginTokens ==
  ASSUME EditorShape, EditorShape', TokensInv, EntriesInv, NEW t \in Users, TaskMoved(t), job'[t].todo # <<>>,
         job'[t].todo[1][1] \notin {"entry", "add"}, UNCHANGED <<file, live, listed>>, editorMishaps \subseteq editorMishaps',
         \A q \in Repos : Editor!Cloned(q) => disk'[q]["mcp"] = disk[q]["mcp"],
         \A q \in Repos : 0 \notin disk'[q]["mcp"].ours
  PROVE  TokensInv' /\ EntriesInv'
<1>1. t \in Editor!Tasks /\ t \notin Editor!Rotations
  BY UsersOrRotations
<1>2. \A u \in Editor!Tasks : HoldsKept(u)
  BY <1>1, HoldsBegin, HoldsOthers
<1>3. TokensInv'
  BY <1>2, TokensKept
<1>4. \A u \in Editor!Tasks : u # t => job'[u] = job[u]
  BY DEF TaskMoved, OthersRest
<1>5. \A q \in Repos : EntryGoesOn(q)
  <2> TAKE q \in Repos
  <2>1. Editor!Cloned(q) /\ Fresh(q) => Fresh(q)'
    BY DEF Fresh
  <2>2. Listed(q)' => Listed(q)
    BY DEF Listed
  <2>3. \A u \in Editor!Rotations : Sweeps(u, q) => Sweeps(u, q)'
    BY <1>1, <1>4, UsersOrRotations DEF Sweeps
  <2>4. \A u \in Users : Adds(u, q)' => Adds(u, q)
    <3> SUFFICES ASSUME NEW u \in Users, Adds(u, q)' PROVE Adds(u, q)
      OBVIOUS
    <3>1. u # t
      BY DEF Adds
    <3> QED
      BY <1>4, <3>1, UsersOrRotations DEF Adds
  <2> QED
    BY <2>1, <2>2, <2>3, <2>4 DEF EntryGoesOn
<1>6. EntriesInv'
  BY <1>2, <1>5, EntriesKept
<1> QED
  BY <1>3, <1>6

LEMMA OpenTokens ==
  ASSUME EditorShape, EditorShape', TokensInv, EntriesInv, NEW p \in Repos, Editor!Open(p)
  PROVE  TokensInv' /\ EntriesInv'
<1> PICK s \in Seq(Steps), port \in Ports \cup {0} :
           /\ TaskMoved("main") /\ job["main"].todo = <<>> /\ job'["main"].todo = s /\ job'["main"].at = "read"
           /\ job'["main"].tok = 0 /\ job'["main"].port = port
           /\ s[1] = <<"rule", p>> /\ s[2] = <<"settings", p>> /\ s[3] = <<"token", p>> /\ s[4] = <<"entry", p>>
           /\ Len(s) = 4 /\ Ordered("main", s) /\ Editor!Cloned(p)
  BY OpenIs
<1> PICK t \in Users : t = "main"
  BY DEF Users
<1>1. TaskMoved(t) /\ job'[t].todo # <<>> /\ job'[t].todo[1][1] \notin {"entry", "add"}
  OBVIOUS
<1>2. UNCHANGED <<file, live, listed, disk, editorMishaps>>
  BY DEF Editor!Open
<1>3. /\ \A q \in Repos : Editor!Cloned(q) => disk'[q]["mcp"] = disk[q]["mcp"]
      /\ \A q \in Repos : 0 \notin disk'[q]["mcp"].ours
  BY <1>2 DEF TokensInv
<1>4. UNCHANGED <<file, live, listed>> /\ editorMishaps \subseteq editorMishaps'
  BY <1>2
<1> QED
  BY <1>1, <1>3, <1>4, BeginTokens

LEMMA ImportTokens ==
  ASSUME EditorShape, EditorShape', TokensInv, EntriesInv, NEW p \in Repos, Editor!Import(p)
  PROVE  TokensInv' /\ EntriesInv'
<1> PICK s \in Seq(Steps) :
       /\ job'["main"].todo = s /\ Len(s) = 4 /\ Ordered("main", s)
       /\ s[1] = <<"slug", p>> /\ s[2] = <<"token", p>> /\ s[3] = <<"entry", p>> /\ s[4] = <<"add", p>>
  BY ImportIs
<1> PICK M \in Texts : disk' = [disk EXCEPT ![p]["settings"] = M] /\ M.ours = {}
  BY ImportIs
<1> PICK t \in Users : t = "main"
  BY DEF Users
<1>1. TaskMoved(t) /\ job'[t].todo # <<>> /\ job'[t].todo[1][1] \notin {"entry", "add"}
  BY ImportIs
<1>2. UNCHANGED <<file, live, listed>> /\ editorMishaps \subseteq editorMishaps'
  BY ImportIs
<1>3. \A q \in Repos : disk'[q]["mcp"] = disk[q]["mcp"]
  <2>1. disk \in [Repos -> [Editor!Kinds -> Texts]] /\ "mcp" \in Editor!Kinds /\ "settings" \in Editor!Kinds
    BY ShapeTypes DEF Editor!Kinds
  <2>2. \A q \in Repos, l \in Editor!Kinds : q # p \/ l # "settings" => disk'[q][l] = disk[q][l]
    BY <2>1, DiskPut
  <2> QED
    BY <2>1, <2>2
<1>4. \A q \in Repos : 0 \notin disk'[q]["mcp"].ours
  BY <1>3 DEF TokensInv
<1> QED
  BY <1>1, <1>2, <1>3, <1>4, BeginTokens

LEMMA ForkTokens ==
  ASSUME EditorShape, EditorShape', TokensInv, EntriesInv, NEW p \in Repos, NEW q \in Repos, Editor!Fork(p, q)
  PROVE  TokensInv' /\ EntriesInv'
<1> PICK s \in Seq(Steps) :
       /\ job'["tool"].todo = s /\ Len(s) = 4 /\ Ordered("tool", s)
       /\ s[1] = <<"mark", q>> /\ s[2] = <<"token", q>> /\ s[3] = <<"entry", q>> /\ s[4] = <<"add", q>>
  BY ForkIs
<1> PICK t \in Users : t = "tool"
  BY DEF Users
<1>1. TaskMoved(t) /\ job'[t].todo # <<>> /\ job'[t].todo[1][1] \notin {"entry", "add"}
  BY ForkIs
<1>2. UNCHANGED <<file, live, listed>> /\ editorMishaps \subseteq editorMishaps' /\ ~Editor!Cloned(q)
      /\ disk' = [disk EXCEPT ![q] = disk[p]]
  BY ForkIs
<1>3. disk \in [Repos -> [Editor!Kinds -> Texts]]
  BY ShapeTypes
<1>4. \A r \in Repos : Editor!Cloned(r) => disk'[r]["mcp"] = disk[r]["mcp"]
  BY <1>2, <1>3
<1>5. \A r \in Repos : 0 \notin disk'[r]["mcp"].ours
  BY <1>2, <1>3 DEF TokensInv
<1> QED
  BY <1>1, <1>2, <1>4, <1>5, BeginTokens

\* mcp_rotate_token: a rotation that overtakes nobody begins when no one has
\* anything to do.
LEMMA RotationTokens ==
  ASSUME EditorShape, EditorShape', TokensInv, EntriesInv, NEW t \in Editor!Rotations, Editor!BeginRotation(t)
  PROVE  TokensInv' /\ EntriesInv'
<1>1. /\ TaskMoved(t) /\ t \in Editor!Tasks /\ job'[t].todo = <<<<"list", Old>>>> /\ job'[t].tok = minted'
      /\ minted' = minted + 1 /\ file' = minted' /\ live' = minted'
      /\ UNCHANGED <<listed, disk>>
      /\ "twice" \notin editorMishaps' => \A u \in Editor!Rotations : job[u].todo = <<>>
      /\ "behind" \notin editorMishaps' => \A u \in Users : job[u].todo = <<>>
  BY RotationIs
<1>2. minted \in Nat /\ file' # 0
  BY <1>1, ShapeTypes
<1>3. \A u \in Editor!Tasks : u # t => job'[u] = job[u]
  BY <1>1 DEF TaskMoved, OthersRest
<1>4. TokensInv'
  <2>1. \A u \in Editor!Tasks : Holds(u)' => job'[u].tok # 0
    <3> SUFFICES ASSUME NEW u \in Editor!Tasks, Holds(u)' PROVE job'[u].tok # 0
      OBVIOUS
    <3>1. CASE u = t
      BY <1>1, <1>2, <3>1
    <3>2. CASE u # t
      BY <1>3, <3>2 DEF Holds, TokensInv
    <3> QED
      BY <3>1, <3>2
  <2>2. \A q \in Repos : 0 \notin disk'[q]["mcp"].ours
    BY <1>1 DEF TokensInv
  <2> QED
    BY <2>1, <2>2 DEF TokensInv
<1>5. EntriesInv'
  <2> SUFFICES ASSUME Benign' PROVE /\ live' # 0 => live' = file'
                                    /\ \A u \in Editor!Tasks : Holds(u)' => job'[u].tok = file' /\ file' # 0
                                    /\ (\A i \in 1..Len(listed) : Current(listed[i]))'
                                    /\ \A u \in Users, q \in Repos : Adds(u, q)' => Fresh(q)'
    BY DEF EntriesInv
  <2>1. \A u \in Editor!Tasks : job[u].todo = <<>>
    BY <1>1, UsersOrRotations DEF Benign
  <2>2. \A u \in Editor!Tasks : Holds(u)' => u = t
    BY <1>3, <2>1 DEF Holds
  <2>3. \A q : Sweeps(t, q)'
    BY <1>1 DEF Sweeps
  <2>4. (\A i \in 1..Len(listed) : Current(listed[i]))'
    BY <2>3 DEF Current, Sweeps
  <2>5. \A u \in Users, q \in Repos : ~Adds(u, q)'
    BY <1>3, <2>1, UsersOrRotations DEF Adds
  <2> QED
    BY <1>1, <1>2, <2>2, <2>4, <2>5
<1> QED
  BY <1>4, <1>5

LEMMA QuitTokens ==
  ASSUME EditorShape, EditorShape', TokensInv, EntriesInv, Editor!Quit
  PROVE  TokensInv' /\ EntriesInv'
<1>1. /\ \A t \in Editor!Tasks : job'[t].todo = <<>>
      /\ UNCHANGED <<file, listed, disk>> /\ live' = 0 /\ editorMishaps \subseteq editorMishaps'
      /\ (editorMishaps' \cap {"torn", "crash"} = {} => \A t \in Editor!Tasks : job[t].todo = <<>>)
  BY QuitIs
<1>2. \A t \in Editor!Tasks : ~Holds(t)'
  BY <1>1 DEF Holds
<1>3. TokensInv'
  BY <1>1, <1>2 DEF TokensInv
<1>4. EntriesInv'
  <2> SUFFICES ASSUME Benign' PROVE /\ live' # 0 => live' = file'
                                    /\ \A u \in Editor!Tasks : Holds(u)' => job'[u].tok = file' /\ file' # 0
                                    /\ (\A i \in 1..Len(listed) : Current(listed[i]))'
                                    /\ \A u \in Users, q \in Repos : Adds(u, q)' => Fresh(q)'
    BY DEF EntriesInv
  <2>1. (\A i \in 1..Len(listed) : Current(listed[i])) /\ \A t \in Editor!Tasks : job[t].todo = <<>>
    BY <1>1 DEF EntriesInv, Benign
  <2>2. \A q : \A t \in Editor!Rotations : ~Sweeps(t, q)
    BY <2>1, UsersOrRotations DEF Sweeps
  <2>3. \A i \in 1..Len(listed) : disk[listed[i]]["mcp"].ours \subseteq {file}
    BY <2>1, <2>2 DEF Current, Fresh
  <2>4. (\A i \in 1..Len(listed) : Current(listed[i]))'
    BY <1>1, <2>3 DEF Current, Fresh
  <2>5. \A u \in Users, q \in Repos : ~Adds(u, q)'
    BY <1>1, UsersOrRotations DEF Adds
  <2> QED
    BY <1>1, <1>2, <2>4, <2>5
<1> QED
  BY <1>3, <1>4

-----------------------------------------------------------------------------
(* The settings have the port of the rule *)

\* Files, rules and the main thread's place at the settings as they were.
LEMMA FilesKept ==
  ASSUME FilesInv, UNCHANGED <<saves, rule>>, editorMishaps \subseteq editorMishaps',
         \A q \in Repos : disk'[q]["settings"] = disk[q]["settings"],
         \A q \in Repos : (AtSettings(q)' <=> AtSettings(q)) /\ (AtSettings(q) => job'["main"].port = job["main"].port)
  PROVE  FilesInv'
<1>1. Unhindered' => Unhindered
  BY DEF Unhindered
<1>2. Unhindered' => \A q \in Repos : PortTold(q)' /\ (AtSettings(q)' => rule'[q] = job'["main"].port)
  <2> SUFFICES ASSUME Unhindered', NEW q \in Repos PROVE PortTold(q)' /\ (AtSettings(q)' => rule'[q] = job'["main"].port)
    OBVIOUS
  <2>1. PortTold(q) /\ (AtSettings(q) => rule[q] = job["main"].port)
    BY <1>1 DEF FilesInv
  <2>2. AtSettings(q)' => rule'[q] = job'["main"].port
    BY <2>1
  <2>3. PortTold(q)'
    BY <2>1 DEF PortTold
  <2> QED
    BY <2>2, <2>3
<1> QED
  BY <1>2 DEF FilesInv

\* Nobody comes to the settings but from the rule.
LEMMA SettingsMove ==
  ASSUME EditorShape, NEW t \in Editor!Tasks, TaskMoved(t), NEW op, NEW p \in Repos, AtStep(t, op, p), op \notin {"rule", "settings"},
         Advances(t) \/ Proceeds(t)
  PROVE  \A q \in Repos : (AtSettings(q)' <=> AtSettings(q)) /\ (AtSettings(q) => job'["main"].port = job["main"].port)
<1> TAKE q \in Repos
<1>1. CASE t # "main"
  <2>1. job'["main"] = job["main"]
    BY <1>1 DEF TaskMoved, OthersRest, Editor!Tasks
  <2> QED
    BY <2>1 DEF AtSettings
<1>2. CASE t = "main"
  <2>1. ~AtSettings(q)
    BY <1>2 DEF AtSettings, AtStep
  <2>2. ~AtSettings(q)'
    <3> SUFFICES ASSUME AtSettings(q)' PROVE FALSE
      OBVIOUS
    <3>1. AtStep(t, "settings", q)'
      BY <1>2 DEF AtSettings, AtStep
    <3>2. CASE Advances(t)
      BY <3>1, <3>2, NextStep
    <3>3. CASE Proceeds(t)
      BY <3>1, <3>3 DEF AtStep, Proceeds
    <3> QED
      BY <3>2, <3>3
  <2> QED
    BY <2>1, <2>2
<1> QED
  BY <1>1, <1>2

\* The main thread has not moved.
LEMMA SettingsRest ==
  ASSUME job'["main"] = job["main"]
  PROVE  \A q \in Repos : (AtSettings(q)' <=> AtSettings(q)) /\ (AtSettings(q) => job'["main"].port = job["main"].port)
  BY DEF AtSettings

\* It begins.
LEMMA SettingsBegin ==
  ASSUME job["main"].todo = <<>>, job'["main"].todo[1][1] # "settings"
  PROVE  \A q \in Repos : ~AtSettings(q) /\ ~AtSettings(q)'
  BY DEF AtSettings

LEMMA FilesOfStep ==
  ASSUME EditorShape, FilesInv, NEW t \in Editor!Tasks, NEW p \in Repos,
         Editor!Name(t, p) \/ Editor!Add(t, p) \/ Editor!TakeToken(t, p)
  PROVE  FilesInv'
<1>1. UNCHANGED <<saves, rule, disk, editorMishaps>>
  BY DEF Editor!Name, Editor!Add, Editor!TakeToken
<1>2. \E op : op \notin {"rule", "settings"} /\ TaskMoved(t) /\ AtStep(t, op, p) /\ Advances(t)
  BY NameIs, AddIs, TokenAdvances DEF TaskMoved, AtStep
<1>3. \A q \in Repos : (AtSettings(q)' <=> AtSettings(q)) /\ (AtSettings(q) => job'["main"].port = job["main"].port)
  BY <1>2, SettingsMove
<1> QED
  BY <1>1, <1>3, FilesKept

LEMMA FilesOfOthers ==
  ASSUME EditorShape, FilesInv,
         \/ Editor!Spawn \/ Editor!LoseToken \/ \E t \in Editor!Rotations : Editor!BeginRotation(t)
         \/ \E t \in Editor!Tasks, p \in Repos : Editor!List(t, p)
  PROVE  FilesInv'
<1>1. CASE Editor!Spawn \/ Editor!LoseToken
  <2>1. UNCHANGED <<saves, rule, disk, job>>
    BY <1>1 DEF Editor!Spawn, Editor!LoseToken
  <2>2. editorMishaps \subseteq editorMishaps'
    <3>1. CASE Editor!Spawn
      BY <3>1 DEF Editor!Spawn
    <3>2. CASE Editor!LoseToken
      <4>1. Editor!Happen({"gone"}) /\ editorMishaps \subseteq Editor!MishapNames
        BY <3>2, ShapeTypes DEF Editor!LoseToken
      <4> QED
        BY <4>1, HappenIs
    <3> QED
      BY <1>1, <3>1, <3>2
  <2> QED
    BY <2>1, <2>2, FilesKept, SettingsRest
<1>2. CASE \E t \in Editor!Rotations : Editor!BeginRotation(t)
  <2> PICK t \in Editor!Rotations : Editor!BeginRotation(t)
    BY <1>2
  <2>1. TaskMoved(t) /\ UNCHANGED <<disk, rule, saves>> /\ editorMishaps \subseteq editorMishaps'
    BY RotationIs
  <2>2. job'["main"] = job["main"]
    BY <2>1 DEF TaskMoved, OthersRest, Editor!Tasks, Editor!Rotations
  <2> QED
    BY <2>1, <2>2, FilesKept, SettingsRest
<1>3. CASE \E t \in Editor!Tasks, p \in Repos : Editor!List(t, p)
  <2> PICK t \in Editor!Tasks, p \in Repos : Editor!List(t, p)
    BY <1>3
  <2>1. TaskMoved(t) /\ t \in Editor!Rotations
    BY ListIs
  <2>2. UNCHANGED <<disk, rule, saves, editorMishaps>>
    BY DEF Editor!List
  <2>3. job'["main"] = job["main"]
    BY <2>1 DEF TaskMoved, OthersRest, Editor!Tasks, Editor!Rotations
  <2> QED
    BY <2>2, <2>3, FilesKept, SettingsRest
<1> QED
  BY <1>1, <1>2, <1>3

LEMMA FilesOfOpen ==
  ASSUME EditorShape, FilesInv, NEW p \in Repos, Editor!Open(p)
  PROVE  FilesInv'
<1> PICK s \in Seq(Steps), port \in Ports \cup {0} :
           /\ TaskMoved("main") /\ job["main"].todo = <<>> /\ job'["main"].todo = s /\ job'["main"].at = "read"
           /\ job'["main"].tok = 0 /\ job'["main"].port = port
           /\ s[1] = <<"rule", p>> /\ s[2] = <<"settings", p>> /\ s[3] = <<"token", p>> /\ s[4] = <<"entry", p>>
           /\ Len(s) = 4 /\ Ordered("main", s) /\ Editor!Cloned(p)
  BY OpenIs
<1>1. job["main"].todo = <<>> /\ job'["main"].todo[1][1] # "settings"
  OBVIOUS
<1>2. UNCHANGED <<saves, rule, disk, editorMishaps>>
  BY DEF Editor!Open
<1> QED
  BY <1>1, <1>2, SettingsBegin, FilesKept

\* A clone has no rule.
LEMMA FilesOfImport ==
  ASSUME EditorShape, FilesInv, NEW p \in Repos, Editor!Import(p)
  PROVE  FilesInv'
<1> PICK s \in Seq(Steps) :
       /\ job'["main"].todo = s /\ Len(s) = 4 /\ Ordered("main", s)
       /\ s[1] = <<"slug", p>> /\ s[2] = <<"token", p>> /\ s[3] = <<"entry", p>> /\ s[4] = <<"add", p>>
  BY ImportIs
<1> PICK M \in Texts : disk' = [disk EXCEPT ![p]["settings"] = M] /\ M.ours = {}
  BY ImportIs
<1>1. job["main"].todo = <<>> /\ job'["main"].todo[1][1] # "settings"
  BY ImportIs
<1>2. UNCHANGED <<saves, rule, editorMishaps>> /\ ~Editor!Cloned(p)
  BY ImportIs
<1>3. \A q \in Repos : q # p => disk'[q] = disk[q]
  BY ShapeTypes
<1>4. \A q \in Repos : ~AtSettings(q) /\ ~AtSettings(q)'
  BY <1>1, SettingsBegin
<1>5. rule[p] \notin Ports
  <2>1. NotCloned(p)
    BY <1>2 DEF EditorShape
  <2> QED
    BY <2>1, NoRuleGiven DEF NotCloned
<1>6. Unhindered' => \A q \in Repos : PortTold(q)' /\ (AtSettings(q)' => rule'[q] = job'["main"].port)
  <2> SUFFICES ASSUME Unhindered', NEW q \in Repos PROVE PortTold(q)'
    BY <1>4
  <2>1. PortTold(q)
    BY <1>2 DEF FilesInv, Unhindered
  <2>2. CASE q = p
    BY <1>2, <1>5, <2>2 DEF PortTold
  <2>3. CASE q # p
    BY <1>2, <1>3, <1>4, <2>1, <2>3 DEF PortTold
  <2> QED
    BY <2>2, <2>3
<1> QED
  BY <1>2, <1>6 DEF FilesInv

\* A fork has the rule and the settings of its parent, at which nobody is.
LEMMA FilesOfFork ==
  ASSUME EditorShape, FilesInv, NEW p \in Repos, NEW q \in Repos, Editor!Fork(p, q)
  PROVE  FilesInv'
<1>1. /\ disk' = [disk EXCEPT ![q] = disk[p]] /\ rule' = [rule EXCEPT ![q] = rule[p]] /\ UNCHANGED saves
      /\ editorMishaps \subseteq editorMishaps' /\ TaskMoved("tool") /\ ~Editor!Cloned(q)
      /\ "race" \notin editorMishaps' => \A t \in Editor!Tasks : job[t].todo # <<>> => job[t].todo[1][2] # p
  BY ForkIs
<1>2. job'["main"] = job["main"] /\ "main" \in Editor!Tasks
  BY <1>1 DEF TaskMoved, OthersRest, Editor!Tasks
<1>3. \A r \in Repos : AtSettings(r)' <=> AtSettings(r)
  BY <1>2 DEF AtSettings
<1>4. ~AtSettings(q)
  <2>1. AtSettings(q) => AtStep("main", "settings", q)
    BY DEF AtSettings, AtStep
  <2> QED
    BY <1>1, <1>2, <2>1, AtStepRow
<1>5. disk \in [Repos -> [Editor!Kinds -> Texts]] /\ rule \in [Repos -> Ports \cup {0, Editor!NoRule}]
  BY ShapeTypes
<1>6. /\ disk'[q] = disk[p] /\ rule'[q] = rule[p]
      /\ \A r \in Repos : r # q => disk'[r] = disk[r] /\ rule'[r] = rule[r]
  BY <1>1, <1>5
<1>7. Unhindered' => \A r \in Repos : PortTold(r)' /\ (AtSettings(r)' => rule'[r] = job'["main"].port)
  <2> SUFFICES ASSUME Unhindered', NEW r \in Repos PROVE PortTold(r)' /\ (AtSettings(r)' => rule'[r] = job'["main"].port)
    OBVIOUS
  <2>1. /\ PortTold(r) /\ (AtSettings(r) => rule[r] = job["main"].port) /\ PortTold(p)
    BY <1>1 DEF FilesInv, Unhindered
  <2>2. CASE r = q
    <3>1. ~AtSettings(p)
      <4>1. "race" \notin editorMishaps'
        BY DEF Unhindered
      <4> QED
        BY <1>1, <1>2, <4>1 DEF AtSettings
    <3>2. ~AtSettings(r)'
      BY <1>3, <1>4, <2>2
    <3>3. PortTold(r)'
      BY <1>6, <2>1, <2>2, <3>1 DEF PortTold
    <3> QED
      BY <3>2, <3>3
  <2>3. CASE r # q
    BY <1>2, <1>3, <1>6, <2>1, <2>3 DEF PortTold
  <2> QED
    BY <2>2, <2>3
<1>8. saves' \in Nat
  BY <1>1 DEF FilesInv
<1> QED
  BY <1>7, <1>8 DEF FilesInv

LEMMA FilesOfSave ==
  ASSUME EditorShape, FilesInv, NEW p \in Repos, NEW k \in Editor!Kinds, Editor!Save(p, k)
  PROVE  FilesInv'
<1>1. saves' = saves + 1 /\ saves \in Nat
  BY SaveIs DEF FilesInv
<1>2. saves' \in Nat /\ saves' # 0
  BY <1>1
<1> QED
  BY <1>2 DEF FilesInv, Unhindered

LEMMA FilesOfQuit ==
  ASSUME EditorShape, FilesInv, Editor!Quit
  PROVE  FilesInv'
<1>1. /\ \A t \in Editor!Tasks : job'[t].todo = <<>>
      /\ UNCHANGED <<disk, rule, saves>> /\ editorMishaps \subseteq editorMishaps'
      /\ (editorMishaps' \cap {"torn", "crash"} = {} => \A t \in Editor!Tasks : job[t].todo = <<>>)
  BY QuitIs
<1>2. "main" \in Editor!Tasks
  BY DEF Editor!Tasks
<1>3. \A q \in Repos : ~AtSettings(q)'
  BY <1>1, <1>2 DEF AtSettings
<1>4. Unhindered' => \A q \in Repos : PortTold(q)'
  <2> SUFFICES ASSUME Unhindered', NEW q \in Repos PROVE PortTold(q)'
    OBVIOUS
  <2>1. Unhindered /\ \A t \in Editor!Tasks : job[t].todo = <<>>
    BY <1>1 DEF Unhindered
  <2>2. PortTold(q) /\ ~AtSettings(q)
    BY <1>2, <2>1 DEF FilesInv, AtSettings
  <2> QED
    BY <1>1, <2>2 DEF PortTold
<1>5. saves' \in Nat
  BY <1>1 DEF FilesInv
<1> QED
  BY <1>3, <1>4, <1>5 DEF FilesInv

\* The rule has the port, and the settings are next.
LEMMA FilesOfRule ==
  ASSUME EditorShape, FilesInv, NEW t \in Editor!Tasks, NEW p \in Repos, Editor!WriteRule(t, p)
  PROVE  FilesInv'
<1>1. /\ TaskMoved(t) /\ AtStep(t, "rule", p) /\ t = "main"
      /\ \/ Advances(t) /\ rule' = [rule EXCEPT ![p] = job[t].port] /\ UNCHANGED editorMishaps
         \/ "fail" \in editorMishaps'
  BY WriteRuleIs
<1>2. UNCHANGED <<saves, disk>>
  BY DEF Editor!WriteRule
<1>3. CASE "fail" \in editorMishaps'
  BY <1>2, <1>3 DEF FilesInv, Unhindered
<1>4. CASE Advances(t) /\ rule' = [rule EXCEPT ![p] = job[t].port] /\ UNCHANGED editorMishaps
  <2>1. Tail(job[t].todo) # <<>> /\ Tail(job[t].todo) \in Seq(Steps) /\ Tail(job[t].todo)[1][1] = "settings"
    BY <1>1, RuleThenSettings
  <2>2. job'[t].todo = Tail(job[t].todo) /\ job'[t].port = job[t].port
    BY <1>4, <2>1 DEF Advances
  <2>3. \A q : AtSettings(q)' => q = p
    <3> SUFFICES ASSUME NEW q, AtSettings(q)' PROVE q = p
      OBVIOUS
    <3>1. AtStep(t, "settings", q)'
      BY <1>1 DEF AtSettings, AtStep
    <3> QED
      BY <1>1, <1>4, <3>1, NextStep DEF Users
  <2>4. AtSettings(p)'
    <3> DEFINE next == Tail(job[t].todo)
    <3>1. next[1] \in Steps
      <4> HIDE DEF next
      <4>1. next \in Seq(Steps) /\ next # <<>>
        BY <2>1 DEF next
      <4> QED
        BY <4>1, TailIs
    <3>2. next[1] = <<"settings", next[1][2]>>
      BY <2>1, <3>1 DEF Steps
    <3>3. PICK q : next[1] = <<"settings", q>>
      BY <3>2
    <3>4. AtSettings(q)'
      BY <1>1, <2>1, <2>2, <3>3 DEF AtSettings
    <3> QED
      BY <2>3, <3>4
  <2>5. \A q : ~AtSettings(q)
    BY <1>1 DEF AtSettings, AtStep
  <2>6. rule \in [Repos -> Ports \cup {0, Editor!NoRule}]
    BY ShapeTypes
  <2>7. rule'[p] = job[t].port /\ \A q \in Repos : q # p => rule'[q] = rule[q]
    BY <1>4, <2>6
  <2>8. Unhindered' => \A q \in Repos : PortTold(q)' /\ (AtSettings(q)' => rule'[q] = job'["main"].port)
    <3> SUFFICES ASSUME Unhindered', NEW q \in Repos PROVE PortTold(q)' /\ (AtSettings(q)' => rule'[q] = job'["main"].port)
      OBVIOUS
    <3>1. PortTold(q)
      BY <1>2, <1>4 DEF FilesInv, Unhindered
    <3>2. CASE q = p
      BY <1>1, <2>2, <2>4, <2>7, <3>2 DEF PortTold
    <3>3. CASE q # p
      BY <1>2, <2>3, <2>5, <2>7, <3>1, <3>3 DEF PortTold
    <3> QED
      BY <3>2, <3>3
  <2> QED
    BY <1>2, <2>8 DEF FilesInv
<1> QED
  BY <1>1, <1>3, <1>4

\* Nobody but the main thread is at the settings of a project.
LEMMA MainAtSettings ==
  ASSUME EditorShape, NEW t \in Editor!Tasks, NEW p, AtStep(t, "settings", p)
  PROVE  t = "main" /\ AtSettings(p) /\ \A q : AtSettings(q) => q = p
<1>1. Ordered(t, job[t].todo) /\ 1 \in 1..Len(job[t].todo)
  BY AtStepRow
<1>2. job[t].todo[1] = <<"settings", p>> /\ job[t].todo # <<>>
  BY DEF AtStep
<1>3. t = "main"
  BY <1>1, <1>2 DEF Ordered
<1> QED
  BY <1>2, <1>3 DEF AtSettings

\* It is done with them,
LEMMA SettingsDone ==
  ASSUME EditorShape, NEW p, AtStep("main", "settings", p), Advances("main")
  PROVE  \A q : ~AtSettings(q)'
<1> SUFFICES ASSUME NEW q, AtSettings(q)' PROVE FALSE
  OBVIOUS
<1>1. AtStep("main", "settings", q)' /\ "main" \in Editor!Tasks
  BY DEF AtSettings, AtStep, Editor!Tasks
<1> QED
  BY <1>1, NextStep

\* or goes on with them.
LEMMA SettingsOn ==
  ASSUME Proceeds("main")
  PROVE  \A q \in Repos : (AtSettings(q)' <=> AtSettings(q)) /\ (AtSettings(q) => job'["main"].port = job["main"].port)
  BY DEF AtSettings, Proceeds

\* What is done at the entry leaves the settings alone.
LEMMA FilesAtEntry ==
  ASSUME EditorShape, FilesInv, NEW t \in Editor!Tasks, NEW p \in Repos,
         Editor!ReadFile(t, p, "entry") \/ Editor!Truncate(t, p, "entry") \/ Editor!Fill(t, p, "entry")
  PROVE  FilesInv'
<1> DEFINE e == "entry"
<1>1. "mcp" \in Editor!Kinds /\ "mcp" = Editor!KindOf(e) /\ e \in Edited
  BY DEF Editor!Kinds, Editor!KindOf, Edited
<1>2. UNCHANGED <<saves, rule>>
  BY DEF Editor!ReadFile, Editor!Truncate, Editor!Fill
<1>3. disk \in [Repos -> [Editor!Kinds -> Texts]] /\ "settings" \in Editor!Kinds
  BY ShapeTypes DEF Editor!Kinds
<1> HIDE DEF e
<1>4. Editor!ReadFile(t, p, e) \/ Editor!Truncate(t, p, e) \/ Editor!Fill(t, p, e)
  BY DEF e
<1>5. /\ TaskMoved(t) /\ AtStep(t, e, p) /\ (Advances(t) \/ Proceeds(t)) /\ editorMishaps \subseteq editorMishaps'
      /\ disk' = disk \/ \E M \in Texts : disk' = [disk EXCEPT ![p]["mcp"] = M]
  <2>1. CASE Editor!ReadFile(t, p, e)
    <3>1. disk' = disk
      BY <2>1 DEF Editor!ReadFile
    <3> QED
      BY <1>1, <2>1, <3>1, ReadFileIs
  <2>2. CASE Editor!Truncate(t, p, e)
    BY <1>1, <2>2, TruncateIs, NoJobIs
  <2>3. CASE Editor!Fill(t, p, e)
    <3>1. editorMishaps' = editorMishaps
      BY <2>3 DEF Editor!Fill
    <3> QED
      BY <1>1, <2>3, <3>1, FillIs
  <2> QED
    BY <1>4, <2>1, <2>2, <2>3
<1>6. \A q \in Repos : disk'[q]["settings"] = disk[q]["settings"]
  <2>1. CASE disk' = disk
    BY <2>1
  <2>2. CASE \E M \in Texts : disk' = [disk EXCEPT ![p]["mcp"] = M]
    BY <1>3, <2>2
  <2> QED
    BY <1>5, <2>1, <2>2
<1>7. \A q \in Repos : (AtSettings(q)' <=> AtSettings(q)) /\ (AtSettings(q) => job'["main"].port = job["main"].port)
  <2>1. e \notin {"rule", "settings"}
    BY DEF e
  <2> QED
    BY <1>5, <2>1, SettingsMove
<1> QED
  BY <1>2, <1>5, <1>6, <1>7, FilesKept

\* The settings are read: those that have the port already are left.
LEMMA FilesOfRead ==
  ASSUME EditorShape, FilesInv, NEW t \in Editor!Tasks, NEW p \in Repos, Editor!ReadFile(t, p, "settings")
  PROVE  FilesInv'
<1> DEFINE e == "settings"
<1>1. "settings" \in Editor!Kinds /\ "settings" = Editor!KindOf(e) /\ e \in Edited
  BY DEF Editor!Kinds, Editor!KindOf, Edited
<1>2. UNCHANGED <<saves, rule, disk>>
  BY DEF Editor!ReadFile
<1>3. /\ TaskMoved(t) /\ AtStep(t, "settings", p) /\ editorMishaps \subseteq editorMishaps'
      /\ \/ /\ Advances(t)
            /\ \/ job[t].port = 0 \/ Editor!Merged("settings", disk[p]["settings"], job[t]) = disk[p]["settings"]
               \/ ~Editor!Readable("settings", disk[p]["settings"])
         \/ Proceeds(t)
  <2> HIDE DEF e
  <2>1. Editor!ReadFile(t, p, e)
    BY DEF e
  <2>2. /\ TaskMoved(t) /\ AtStep(t, e, p) /\ editorMishaps \subseteq editorMishaps'
        /\ \/ /\ Advances(t)
              /\ \/ job[t].port = 0 \/ Editor!Merged("settings", disk[p]["settings"], job[t]) = disk[p]["settings"]
                 \/ ~Editor!Readable("settings", disk[p]["settings"])
           \/ Proceeds(t)
    BY <1>1, <2>1, ReadFileIs
  <2> QED
    BY <2>2 DEF e
<1>4. t = "main" /\ AtSettings(p) /\ \A q : AtSettings(q) => q = p
  BY <1>3, MainAtSettings
<1>5. CASE Proceeds(t)
  BY <1>2, <1>3, <1>4, <1>5, SettingsOn, FilesKept
<1>6. CASE Advances(t)
  <2>1. \A q : ~AtSettings(q)'
    BY <1>3, <1>4, <1>6, SettingsDone
  <2>2. CASE Proceeds(t)
    BY <1>5, <2>2
  <2>3. CASE \/ job[t].port = 0 \/ Editor!Merged("settings", disk[p]["settings"], job[t]) = disk[p]["settings"]
             \/ ~Editor!Readable("settings", disk[p]["settings"])
    <3>1. Unhindered' => \A q \in Repos : PortTold(q)'
      <4> SUFFICES ASSUME Unhindered', NEW q \in Repos PROVE PortTold(q)'
        OBVIOUS
      <4>1. PortTold(q) /\ (AtSettings(q) => rule[q] = job["main"].port)
        BY <1>2, <1>3 DEF FilesInv, Unhindered
      <4>2. CASE q # p
        BY <1>2, <1>4, <4>1, <4>2 DEF PortTold
      <4>3. CASE q = p
        <5>1. rule[p] = job[t].port /\ rule'[p] = rule[p] /\ disk'[p]["settings"] = disk[p]["settings"]
          BY <1>2, <1>4, <4>1, <4>3
        <5>2. CASE job[t].port = 0
          <6>1. 0 \notin Ports
            BY EditorGiven DEF Editor!EditorAssumption
          <6> QED
            BY <4>3, <5>1, <5>2, <6>1 DEF PortTold
        <5>3. CASE Editor!Merged("settings", disk[p]["settings"], job[t]) = disk[p]["settings"]
          <6>1. disk[p]["settings"] \in Texts /\ job[t] \in EditorJobs
            BY <1>1, ShapeTypes
          <6>2. disk[p]["settings"].ours = disk[p]["settings"].ours \cup {job[t].port}
            BY <1>1, <5>3, <6>1, MergedIs
          <6>3. job[t].port \in disk[p]["settings"].ours
            BY <6>2
          <6> QED
            BY <4>3, <5>1, <6>3 DEF PortTold
        <5>4. CASE ~Editor!Readable("settings", disk[p]["settings"])
          BY <4>3, <5>1, <5>4 DEF PortTold, Editor!Readable
        <5> QED
          BY <2>3, <5>2, <5>3, <5>4
      <4> QED
        BY <4>2, <4>3
    <3> QED
      BY <1>2, <2>1, <3>1 DEF FilesInv
  <2> QED
    BY <1>3, <2>2, <2>3
<1> QED
  BY <1>3, <1>5, <1>6

\* They are truncated,
LEMMA FilesOfTruncate ==
  ASSUME EditorShape, FilesInv, NEW t \in Editor!Tasks, NEW p \in Repos, Editor!Truncate(t, p, "settings")
  PROVE  FilesInv'
<1> DEFINE e == "settings"
<1>1. "settings" \in Editor!Kinds /\ "settings" = Editor!KindOf(e) /\ e \in Edited
  BY DEF Editor!Kinds, Editor!KindOf, Edited
<1>2. UNCHANGED <<saves, rule>>
  BY DEF Editor!Truncate
<1>3. /\ TaskMoved(t) /\ AtStep(t, "settings", p)
      /\ \/ Proceeds(t) /\ disk' = [disk EXCEPT ![p]["settings"] = Editor!Empty] /\ UNCHANGED editorMishaps
         \/ "fail" \in editorMishaps'
  <2> HIDE DEF e
  <2>1. Editor!Truncate(t, p, e)
    BY DEF e
  <2>2. /\ TaskMoved(t) /\ AtStep(t, e, p)
        /\ \/ Proceeds(t) /\ disk' = [disk EXCEPT ![p]["settings"] = Editor!Empty] /\ UNCHANGED editorMishaps
           \/ "fail" \in editorMishaps'
    BY <1>1, <2>1, TruncateIs
  <2> QED
    BY <2>2 DEF e
<1>4. t = "main" /\ AtSettings(p) /\ \A q : AtSettings(q) => q = p
  BY <1>3, MainAtSettings
<1>5. CASE "fail" \in editorMishaps'
  BY <1>2, <1>5 DEF FilesInv, Unhindered
<1>6. CASE Proceeds(t) /\ disk' = [disk EXCEPT ![p]["settings"] = Editor!Empty] /\ UNCHANGED editorMishaps
  <2>1. \A q \in Repos : (AtSettings(q)' <=> AtSettings(q)) /\ (AtSettings(q) => job'["main"].port = job["main"].port)
    BY <1>4, <1>6, SettingsOn
  <2>2. \A q \in Repos : q # p => disk'[q] = disk[q]
    BY <1>6, ShapeTypes
  <2>3. Unhindered' => \A q \in Repos : PortTold(q)' /\ (AtSettings(q)' => rule'[q] = job'["main"].port)
    <3> SUFFICES ASSUME Unhindered', NEW q \in Repos PROVE PortTold(q)' /\ (AtSettings(q)' => rule'[q] = job'["main"].port)
      OBVIOUS
    <3>1. PortTold(q) /\ (AtSettings(q) => rule[q] = job["main"].port)
      BY <1>2, <1>6 DEF FilesInv, Unhindered
    <3>2. CASE q = p
      BY <1>2, <1>4, <2>1, <3>1, <3>2 DEF PortTold
    <3>3. CASE q # p
      BY <1>2, <2>1, <2>2, <3>1, <3>3 DEF PortTold
    <3> QED
      BY <3>2, <3>3
  <2> QED
    BY <1>2, <2>3 DEF FilesInv
<1> QED
  BY <1>3, <1>5, <1>6

\* and have the port.
LEMMA FilesOfFill ==
  ASSUME EditorShape, FilesInv, NEW t \in Editor!Tasks, NEW p \in Repos, Editor!Fill(t, p, "settings")
  PROVE  FilesInv'
<1> DEFINE e == "settings"
<1>1. "settings" \in Editor!Kinds /\ "settings" = Editor!KindOf(e) /\ e \in Edited /\ "settings" # "mcp"
  BY DEF Editor!Kinds, Editor!KindOf, Edited
<1>2. UNCHANGED <<saves, rule, editorMishaps>>
  BY DEF Editor!Fill
<1>3. /\ AtStep(t, "settings", p) /\ Advances(t)
      /\ \E M \in Texts : disk' = [disk EXCEPT ![p]["settings"] = M] /\ M.ours = job[t].buf.ours \cup {job[t].port}
  <2> HIDE DEF e
  <2>1. Editor!Fill(t, p, e)
    BY DEF e
  <2>2. /\ AtStep(t, e, p) /\ Advances(t)
        /\ \E M \in Texts : disk' = [disk EXCEPT ![p]["settings"] = M] /\ M.ours = job[t].buf.ours \cup {job[t].port}
    BY <1>1, <2>1, FillIs
  <2> QED
    BY <2>2 DEF e
<1> PICK M \in Texts : disk' = [disk EXCEPT ![p]["settings"] = M] /\ M.ours = job[t].buf.ours \cup {job[t].port}
  BY <1>3
<1>4. t = "main" /\ AtSettings(p) /\ \A q : AtSettings(q) => q = p
  BY <1>3, MainAtSettings
<1>5. \A q : ~AtSettings(q)'
  BY <1>3, <1>4, SettingsDone
<1>6. disk'[p]["settings"] = M /\ \A q \in Repos : q # p => disk'[q] = disk[q]
  BY <1>1, ShapeTypes
<1>7. Unhindered' => \A q \in Repos : PortTold(q)'
  <2> SUFFICES ASSUME Unhindered', NEW q \in Repos PROVE PortTold(q)'
    OBVIOUS
  <2>1. PortTold(q) /\ (AtSettings(q) => rule[q] = job["main"].port)
    BY <1>2 DEF FilesInv, Unhindered
  <2>2. CASE q = p
    BY <1>2, <1>4, <1>6, <2>1, <2>2 DEF PortTold
  <2>3. CASE q # p
    BY <1>2, <1>4, <1>6, <2>1, <2>3 DEF PortTold
  <2> QED
    BY <2>2, <2>3
<1> QED
  BY <1>2, <1>5, <1>7 DEF FilesInv

-----------------------------------------------------------------------------
(* What the user has put into a file *)

HeldIn(p, k) == disk[p][k].own \/ \E t \in Editor!Tasks : Filling(t, k, p) /\ job[t].buf.own
Keeps == saves' = saves /\ Calm' => \A p \in Repos, k \in Editor!Kinds : HeldIn(p, k) => HeldIn(p, k)'

\* Those who write a file, and have truncated it.
LEMMA WritersAre ==
  ASSUME EditorShape, NEW k, NEW p, NEW t \in Editor!Tasks
  PROVE  /\ InHand(t, k, p) <=> t \in Editor!Writers(k, p) /\ job[t].at # "read"
         /\ Filling(t, k, p) <=> t \in Editor!Writers(k, p) /\ job[t].at = "fill"
<1>1. t \in Editor!Writers(k, p) <=> \E op \in Edited : Editor!KindOf(op) = k /\ AtStep(t, op, p)
  BY AtStepIs DEF Editor!Writers, Edited
<1>2. InHand(t, k, p) <=> (\E op \in Edited : Editor!KindOf(op) = k /\ AtStep(t, op, p)) /\ job[t].at # "read"
  BY DEF InHand, AtStep
<1> QED
  BY <1>1, <1>2 DEF Filling

LEMMA TornIs ==
  ASSUME EditorShape, NEW k, NEW p
  PROVE  Editor!Torn(k, p) <=> \E t \in Editor!Tasks : Filling(t, k, p)
<1>1. \A t : t \in Editor!Writers(k, p) => t \in Editor!Tasks
  BY DEF Editor!Writers
<1> QED
  BY <1>1, WritersAre DEF Editor!Torn

LEMMA HeldIs ==
  ASSUME EditorShape, NEW k, NEW p
  PROVE  Editor!Held(p, k) <=> HeldIn(p, k)
<1>1. \A t : t \in Editor!Writers(k, p) => t \in Editor!Tasks
  BY DEF Editor!Writers
<1> QED
  BY <1>1, WritersAre DEF Editor!Held, HeldIn

\* Whoever is at a file is at no other.
LEMMA OneHand ==
  ASSUME NEW t, NEW k, NEW p, NEW l, NEW q, InHand(t, k, p), InHand(t, l, q)
  PROVE  k = l /\ p = q
<1> PICK op \in Edited : Editor!KindOf(op) = k /\ job[t].todo[1] = <<op, p>>
  BY DEF InHand
<1> PICK o \in Edited : Editor!KindOf(o) = l /\ job[t].todo[1] = <<o, q>>
  BY DEF InHand
<1>1. <<op, p>> = <<o, q>>
  OBVIOUS
<1>2. op = o /\ p = q
  BY <1>1
<1> QED
  BY <1>2

LEMMA AtFile ==
  ASSUME NEW t, NEW op \in Edited, NEW p, NEW k, k = Editor!KindOf(op), AtStep(t, op, p), job[t].at # "read"
  PROVE  InHand(t, k, p) /\ \A l, q : InHand(t, l, q) => l = k /\ q = p
<1>1. InHand(t, k, p)
  BY DEF InHand, AtStep
<1> QED
  BY <1>1, OneHand

\* A file is in the hands of a task of a project with a tree.
LEMMA HandCloned ==
  ASSUME EditorShape, NEW t \in Editor!Tasks, NEW k, NEW p, InHand(t, k, p)
  PROVE  Editor!Cloned(p)
<1> PICK op \in Edited : job[t].todo[1] = <<op, p>>
  BY DEF InHand
<1>1. AtStep(t, op, p)
  BY DEF InHand, AtStep
<1> QED
  BY <1>1, AtStepRow

\* A task that has not moved has what it had.
LEMMA HandRests ==
  ASSUME NEW u, job'[u] = job[u]
  PROVE  \A k, p : /\ InHand(u, k, p)' <=> InHand(u, k, p)
                   /\ Filling(u, k, p)' <=> Filling(u, k, p)
<1>1. \A k, p : InHand(u, k, p)' <=> InHand(u, k, p)
  BY DEF InHand
<1> QED
  BY <1>1 DEF Filling

\* A file that is as it was, and is in no new hands.
LEMMA OwnOfKept ==
  ASSUME NEW k, NEW p, OwnOf(k, p), disk'[p][k].own = disk[p][k].own,
         \A t \in Editor!Tasks : InHand(t, k, p)' => InHand(t, k, p) /\ job'[t].buf = job[t].buf,
         \A t \in Editor!Tasks : Filling(t, k, p) => Filling(t, k, p)'
  PROVE  OwnOf(k, p)'
  BY DEF OwnOf

\* A task that is not filling leaves its file or comes to nothing, and files of
\* projects with a tree are as they were.
LEMMA OwnLeaves ==
  ASSUME EditorShape, OwnInv, editorMishaps \subseteq editorMishaps', NEW t \in Editor!Tasks, TaskMoved(t), job'[t].at = "read",
         \A k, p : ~Filling(t, k, p),
         \A p \in Repos, k \in Editor!Kinds : disk'[p][k].own = disk[p][k].own \/ ~Editor!Cloned(p)
  PROVE  OwnInv' /\ Keeps
<1>1. \A u \in Editor!Tasks : u # t => job'[u] = job[u]
  BY DEF TaskMoved, OthersRest
<1>2. \A k, p : ~InHand(t, k, p)'
  BY DEF InHand
<1>3. \A k, p : \A u \in Editor!Tasks : InHand(u, k, p)' => InHand(u, k, p) /\ job'[u].buf = job[u].buf
  BY <1>1, <1>2, HandRests
<1>4. \A k, p : \A u \in Editor!Tasks : Filling(u, k, p) => Filling(u, k, p)' /\ job'[u] = job[u]
  BY <1>1, HandRests
<1>5. ASSUME Calm', NEW p \in Repos, NEW k \in Editor!Kinds PROVE OwnOf(k, p)'
  <2>1. OwnOf(k, p)
    BY <1>5 DEF OwnInv, Calm
  <2>2. CASE disk'[p][k].own = disk[p][k].own
    BY <1>3, <1>4, <2>1, <2>2, OwnOfKept
  <2>3. CASE ~Editor!Cloned(p)
    <3>1. \A u \in Editor!Tasks : ~InHand(u, k, p)'
      BY <1>3, <2>3, HandCloned
    <3> QED
      BY <3>1 DEF OwnOf
  <2> QED
    BY <2>2, <2>3
<1>6. ASSUME NEW p \in Repos, NEW k \in Editor!Kinds, HeldIn(p, k) PROVE HeldIn(p, k)'
  <2>1. CASE \E u \in Editor!Tasks : Filling(u, k, p) /\ job[u].buf.own
    BY <1>4, <2>1 DEF HeldIn
  <2>2. CASE disk[p][k].own
    <3>1. Editor!Cloned(p)
      <4> SUFFICES ASSUME ~Editor!Cloned(p) PROVE FALSE
        OBVIOUS
      <4>1. disk[p][k] = Editor!Absent
        BY DEF EditorShape, NotCloned
      <4> QED
        BY <2>2, <4>1 DEF Editor!Absent
    <3> QED
      BY <2>2, <3>1 DEF HeldIn
  <2> QED
    BY <1>6, <2>1, <2>2 DEF HeldIn
<1> QED
  BY <1>5, <1>6 DEF OwnInv, Keeps

\* Nobody moves.
LEMMA OwnStays ==
  ASSUME OwnInv, UNCHANGED <<disk, job>>, editorMishaps \subseteq editorMishaps'
  PROVE  OwnInv' /\ Keeps
<1>1. \A u, k, p : (InHand(u, k, p)' <=> InHand(u, k, p)) /\ (Filling(u, k, p)' <=> Filling(u, k, p)) /\ job'[u] = job[u]
  BY HandRests
<1>2. ASSUME Calm', NEW p \in Repos, NEW k \in Editor!Kinds PROVE OwnOf(k, p)'
  <2>1. OwnOf(k, p)
    BY <1>2 DEF OwnInv, Calm
  <2> QED
    BY <1>1, <2>1, OwnOfKept
<1>3. \A p, k : HeldIn(p, k) => HeldIn(p, k)'
  BY <1>1 DEF HeldIn
<1> QED
  BY <1>2, <1>3 DEF OwnInv, Keeps

\* No user and no file: any step but those at a file, the saves and the end.
LEMMA OwnOfStep ==
  ASSUME EditorShape, OwnInv, NEW t \in Editor!Tasks, NEW p \in Repos,
         \/ Editor!Name(t, p) \/ Editor!Add(t, p) \/ Editor!TakeToken(t, p) \/ Editor!List(t, p) \/ Editor!WriteRule(t, p)
  PROVE  OwnInv' /\ Keeps
<1>1. UNCHANGED disk
  BY DEF Editor!Name, Editor!Add, Editor!TakeToken, Editor!List, Editor!WriteRule
<1>2. \E op : op \notin Edited /\ TaskMoved(t) /\ AtStep(t, op, p) /\ job'[t].at = "read" /\ editorMishaps \subseteq editorMishaps'
  <2>1. CASE Editor!Name(t, p)
    <3>1. editorMishaps' = editorMishaps
      BY <2>1 DEF Editor!Name
    <3> QED
      BY <2>1, <3>1, NameIs DEF Advances, Edited
  <2>2. CASE Editor!Add(t, p)
    <3>1. editorMishaps' = editorMishaps
      BY <2>2 DEF Editor!Add
    <3> QED
      BY <2>2, <3>1, AddIs DEF Advances, Edited
  <2>3. CASE Editor!TakeToken(t, p)
    <3>1. editorMishaps' = editorMishaps
      BY <2>3 DEF Editor!TakeToken
    <3> QED
      BY <2>3, <3>1, TokenAdvances DEF Advances, Edited, TaskMoved, AtStep
  <2>4. CASE Editor!List(t, p)
    <3>1. editorMishaps' = editorMishaps
      BY <2>4 DEF Editor!List
    <3> QED
      BY <2>4, <3>1, ListIs DEF Edited
  <2>5. CASE Editor!WriteRule(t, p)
    BY <2>5, WriteRuleIs DEF Advances, Skips, Edited
  <2> QED
    BY <2>1, <2>2, <2>3, <2>4, <2>5
<1>3. \A k, q : ~Filling(t, k, q)
  BY <1>2 DEF Filling, InHand, AtStep
<1> QED
  BY <1>1, <1>2, <1>3, OwnLeaves

\* A command or call that begins.
LEMMA OwnBegins ==
  ASSUME EditorShape, OwnInv, editorMishaps \subseteq editorMishaps', NEW t \in Editor!Tasks, TaskMoved(t),
         job[t].todo = <<>>, job'[t].at = "read",
         \A p \in Repos, k \in Editor!Kinds : disk'[p][k].own = disk[p][k].own \/ ~Editor!Cloned(p)
  PROVE  OwnInv' /\ Keeps
<1>1. \A k, q : ~Filling(t, k, q)
  BY DEF Filling, InHand
<1> QED
  BY <1>1, OwnLeaves

LEMMA OwnOfBegin ==
  ASSUME EditorShape, OwnInv, NEW p \in Repos,
         Editor!Import(p) \/ Editor!Open(p) \/ \E q \in Repos : Editor!Fork(p, q)
  PROVE  OwnInv' /\ Keeps
<1>1. disk \in [Repos -> [Editor!Kinds -> Texts]] /\ "settings" \in Editor!Kinds /\ {"main", "tool"} \subseteq Editor!Tasks
  BY ShapeTypes DEF Editor!Kinds, Editor!Tasks
<1>2. CASE Editor!Import(p)
  <2>1. /\ TaskMoved("main") /\ job["main"].todo = <<>> /\ job'["main"].at = "read" /\ ~Editor!Cloned(p)
        /\ editorMishaps' = editorMishaps /\ \E M \in Texts : disk' = [disk EXCEPT ![p]["settings"] = M]
    BY <1>2, ImportIs
  <2>2. \A q \in Repos : q # p => disk'[q] = disk[q]
    BY <1>1, <2>1
  <2>3. \A q \in Repos, k \in Editor!Kinds : disk'[q][k].own = disk[q][k].own \/ ~Editor!Cloned(q)
    BY <2>1, <2>2
  <2> QED
    BY <1>1, <2>1, <2>3, OwnBegins
<1>3. CASE Editor!Open(p)
  <2>1. UNCHANGED <<disk, editorMishaps>>
    BY <1>3 DEF Editor!Open
  <2>2. TaskMoved("main") /\ job["main"].todo = <<>> /\ job'["main"].at = "read"
    BY <1>3, OpenIs
  <2> QED
    BY <1>1, <2>1, <2>2, OwnBegins
<1>4. CASE \E q \in Repos : Editor!Fork(p, q)
  <2> PICK q \in Repos : Editor!Fork(p, q)
    BY <1>4
  <2>1. /\ TaskMoved("tool") /\ job["tool"].todo = <<>> /\ job'["tool"].at = "read" /\ ~Editor!Cloned(q)
        /\ editorMishaps \subseteq editorMishaps' /\ disk' = [disk EXCEPT ![q] = disk[p]]
    BY ForkIs
  <2>2. \A r \in Repos : r # q => disk'[r] = disk[r]
    BY <1>1, <2>1
  <2>3. \A r \in Repos, k \in Editor!Kinds : disk'[r][k].own = disk[r][k].own \/ ~Editor!Cloned(r)
    BY <2>1, <2>2
  <2> QED
    BY <1>1, <2>1, <2>3, OwnBegins
<1> QED
  BY <1>2, <1>3, <1>4

LEMMA OwnOfOthers ==
  ASSUME EditorShape, OwnInv,
         Editor!Spawn \/ Editor!LoseToken \/ \E t \in Editor!Rotations : Editor!BeginRotation(t)
  PROVE  OwnInv' /\ Keeps
<1>1. CASE Editor!Spawn
  BY <1>1, OwnStays DEF Editor!Spawn
<1>2. CASE Editor!LoseToken
  <2>1. Editor!Happen({"gone"}) /\ editorMishaps \subseteq Editor!MishapNames
    BY <1>2, ShapeTypes DEF Editor!LoseToken
  <2>2. editorMishaps \subseteq editorMishaps'
    BY <2>1, HappenIs
  <2>3. UNCHANGED <<disk, job>>
    BY <1>2 DEF Editor!LoseToken
  <2> QED
    BY <2>2, <2>3, OwnStays
<1>3. CASE \E t \in Editor!Rotations : Editor!BeginRotation(t)
  <2> PICK t \in Editor!Rotations : Editor!BeginRotation(t)
    BY <1>3
  <2>1. /\ TaskMoved(t) /\ t \in Editor!Tasks /\ job[t].todo = <<>> /\ job'[t].at = "read" /\ UNCHANGED disk
        /\ editorMishaps \subseteq editorMishaps'
    BY RotationIs
  <2> QED
    BY <2>1, OwnBegins
<1> QED
  BY <1>1, <1>2, <1>3

\* The launcher ends: what it had truncated is lost.
LEMMA OwnOfQuit ==
  ASSUME EditorShape, OwnInv, Editor!Quit
  PROVE  OwnInv' /\ Keeps
<1>1. /\ \A t \in Editor!Tasks : job'[t].todo = <<>> /\ UNCHANGED disk
      /\ ("torn" \notin editorMishaps' => \A p \in Repos, k \in Editor!Kinds : ~Editor!Torn(k, p))
  BY QuitIs
<1>2. \A k, p : \A t \in Editor!Tasks : ~InHand(t, k, p)'
  BY <1>1 DEF InHand
<1>3. OwnInv'
  BY <1>2 DEF OwnInv, OwnOf
<1>4. ASSUME Calm', NEW p \in Repos, NEW k \in Editor!Kinds, HeldIn(p, k) PROVE HeldIn(p, k)'
  <2>1. \A t \in Editor!Tasks : ~Filling(t, k, p)
    BY <1>1, <1>4, TornIs DEF Calm
  <2>2. disk[p][k].own /\ disk' = disk
    BY <1>1, <1>4, <2>1 DEF HeldIn, Editor!Tasks
  <2> QED
    BY <2>2 DEF HeldIn
<1> QED
  BY <1>3, <1>4 DEF Keeps

\* A save of the user, while nobody has the file in hand.
LEMMA OwnOfSave ==
  ASSUME EditorShape, OwnInv, saves \in Nat, NEW p \in Repos, NEW k \in Editor!Kinds, Editor!Save(p, k)
  PROVE  OwnInv' /\ Keeps
<1>1. /\ saves' = saves + 1 /\ UNCHANGED job /\ editorMishaps \subseteq editorMishaps'
      /\ \E M \in Texts : disk' = [disk EXCEPT ![p][k] = M]
      /\ "race" \notin editorMishaps' => \A t \in Editor!Writers(k, p) : job[t].at = "read"
  BY SaveIs
<1>2. Keeps
  <2>1. saves' # saves
    BY <1>1
  <2> QED
    BY <2>1 DEF Keeps
<1>3. \A u, l, q : (InHand(u, l, q)' <=> InHand(u, l, q)) /\ (Filling(u, l, q)' <=> Filling(u, l, q)) /\ job'[u] = job[u]
  BY <1>1, HandRests
<1>4. \A q \in Repos, l \in Editor!Kinds : q # p \/ l # k => disk'[q][l] = disk[q][l]
  BY <1>1, ShapeTypes, DiskPut
<1>5. ASSUME Calm', NEW q \in Repos, NEW l \in Editor!Kinds PROVE OwnOf(l, q)'
  <2>1. OwnOf(l, q)
    BY <1>1, <1>5 DEF OwnInv, Calm
  <2>2. CASE q # p \/ l # k
    <3>1. disk'[q][l].own = disk[q][l].own
      BY <1>4, <2>2
    <3> QED
      BY <1>3, <2>1, <3>1, OwnOfKept
  <2>3. CASE q = p /\ l = k
    <3>1. \A u \in Editor!Tasks : ~InHand(u, k, p)
      BY <1>1, <1>5, WritersAre DEF Calm
    <3>2. \A u \in Editor!Tasks : ~InHand(u, l, q)'
      BY <1>3, <2>3, <3>1
    <3> QED
      BY <3>2 DEF OwnOf
  <2> QED
    BY <2>2, <2>3
<1>6. OwnInv'
  BY <1>5 DEF OwnInv
<1> QED
  BY <1>2, <1>6

\* A file is read while nobody has truncated it: the reader has what all have.
LEMMA OwnOfRead ==
  ASSUME EditorShape, OwnInv, NEW t \in Editor!Tasks, NEW p \in Repos, NEW op \in Edited, Editor!ReadFile(t, p, op)
  PROVE  OwnInv' /\ Keeps
<1> PICK k \in Editor!Kinds : k = Editor!KindOf(op)
  BY DEF Editor!KindOf, Editor!Kinds
<1>1. /\ TaskMoved(t) /\ AtStep(t, op, p) /\ job[t].at = "read" /\ editorMishaps \subseteq editorMishaps'
      /\ Editor!Torn(k, p) => "race" \in editorMishaps'
      /\ \/ Advances(t)
         \/ Proceeds(t) /\ job'[t].at = "truncate" /\ job'[t].buf = disk[p][k]
  BY ReadFileIs
<1>2. UNCHANGED disk
  BY DEF Editor!ReadFile
<1>3. \A l, q : ~InHand(t, l, q) /\ ~Filling(t, l, q)
  BY <1>1 DEF Filling, InHand
<1>4. CASE Advances(t)
  <2>1. job'[t].at = "read"
    BY <1>4 DEF Advances
  <2> QED
    BY <1>1, <1>2, <1>3, <2>1, OwnLeaves
<1>5. CASE Proceeds(t) /\ job'[t].at = "truncate" /\ job'[t].buf = disk[p][k]
  <2>1. \A u \in Editor!Tasks : u # t => job'[u] = job[u]
    BY <1>1 DEF TaskMoved, OthersRest
  <2>2. AtStep(t, op, p)' /\ k = Editor!KindOf(op)'
    BY <1>1, <1>5 DEF Proceeds, AtStep, Editor!KindOf
  <2>3. InHand(t, k, p)' /\ \A l, q : InHand(t, l, q)' => l = k /\ q = p
    <3>1. InHand(t, k, p)'
      BY <1>5, <2>2 DEF InHand, AtStep
    <3>2. ASSUME NEW l, NEW q, InHand(t, l, q)' PROVE l = k /\ q = p
      <4> PICK o \in Edited : Editor!KindOf(o) = l /\ job'[t].todo[1] = <<o, q>>
        BY <3>2 DEF InHand
      <4>1. <<o, q>> = <<op, p>>
        BY <2>2 DEF AtStep
      <4>2. o = op /\ q = p
        BY <4>1
      <4> QED
        BY <4>2
    <3> QED
      BY <3>1, <3>2
  <2>4. \A l, q : \A u \in Editor!Tasks : u # t => (InHand(u, l, q)' <=> InHand(u, l, q)) /\ (Filling(u, l, q)' <=> Filling(u, l, q))
    BY <2>1, HandRests
  <2>5. \A l, q : \A u \in Editor!Tasks : Filling(u, l, q) => Filling(u, l, q)' /\ job'[u] = job[u]
    BY <1>3, <2>1, <2>4
  <2>6. ASSUME Calm', NEW q \in Repos, NEW l \in Editor!Kinds PROVE OwnOf(l, q)'
    <3>1. OwnOf(l, q)
      BY <1>1, <2>6 DEF OwnInv, Calm
    <3>2. CASE q # p \/ l # k
      <4>1. \A u \in Editor!Tasks : InHand(u, l, q)' => InHand(u, l, q) /\ job'[u].buf = job[u].buf
        BY <2>1, <2>3, <2>4, <3>2
      <4> QED
        BY <1>2, <2>5, <3>1, <4>1, OwnOfKept
    <3>3. CASE q = p /\ l = k
      <4>1. \A u \in Editor!Tasks : ~Filling(u, k, p)
        BY <1>1, <2>6, TornIs DEF Calm
      <4>2. \A u \in Editor!Tasks : InHand(u, k, p) => job[u].buf.own = disk[p][k].own
        <5> SUFFICES ASSUME NEW u \in Editor!Tasks, InHand(u, k, p) PROVE job[u].buf.own = disk[p][k].own
          OBVIOUS
        <5>1. (disk[p][k].own => job[u].buf.own) /\ (job[u].buf.own => disk[p][k].own)
          BY <3>1, <3>3, <4>1 DEF OwnOf
        <5>2. disk[p][k].own \in BOOLEAN /\ job[u].buf.own \in BOOLEAN
          BY ShapeTypes DEF EditorJobs, Texts
        <5> QED
          BY <5>1, <5>2
      <4>3. \A u \in Editor!Tasks : InHand(u, l, q)' => job'[u].buf.own = disk'[q][l].own
        BY <1>2, <1>5, <2>1, <2>4, <3>3, <4>2
      <4> QED
        BY <4>3 DEF OwnOf
    <3> QED
      BY <3>2, <3>3
  <2>7. ASSUME NEW q \in Repos, NEW l \in Editor!Kinds, HeldIn(q, l) PROVE HeldIn(q, l)'
    BY <1>2, <2>5, <2>7 DEF HeldIn
  <2> QED
    BY <2>6, <2>7 DEF OwnInv, Keeps
<1> QED
  BY <1>1, <1>4, <1>5

\* The file is truncated, and what was in it is in hand.
LEMMA OwnOfTruncate ==
  ASSUME EditorShape, OwnInv, NEW t \in Editor!Tasks, NEW p \in Repos, NEW op \in Edited, Editor!Truncate(t, p, op)
  PROVE  OwnInv' /\ Keeps
<1> PICK k \in Editor!Kinds : k = Editor!KindOf(op)
  BY DEF Editor!KindOf, Editor!Kinds
<1>1. /\ TaskMoved(t) /\ AtStep(t, op, p) /\ job[t].at = "truncate"
      /\ \/ /\ Proceeds(t) /\ job'[t].at = "fill" /\ job'[t].buf = job[t].buf
            /\ disk' = [disk EXCEPT ![p][k] = Editor!Empty] /\ UNCHANGED editorMishaps
         \/ Advances(t) /\ UNCHANGED disk /\ editorMishaps' = editorMishaps \cup {"fail"}
  BY TruncateIs
<1>2. InHand(t, k, p) /\ \A l, q : InHand(t, l, q) => l = k /\ q = p
  BY <1>1, AtFile
<1>3. \A l, q : ~Filling(t, l, q)
  BY <1>1 DEF Filling
<1>4. CASE Advances(t) /\ UNCHANGED disk /\ editorMishaps' = editorMishaps \cup {"fail"}
  <2>1. job'[t].at = "read"
    BY <1>4 DEF Advances
  <2> QED
    BY <1>1, <1>3, <1>4, <2>1, OwnLeaves
<1>5. CASE /\ Proceeds(t) /\ job'[t].at = "fill" /\ job'[t].buf = job[t].buf
           /\ disk' = [disk EXCEPT ![p][k] = Editor!Empty] /\ UNCHANGED editorMishaps
  <2>1. \A u \in Editor!Tasks : job'[u].buf = job[u].buf /\ (u # t => job'[u] = job[u])
    BY <1>1, <1>5 DEF TaskMoved, OthersRest
  <2>2. \A l, q : \A u \in Editor!Tasks : InHand(u, l, q)' <=> InHand(u, l, q)
    <3>1. \A l, q : InHand(t, l, q)' <=> InHand(t, l, q)
      BY <1>1, <1>5 DEF InHand, Proceeds
    <3> QED
      BY <2>1, <3>1, HandRests
  <2>3. Filling(t, k, p)'
    BY <1>2, <1>5, <2>2 DEF Filling
  <2>4. \A l, q : \A u \in Editor!Tasks : Filling(u, l, q) => Filling(u, l, q)'
    BY <1>3, <2>1, HandRests
  <2>5. /\ disk'[p][k] = Editor!Empty
        /\ \A q \in Repos, l \in Editor!Kinds : q # p \/ l # k => disk'[q][l] = disk[q][l]
    BY <1>5, NoJobIs, ShapeTypes, DiskPut
  <2>6. ASSUME Calm, NEW q \in Repos, NEW l \in Editor!Kinds PROVE OwnOf(l, q)'
    <3>1. OwnOf(l, q)
      BY <2>6 DEF OwnInv
    <3>2. CASE q # p \/ l # k
      <4>1. disk'[q][l].own = disk[q][l].own
        BY <2>5, <3>2
      <4> QED
        BY <2>1, <2>2, <2>4, <3>1, <4>1, OwnOfKept
    <3>3. CASE q = p /\ l = k
      <4>1. ~disk'[q][l].own
        BY <2>5, <3>3 DEF Editor!Empty, Editor!Absent
      <4> QED
        BY <2>1, <2>2, <2>3, <3>1, <3>3, <4>1 DEF OwnOf
    <3> QED
      BY <3>2, <3>3
  <2>7. ASSUME Calm, NEW q \in Repos, NEW l \in Editor!Kinds, HeldIn(q, l) PROVE HeldIn(q, l)'
    <3>1. CASE \E u \in Editor!Tasks : Filling(u, l, q) /\ job[u].buf.own
      BY <2>1, <2>4, <3>1 DEF HeldIn
    <3>2. CASE disk[q][l].own /\ q = p /\ l = k
      <4>1. OwnOf(k, p)
        BY <2>7 DEF OwnInv
      <4>2. job[t].buf.own
        BY <1>2, <3>2, <4>1 DEF OwnOf
      <4> QED
        BY <1>5, <2>3, <3>2, <4>2 DEF HeldIn
    <3>3. CASE disk[q][l].own /\ (q # p \/ l # k)
      BY <2>5, <3>3 DEF HeldIn
    <3> QED
      BY <2>7, <3>1, <3>2, <3>3 DEF HeldIn
  <2>8. Calm' <=> Calm
    BY <1>5 DEF Calm
  <2> QED
    BY <2>6, <2>7, <2>8 DEF OwnInv, Keeps
<1> QED
  BY <1>1, <1>4, <1>5

\* It is filled, with what was in hand.
LEMMA OwnOfFill ==
  ASSUME EditorShape, OwnInv, NEW t \in Editor!Tasks, NEW p \in Repos, NEW op \in Edited, Editor!Fill(t, p, op)
  PROVE  OwnInv' /\ Keeps
<1> PICK k \in Editor!Kinds : k = Editor!KindOf(op)
  BY DEF Editor!KindOf, Editor!Kinds
<1>1. /\ TaskMoved(t) /\ AtStep(t, op, p) /\ job[t].at = "fill" /\ Advances(t)
      /\ \E M \in Texts : disk' = [disk EXCEPT ![p][k] = M] /\ M.own = job[t].buf.own
  BY FillIs
<1> PICK M \in Texts : disk' = [disk EXCEPT ![p][k] = M] /\ M.own = job[t].buf.own
  BY <1>1
<1>2. InHand(t, k, p) /\ \A l, q : InHand(t, l, q) => l = k /\ q = p
  BY <1>1, AtFile
<1>3. \A l, q : ~InHand(t, l, q)'
  BY <1>1 DEF Advances, InHand
<1>4. \A u \in Editor!Tasks : u # t => job'[u] = job[u]
  BY <1>1 DEF TaskMoved, OthersRest
<1>5. \A l, q : \A u \in Editor!Tasks : InHand(u, l, q)' => InHand(u, l, q) /\ job'[u].buf = job[u].buf
  BY <1>3, <1>4, HandRests
<1>6. \A l, q : \A u \in Editor!Tasks : Filling(u, l, q) /\ (q # p \/ l # k) => Filling(u, l, q)' /\ job'[u] = job[u]
  BY <1>2, <1>4, HandRests DEF Filling
<1>7. /\ disk'[p][k] = M
      /\ \A q \in Repos, l \in Editor!Kinds : q # p \/ l # k => disk'[q][l] = disk[q][l]
  BY ShapeTypes, DiskPut
<1>8. editorMishaps' = editorMishaps
  BY DEF Editor!Fill
<1>9. ASSUME Calm, NEW q \in Repos, NEW l \in Editor!Kinds PROVE OwnOf(l, q)'
  <2>1. OwnOf(l, q)
    BY <1>9 DEF OwnInv
  <2>2. CASE q # p \/ l # k
    <3>1. disk'[q][l].own = disk[q][l].own
      BY <1>7, <2>2
    <3>2. \A u \in Editor!Tasks : Filling(u, l, q) => Filling(u, l, q)'
      BY <1>6, <2>2
    <3> QED
      BY <1>5, <2>1, <3>1, <3>2, OwnOfKept
  <2>3. CASE q = p /\ l = k
    <3>1. \A u \in Editor!Tasks : InHand(u, k, p) => job[u].buf.own = job[t].buf.own
      BY <1>2, <2>1, <2>3 DEF OwnOf
    <3>2. \A u \in Editor!Tasks : InHand(u, l, q)' => job'[u].buf.own = disk'[q][l].own
      BY <1>5, <1>7, <2>3, <3>1
    <3> QED
      BY <3>2 DEF OwnOf
  <2> QED
    BY <2>2, <2>3
<1>10. ASSUME Calm, NEW q \in Repos, NEW l \in Editor!Kinds, HeldIn(q, l) PROVE HeldIn(q, l)'
  <2>1. CASE q # p \/ l # k
    BY <1>6, <1>7, <1>10, <2>1 DEF HeldIn
  <2>2. CASE q = p /\ l = k
    <3>1. OwnOf(k, p)
      BY <1>10 DEF OwnInv
    <3>2. \A u \in Editor!Tasks : Filling(u, k, p) => job[u].buf.own = job[t].buf.own
      BY <1>2, <3>1 DEF OwnOf, Filling
    <3>3. job[t].buf.own
      BY <1>2, <1>10, <2>2, <3>1, <3>2 DEF HeldIn, OwnOf
    <3> QED
      BY <1>7, <2>2, <3>3 DEF HeldIn
  <2> QED
    BY <2>1, <2>2
<1>11. Calm' <=> Calm
  BY <1>8 DEF Calm
<1> QED
  BY <1>9, <1>10, <1>11 DEF OwnInv, Keeps

-----------------------------------------------------------------------------
(* The editors' files stay as they should *)

LEMMA InitEditor == Editor!Init => EditorInv
<1> SUFFICES ASSUME Editor!Init PROVE EditorInv
  OBVIOUS
<1> PICK settings \in {Editor!Absent, Editor!Whole(TRUE, {})} :
       disk = [p \in Repos |-> [k \in Editor!Kinds |-> IF p # Old THEN Editor!Absent ELSE IF k = "settings" THEN settings
                                 ELSE Editor!Whole(TRUE, IF file = 0 THEN {} ELSE {file})]]
  BY DEF Editor!Init
<1>1. Old \in Repos /\ {"", "s"} \cap Repos = {}
  BY EditorGiven DEF Editor!EditorAssumption
<1>2. file \in {0, 1} /\ live = 0 /\ minted = file /\ saves = 0 /\ editorMishaps = {}
  BY DEF Editor!Init
<1>3. listed \in Seq(Repos) /\ Len(listed) = 1 /\ listed[1] = Old /\ 1..Len(listed) = {1}
  <2>1. listed = <<Old>>
    BY DEF Editor!Init
  <2>2. listed \in Seq(Repos) /\ Len(listed) = 1 /\ listed[1] = Old
    <3> HIDE DEF Editor!Whole, Editor!Absent
    <3>1. \A S, e : e \in S => <<e>> \in Seq(S) /\ Len(<<e>>) = 1 /\ <<e>>[1] = e
      OBVIOUS
    <3> QED
      BY ONLY <1>1, <2>1, <3>1
  <2>3. 1..1 = {1}
    OBVIOUS
  <2> QED
    BY <2>2, <2>3
<1>4. /\ slug = [p \in Repos |-> IF p = Old THEN Editor!Slug("s", 1) ELSE Editor!Slug("", 0)]
      /\ rule = [p \in Repos |-> Editor!NoRule] /\ job = [t \in Editor!Tasks |-> Editor!NoJob]
  BY DEF Editor!Init
<1>5. \A t \in Editor!Tasks : job[t] \in EditorJobs /\ job[t].todo = <<>> /\ job[t].at = "read" /\ job[t].tok = 0
  BY <1>4, NoJobIs
<1>6. /\ disk \in [Repos -> [Editor!Kinds -> Texts]]
      /\ \A p \in Repos, k \in Editor!Kinds :
           /\ Fits(disk[p][k], k) /\ (p # Old => disk[p][k] = Editor!Absent)
           /\ k = "mcp" => disk[p][k].ours \subseteq {file} /\ 0 \notin disk[p][k].ours
  <2>1. \A ours \in SUBSET Nat : Editor!Whole(TRUE, ours) \in Texts
    BY DEF Editor!Whole, Texts
  <2>2. settings \in Texts /\ Editor!Absent \in Texts /\ settings.ours = {} /\ Editor!Absent.ours = {}
    <3>1. {} \in SUBSET Nat /\ Editor!Whole(TRUE, {}).ours = {} /\ Editor!Absent.ours = {}
      BY DEF Editor!Whole, Editor!Absent
    <3>2. Editor!Whole(TRUE, {}) \in Texts
      BY <2>1, <3>1
    <3> QED
      BY <3>1, <3>2, NoJobIs
  <2>3. ASSUME NEW p \in Repos, NEW k \in Editor!Kinds
        PROVE  /\ disk[p][k] \in Texts
               /\ Fits(disk[p][k], k) /\ (p # Old => disk[p][k] = Editor!Absent)
               /\ k = "mcp" => disk[p][k].ours \subseteq {file} /\ 0 \notin disk[p][k].ours
    <3>1. CASE p # Old
      BY <2>2, <2>3, <3>1, EmptyFits
    <3>2. CASE p = Old /\ k = "settings"
      <4>1. disk[p][k] = settings
        BY <2>3, <3>2
      <4>2. Fits(settings, k)
        BY <2>2 DEF Fits
      <4> QED
        BY <2>2, <3>2, <4>1, <4>2
    <3>3. CASE p = Old /\ k # "settings"
      <4>1. k = "mcp"
        BY <2>3, <3>3 DEF Editor!Kinds
      <4> PICK ours \in {{}, {file}} : disk[p][k] = Editor!Whole(TRUE, ours) /\ (file = 0 => ours = {})
        BY <2>3, <3>3
      <4>2. disk[p][k].ours = ours /\ disk[p][k].text = "object" /\ disk[p][k] \in Texts
        BY <1>2, <2>1 DEF Editor!Whole
      <4>3. ours \subseteq {file} /\ 0 \notin ours /\ ours \subseteq 0..minted
        BY <1>2
      <4> QED
        BY <3>3, <4>1, <4>2, <4>3 DEF Fits
    <3> QED
      BY <3>1, <3>2, <3>3
  <2>4. disk \in [Repos -> [Editor!Kinds -> Texts]]
    <3>1. disk = [p \in Repos |-> [k \in Editor!Kinds |-> disk[p][k]]]
      OBVIOUS
    <3>2. \A p \in Repos, k \in Editor!Kinds : disk[p][k] \in Texts
      BY <2>3
    <3> QED
      BY <3>1, <3>2
  <2> QED
    BY <2>3, <2>4
<1>7. \A p : Editor!Cloned(p) <=> slug[p] # Editor!Slug("", 0)
  BY DEF Editor!Cloned
<1>8. slug \in [Repos -> Slugs] /\ slug[Old] = <<"s", 1>> /\ \A p \in Repos : Editor!Cloned(p) <=> p = Old
  <2>1. Editor!Slug("s", 1) = <<"s", 1>> /\ Editor!Slug("s", 1) \in Slugs /\ Editor!Slug("", 0) = <<"", 0>> /\ Editor!Slug("", 0) \in Slugs
    BY DEF Editor!Slug, Slugs
  <2>2. <<"s", 1>> # <<"", 0>>
    OBVIOUS
  <2> QED
    BY <1>1, <1>4, <1>7, <2>1, <2>2
<1>9. EditorShape
  <2>1. EditorTypes
    <3>1. minted \in Nat /\ file \in 0..minted /\ live \in 0..minted /\ editorMishaps \subseteq Editor!MishapNames
      BY <1>2
    <3>2. rule \in [Repos -> Ports \cup {0, Editor!NoRule}] /\ job \in [Editor!Tasks -> EditorJobs]
      BY <1>4, <1>5
    <3> QED
      BY <1>3, <1>6, <1>8, <3>1, <3>2, Zenon DEF EditorTypes, Slugs
  <2>2. FilesFit
    BY <1>6 DEF FilesFit
  <2>3. \A t \in Editor!Tasks : JobFits(t, job[t])
    <3> TAKE t \in Editor!Tasks
    <3>1. Ordered(t, job[t].todo) /\ Len(job[t].todo) = 0 /\ job[t].tok \in 0..minted
      BY <1>2, <1>5, NothingToDo
    <3> QED
      BY <1>5, <3>1 DEF JobFits
  <2>4. \A p \in Repos : ~Editor!Cloned(p) => NotCloned(p)
    BY <1>4, <1>6, <1>8 DEF NotCloned
  <2>5. Editor!Cloned(Old) /\ \A i \in 1..Len(listed) : Editor!Cloned(listed[i])
    BY <1>1, <1>3, <1>8
  <2> QED
    BY <2>1, <2>2, <2>3, <2>4, <2>5 DEF EditorShape
<1>10. {"main", "tool"} \subseteq Editor!Tasks /\ Users \subseteq Editor!Tasks /\ Editor!Rotations \subseteq Editor!Tasks
  BY DEF Editor!Tasks, Users
<1>11. SlugInv
  <2>1. \A p : \A t \in Editor!Tasks : ~Adding(t, p)
    BY <1>5 DEF Adding
  <2> QED
    BY <1>3, <1>8, <1>10, <2>1 DEF SlugInv
<1>12. TokensInv
  BY <1>5, <1>6 DEF TokensInv, Holds, Editor!Kinds
<1>13. EntriesInv
  <2>1. \A i \in 1..Len(listed) : Current(listed[i])
    BY <1>1, <1>3, <1>6 DEF Current, Fresh, Editor!Kinds
  <2>2. \A p : \A t \in Editor!Tasks : ~Adds(t, p) /\ ~Holds(t)
    BY <1>5 DEF Adds, Holds
  <2> QED
    BY <1>2, <1>10, <2>1, <2>2 DEF EntriesInv
<1>14. FilesInv
  <2>1. \A p : ~AtSettings(p)
    BY <1>5, <1>10 DEF AtSettings
  <2>2. \A p \in Repos : rule[p] \notin Ports
    BY <1>4, NoRuleGiven
  <2> QED
    BY <1>2, <2>1, <2>2 DEF FilesInv, PortTold
<1>15. OwnInv
  BY <1>5 DEF OwnInv, OwnOf, InHand
<1> QED
  BY <1>9, <1>11, <1>12, <1>13, <1>14, <1>15 DEF EditorInv

\* A step of a task that is under way.
LEMMA TaskStep ==
  ASSUME EditorInv, NEW t \in Editor!Tasks, NEW p \in Repos,
         \/ Editor!Name(t, p) \/ Editor!TakeToken(t, p) \/ Editor!List(t, p) \/ Editor!WriteRule(t, p) \/ Editor!Add(t, p)
         \/ \E op \in Edited : Editor!ReadFile(t, p, op) \/ Editor!Truncate(t, p, op) \/ Editor!Fill(t, p, op)
  PROVE  EditorInv' /\ Keeps
<1>1. EditorShape /\ SlugInv /\ TokensInv /\ EntriesInv /\ FilesInv /\ OwnInv
  BY DEF EditorInv
<1>2. "entry" \in Edited
  BY DEF Edited
<1>3. CASE Editor!Name(t, p)
  <2>1. EditorShape' /\ SlugInv'
    BY <1>1, <1>3, NameShape, SlugNamed
  <2> QED
    BY <1>1, <1>3, <2>1, PlainTokens, FilesOfStep, OwnOfStep DEF EditorInv
<1>4. CASE Editor!TakeToken(t, p)
  <2>1. EditorShape' /\ SlugInv'
    BY <1>1, <1>2, <1>4, TakeTokenShape, SlugOfStep
  <2> QED
    BY <1>1, <1>4, <2>1, TakeTokenTokens, FilesOfStep, OwnOfStep DEF EditorInv
<1>5. CASE Editor!List(t, p)
  <2>1. EditorShape' /\ SlugInv'
    BY <1>1, <1>5, ListShape, SlugOfList
  <2> QED
    BY <1>1, <1>5, <2>1, ListTokens, FilesOfOthers, OwnOfStep DEF EditorInv
<1>6. CASE Editor!WriteRule(t, p)
  <2>1. EditorShape' /\ SlugInv'
    BY <1>1, <1>2, <1>6, WriteRuleShape, SlugOfStep
  <2> QED
    BY <1>1, <1>6, <2>1, PlainTokens, FilesOfRule, OwnOfStep DEF EditorInv
<1>7. CASE Editor!Add(t, p)
  <2>1. EditorShape' /\ SlugInv'
    BY <1>1, <1>7, AddShape, SlugAdded
  <2> QED
    BY <1>1, <1>7, <2>1, PlainTokens, FilesOfStep, OwnOfStep DEF EditorInv
<1>8. CASE \E op \in Edited : Editor!ReadFile(t, p, op) \/ Editor!Truncate(t, p, op) \/ Editor!Fill(t, p, op)
  <2> PICK op \in Edited : Editor!ReadFile(t, p, op) \/ Editor!Truncate(t, p, op) \/ Editor!Fill(t, p, op)
    BY <1>8
  <2>1. EditorShape' /\ SlugInv'
    BY <1>1, ReadFileShape, TruncateShape, FillShape, SlugOfStep
  <2>2. TokensInv' /\ EntriesInv'
    BY <1>1, <2>1, ReadFileTokens, TruncateTokens, FillTokens
  <2>3. FilesInv'
    <3>1. CASE op = "entry"
      BY <1>1, <3>1, FilesAtEntry
    <3>2. CASE op = "settings"
      BY <1>1, <3>2, FilesOfRead, FilesOfTruncate, FilesOfFill
    <3> QED
      BY <3>1, <3>2 DEF Edited
  <2>4. OwnInv' /\ Keeps
    BY <1>1, OwnOfRead, OwnOfTruncate, OwnOfFill
  <2> QED
    BY <2>1, <2>2, <2>3, <2>4 DEF EditorInv
<1> QED
  BY <1>3, <1>4, <1>5, <1>6, <1>7, <1>8

\* A command, a call or the user begins something of a project.
LEMMA ProjectStep ==
  ASSUME EditorInv, NEW p \in Repos,
         \/ Editor!Import(p) \/ Editor!Open(p) \/ \E q \in Repos : Editor!Fork(p, q)
         \/ \E k \in Editor!Kinds : Editor!Save(p, k)
  PROVE  EditorInv' /\ Keeps
<1>1. EditorShape /\ SlugInv /\ TokensInv /\ EntriesInv /\ FilesInv /\ OwnInv
  BY DEF EditorInv
<1>2. CASE Editor!Import(p)
  <2>1. EditorShape' /\ SlugInv'
    BY <1>1, <1>2, ImportShape, SlugOfImport
  <2> QED
    BY <1>1, <1>2, <2>1, ImportTokens, FilesOfImport, OwnOfBegin DEF EditorInv
<1>3. CASE Editor!Open(p)
  <2>1. EditorShape' /\ SlugInv'
    BY <1>1, <1>3, OpenShape, SlugOfOpen
  <2> QED
    BY <1>1, <1>3, <2>1, OpenTokens, FilesOfOpen, OwnOfBegin DEF EditorInv
<1>4. CASE \E q \in Repos : Editor!Fork(p, q)
  <2> PICK q \in Repos : Editor!Fork(p, q)
    BY <1>4
  <2>1. EditorShape' /\ SlugInv'
    BY <1>1, ForkShape, SlugOfFork
  <2> QED
    BY <1>1, <1>4, <2>1, ForkTokens, FilesOfFork, OwnOfBegin DEF EditorInv
<1>5. CASE \E k \in Editor!Kinds : Editor!Save(p, k)
  <2> PICK k \in Editor!Kinds : Editor!Save(p, k)
    BY <1>5
  <2>1. EditorShape' /\ SlugInv'
    <3>1. UNCHANGED <<slug, listed, job>>
      BY <1>1, SaveIs
    <3> QED
      BY <1>1, <3>1, SaveShape, SlugRests
  <2>2. saves \in Nat
    BY <1>1 DEF FilesInv
  <2> QED
    BY <1>1, <2>1, <2>2, SaveTokens, FilesOfSave, OwnOfSave DEF EditorInv
<1> QED
  BY <1>2, <1>3, <1>4, <1>5

\* The listener, the token and the end of the launcher.
LEMMA ListenerStep ==
  ASSUME EditorInv,
         Editor!Spawn \/ Editor!LoseToken \/ Editor!Quit \/ \E t \in Editor!Rotations : Editor!BeginRotation(t)
  PROVE  EditorInv' /\ Keeps
<1>1. EditorShape /\ SlugInv /\ TokensInv /\ EntriesInv /\ FilesInv /\ OwnInv
  BY DEF EditorInv
<1>2. CASE Editor!Spawn
  <2>1. UNCHANGED <<slug, listed, job>>
    BY <1>2 DEF Editor!Spawn
  <2>2. EditorShape' /\ SlugInv'
    BY <1>1, <1>2, <2>1, SpawnShape, SlugRests
  <2> QED
    BY <1>1, <1>2, <2>2, SpawnTokens, FilesOfOthers, OwnOfOthers DEF EditorInv
<1>3. CASE Editor!LoseToken
  <2>1. UNCHANGED <<slug, listed, job>>
    BY <1>3 DEF Editor!LoseToken
  <2>2. EditorShape' /\ SlugInv'
    BY <1>1, <1>3, <2>1, LoseTokenShape, SlugRests
  <2> QED
    BY <1>1, <1>3, <2>2, LoseTokenTokens, FilesOfOthers, OwnOfOthers DEF EditorInv
<1>4. CASE Editor!Quit
  <2>1. EditorShape' /\ SlugInv'
    BY <1>1, <1>4, QuitShape, SlugOfQuit
  <2> QED
    BY <1>1, <1>4, <2>1, QuitTokens, FilesOfQuit, OwnOfQuit DEF EditorInv
<1>5. CASE \E t \in Editor!Rotations : Editor!BeginRotation(t)
  <2> PICK t \in Editor!Rotations : Editor!BeginRotation(t)
    BY <1>5
  <2>1. EditorShape' /\ SlugInv'
    BY <1>1, RotationShape, SlugOfRotation
  <2> QED
    BY <1>1, <1>5, <2>1, RotationTokens, FilesOfOthers, OwnOfOthers DEF EditorInv
<1> QED
  BY <1>2, <1>3, <1>4, <1>5

LEMMA RestStep ==
  ASSUME EditorInv, UNCHANGED Editor!vars PROVE EditorInv' /\ Keeps
<1>1. UNCHANGED <<file, live, minted, listed, slug, disk, rule, job, saves, editorMishaps>>
  BY DEF Editor!vars
<1>2. EditorShape /\ SlugInv /\ TokensInv /\ EntriesInv /\ FilesInv /\ OwnInv
  BY DEF EditorInv
<1>3. EditorShape'
  <2>1. JobsInShape'
    <3>1. minted' \in Nat /\ minted <= minted' /\ UNCHANGED slug
      BY <1>1, <1>2, TokensRest
    <3> QED
      BY <1>1, <1>2, <3>1, ShapeJobs, SameGrows, JobsRest
  <2>2. minted' \in Nat /\ minted <= minted' /\ file' \in 0..minted' /\ live' \in 0..minted'
    BY <1>1, <1>2, TokensRest
  <2>3. editorMishaps' \subseteq Editor!MishapNames
    BY <1>1, <1>2, ShapeTypes
  <2>4. UNCHANGED <<listed, slug, disk, rule>>
    BY <1>1
  <2> QED
    BY <1>2, <2>1, <2>2, <2>3, <2>4, ShapeKept
<1>4. SlugInv'
  BY <1>1, <1>2, SlugRests
<1>5. TokensInv' /\ EntriesInv'
  <2>1. \A u : (Holds(u)' <=> Holds(u)) /\ \A q : (Sweeps(u, q)' <=> Sweeps(u, q)) /\ (Adds(u, q)' <=> Adds(u, q))
    BY <1>1 DEF Holds, Sweeps, Adds
  <2>2. \A q : (Fresh(q)' <=> Fresh(q))
    BY <1>1 DEF Fresh
  <2>3. \A q : Current(q)' <=> Current(q)
    BY <2>1, <2>2 DEF Current
  <2>4. TokensInv'
    BY <1>1, <1>2, <2>1 DEF TokensInv
  <2>5. EntriesInv'
    BY <1>1, <1>2, <2>1, <2>2, <2>3 DEF EntriesInv, Benign
  <2> QED
    BY <2>4, <2>5
<1>6. FilesInv'
  BY <1>1, <1>2, FilesKept, SettingsRest
<1>7. OwnInv' /\ Keeps
  BY <1>1, <1>2, OwnStays
<1> QED
  BY <1>3, <1>4, <1>5, <1>6, <1>7 DEF EditorInv

\* Any step keeps the invariant, and what the user has put into the files.
LEMMA EditorStep ==
  ASSUME EditorInv, [Editor!Next]_(Editor!vars) PROVE EditorInv' /\ Keeps
<1>1. CASE Editor!Spawn \/ Editor!LoseToken \/ Editor!Quit \/ \E t \in Editor!Rotations : Editor!BeginRotation(t)
  BY <1>1, ListenerStep
<1>2. CASE \E p \in Repos :
             \/ Editor!Import(p) \/ Editor!Open(p) \/ \E q \in Repos : Editor!Fork(p, q)
             \/ \E k \in Editor!Kinds : Editor!Save(p, k)
  BY <1>2, ProjectStep
<1>3. CASE \E p \in Repos, t \in Editor!Tasks :
             \/ Editor!Name(t, p) \/ Editor!TakeToken(t, p) \/ Editor!List(t, p) \/ Editor!WriteRule(t, p) \/ Editor!Add(t, p)
             \/ \E op \in Edited : Editor!ReadFile(t, p, op) \/ Editor!Truncate(t, p, op) \/ Editor!Fill(t, p, op)
  BY <1>3, TaskStep
<1>4. CASE UNCHANGED Editor!vars
  BY <1>4, RestStep
<1> QED
  BY <1>1, <1>2, <1>3, <1>4 DEF Editor!Next, Edited

\* What the invariant says of the files, the names and the tokens.
LEMMA TypesByInvariant == EditorInv => Editor!TypeOK
<1> SUFFICES ASSUME EditorInv PROVE Editor!TypeOK
  OBVIOUS
<1>1. EditorShape
  BY DEF EditorInv
<1>2. /\ minted \in Nat /\ file \in 0..minted /\ live \in 0..minted /\ editorMishaps \subseteq Editor!MishapNames
      /\ disk \in [Repos -> [Editor!Kinds -> Texts]] /\ rule \in [Repos -> Ports \cup {0, Editor!NoRule}]
      /\ job \in [Editor!Tasks -> EditorJobs] /\ \A i \in 1..Len(listed) : listed[i] \in Repos
  BY <1>1, ShapeTypes
<1>3. Editor!NoRule \in Nat \ {0} /\ \A port \in Ports : port < Editor!NoRule /\ port \in Nat
  BY NoRuleGiven, EditorGiven DEF Editor!EditorAssumption
<1>4. Editor!ToSet(listed) \subseteq Repos
  BY <1>1, <1>2, ListedIs
<1>5. rule \in [Repos -> 0..Editor!NoRule]
  <2> HIDE DEF Editor!NoRule
  <2>1. \A port \in Ports \cup {0, Editor!NoRule} : port \in 0..Editor!NoRule
    BY <1>3
  <2> QED
    BY <1>2, <2>1
<1>6. disk \in [Repos -> [Editor!Kinds -> [text : {"none", "empty", "object", "bad"}, own : BOOLEAN,
                                           ours : SUBSET (0..(Editor!NoRule + minted))]]]
  <2> DEFINE Numbers == 0..(Editor!NoRule + minted)
             Held == [text : {"none", "empty", "object", "bad"}, own : BOOLEAN, ours : SUBSET Numbers]
  <2>1. 0..minted \subseteq Numbers /\ Ports \subseteq Numbers
    <3> HIDE DEF Editor!NoRule
    <3> QED
      BY <1>2, <1>3
  <2>2. \A p \in Repos, k \in Editor!Kinds : disk[p][k].ours \subseteq Numbers
    <3> HIDE DEF Numbers
    <3>1. \A p \in Repos, k \in Editor!Kinds : Fits(disk[p][k], k)
      BY <1>1 DEF EditorShape, FilesFit
    <3> QED
      BY <2>1, <3>1 DEF Fits
  <2>3. \A p \in Repos, k \in Editor!Kinds : disk[p][k] \in Held
    <3> HIDE DEF Numbers
    <3>1. \A p \in Repos, k \in Editor!Kinds : disk[p][k] \in Texts
      BY <1>2
    <3> QED
      BY <2>2, <3>1 DEF Texts
  <2>4. disk \in [Repos -> [Editor!Kinds -> Held]]
    <3> HIDE DEF Held
    <3> QED
      BY <1>2, <2>3
  <2> QED
    BY <2>4
<1>7. \A t \in Editor!Tasks : job[t].at \in {"read", "truncate", "fill"} /\ (Editor!Idle(t) => job[t].at = "read") /\ job[t].tok <= minted
  <2> TAKE t \in Editor!Tasks
  <2>1. job[t] \in EditorJobs /\ JobFits(t, job[t])
    BY <1>1, <1>2 DEF EditorShape
  <2>2. job[t].tok <= minted /\ (job[t].todo = <<>> => job[t].at = "read")
    BY <1>2, <2>1 DEF JobFits
  <2> QED
    BY <2>1, <2>2 DEF EditorJobs, Editor!Idle
<1>8. {file, live} \subseteq 0..minted
  BY <1>2
<1> QED
  BY <1>2, <1>4, <1>5, <1>6, <1>7, <1>8 DEF Editor!TypeOK

LEMMA AgreedByInvariant == EditorInv => Editor!EditorsAgree
<1> SUFFICES ASSUME EditorInv PROVE Editor!EditorsAgree
  OBVIOUS
<1>1. EditorShape /\ SlugInv /\ EntriesInv /\ FilesInv
  BY DEF EditorInv
<1>2. Editor!Quiet <=> \A t \in Editor!Tasks : job[t].todo = <<>>
  BY DEF Editor!Quiet, Editor!Idle
<1>3. Editor!EntriesAgree
  <2> SUFFICES ASSUME Editor!Quiet, live # 0, Benign, NEW p \in Editor!ToSet(listed)
               PROVE  disk[p]["mcp"].ours \subseteq {live}
    BY DEF Editor!EntriesAgree, Benign
  <2> PICK i \in 1..Len(listed) : listed[i] = p
    BY <1>1, ListedIs
  <2>1. live = file /\ Current(p)
    BY <1>1 DEF EntriesInv
  <2>2. \A t \in Editor!Rotations : ~Sweeps(t, p)
    BY <1>2 DEF Sweeps, Editor!Tasks
  <2> QED
    BY <2>1, <2>2 DEF Current, Fresh
<1>4. Editor!FilesAgree
  <2> SUFFICES ASSUME Editor!Quiet, editorMishaps \cap {"race", "fail", "crash", "torn"} = {}, NEW p \in Repos,
                      rule[p] \in Ports, disk[p]["settings"].text = "object", saves = 0
               PROVE  rule[p] \in disk[p]["settings"].ours
    BY DEF Editor!FilesAgree
  <2>1. ~AtSettings(p)
    BY <1>2 DEF AtSettings, Editor!Tasks
  <2>2. PortTold(p)
    BY <1>1 DEF FilesInv, Unhindered
  <2> QED
    BY <2>1, <2>2 DEF PortTold
<1>5. Editor!SlugsDiffer
  <2> SUFFICES ASSUME NEW p \in Editor!ToSet(listed), NEW q \in Editor!ToSet(listed), p # q PROVE slug[p] # slug[q]
    BY DEF Editor!SlugsDiffer
  <2> PICK i \in 1..Len(listed) : listed[i] = p
    BY <1>1, ListedIs
  <2> PICK n \in 1..Len(listed) : listed[n] = q
    BY <1>1, ListedIs
  <2> QED
    BY <1>1 DEF SlugInv
<1> QED
  BY <1>3, <1>4, <1>5, TypesByInvariant DEF Editor!EditorsAgree

LEMMA HeldByInvariant == EditorShape => \A p \in Repos, k \in Editor!Kinds : Editor!Held(p, k) <=> HeldIn(p, k)
  BY HeldIs

\* Nothing the user has put into a file is lost by a step.
LEMMA KeptByInvariant ==
  ASSUME EditorInv, EditorInv', Keeps PROVE Editor!KeepOwn
<1>1. EditorShape /\ EditorShape'
  BY DEF EditorInv
<1>2. \A p \in Repos, k \in Editor!Kinds : Editor!Held(p, k) <=> HeldIn(p, k)
  BY <1>1, HeldByInvariant
<1>3. (EditorShape => \A p \in Repos, k \in Editor!Kinds : Editor!Held(p, k) <=> HeldIn(p, k))'
  BY HeldByInvariant, PTL
<1> QED
  BY <1>1, <1>2, <1>3 DEF Editor!KeepOwn, Keeps, Calm

\* EditorInv is an invariant of EditorFiles, for any projects, ports, bounds and
\* mishaps, and any number of them.
THEOREM EditorInvariant == Editor!Spec => []EditorInv
<1>1. EditorInv /\ [Editor!Next]_(Editor!vars) => EditorInv'
  BY EditorStep
<1> QED
  BY <1>1, InitEditor, PTL DEF Editor!Spec

\* What the launcher told the editors stays so in the run: the types, the token
\* of the entries, the port of the rules and the settings, and the slugs.
THEOREM EditorsStayInAgreement == CallsBehaviour => []EditorsAgree
<1>1. CallsInit => EditorInv
  BY InitEditor DEF CallsInit
<1>2. EditorInv /\ [CallsNext]_all => EditorInv'
  <2>1. [CallsNext]_all => [Editor!Next]_(Editor!vars)
    BY DEF CallsNext, all, editorVars, Editor!vars
  <2> QED
    BY <2>1, EditorStep
<1>3. EditorInv => EditorsAgree
  BY AgreedByInvariant DEF EditorsAgree
<1> QED
  BY <1>1, <1>2, <1>3, PTL DEF CallsBehaviour

\* The launcher loses nothing of the user's in the files it shares with them:
\* it is in the file, or in the hands of whoever is writing it.
THEOREM OwnStaysKept == CallsBehaviour => OwnIsKept
<1>1. CallsInit => EditorInv
  BY InitEditor DEF CallsInit
<1>2. EditorInv /\ [CallsNext]_all => EditorInv' /\ [part = "editor" => Editor!KeepOwn]_editorVars
  <2>1. [CallsNext]_all => [Editor!Next]_(Editor!vars)
    BY DEF CallsNext, all, editorVars, Editor!vars
  <2>2. EditorInv /\ [CallsNext]_all => EditorInv' /\ Editor!KeepOwn
    BY <2>1, EditorStep, KeptByInvariant
  <2> QED
    BY <2>2
<1> QED
  BY <1>1, <1>2, PTL DEF CallsBehaviour, OwnIsKept

=============================================================================
