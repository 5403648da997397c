---------------------------------- MODULE Pipe ----------------------------------
(***************************************************************************)
(* What a forwarded connection promises: a stream each way that delivers   *)
(* what was sent, in order and once, and its end after all of it; or that  *)
(* is cut, after which nothing more arrives.                               *)
(***************************************************************************)
EXTENDS Naturals

CONSTANT N        \* bytes a side may send
VARIABLES sent, got, ended, seen, cut    \* each a function of the direction

vars == <<sent, got, ended, seen, cut>>
Ways == {"up", "down"}

Init ==
  /\ sent = [w \in Ways |-> 0] /\ got = [w \in Ways |-> 0]
  /\ ended = [w \in Ways |-> FALSE] /\ seen = [w \in Ways |-> FALSE] /\ cut = FALSE

Send(w) ==
  /\ ~ended[w] /\ sent[w] < N /\ sent' = [sent EXCEPT ![w] = @ + 1]
  /\ UNCHANGED <<got, ended, seen, cut>>

End(w) == ~ended[w] /\ ended' = [ended EXCEPT ![w] = TRUE] /\ UNCHANGED <<sent, got, seen, cut>>

Get(w) ==
  /\ ~seen[w] /\ got[w] < sent[w] /\ got' = [got EXCEPT ![w] = @ + 1]
  /\ UNCHANGED <<sent, ended, seen, cut>>

\* The end arrives after all that was sent, unless the connection is cut.
See(w) ==
  /\ ~seen[w] /\ ((ended[w] /\ got[w] = sent[w]) \/ cut)
  /\ seen' = [seen EXCEPT ![w] = TRUE] /\ UNCHANGED <<sent, got, ended, cut>>

Cut == ~cut /\ cut' = TRUE /\ UNCHANGED <<sent, got, ended, seen>>

\* The end that sends one way, and hears the other, goes.
Leave(w) ==
  /\ ended' = [ended EXCEPT ![w] = TRUE] /\ seen' = [v \in Ways |-> seen[v] \/ v # w]
  /\ cut' = TRUE /\ UNCHANGED <<sent, got>>

Next == Cut \/ \E w \in Ways : Send(w) \/ End(w) \/ Get(w) \/ See(w) \/ Leave(w)

Spec == Init /\ [][Next]_vars
=============================================================================
