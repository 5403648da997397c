------------------------------- MODULE HotReload -------------------------------
(***************************************************************************)
(* Hot reload: the file watcher of a running project                       *)
(* (src/src/tauri/src/vm/file_watcher.rs) and the file calls of the agent  *)
(* (src/src/agent/src/service.rs).  The host and the guest share one tree, *)
(* so what the agent does to it on the watcher's behalf is an event for    *)
(* the watcher again.                                                      *)
(*                                                                         *)
(* The tree has two names at the top, each a file or a directory with one  *)
(* file below it; the checks of a path against /repos and the ignored      *)
(* directories are left out.                                               *)
(***************************************************************************)
EXTENDS Naturals, Sequences, FiniteSets

CONSTANTS Edits,     \* bound: edits of the user
          Cap,       \* events the channel holds, 100 in the code
          Renames,   \* how the host reports a rename: "both", "split", "any"
          Mishaps, MaxMishaps

\* overlap: the user edits before the watcher is through with the edits before.
\* full: an event finds no room.  quick: a file is saved again while its
\* cooldown runs.  slow: an event takes longer than a cooldown.  rpc: a call
\* to the agent fails.  unread: a directory cannot be listed.  unknown: the
\* watcher does not know that the agent has the newer calls.
MishapNames == {"overlap", "full", "quick", "slow", "rpc", "unread", "unknown"}

ReloadAssumption ==
  /\ Edits \in Nat /\ Cap \in Nat /\ Renames \subseteq {"both", "split", "any"}
  /\ Mishaps \subseteq MishapNames /\ MaxMishaps \in Nat

VARIABLES gate, v2, tree, mine, edits, queue, dropped, known, cool, doing, unseen, mishaps

vars == <<gate, v2, tree, mine, edits, queue, dropped, known, cool, doing, unseen, mishaps>>

Root == "root"
Top == {"d", "e"}
In == [d |-> "da", e |-> "ea"]
Paths == Top \cup {In[x] : x \in Top}
Parent(p) == IF p \in Top THEN Root ELSE CHOOSE x \in Top : In[x] = p
Below(p) == IF p \in Top THEN {In[p]} ELSE {}

IsDir(t, p) == IF p = Root THEN TRUE ELSE t[p] = "dir"
There(t, p) == IF p = Root THEN TRUE ELSE t[p] # "none"

Event(k, p, dir) == [k |-> k, p |-> p, q |-> p, dir |-> dir]
Act(op, p, dir) == [op |-> op, p |-> p, q |-> p, dir |-> dir]
Idle == [acts |-> <<>>, scan |-> FALSE, cur |-> [p \in Paths |-> "none"]]

Happen(kinds) ==
  /\ kinds \subseteq Mishaps \cup {"full"} /\ Cardinality((mishaps \cup kinds) \ {"full"}) <= MaxMishaps
  /\ mishaps' = mishaps \cup kinds

Init ==
  /\ gate \in BOOLEAN /\ v2 \in {FALSE, gate}
  /\ tree \in {[p \in Paths |-> IF p = "d" THEN x ELSE IF p = "da" /\ x = "dir" THEN "file" ELSE "none"] : x \in {"file", "dir"}}
  /\ mine = tree /\ known = tree
  /\ edits = 0 /\ queue = <<>> /\ dropped = FALSE /\ cool = {} /\ doing = Idle /\ unseen = {}
  /\ mishaps = (IF v2 = gate THEN {} ELSE {"unknown"}) /\ mishaps \subseteq Mishaps

-----------------------------------------------------------------------------
(* What happens to the tree, and the events it makes                        *)

\* The result of an operation: the tree, and what the host reports of it.
Same(t) == [t |-> t, ev |-> <<>>]

Put(t, p, kind) == [t |-> [t EXCEPT ![p] = kind], ev |-> <<Event("create", p, kind = "dir")>>]

Gone(t, p) ==
  [t |-> [x \in Paths |-> IF x \in {p} \cup Below(p) THEN "none" ELSE t[x]],
   ev |-> (IF p \in Top /\ There(t, In[p]) THEN <<Event("remove", In[p], FALSE)>> ELSE <<>>)
          \o <<Event("remove", p, IsDir(t, p))>>]

\* The file below a directory moves with it.
Moved(t, p, q, mode) ==
  [t |-> [x \in Paths |-> IF x = q THEN t[p] ELSE IF x = p THEN "none"
                          ELSE IF p \in Top /\ q \in Top /\ x = In[q] THEN t[In[p]]
                          ELSE IF x \in Below(p) THEN "none" ELSE t[x]],
   ev |-> CASE mode = "both" -> <<[Event("both", p, FALSE) EXCEPT !.q = q]>>
            [] mode = "split" -> <<Event("from", p, FALSE), Event("to", q, FALSE)>>
            [] mode = "any" -> <<Event("modify", p, FALSE), Event("modify", q, FALSE)>>]

\* A directory takes the place of nothing, or of a directory that is empty; a
\* file takes that of a file.
CanMove(t, p, q) ==
  /\ p # q /\ There(t, p) /\ IsDir(t, Parent(q)) /\ Parent(q) # p
  /\ IF IsDir(t, p) THEN q \in Top /\ (t[q] = "none" \/ (t[q] = "dir" /\ t[In[q]] = "none")) ELSE t[q] # "dir"

\* The callback of the watcher: an event that finds no room is counted.
Emit(r, q, kinds) ==
  LET all == q \o r.ev
      over == Len(all) > Cap
  IN /\ tree' = r.t
     /\ queue' = SubSeq(all, 1, IF over THEN Cap ELSE Len(all))
     /\ dropped' = (dropped \/ over)
     /\ Happen(kinds \cup (IF over THEN {"full"} ELSE {}))

-----------------------------------------------------------------------------
(* The user                                                                 *)

AtRest == queue = <<>> /\ doing = Idle /\ ~dropped

\* shown: the files the guest has to hear of.
Edit(r, shown, kinds) ==
  /\ edits < Edits /\ edits' = edits + 1
  /\ Emit(r, queue, kinds \cup (IF AtRest THEN {} ELSE {"overlap"}))
  /\ mine' = [p \in Paths |-> IF r.t[p] # tree[p] THEN r.t[p] ELSE mine[p]]
  /\ unseen' = {p \in unseen \cup shown : There(r.t, p)}
  /\ UNCHANGED <<gate, v2, known, cool, doing>>

New(p) ==
  /\ ~There(tree, p) /\ IsDir(tree, Parent(p))
  /\ \E kind \in {"file"} \cup (IF p \in Top THEN {"dir"} ELSE {}) :
       Edit(Put(tree, p, kind), IF gate THEN {} ELSE {p}, IF p \in cool THEN {"quick"} ELSE {})

Save(p) ==
  /\ tree[p] = "file"
  /\ Edit([t |-> tree, ev |-> <<Event("modify", p, FALSE)>>], {p}, IF p \in cool THEN {"quick"} ELSE {})

Delete(p) == There(tree, p) /\ Edit(Gone(tree, p), {}, {})

Rename(p, q) ==
  /\ CanMove(tree, p, q)
  /\ \E mode \in Renames :
       Edit(Moved(tree, p, q, mode), IF gate THEN {} ELSE {q}, IF q \in cool THEN {"quick"} ELSE {})

-----------------------------------------------------------------------------
(* The calls of the agent                                                   *)

\* A missing parent is an error: it is resolved before it is made.
EnsurePath(t, p, dir) ==
  IF ~IsDir(t, Parent(p)) \/ There(t, p) THEN Same(t) ELSE Put(t, p, IF dir THEN "dir" ELSE "file")

RemovePath(t, p, recursive) ==
  IF ~There(t, p) \/ (IsDir(t, p) /\ ~recursive /\ \E x \in Below(p) : There(t, x)) THEN Same(t) ELSE Gone(t, p)

RenamePath(t, p, q, mode) == IF CanMove(t, p, q) THEN Moved(t, p, q, mode) ELSE Same(t)

TouchFile(t, p) == IF There(t, p) THEN [t |-> t, ev |-> <<Event("modify", p, FALSE)>>] ELSE Same(t)

InGuest(a, mode) ==
  CASE a.op = "touch" -> TouchFile(tree, a.p)
    [] a.op = "ensure" -> EnsurePath(tree, a.p, a.dir)
    [] a.op = "remove" -> RemovePath(tree, a.p, a.dir)
    [] a.op = "rename" -> RenamePath(tree, a.p, a.q, mode)

-----------------------------------------------------------------------------
(* The watcher                                                              *)

\* Mutant: a rename touches the name that has gone.
TouchOld(e) == Act("touch", IF v2 THEN Root ELSE e.p, FALSE)

\* actions_from_event.  What a rename has brought is looked at now.
ActionOf(e) ==
  IF ~v2 \/ e.k = "modify" THEN Act("touch", IF e.k = "both" THEN e.q ELSE e.p, FALSE)
  ELSE CASE e.k = "both" -> [Act("rename", e.p, FALSE) EXCEPT !.q = e.q]
         [] e.k = "create" -> Act("ensure", e.p, e.dir)
         [] e.k = "to" -> Act("ensure", e.p, IsDir(tree, e.p))
         [] e.k = "from" -> Act("remove", e.p, TRUE)
         [] e.k = "remove" -> Act("remove", e.p, e.dir)

Receive ==
  /\ doing = Idle /\ queue # <<>> /\ queue' = Tail(queue)
  /\ LET a == ActionOf(Head(queue)) IN
       doing' = IF a.op = "touch" /\ a.p \in cool THEN Idle ELSE [Idle EXCEPT !.acts = <<a>>]
  /\ UNCHANGED <<gate, v2, tree, mine, edits, dropped, known, cool, unseen, mishaps>>

\* apply_action_to_known_paths.
Known(a) ==
  CASE a.op = "touch" -> known
    [] a.op = "ensure" -> [known EXCEPT ![a.p] = IF a.dir THEN "dir" ELSE "file"]
    [] a.op = "remove" -> [x \in Paths |-> IF x = a.p \/ (a.dir /\ x \in Below(a.p)) THEN "none" ELSE known[x]]
    [] a.op = "rename" -> [x \in Paths |->
         IF x = a.q THEN IF known[a.p] = "none" THEN "file" ELSE known[a.p]
         ELSE IF a.p \in Top /\ a.q \in Top /\ x = In[a.q] /\ known[In[a.p]] # "none" THEN known[In[a.p]]
         ELSE IF x \in {a.p} \cup Below(a.p) THEN "none" ELSE known[x]]

\* Mutant: a touch starts no cooldown.
NeverTouched(a) == cool

Touched(a) == IF a.op = "touch" /\ ~doing.scan THEN cool \cup {a.p} ELSE cool

\* apply_action, and what follows it.  A failure is logged and no more.
Apply ==
  /\ doing.acts # <<>> /\ UNCHANGED <<gate, v2, mine, edits>>
  /\ LET a == Head(doing.acts) IN
       /\ doing' = IF doing.scan THEN [doing EXCEPT !.acts = Tail(@)] ELSE Idle
       /\ known' = IF doing.scan THEN known ELSE Known(a)
       /\ cool' = Touched(a)
       /\ \/ \E mode \in Renames :
               LET r == InGuest(a, mode) IN
                 /\ Emit(r, queue, {})
                 /\ unseen' = {p \in unseen : There(r.t, p) /\ (a.op = "touch" => p # a.p)}
          \/ Emit(Same(tree), queue, {"rpc"}) /\ UNCHANGED unseen

\* Mutant: the paths to remove are those that have come.
WentSwapped(p, cur) == IF cur[p] # "none" /\ known[p] = "none" THEN <<Act("remove", p, TRUE)>> ELSE <<>>

\* What a path is to the comparison: known and not there any more, or there and
\* not known to be what it is.
Went(p, cur) == IF known[p] # "none" /\ cur[p] = "none" THEN <<Act("remove", p, known[p] = "dir")>> ELSE <<>>
Came(p, cur) == IF cur[p] \notin {"none", known[p]} THEN <<Act("ensure", p, cur[p] = "dir")>> ELSE <<>>

\* What has gone, the deepest first, then what has come or changed its kind.
Scan(cur) ==
  Went("da", cur) \o Went("ea", cur) \o Went("d", cur) \o Went("e", cur)
  \o Came("d", cur) \o Came("e", cur) \o Came("da", cur) \o Came("ea", cur)

\* collect_guest_tree_snapshot: a directory that cannot be listed is skipped,
\* and a walk that dies leaves the root.
Walk(cur, kinds) ==
  \/ cur = tree /\ kinds = {}
  \/ \E x \in Top : tree[x] = "dir" /\ cur = [tree EXCEPT ![In[x]] = "none"] /\ kinds = {"unread"}
  \/ cur = [p \in Paths |-> "none"] /\ kinds = {"unread"}

Reconcile ==
  /\ doing = Idle /\ dropped /\ dropped' = FALSE
  /\ \E cur \in {tree, [p \in Paths |-> "none"]} \cup {[tree EXCEPT ![In[x]] = "none"] : x \in Top}, kinds \in {{}, {"unread"}} :
       /\ Walk(cur, kinds) /\ Happen(kinds)
       /\ doing' = [acts |-> IF v2 THEN Scan(cur) ELSE <<Act("touch", Root, FALSE)>>, scan |-> TRUE, cur |-> cur]
  /\ UNCHANGED <<gate, v2, tree, mine, edits, queue, known, cool, unseen>>

Reconciled ==
  /\ doing.scan /\ doing.acts = <<>> /\ known' = doing.cur /\ doing' = Idle
  /\ UNCHANGED <<gate, v2, tree, mine, edits, queue, dropped, cool, unseen, mishaps>>

\* A cooldown outlasts the way of the event its touch has made.
Cooled(p) ==
  /\ p \in cool /\ cool' = cool \ {p}
  /\ Happen(IF \E i \in 1..Len(queue) : queue[i].k = "modify" /\ queue[i].p = p THEN {"slow"} ELSE {})
  /\ UNCHANGED <<gate, v2, tree, mine, edits, queue, dropped, known, doing, unseen>>

\* An answer whose value another failure has cleared reads as no support.
AskAgain ==
  /\ gate /\ doing = Idle /\ v2' \in BOOLEAN /\ v2' # v2 /\ Happen({"unknown"})
  /\ UNCHANGED <<gate, tree, mine, edits, queue, dropped, known, cool, doing, unseen>>

-----------------------------------------------------------------------------
User == \E p \in Paths : New(p) \/ Save(p) \/ Delete(p) \/ \E q \in Paths : Rename(p, q)
Watcher == Receive \/ Apply \/ Reconcile \/ Reconciled
Cooling == \E p \in Paths \cup {Root} : Cooled(p)
Next == User \/ Watcher \/ Cooling \/ AskAgain

\* The task runs on, time passes, and the select takes each of its branches
\* in its turn.
Spec == Init /\ [][Next]_vars
FairSpec == Spec /\ SF_vars(Receive) /\ WF_vars(Apply) /\ SF_vars(Reconcile) /\ WF_vars(Reconciled)
                 /\ \A p \in Paths \cup {Root} : WF_vars(Cooled(p))

-----------------------------------------------------------------------------
(* Properties *)

Without(kinds) == mishaps \cap kinds = {}

TypeOK ==
  /\ Len(queue) <= Cap
  /\ \A p \in Paths : tree[p] = "dir" => p \in Top
  /\ \A x \in Top : tree[In[x]] # "none" => tree[x] = "dir"
  /\ unseen \subseteq {p \in Paths : There(tree, p)}

\* As long as the user waits for the watcher, and every directory can be
\* listed, the tree is what the user has made of it: nothing is brought back,
\* removed or moved in his name, with events lost or not.
TreeIsTheUsers == Without({"overlap", "unread"}) \/ ~gate => tree = mine

\* A save reaches the guest as a touch, or the file goes.
SaveIsSeen ==
  \A p \in Paths :
    [](p \in unseen => <>(p \notin unseen \/ ~Without({"full", "quick", "rpc", "overlap"})))

\* When the user rests, so does the watcher: its own touches do not keep it
\* going.
Settles == <>[](AtRest \/ ~Without({"slow"}) \/ (gate /\ ~Without({"overlap"})))

\* The same, however the edits of the user and the calls of the watcher mix.
RestsAlways == <>[](AtRest \/ ~Without({"slow"}))

\* The watcher never takes a file of the user away.
NothingIsTaken == \A p \in Paths : There(mine, p) => There(tree, p)
=============================================================================
