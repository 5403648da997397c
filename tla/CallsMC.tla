------------------------------- MODULE CallsMC -------------------------------
(***************************************************************************)
(* Small instances, in one run, of three components that serve an editor   *)
(* and share no state: the tools its agent calls; the file watcher of a    *)
(* project with the calls it makes in the guest; and the files that are    *)
(* written for editors, of three projects, one there from the start.  A    *)
(* behaviour is of one of them, and the others rest in an initial state;   *)
(* which ones a run has, Parts says.                                       *)
(***************************************************************************)
EXTENDS AgentCalls

CONSTANTS Parts,
          Edits, Capacity, Renames, WatcherMishaps, MaxWatcherMishaps,
          Repos, Old, Ports, EditorCalls, EditorSaves, EditorMishaps, MaxEditorMishaps

VARIABLES part,
          gate, v2, tree, mine, edits, queue, dropped, known, cool, doing, unseen, watcherMishaps,
          file, live, minted, listed, slug, disk, rule, job, commands, saves, editorMishaps

Watch == INSTANCE HotReload WITH Cap <- Capacity, Mishaps <- WatcherMishaps,
                                 MaxMishaps <- MaxWatcherMishaps, mishaps <- watcherMishaps

Editor == INSTANCE EditorFiles WITH Projects <- Repos, Calls <- EditorCalls, Saves <- EditorSaves,
                                    Mishaps <- EditorMishaps, MaxMishaps <- MaxEditorMishaps,
                                    calls <- commands, mishaps <- editorMishaps

ASSUME CallsAssumption == Watch!ReloadAssumption /\ Editor!EditorAssumption

watchVars == <<gate, v2, tree, mine, edits, queue, dropped, known, cool, doing, unseen, watcherMishaps>>
editorVars == <<file, live, minted, listed, slug, disk, rule, job, commands, saves, editorMishaps>>
all == <<part, vars, watchVars, editorVars>>

CallsInit ==
  /\ part \in Parts
  /\ Init /\ Watch!Init /\ Editor!Init
  /\ part # "tools" => ~installed
  /\ part # "watch" => ~gate /\ tree["d"] = "file" /\ watcherMishaps = {}
  /\ part # "editor" => file = 0 /\ disk[Old]["settings"] = Editor!Absent

CallsNext ==
  \/ /\ part = "tools" /\ Next /\ UNCHANGED <<part, watchVars, editorVars>>
  \/ /\ part = "watch" /\ Watch!Next /\ UNCHANGED <<part, vars, editorVars>>
  \/ /\ part = "editor" /\ Editor!Next /\ UNCHANGED <<part, vars, watchVars>>

\* The fairness of the tools and of the watcher, as their modules state it; of
\* the editors' files there is safety only.
ToolsFairness ==
  /\ \A c \in Callers : WF_vars(part = "tools" /\ Serve(c)) /\ WF_vars(part = "tools" /\ Over(c))
  /\ WF_vars(part = "tools" /\ LoopPersists) /\ WF_vars(part = "tools" /\ Drained)
WatchFairness ==
  /\ SF_watchVars(part = "watch" /\ Watch!Receive) /\ WF_watchVars(part = "watch" /\ Watch!Apply)
  /\ SF_watchVars(part = "watch" /\ Watch!Reconcile)
  /\ WF_watchVars(part = "watch" /\ Watch!Reconciled)
  /\ \A p \in Watch!Paths \cup {Watch!Root} : WF_watchVars(part = "watch" /\ Watch!Cooled(p))

CallsBehaviour == CallsInit /\ [][CallsNext]_all
CallsSpec == CallsBehaviour /\ ToolsFairness
WatchSpec == CallsBehaviour /\ WatchFairness

-----------------------------------------------------------------------------
(* The properties of the parts, which state them *)

\* AgentCalls: every call is answered, and so the quit that waits for them ends.
ToolsEnd == part = "tools" => EveryoneEnds

\* HotReload: the tree is what the user has made of it; a save reaches the
\* guest; and the watcher rests when the user does.
TreeIsTheUsers == Watch!TreeIsTheUsers
SaveIsSeen == Watch!SaveIsSeen
Settles == Watch!Settles

\* EditorFiles: the entries, the files and the slugs are what is in use, and
\* what the user keeps in a settings file stays.
EditorsAgree == part = "editor" => Editor!EditorsAgree
OwnIsKept == [][part = "editor" => Editor!KeepOwn]_editorVars
=============================================================================
