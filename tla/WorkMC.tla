-------------------------------- MODULE WorkMC --------------------------------
(***************************************************************************)
(* Small instances, in one run, of five components that share no state:    *)
(* the working trees of the projects, their git repositories, publishing,  *)
(* the session and the mapping of errors.  A behaviour is of one of them,  *)
(* and the others rest in an initial state.                                *)
(***************************************************************************)
EXTENDS WorkTrees, TLC

CONSTANTS t1, t2,      \* what a part does at a time: tool calls, syncs, publishes, refreshes
          i1, i2,      \* what it does that to: snapshots, files, imported projects
          p1,          \* a project that is there from the start
          main, topic, \* branches
          TokenCalls, MaxTokens, Faults,
          Publishers, PublishCalls, SourceEdits,
          GitFiles, GitBranches, GitTasks, GitCalls, GitEdits,
          GitMishaps, PublishMishaps

VARIABLES part,
          commits, heads, cur, work, touched, mine, remote, track, origin, repo, edits, calls, task,
          promised, gitMishaps,
          pkg, src, out, box, branch, pages, url, snap, publish, asked, said, publishMishaps,
          access, refresh, issued, valid, spent, revoked, refreshing, login, leaving, clean,
          cause, error, told

MCTasks == {t1, t2}
MCItems == {i1, i2}
MCRoots == {p1}
MCBranches == {main, topic}

Git == INSTANCE GitSync WITH Files <- GitFiles, Branches <- GitBranches, Main <- main, Tasks <- GitTasks,
                             Calls <- GitCalls, Edits <- GitEdits, Mishaps <- GitMishaps,
                             mishaps <- gitMishaps
Site == INSTANCE Publish WITH Tasks <- Publishers, Calls <- PublishCalls, Edits <- SourceEdits,
                              Mishaps <- PublishMishaps,
                              call <- publish, calls <- asked, told <- said, mishaps <- publishMishaps
Auth == INSTANCE Authenticator WITH Calls <- TokenCalls, live <- valid, call <- refreshing
Blame == INSTANCE Errors

ASSUME WorkAssumption == Auth!AuthAssumption /\ Git!GitAssumption

gitVars == <<commits, heads, cur, work, touched, mine, remote, track, origin, repo, edits, calls, task,
             promised, gitMishaps>>
siteVars == <<pkg, src, out, box, branch, pages, url, snap, publish, asked, said, publishMishaps>>
authVars == <<access, refresh, issued, valid, spent, revoked, refreshing, login, leaving, clean>>
errorVars == <<cause, error, told>>
all == <<part, vars, gitVars, siteVars, authVars, errorVars>>

\* The properties are of safety only.
Symmetric == Permutations(MCTasks) \cup Permutations(MCItems)

WorkInit ==
  /\ part \in {"trees", "git", "site", "auth", "errors"}
  /\ Init /\ Git!Init /\ Site!Init /\ Auth!Init /\ Blame!Init
  /\ part # "git" => origin
  /\ part # "site" => pkg = CHOOSE p \in Site!Packages : Site!Sensible(p) /\ p.deps = {}

WorkNext ==
  \/ /\ part = "trees" /\ Next
     /\ UNCHANGED <<part, gitVars, siteVars, authVars, errorVars>>
  \/ /\ part = "git" /\ Git!Next
     /\ UNCHANGED <<part, vars, siteVars, authVars, errorVars>>
  \/ /\ part = "site" /\ Site!Next
     /\ UNCHANGED <<part, vars, gitVars, authVars, errorVars>>
  \/ /\ part = "auth" /\ Auth!Next
     /\ UNCHANGED <<part, vars, gitVars, siteVars, errorVars>>
  \/ /\ part = "errors" /\ Blame!Next
     /\ UNCHANGED <<part, vars, gitVars, siteVars, authVars>>

WorkSpec == WorkInit /\ [][WorkNext]_all

-----------------------------------------------------------------------------
(* The properties of the parts, which state them, of the behaviours of the
   part: the others rest. *)

\* WorkTrees: what is written, kept and served is whole.
TreesStayWhole == part = "trees" => TreesAreWhole

\* GitSync: what was told to be pushed is on the remote, and edits are kept.
PushedIsThere == part = "git" => Git!PushedIsThere
EditsAreKept == part = "git" => Git!EditsAreKept

\* Publish: the record and the site agree, and the site is a whole build.
SiteIsRecorded == part = "site" => Site!SiteIsRecorded

\* Authenticator: the session is one that can go on, or was ended by the
\* provider.
SessionIsGood == part = "auth" => Auth!SessionIsGood

\* Errors: whoever is told of a failure is told why, in the agreed terms.
ErrorsAreTold ==
  /\ [](part = "errors" => Blame!OneCodeOneShape)
  /\ [][part = "errors" => Blame!KeepReason]_errorVars
=============================================================================
