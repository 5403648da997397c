-------------------------------- MODULE AppsMC --------------------------------
(***************************************************************************)
(* Small instances of AppLauncher, in one run: two apps that are installed,*)
(* run, stopped and reset ("apps"), and deep links to two versions of an   *)
(* app, whose windows are opened ("links").                                *)
(***************************************************************************)
EXTENDS AppLauncher, TLC

CONSTANTS OldVersion, AppCommands, AppMishaps

VARIABLE part

MCPorts == {4100, 4101}

\* The apps of the first part have one version.
OneVersion == INSTANCE AppLauncher WITH Versions <- {OldVersion}, Commands <- AppCommands,
                                        Mishaps <- AppMishaps

ASSUME AppsAssumption == OldVersion \in Versions /\ OneVersion!AppLauncherAssumption

\* Slugs are not ordered and the other sets are only compared; the first part,
\* which knows OldVersion, reaches no state that names another version.
Symmetric == Permutations(Slugs) \cup Permutations(Versions) \cup Permutations(Handles)

AppsInit == part \in {"apps", "links"} /\ Init

AppsNext ==
  \/ part = "apps" /\ OneVersion!Next /\ UNCHANGED part
  \/ part = "links" /\ Next /\ UNCHANGED part

AppsSpec == AppsInit /\ [][AppsNext]_<<part, vars>>
=============================================================================
