-------------------------------- MODULE Errors --------------------------------
(***************************************************************************)
(* What becomes of a failure on its way to a reader: the error of a        *)
(* library, of the VM or of the guest agent turns into an AppError         *)
(* (src/src/tauri/src/error.rs), and that into the answer an editor's      *)
(* agent gets (mcp/errors.rs) or the text a window shows                   *)
(* (src/src/web/lib/errors.ts).                                            *)
(*                                                                         *)
(* A text is the set of the facts it tells: "why", the reason the failing  *)
(* part gave, and "what", the thing or place it is about.                  *)
(***************************************************************************)
EXTENDS Naturals, Sequences

VARIABLES cause,  \* the failure under way: who failed, how, and what it tells
          error,  \* the AppError made of it
          told    \* the last answer, and for an agent the one before

vars == <<cause, error, told>>

VmKinds == {"LaunchFailed", "ShutdownFailed", "ConnectionFailed", "ImageNotFound",
            "ImageDownloadFailed", "ConfigInvalid", "Io", "CommandFailed", "FileWatchFailed",
            "SetupFailed", "NotRunning"}
GuestKinds == {"PodmanConnect", "ContainerStart", "ContainerStop", "ContainerRemove",
               "ContainerInspect", "LogStream", "ContainerList", "VsockBind", "Io", "Other"}
LibraryKinds == {"io", "serde", "git2", "podman", "ttrpc", "join", "tauri", "updater", "reqwest",
                 "poison", "project id", "thrown"}
PublishUnits == {"NoPackageJson", "NoBuildScript", "NextjsStaticExportRequired",
                 "PrivateRepoNeedsPro", "RuntimeNotReady"}
PublishKinds == PublishUnits \cup {"BuildFailed", "BuildOutputMissing", "PushFailed",
                                   "PagesApiFailed"}
\* Errors the program makes itself, with the entity, field or provider.
OwnKinds == {<<"NotFound", "project">>, <<"NotFound", "app">>, <<"AlreadyExists", "project">>,
             <<"InvalidInput", "path">>, <<"InvalidInput", "projectId">>,
             <<"AuthRequired", "github">>, <<"AuthRequired", "git">>,
             <<"AuthFailed", "">>, <<"TunnelFailed", "">>}

Cause(by, kind, about, tells) == [by |-> by, kind |-> kind, about |-> about, tells |-> tells]
AppError(code, about, says) == [code |-> code, about |-> about, says |-> says]
Calm == [none |-> TRUE]

\* Kinds that carry no reason of the part that failed.
Why(k) == IF k \in PublishUnits \cup {"NotRunning", "poison"} THEN {} ELSE {"why"}

Causes ==
  {Cause("vm", k, "", IF k = "ImageNotFound" THEN {"what"} ELSE Why(k)) : k \in VmKinds}
  \cup {Cause("guest", k, "", {"what", "why"}) : k \in GuestKinds}
  \cup {Cause("library", k, "", Why(k)) : k \in LibraryKinds}
  \cup {Cause("publish", k, "", Why(k)) : k \in PublishKinds}
  \cup {Cause("own", k[1], k[2],
              CASE k[1] = "InvalidInput" -> {"what", "why"}
                [] k[1] \in {"AuthFailed", "TunnelFailed"} -> {"why"}
                [] OTHER -> {"what"}) : k \in OwnKinds}
  \cup {Cause("nothing", "no token", "github", {"what"})}

-----------------------------------------------------------------------------
(* AppError *)

\* impl From<VmError> for AppError.
FromVm(k, says) ==
  CASE k \in {"LaunchFailed", "ImageNotFound"} -> AppError("VmStartFailed", "", says)
    [] k = "ShutdownFailed" -> AppError("VmStopFailed", "", says)
    [] k = "ConnectionFailed" -> AppError("VmConnectionFailed", "", says)
    [] k \in {"ImageDownloadFailed", "SetupFailed"} -> AppError("VmSetupFailed", "", says)
    [] k = "ConfigInvalid" -> AppError("InvalidInput", "vm_config", says \cup {"what"})
    [] k = "Io" -> AppError("StorageFailed", "", says)
    [] k \in {"CommandFailed", "FileWatchFailed"} -> AppError("Internal", "", says)
    [] k = "NotRunning" -> AppError("VmNotRunning", "", {})

\* Mutant: the source chain is dropped.
FromLibraryFlat(k, says) ==
  CASE k \in {"podman", "ttrpc"} -> AppError("ContainerFailed", "", {})
    [] OTHER -> AppError("Internal", "", says)

\* The other conversions; a rejection that is no error of ours is wrapped by
\* fromTauriResult.
FromLibrary(k, says) ==
  CASE k \in {"io", "serde"} -> AppError("StorageFailed", "", says)
    [] k = "git2" -> AppError("GitFailed", "", says)
    [] k \in {"podman", "ttrpc"} -> AppError("ContainerFailed", "", says)
    [] k = "project id" -> AppError("InvalidInput", "projectId", says \cup {"what"})
    [] k \in {"join", "tauri", "updater", "reqwest", "poison", "thrown"} ->
         AppError("Internal", "", says)

\* The handler of the guest turns its error into the text of an RPC status.
InternalErr(says) == FromLibrary("ttrpc", says)

Convert ==
  /\ cause # Calm /\ error = Calm
  /\ error' = CASE cause.by = "vm" -> FromVm(cause.kind, cause.tells)
                [] cause.by = "guest" -> InternalErr(cause.tells)
                [] cause.by = "library" -> FromLibrary(cause.kind, cause.tells)
                [] cause.by = "publish" -> AppError("Publish", cause.kind, cause.tells)
                [] cause.by \in {"own", "nothing"} -> AppError(cause.kind, cause.about, cause.tells)
  /\ UNCHANGED <<cause, told>>

-----------------------------------------------------------------------------
(* The agent's answer *)

McpError(numeric, code, says) == [to |-> "agent", numeric |-> numeric, code |-> code, says |-> says]
INVALID_PARAMS == 32602
INTERNAL_ERROR == 32603

\* A message and, for a reason, a hint: between them they tell what the error does.
MapPublishError(e) == McpError(INTERNAL_ERROR, e.about, e.says)

MapAppError(e) ==
  CASE e.code = "NotFound" ->
         McpError(INVALID_PARAMS, IF e.about = "project" THEN "PROJECT_NOT_FOUND" ELSE "NOT_FOUND", {"what"})
    [] e.code \in {"AlreadyExists", "InvalidInput"} -> McpError(INVALID_PARAMS, e.code, e.says)
    [] e.code = "AuthRequired" ->
         McpError(INTERNAL_ERROR, IF e.about = "github" THEN "NO_GITHUB_AUTH" ELSE "NO_AUTH", {"what"})
    [] e.code \in {"VmStartFailed", "VmStopFailed", "VmConnectionFailed", "VmSetupFailed"} ->
         McpError(INTERNAL_ERROR, "VM_FAILED", e.says)
    [] e.code = "Publish" -> MapPublishError(e)
    [] e.code \in {"AuthFailed", "ContainerFailed", "GitFailed", "StorageFailed", "VmNotRunning",
                   "TunnelFailed", "Internal"} -> McpError(INTERNAL_ERROR, e.code, e.says)

\* push_failed: what the push of github_push says, with the code of the
\* publish error.
PushFailed(e) == McpError(INTERNAL_ERROR, "PushFailed", e.says)

\* No token was even asked for, so that there is no AppError to map.
NoGithubAuth == McpError(INTERNAL_ERROR, "NO_GITHUB_AUTH", {"what"})

\* The VM is started by the window, never by a tool.
ForAgent == ~(cause.by = "vm" /\ cause.kind # "NotRunning") /\ cause.kind # "thrown"

Told(answer) ==
  /\ told' = Append(IF told = <<>> \/ answer.to = "window" THEN <<>> ELSE <<told[Len(told)]>>, answer)
  /\ cause' = Calm /\ error' = Calm

TellAgent ==
  /\ error # Calm /\ ForAgent
  /\ \/ cause.by = "nothing" /\ Told(NoGithubAuth)
     \/ cause.by # "nothing" /\ Told(MapAppError(error))
     \/ cause.kind = "git2" /\ Told(PushFailed(error))

-----------------------------------------------------------------------------
(* The window *)

\* formatPublishDetail: a sentence for each, with the reason where there is one.
FormatPublishDetail(e) == e.says

\* extractDetail: a path has a fixed text, a reason goes before a name.
ExtractDetail(e) ==
  CASE e.code = "Publish" -> FormatPublishDetail(e)
    [] e.code = "InvalidInput" /\ e.about = "path" -> {"what"}
    [] OTHER ->
         IF "why" \in e.says THEN {"why"} ELSE e.says

\* extractTitle, and the table of titles: the only other thing the window tells.
Title(e) == IF e.code = "InvalidInput" /\ e.about = "path" THEN "Path not allowed" ELSE e.code

\* translateError: the detail, or the table's sentence.
TranslateError(e) == [to |-> "window", title |-> Title(e), says |-> ExtractDetail(e)]

\* describeError: a command of the launcher rejects with a String, which is
\* unknown to the table; its text is in the details, and these are shown.
DescribeError(e) == [to |-> "window", title |-> "UNKNOWN", says |-> e.says]

\* The field "path" is only ever named by the file tools.
ForWindow == error.about # "path" /\ cause.by # "nothing"

TellWindow ==
  /\ error # Calm /\ ForWindow
  /\ \/ Told(TranslateError(error))
     \/ cause.by \in {"library", "own"} /\ Told(DescribeError(error))

Raise == cause = Calm /\ cause' \in Causes /\ UNCHANGED <<error, told>>

Init == cause = Calm /\ error = Calm /\ told = <<>>
Next == Raise \/ Convert \/ TellAgent \/ TellWindow
Spec == Init /\ [][Next]_vars

-----------------------------------------------------------------------------
\* The reason a failing part gave reaches whoever is told of it, through every
\* conversion on the way.
KeepReason == told' # told /\ "why" \in cause.tells => "why" \in told'[Len(told')].says
ReasonIsKept == [][KeepReason]_vars

\* One code is one contract to an agent: whichever way it came about, the
\* numeric code and what is told with it are the same.
OneCodeOneShape ==
  \A i, j \in 1 .. Len(told) :
    told[i].to = "agent" /\ told[j].to = "agent" /\ told[i].code = told[j].code
      => told[i].numeric = told[j].numeric

\* Whoever is told of a failure is told why, in the terms agreed for it.
ErrorsAreTold == []OneCodeOneShape /\ ReasonIsKept
=============================================================================
