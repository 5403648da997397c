---------------------------- MODULE Authenticator ----------------------------
(***************************************************************************)
(* The GitHub session of the launcher: Authenticator                       *)
(* (src/src/tauri/src/auth/authenticator.rs) over two keychain entries, an *)
(* access token and a refresh token.  valid_token is called by the syncer, *)
(* the publisher, the tunnel and MCP commands and the startup task, each   *)
(* in its own task.                                                        *)
(*                                                                         *)
(* Tokens are numbered: the provider issues access and refresh token n     *)
(* together.  A refresh token is used once.  The provider is modelled from *)
(* how the code uses it.                                                   *)
(***************************************************************************)
EXTENDS Naturals, FiniteSets

CONSTANTS Calls,       \* bound: valid_token calls at a time
          MaxTokens,   \* bound: pairs issued
          Faults,      \* whether requests and keychain writes fail
          None

\* What the constants are.
AuthAssumption == MaxTokens \in Nat /\ Faults \in BOOLEAN /\ None \notin Nat

Tokens == 1 .. MaxTokens

VARIABLES access, refresh,   \* the keychain: "github" and "github:refresh"
          issued,            \* the provider: pairs issued so far,
          live,              \*   access tokens it accepts,
          spent,             \*   refresh tokens exchanged,
          revoked,           \*   refresh tokens it withdrew
          call,              \* the valid_token calls
          login,             \* an access token the frontend has yet to store
          leaving,           \* delete_token is between its two deletes
          clean              \* ghost: no exchange or keychain write has failed, no
                             \* restart cut a call off, no two refreshes overlapped

keychain == <<access, refresh>>
provider == <<issued, live, spent, revoked>>
user == <<login, leaving>>
vars == <<keychain, provider, user, call, clean>>

Idle == [at |-> "idle", token |-> None]
Goto(c, label, token) == call' = [call EXCEPT ![c] = [at |-> label, token |-> token]]
At(c, label) == call[c].at = label
Fail == Faults /\ clean' = FALSE
Refreshing == {"exchange", "store_access", "store_refresh", "clear_access", "clear_refresh"}
Usable == (1 .. issued) \ (spent \cup revoked)

Init ==
  /\ access = None /\ refresh = None
  /\ issued = 0 /\ live = {} /\ spent = {} /\ revoked = {}
  /\ call = [c \in Calls |-> Idle]
  /\ login = None /\ leaving = FALSE
  /\ clean = TRUE

-----------------------------------------------------------------------------
(* The provider *)

\* A new pair, whose number is the token the answer carries.
Issue(exchanged) ==
  /\ issued < MaxTokens
  /\ issued' = issued + 1
  /\ live' = (live \ exchanged) \cup {issued + 1}
  /\ spent' = spent \cup exchanged
  /\ UNCHANGED revoked

Expire(n) ==
  /\ n \in live /\ live' = live \ {n}
  /\ UNCHANGED <<keychain, issued, spent, revoked, user, call, clean>>

Revoke ==
  /\ revoked # 1 .. issued
  /\ revoked' = 1 .. issued /\ live' = {}
  /\ UNCHANGED <<keychain, issued, spent, user, call, clean>>

-----------------------------------------------------------------------------
(* Signing in and out *)

\* github_poll_oauth gets the pair and stores the refresh token; a failed
\* write only warns.  Bound: the user signs in while signed out and at rest; a
\* sign-in that lands between the two deletes of a failed refresh would lose
\* its refresh token.
PollOauth ==
  /\ access = None /\ login = None /\ \A c \in Calls : At(c, "idle")
  /\ Issue({})
  /\ \/ refresh' = issued + 1 /\ UNCHANGED clean
     \/ Fail /\ UNCHANGED refresh
  /\ login' = issued + 1
  /\ UNCHANGED <<access, leaving, call>>

\* store_auth_token, called by the frontend with the answer.
StoreToken ==
  /\ login # None
  /\ access' = login /\ login' = None
  /\ UNCHANGED <<refresh, provider, leaving, call, clean>>

\* delete_token, of a user who is signed in.
DeleteRefresh ==
  /\ ~leaving /\ login = None /\ access # None
  /\ leaving' = TRUE
  /\ refresh' = None
  /\ UNCHANGED <<access, provider, login, call, clean>>

DeleteAccess ==
  /\ leaving /\ leaving' = FALSE
  /\ access' = None
  /\ UNCHANGED <<refresh, provider, login, call, clean>>

-----------------------------------------------------------------------------
(* valid_token and try_refresh *)

Begin(c) ==
  /\ At(c, "idle") /\ access # None
  /\ Goto(c, "validate", access)
  /\ UNCHANGED <<keychain, provider, user, clean>>

\* The token is returned when the provider accepts it, and when it does not
\* answer; only a rejection leads on.
Validate(c) ==
  /\ At(c, "validate")
  /\ \/ /\ call[c].token \in live \/ Faults
        /\ Goto(c, "idle", None)
     \/ call[c].token \notin live /\ Goto(c, "refresh", None)
  /\ UNCHANGED <<keychain, provider, user, clean>>

\* Under refresh_lock, which is released with the token in hand.
ReadRefresh(c) ==
  /\ At(c, "refresh")
  /\ IF refresh = None
       THEN access' = None /\ Goto(c, "idle", None)
       ELSE Goto(c, "exchange", refresh) /\ UNCHANGED access
  /\ clean' = (clean /\ \A d \in Calls \ {c} : call[d].at \notin Refreshing)
  /\ UNCHANGED <<refresh, provider, user>>

\* The provider exchanges a usable token; the answer, or the request, may be
\* lost.
Exchange(c) ==
  /\ At(c, "exchange")
  /\ LET sent == call[c].token IN
       \/ /\ sent \in Usable /\ Issue({sent})
          /\ \/ Goto(c, "store_access", issued + 1) /\ UNCHANGED clean
             \/ Fail /\ Goto(c, "clear_access", sent)
       \/ /\ IF sent \in Usable THEN Fail ELSE UNCHANGED clean
          /\ Goto(c, "clear_access", sent) /\ UNCHANGED provider
  /\ UNCHANGED <<keychain, user>>

\* Mutant: the refresh token is stored first.
StoreAccessSecond(c) ==
  /\ At(c, "store_access")
  /\ refresh' = call[c].token /\ Goto(c, "store_refresh", call[c].token)
  /\ UNCHANGED <<access, provider, user, clean>>

\* A failed write returns the error, and the new refresh token is lost.
StoreAccess(c) ==
  /\ At(c, "store_access")
  /\ \/ access' = call[c].token /\ Goto(c, "store_refresh", call[c].token) /\ UNCHANGED clean
     \/ Fail /\ Goto(c, "idle", None) /\ UNCHANGED access
  /\ UNCHANGED <<refresh, provider, user>>

StoreRefresh(c) ==
  /\ At(c, "store_refresh")
  /\ \/ refresh' = call[c].token /\ UNCHANGED clean
     \/ Fail /\ UNCHANGED refresh
  /\ Goto(c, "idle", None)
  /\ UNCHANGED <<access, provider, user>>

\* Any error of the exchange deletes both tokens.
ClearAccess(c) ==
  /\ At(c, "clear_access")
  /\ access' = None /\ Goto(c, "clear_refresh", call[c].token)
  /\ UNCHANGED <<refresh, provider, user, clean>>

ClearRefresh(c) ==
  /\ At(c, "clear_refresh")
  /\ refresh' = None /\ Goto(c, "idle", None)
  /\ UNCHANGED <<access, provider, user, clean>>

\* The launcher dies, and every call with it.
Restart ==
  /\ Fail
  /\ call' = [c \in Calls |-> Idle] /\ login' = None /\ leaving' = FALSE
  /\ UNCHANGED <<keychain, provider>>

-----------------------------------------------------------------------------
Next ==
  \/ PollOauth \/ StoreToken \/ DeleteRefresh \/ DeleteAccess
  \/ Revoke \/ \E n \in Tokens : Expire(n)
  \/ \E c \in Calls :
       Begin(c) \/ Validate(c) \/ ReadRefresh(c) \/ Exchange(c) \/ StoreAccess(c)
         \/ StoreRefresh(c) \/ ClearAccess(c) \/ ClearRefresh(c)
  \/ Restart

Spec == Init /\ [][Next]_vars

-----------------------------------------------------------------------------
(* Properties *)

\* The keychain and the calls hold tokens the provider issued.
TypeOK ==
  /\ issued \in 0 .. MaxTokens
  /\ {access, refresh, login} \subseteq 1 .. issued \cup {None}
  /\ live \cup spent \cup revoked \subseteq 1 .. issued
  /\ leaving \in BOOLEAN /\ clean \in BOOLEAN
  /\ call \in [Calls -> [at : {"idle", "refresh"}, token : {None}] \cup
                        [at : {"validate", "exchange", "store_access", "store_refresh",
                               "clear_access", "clear_refresh"}, token : 1 .. issued]]

Quiet == ~leaving /\ login = None /\ \A c \in Calls : At(c, "idle")

\* Signed in and at rest, the launcher keeps a refresh token that is still
\* good: rotation never leaves one behind that was used (try_refresh), however
\* signing in and out and other calls fall between its steps.  A failed request
\* or write, a restart or two refreshes at once do break it.
RefreshTokenIsUnspent == clean /\ Quiet /\ access # None => refresh # None /\ refresh \notin spent

\* With the same exceptions, try_refresh signs the user out only on the
\* provider's word.
ClearedOnlyIfRevoked ==
  clean => \A c \in Calls : call[c].at \in {"clear_access", "clear_refresh"} => call[c].token \in revoked

\* The keychain never pairs an access token with a newer refresh token, so that
\* a call that comes between the two writes, or after a crash there, finds the
\* newest access token and does not rotate the pair again (try_refresh).
RefreshIsNotNewer == {access, refresh} \subseteq Tokens => refresh <= access

\* The session is one that can go on, or one the provider has ended.
SessionIsGood == TypeOK /\ RefreshIsNotNewer /\ RefreshTokenIsUnspent /\ ClearedOnlyIfRevoked

\* "Single-flight refresh: callers serialize on `refresh_lock`"
\* (authenticator.rs:187): one exchange at a time, and none with a refresh
\* token another has used.
SingleFlight == Cardinality({c \in Calls : At(c, "exchange")}) <= 1

\* "Network error or timeout: keep the token (might work later). Don't delete
\* on transient failures." (authenticator.rs:179)
UsableSessionIsKept ==
  \A c \in Calls : At(c, "clear_access") => call[c].token \notin Usable
=============================================================================
