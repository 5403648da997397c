------------------------------ MODULE WorkProofs ------------------------------
(***************************************************************************)
(* What is kept by the parts of the work run, each for every value of its  *)
(* constants.                                                              *)
(*                                                                         *)
(* The session: valid_token may run in any number of tasks, the user signs *)
(* in and out beside them, and a failed write or a restart cuts a rotation *)
(* in two.  The argument is that of all the refresh tokens in the keychain *)
(* and on their way one at most can still be exchanged, so that the pair   *)
(* issued last is in one pair of hands until it is stored.                 *)
(*                                                                         *)
(* The mapping of errors: the reason a failure has passes every conversion *)
(* on its way, and the numeric code of an answer is a function of its code.*)
(*                                                                         *)
(* The site: a step of one task has to fit the project, and to leave       *)
(* nobody waiting (OneMoves).  What each place of a task relies on holds   *)
(* while it is alone; two at once are a mishap, which the properties name. *)
(*                                                                         *)
(* The repositories: the history of a commit only grows by its own, so     *)
(* what is known of the remote stays in its branch's history.              *)
(*                                                                         *)
(* The working trees: a rollback, a fork's id and a new snapshot belong to *)
(* one call, which is why a copy of a whole tree is whole in the end.      *)
(***************************************************************************)
EXTENDS WorkMC, SequenceTheorems, FiniteSetTheorems, WellFoundedInduction, TLAPS

-----------------------------------------------------------------------------
(* The session (Authenticator) *)

Storing == {"store_access", "store_refresh"}
Clearing == {"clear_access", "clear_refresh"}
NoneRefreshes == \A c \in TokenCalls : refreshing[c].at \notin Auth!Refreshing

\* The pair that was issued last is in the hands of one call, which is to store
\* it; nobody else holds a refresh token that can be exchanged.
NewestInHand ==
  \A c \in TokenCalls : refreshing[c].at \in Storing =>
    /\ refreshing[c].token = issued /\ issued \notin spent
    /\ refresh \notin Auth!Usable
    /\ \A d \in TokenCalls \ {c} :
         /\ refreshing[d].at \notin Storing
         /\ refreshing[d].at = "exchange" => refreshing[d].token \notin Auth!Usable
    /\ refreshing[c].at = "store_refresh" => access \in {None, issued}

\* Of the refresh tokens in the keychain and on their way one at most can be
\* exchanged.
OneUsable ==
  \A c \in TokenCalls :
    refreshing[c].at = "exchange" /\ refreshing[c].token \in Auth!Usable =>
      /\ refresh \in Auth!Usable => refresh = refreshing[c].token
      /\ \A d \in TokenCalls :
           refreshing[d].at = "exchange" /\ refreshing[d].token \in Auth!Usable =>
             refreshing[d].token = refreshing[c].token

\* While the frontend has yet to store an access token, nobody has any.
SigningIn ==
  login # None =>
    /\ access = None /\ login = issued
    /\ \A c \in TokenCalls : refreshing[c].at = "idle"
    /\ clean => refresh = issued /\ issued \notin spent

\* What holds until something fails, a restart comes between or two refreshes
\* overlap.
WhileClean ==
  clean =>
    /\ \A c, d \in TokenCalls :
         refreshing[c].at \in Auth!Refreshing /\ refreshing[d].at \in Auth!Refreshing => c = d
    /\ NoneRefreshes => refresh \notin spent
    /\ NoneRefreshes /\ ~leaving /\ login = None /\ access # None => refresh # None
    /\ \A c \in TokenCalls :
         /\ refreshing[c].at = "exchange" => refreshing[c].token \notin spent
         /\ refreshing[c].at \in Clearing => refreshing[c].token \in revoked
         /\ refreshing[c].at = "clear_refresh" => access = None

SessionInv == Auth!TypeOK /\ Auth!RefreshIsNotNewer /\ NewestInHand /\ OneUsable /\ SigningIn /\ WhileClean

-----------------------------------------------------------------------------
\* What the calls may be when n pairs are issued.
CallStates(n) ==
  [TokenCalls -> [at : {"idle", "refresh"}, token : {None}] \cup
                 [at : {"validate", "exchange", "store_access", "store_refresh",
                        "clear_access", "clear_refresh"}, token : 1 .. n]]

\* Another pair leaves the states there were.
LEMMA CallStatesGrow ==
  ASSUME NEW n \in Nat, NEW m \in {n, n + 1}, refreshing \in CallStates(n)
  PROVE  refreshing \in CallStates(m)
  <1>1. 1 .. n \subseteq 1 .. m
    OBVIOUS
  <1>2. QED
    BY <1>1 DEF CallStates

\* One call is led to another state.
LEMMA StateIsSet ==
  ASSUME NEW n \in Nat, NEW f \in CallStates(n), NEW c \in TokenCalls, NEW t \in 1 .. n,
         NEW l \in {"validate", "exchange", "store_access", "store_refresh", "clear_access", "clear_refresh"}
  PROVE  [f EXCEPT ![c] = [at |-> l, token |-> t]] \in CallStates(n)
  <1>1. [at |-> l, token |-> t] \in [at : {"validate", "exchange", "store_access", "store_refresh",
                                          "clear_access", "clear_refresh"}, token : 1 .. n]
    OBVIOUS
  <1>2. QED
    BY <1>1 DEF CallStates

\* Nobody is signed in.
LEMMA InitSession == Auth!Init => SessionInv
  <1> SUFFICES ASSUME Auth!Init PROVE SessionInv
    OBVIOUS
  <1> USE WorkAssumption DEF Auth!AuthAssumption, Auth!Init, Auth!Idle
  <1>1. Auth!TypeOK
    <2>1. refreshing \in CallStates(0)
      BY DEF CallStates
    <2>2. refreshing \in CallStates(issued)
      BY <2>1
    <2>3. issued \in 0 .. MaxTokens /\ {access, refresh, login} \subseteq 1 .. issued \cup {None}
      OBVIOUS
    <2>4. valid \cup spent \cup revoked \subseteq 1 .. issued
      OBVIOUS
    <2>5. leaving \in BOOLEAN /\ clean \in BOOLEAN
      OBVIOUS
    <2>6. QED
      BY <2>2, <2>3, <2>4, <2>5 DEF CallStates, Auth!TypeOK
  <1>2. Auth!RefreshIsNotNewer
    BY DEF Auth!RefreshIsNotNewer, Auth!Tokens
  <1>3. NewestInHand /\ OneUsable /\ SigningIn /\ WhileClean
    BY DEF NewestInHand, OneUsable, SigningIn, WhileClean, NoneRefreshes, Storing, Clearing, Auth!Refreshing
  <1>4. QED
    BY <1>1, <1>2, <1>3 DEF SessionInv

\* The user signs in while every call rests: the new pair is the only one.
LEMMA PollOauthKeeps ==
  ASSUME SessionInv, Auth!PollOauth
  PROVE  SessionInv'
  <1> USE WorkAssumption DEF Auth!AuthAssumption, SessionInv, Auth!PollOauth, Auth!keychain, Auth!provider, Auth!user, Auth!Goto, Auth!At, Auth!Fail, Auth!Issue, Auth!Idle
  <1>1. Auth!TypeOK'
    <2> USE DEF Auth!TypeOK
    <2>1. issued \in Nat /\ issued' \in 0 .. MaxTokens /\ issued' = issued + 1
      OBVIOUS
    <2>2. {access, refresh, login}' \subseteq 1 .. issued' \cup {None}
      BY <2>1
    <2>3. (valid \cup spent \cup revoked)' \subseteq 1 .. issued'
      BY <2>1
    <2>4. refreshing' \in CallStates(issued') /\ leaving' \in BOOLEAN /\ clean' \in BOOLEAN
      <3>1. refreshing \in CallStates(issued)
        BY DEF CallStates
      <3>2. QED
        BY <2>1, <3>1, CallStatesGrow
    <2>5. QED
      BY <2>1, <2>2, <2>3, <2>4 DEF CallStates
  <1>2. Auth!RefreshIsNotNewer'
    BY DEF Auth!TypeOK, Auth!RefreshIsNotNewer, Auth!Tokens, NewestInHand, SigningIn, Storing
  <1>3. NewestInHand'
    BY DEF Auth!TypeOK, NewestInHand, OneUsable, SigningIn, Storing, Auth!Usable
  <1>4. OneUsable'
    BY DEF Auth!TypeOK, NewestInHand, OneUsable, SigningIn, Storing, Auth!Usable
  <1>5. SigningIn'
    BY DEF Auth!TypeOK, SigningIn
  <1>6. WhileClean'
    BY DEF Auth!TypeOK, NewestInHand, SigningIn, WhileClean, NoneRefreshes, Storing, Clearing, Auth!Refreshing, Auth!Usable
  <1>7. QED
    BY <1>1, <1>2, <1>3, <1>4, <1>5, <1>6

\* The frontend stores the access token.
LEMMA StoreTokenKeeps ==
  ASSUME SessionInv, Auth!StoreToken
  PROVE  SessionInv'
  <1> USE WorkAssumption DEF Auth!AuthAssumption, SessionInv, Auth!StoreToken, Auth!keychain, Auth!provider, Auth!user, Auth!Goto, Auth!At, Auth!Fail, Auth!Issue, Auth!Idle
  <1>1. Auth!TypeOK'
    BY DEF Auth!TypeOK, Auth!Usable, Auth!Tokens
  <1>2. Auth!RefreshIsNotNewer'
    BY DEF Auth!TypeOK, Auth!RefreshIsNotNewer, Auth!Tokens, NewestInHand, SigningIn, Storing
  <1>3. NewestInHand'
    BY DEF Auth!TypeOK, NewestInHand, OneUsable, SigningIn, Storing, Auth!Usable
  <1>4. OneUsable'
    BY DEF Auth!TypeOK, NewestInHand, OneUsable, SigningIn, Storing, Auth!Usable
  <1>5. SigningIn'
    BY DEF Auth!TypeOK, SigningIn
  <1>6. WhileClean'
    BY DEF Auth!TypeOK, NewestInHand, SigningIn, WhileClean, NoneRefreshes, Storing, Clearing, Auth!Refreshing, Auth!Usable
  <1>7. QED
    BY <1>1, <1>2, <1>3, <1>4, <1>5, <1>6

\* The user signs out, beside calls: first the refresh token goes,
LEMMA DeleteRefreshKeeps ==
  ASSUME SessionInv, Auth!DeleteRefresh
  PROVE  SessionInv'
  <1> USE WorkAssumption DEF Auth!AuthAssumption, SessionInv, Auth!DeleteRefresh, Auth!keychain, Auth!provider, Auth!user, Auth!Goto, Auth!At, Auth!Fail, Auth!Issue, Auth!Idle
  <1>1. Auth!TypeOK'
    BY DEF Auth!TypeOK, Auth!Usable, Auth!Tokens
  <1>2. Auth!RefreshIsNotNewer'
    BY DEF Auth!TypeOK, Auth!RefreshIsNotNewer, Auth!Tokens, NewestInHand, SigningIn, Storing
  <1>3. NewestInHand'
    BY DEF Auth!TypeOK, NewestInHand, OneUsable, SigningIn, Storing, Auth!Usable
  <1>4. OneUsable'
    BY DEF Auth!TypeOK, NewestInHand, OneUsable, SigningIn, Storing, Auth!Usable
  <1>5. SigningIn'
    BY DEF Auth!TypeOK, SigningIn
  <1>6. WhileClean'
    BY DEF Auth!TypeOK, NewestInHand, SigningIn, WhileClean, NoneRefreshes, Storing, Clearing, Auth!Refreshing, Auth!Usable
  <1>7. QED
    BY <1>1, <1>2, <1>3, <1>4, <1>5, <1>6

\* then the access token.
LEMMA DeleteAccessKeeps ==
  ASSUME SessionInv, Auth!DeleteAccess
  PROVE  SessionInv'
  <1> USE WorkAssumption DEF Auth!AuthAssumption, SessionInv, Auth!DeleteAccess, Auth!keychain, Auth!provider, Auth!user, Auth!Goto, Auth!At, Auth!Fail, Auth!Issue, Auth!Idle
  <1>1. Auth!TypeOK'
    BY DEF Auth!TypeOK, Auth!Usable, Auth!Tokens
  <1>2. Auth!RefreshIsNotNewer'
    BY DEF Auth!TypeOK, Auth!RefreshIsNotNewer, Auth!Tokens, NewestInHand, SigningIn, Storing
  <1>3. NewestInHand'
    BY DEF Auth!TypeOK, NewestInHand, OneUsable, SigningIn, Storing, Auth!Usable
  <1>4. OneUsable'
    BY DEF Auth!TypeOK, NewestInHand, OneUsable, SigningIn, Storing, Auth!Usable
  <1>5. SigningIn'
    BY DEF Auth!TypeOK, SigningIn
  <1>6. WhileClean'
    BY DEF Auth!TypeOK, NewestInHand, SigningIn, WhileClean, NoneRefreshes, Storing, Clearing, Auth!Refreshing, Auth!Usable
  <1>7. QED
    BY <1>1, <1>2, <1>3, <1>4, <1>5, <1>6

\* The provider withdraws every token,
LEMMA RevokeKeeps ==
  ASSUME SessionInv, Auth!Revoke
  PROVE  SessionInv'
  <1> USE WorkAssumption DEF Auth!AuthAssumption, SessionInv, Auth!Revoke, Auth!keychain, Auth!provider, Auth!user, Auth!Goto, Auth!At, Auth!Fail, Auth!Issue, Auth!Idle
  <1>1. Auth!TypeOK'
    BY DEF Auth!TypeOK, Auth!Usable, Auth!Tokens
  <1>2. Auth!RefreshIsNotNewer'
    BY DEF Auth!TypeOK, Auth!RefreshIsNotNewer, Auth!Tokens, NewestInHand, SigningIn, Storing
  <1>3. NewestInHand'
    BY DEF Auth!TypeOK, NewestInHand, OneUsable, SigningIn, Storing, Auth!Usable
  <1>4. OneUsable'
    BY DEF Auth!TypeOK, NewestInHand, OneUsable, SigningIn, Storing, Auth!Usable
  <1>5. SigningIn'
    BY DEF Auth!TypeOK, SigningIn
  <1>6. WhileClean'
    BY DEF Auth!TypeOK, NewestInHand, SigningIn, WhileClean, NoneRefreshes, Storing, Clearing, Auth!Refreshing, Auth!Usable
  <1>7. QED
    BY <1>1, <1>2, <1>3, <1>4, <1>5, <1>6

\* or one access token.
LEMMA ExpireKeeps ==
  ASSUME NEW n \in Auth!Tokens, SessionInv, Auth!Expire(n)
  PROVE  SessionInv'
  <1> USE WorkAssumption DEF Auth!AuthAssumption, SessionInv, Auth!Expire, Auth!keychain, Auth!provider, Auth!user, Auth!Goto, Auth!At, Auth!Fail, Auth!Issue, Auth!Idle
  <1>1. Auth!TypeOK'
    BY DEF Auth!TypeOK, Auth!Usable, Auth!Tokens
  <1>2. Auth!RefreshIsNotNewer'
    BY DEF Auth!TypeOK, Auth!RefreshIsNotNewer, Auth!Tokens, NewestInHand, SigningIn, Storing
  <1>3. NewestInHand'
    BY DEF Auth!TypeOK, NewestInHand, OneUsable, SigningIn, Storing, Auth!Usable
  <1>4. OneUsable'
    BY DEF Auth!TypeOK, NewestInHand, OneUsable, SigningIn, Storing, Auth!Usable
  <1>5. SigningIn'
    BY DEF Auth!TypeOK, SigningIn
  <1>6. WhileClean'
    BY DEF Auth!TypeOK, NewestInHand, SigningIn, WhileClean, NoneRefreshes, Storing, Clearing, Auth!Refreshing, Auth!Usable
  <1>7. QED
    BY <1>1, <1>2, <1>3, <1>4, <1>5, <1>6

\* A call begins with the access token it reads,
LEMMA BeginKeeps ==
  ASSUME NEW c \in TokenCalls, SessionInv, Auth!Begin(c)
  PROVE  SessionInv'
  <1> USE WorkAssumption DEF Auth!AuthAssumption, SessionInv, Auth!Begin, Auth!keychain, Auth!provider, Auth!user, Auth!Goto, Auth!At, Auth!Fail, Auth!Issue, Auth!Idle
  <1>1. Auth!TypeOK'
    BY DEF Auth!TypeOK, Auth!Usable, Auth!Tokens
  <1>2. Auth!RefreshIsNotNewer'
    BY DEF Auth!TypeOK, Auth!RefreshIsNotNewer, Auth!Tokens, NewestInHand, SigningIn, Storing
  <1>3. NewestInHand'
    BY DEF Auth!TypeOK, NewestInHand, OneUsable, SigningIn, Storing, Auth!Usable
  <1>4. OneUsable'
    BY DEF Auth!TypeOK, NewestInHand, OneUsable, SigningIn, Storing, Auth!Usable
  <1>5. SigningIn'
    BY DEF Auth!TypeOK, SigningIn
  <1>6. WhileClean'
    BY DEF Auth!TypeOK, NewestInHand, SigningIn, WhileClean, NoneRefreshes, Storing, Clearing, Auth!Refreshing, Auth!Usable
  <1>7. QED
    BY <1>1, <1>2, <1>3, <1>4, <1>5, <1>6

\* which is accepted, or leads to a refresh.
LEMMA ValidateKeeps ==
  ASSUME NEW c \in TokenCalls, SessionInv, Auth!Validate(c)
  PROVE  SessionInv'
  <1> USE WorkAssumption DEF Auth!AuthAssumption, SessionInv, Auth!Validate, Auth!keychain, Auth!provider, Auth!user, Auth!Goto, Auth!At, Auth!Fail, Auth!Issue, Auth!Idle
  <1>1. Auth!TypeOK'
    BY DEF Auth!TypeOK, Auth!Usable, Auth!Tokens
  <1>2. Auth!RefreshIsNotNewer'
    BY DEF Auth!TypeOK, Auth!RefreshIsNotNewer, Auth!Tokens, NewestInHand, SigningIn, Storing
  <1>3. NewestInHand'
    BY DEF Auth!TypeOK, NewestInHand, OneUsable, SigningIn, Storing, Auth!Usable
  <1>4. OneUsable'
    BY DEF Auth!TypeOK, NewestInHand, OneUsable, SigningIn, Storing, Auth!Usable
  <1>5. SigningIn'
    BY DEF Auth!TypeOK, SigningIn
  <1>6. WhileClean'
    BY DEF Auth!TypeOK, NewestInHand, SigningIn, WhileClean, NoneRefreshes, Storing, Clearing, Auth!Refreshing, Auth!Usable
  <1>7. QED
    BY <1>1, <1>2, <1>3, <1>4, <1>5, <1>6

\* The refresh token that is read is one nobody has used, if all went well.
LEMMA ReadRefreshKeeps ==
  ASSUME NEW c \in TokenCalls, SessionInv, Auth!ReadRefresh(c)
  PROVE  SessionInv'
  <1> USE WorkAssumption DEF Auth!AuthAssumption, SessionInv, Auth!ReadRefresh, Auth!keychain, Auth!provider, Auth!user, Auth!Goto, Auth!At, Auth!Fail, Auth!Issue, Auth!Idle
  <1>1. Auth!TypeOK'
    BY DEF Auth!TypeOK, Auth!Usable, Auth!Tokens
  <1>2. Auth!RefreshIsNotNewer'
    BY DEF Auth!TypeOK, Auth!RefreshIsNotNewer, Auth!Tokens, NewestInHand, SigningIn, Storing
  <1>3. NewestInHand'
    BY DEF Auth!TypeOK, NewestInHand, OneUsable, SigningIn, Storing, Auth!Usable
  <1>4. OneUsable'
    BY DEF Auth!TypeOK, NewestInHand, OneUsable, SigningIn, Storing, Auth!Usable
  <1>5. SigningIn'
    BY DEF Auth!TypeOK, SigningIn
  <1>6. WhileClean'
    <2> SUFFICES ASSUME clean' PROVE WhileClean'
      BY DEF WhileClean
    <2> USE DEF Auth!TypeOK, NewestInHand, SigningIn, WhileClean, NoneRefreshes, Storing, Clearing, Auth!Refreshing
    <2>1. (\A d, e \in TokenCalls :
           refreshing[d].at \in Auth!Refreshing /\ refreshing[e].at \in Auth!Refreshing => d = e)'
      <3>1. \A d \in TokenCalls \ {c} :
              refreshing[d].at \notin Auth!Refreshing /\ refreshing'[d] = refreshing[d]
        OBVIOUS
      <3>2. QED
        BY <3>1
    <2>2. (NoneRefreshes => refresh \notin spent)'
      BY DEF Auth!Usable
    <2>3. (NoneRefreshes /\ ~leaving /\ login = None /\ access # None => refresh # None)'
      BY DEF Auth!Usable
    <2>4. (\A d \in TokenCalls : refreshing[d].at = "exchange" => refreshing[d].token \notin spent)'
      <3>1. ASSUME refreshing[c].at' = "exchange" PROVE refreshing[c].token' \notin spent'
        <4>1. clean /\ NoneRefreshes
          OBVIOUS
        <4>2. refresh \notin spent /\ refreshing'[c].token = refresh /\ spent' = spent
          BY <4>1, <3>1
        <4>3. QED
          BY <4>2
      <3>2. QED
        BY <3>1
    <2>5. (\A d \in TokenCalls :
           /\ refreshing[d].at \in Clearing => refreshing[d].token \in revoked
           /\ refreshing[d].at = "clear_refresh" => access = None)'
      BY DEF Auth!Usable
    <2>6. QED
      BY <2>1, <2>2, <2>3, <2>4, <2>5
  <1>7. QED
    BY <1>1, <1>2, <1>3, <1>4, <1>5, <1>6

\* An exchange that is answered puts the newest pair in the hands of the call;
\* one that is not begins to clear the session.
LEMMA ExchangeKeeps ==
  ASSUME NEW c \in TokenCalls, SessionInv, Auth!Exchange(c)
  PROVE  SessionInv'
  <1> USE WorkAssumption DEF Auth!AuthAssumption, SessionInv, Auth!Exchange, Auth!keychain, Auth!provider, Auth!user, Auth!Goto, Auth!At, Auth!Fail, Auth!Issue, Auth!Idle
  <1>1. Auth!TypeOK'
    <2> USE DEF Auth!TypeOK
    <2>1. issued \in Nat /\ issued' \in 0 .. MaxTokens /\ issued' \in {issued, issued + 1}
      BY DEF Auth!Usable
    <2>2. {access, refresh, login}' \subseteq 1 .. issued' \cup {None}
      BY <2>1
    <2>3. refreshing[c].token \in 1 .. issued
      OBVIOUS
    <2>4. (valid \cup spent \cup revoked)' \subseteq 1 .. issued'
      BY <2>1, <2>3 DEF Auth!Usable
    <2>5. refreshing \in CallStates(issued')
      BY <2>1, CallStatesGrow DEF CallStates
    <2>6. refreshing' \in CallStates(issued') /\ leaving' \in BOOLEAN /\ clean' \in BOOLEAN
      <3>1. PICK t \in 1 .. issued', l \in {"store_access", "clear_access"} :
              refreshing' = [refreshing EXCEPT ![c] = [at |-> l, token |-> t]]
        BY <2>1, <2>3
      <3>2. [refreshing EXCEPT ![c] = [at |-> l, token |-> t]] \in CallStates(issued')
        <4>1. issued' \in Nat /\ c \in TokenCalls
          BY <2>1
        <4>2. l \in {"validate", "exchange", "store_access", "store_refresh", "clear_access", "clear_refresh"}
          OBVIOUS
        <4>3. QED
          BY ONLY <2>5, <4>1, <4>2, t \in 1 .. issued', StateIsSet
      <3>3. clean' \in BOOLEAN /\ leaving' \in BOOLEAN
        OBVIOUS
      <3>4. QED
        BY <3>1, <3>2, <3>3
    <2>7. QED
      BY <2>1, <2>2, <2>4, <2>6 DEF CallStates
  <1>2. Auth!RefreshIsNotNewer'
    BY DEF Auth!TypeOK, Auth!RefreshIsNotNewer, Auth!Tokens, NewestInHand, SigningIn, Storing
  <1>3. NewestInHand'
    BY DEF Auth!TypeOK, NewestInHand, OneUsable, SigningIn, Storing, Auth!Usable
  <1>4. OneUsable'
    BY DEF Auth!TypeOK, NewestInHand, OneUsable, SigningIn, Storing, Auth!Usable
  <1>5. SigningIn'
    BY DEF Auth!TypeOK, SigningIn
  <1>6. WhileClean'
    <2> SUFFICES ASSUME clean' PROVE WhileClean'
      BY DEF WhileClean
    <2>1. clean /\ c \in TokenCalls /\ refreshing[c].at = "exchange" /\ refreshing[c].token \notin spent
      BY DEF WhileClean
    <2>2. \A d \in TokenCalls \ {c} : refreshing[d].at \notin Auth!Refreshing
      BY <2>1 DEF WhileClean, Auth!Refreshing
    <2>3. /\ refreshing[c].token \in 1 .. issued /\ issued + 1 \notin spent
          /\ DOMAIN refreshing = TokenCalls
      BY <2>1 DEF Auth!TypeOK
    <2>4. PICK r : /\ refreshing' = [refreshing EXCEPT ![c] = r]
                   /\ \/ r = [at |-> "store_access", token |-> issued + 1]
                      \/ r = [at |-> "clear_access", token |-> refreshing[c].token]
                         /\ refreshing[c].token \in revoked /\ UNCHANGED revoked
      <3>1. refreshing[c].token \notin Auth!Usable => refreshing[c].token \in revoked
        BY <2>1, <2>3 DEF Auth!Usable
      <3>2. \/ refreshing' = [refreshing EXCEPT ![c] = [at |-> "store_access", token |-> issued + 1]]
            \/ /\ refreshing' = [refreshing EXCEPT ![c] = [at |-> "clear_access", token |-> refreshing[c].token]]
               /\ refreshing[c].token \notin Auth!Usable /\ UNCHANGED revoked
        OBVIOUS
      <3>3. QED
        BY <3>1, <3>2
    <2>5. /\ refreshing'[c] = r /\ r.at \in {"store_access", "clear_access"}
          /\ \A d \in TokenCalls \ {c} : refreshing'[d] = refreshing[d]
      BY <2>3, <2>4
    <2>6. ~NoneRefreshes' /\ \A d \in TokenCalls : refreshing'[d].at \in Auth!Refreshing => d = c
      BY <2>2, <2>5 DEF NoneRefreshes, Auth!Refreshing
    <2>7. \A d \in TokenCalls :
            /\ refreshing'[d].at # "exchange" /\ refreshing'[d].at # "clear_refresh"
            /\ refreshing'[d].at \in Clearing => refreshing'[d].token \in revoked'
      BY <2>4, <2>5, <2>6 DEF Clearing, Auth!Refreshing
    <2>8. QED
      BY <2>6, <2>7 DEF WhileClean, NoneRefreshes, Auth!Refreshing
  <1>7. QED
    BY <1>1, <1>2, <1>3, <1>4, <1>5, <1>6

\* The access token is stored first,
LEMMA StoreAccessKeeps ==
  ASSUME NEW c \in TokenCalls, SessionInv, Auth!StoreAccess(c)
  PROVE  SessionInv'
  <1> USE WorkAssumption DEF Auth!AuthAssumption, SessionInv, Auth!StoreAccess, Auth!keychain, Auth!provider, Auth!user, Auth!Goto, Auth!At, Auth!Fail, Auth!Issue, Auth!Idle
  <1>1. Auth!TypeOK'
    <2> USE DEF Auth!TypeOK
    <2>1. refreshing[c].token \in 1 .. issued
      OBVIOUS
    <2>2. refreshing' \in CallStates(issued)
      <3>1. \E r \in [at : {"idle"}, token : {None}] \cup [at : {"store_refresh"}, token : 1 .. issued] :
              refreshing' = [refreshing EXCEPT ![c] = r]
        BY <2>1
      <3>2. QED
        BY <3>1 DEF CallStates
    <2>3. QED
      BY <2>1, <2>2 DEF CallStates
  <1>2. Auth!RefreshIsNotNewer'
    BY DEF Auth!TypeOK, Auth!RefreshIsNotNewer, Auth!Tokens, NewestInHand, SigningIn, Storing
  <1>3. NewestInHand'
    BY DEF Auth!TypeOK, NewestInHand, OneUsable, SigningIn, Storing, Auth!Usable
  <1>4. OneUsable'
    BY DEF Auth!TypeOK, NewestInHand, OneUsable, SigningIn, Storing, Auth!Usable
  <1>5. SigningIn'
    BY DEF Auth!TypeOK, SigningIn
  <1>6. WhileClean'
    <2> SUFFICES ASSUME clean' PROVE WhileClean'
      BY DEF WhileClean
    <2>1. clean /\ refreshing[c].at = "store_access"
      OBVIOUS
    <2>2. \A d \in TokenCalls \ {c} : refreshing[d].at \notin Auth!Refreshing
      BY <2>1 DEF WhileClean, Auth!Refreshing
    <2>3. refreshing'[c].at = "store_refresh" /\ \A d \in TokenCalls \ {c} : refreshing'[d] = refreshing[d]
      BY DEF Auth!TypeOK
    <2>4. ~NoneRefreshes' /\ \A d \in TokenCalls : refreshing'[d].at \in Auth!Refreshing => d = c
      BY <2>2, <2>3 DEF NoneRefreshes, Auth!Refreshing
    <2>5. \A d \in TokenCalls : refreshing'[d].at \notin Clearing \cup {"exchange"}
      BY <2>3, <2>4 DEF Clearing, Auth!Refreshing
    <2>6. QED
      BY <2>4, <2>5 DEF WhileClean, NoneRefreshes, Clearing, Auth!Refreshing
  <1>7. QED
    BY <1>1, <1>2, <1>3, <1>4, <1>5, <1>6

\* then the refresh token, which leaves the hands of the call.
LEMMA StoreRefreshKeeps ==
  ASSUME NEW c \in TokenCalls, SessionInv, Auth!StoreRefresh(c)
  PROVE  SessionInv'
  <1> USE WorkAssumption DEF Auth!AuthAssumption, SessionInv, Auth!StoreRefresh, Auth!keychain, Auth!provider, Auth!user, Auth!Goto, Auth!At, Auth!Fail, Auth!Issue, Auth!Idle
  <1>1. Auth!TypeOK'
    BY DEF Auth!TypeOK, Auth!Usable, Auth!Tokens
  <1>2. Auth!RefreshIsNotNewer'
    BY DEF Auth!TypeOK, Auth!RefreshIsNotNewer, Auth!Tokens, NewestInHand, SigningIn, Storing
  <1>3. NewestInHand'
    BY DEF Auth!TypeOK, NewestInHand, OneUsable, SigningIn, Storing, Auth!Usable
  <1>4. OneUsable'
    BY DEF Auth!TypeOK, NewestInHand, OneUsable, SigningIn, Storing, Auth!Usable
  <1>5. SigningIn'
    BY DEF Auth!TypeOK, SigningIn
  <1>6. WhileClean'
    <2> SUFFICES ASSUME clean' PROVE WhileClean'
      BY DEF WhileClean
    <2>1. clean /\ refreshing[c].at = "store_refresh" /\ refresh' = refreshing[c].token /\ spent' = spent
      OBVIOUS
    <2>2. \A d \in TokenCalls \ {c} : refreshing[d].at \notin Auth!Refreshing
      BY <2>1 DEF WhileClean, Auth!Refreshing
    <2>3. refreshing'[c].at = "idle" /\ \A d \in TokenCalls \ {c} : refreshing'[d] = refreshing[d]
      BY DEF Auth!TypeOK
    <2>4. \A d \in TokenCalls : refreshing'[d].at \notin Auth!Refreshing
      BY <2>2, <2>3 DEF Auth!Refreshing
    <2>5. refresh' \notin spent' /\ refresh' # None
      BY <2>1 DEF Auth!TypeOK, NewestInHand, Storing
    <2>6. QED
      BY <2>4, <2>5 DEF WhileClean, Clearing, Auth!Refreshing
  <1>7. QED
    BY <1>1, <1>2, <1>3, <1>4, <1>5, <1>6

\* After an error the access token is cleared first,
LEMMA ClearAccessKeeps ==
  ASSUME NEW c \in TokenCalls, SessionInv, Auth!ClearAccess(c)
  PROVE  SessionInv'
  <1> USE WorkAssumption DEF Auth!AuthAssumption, SessionInv, Auth!ClearAccess, Auth!keychain, Auth!provider, Auth!user, Auth!Goto, Auth!At, Auth!Fail, Auth!Issue, Auth!Idle
  <1>1. Auth!TypeOK'
    BY DEF Auth!TypeOK, Auth!Usable, Auth!Tokens
  <1>2. Auth!RefreshIsNotNewer'
    BY DEF Auth!TypeOK, Auth!RefreshIsNotNewer, Auth!Tokens, NewestInHand, SigningIn, Storing
  <1>3. NewestInHand'
    BY DEF Auth!TypeOK, NewestInHand, OneUsable, SigningIn, Storing, Auth!Usable
  <1>4. OneUsable'
    BY DEF Auth!TypeOK, NewestInHand, OneUsable, SigningIn, Storing, Auth!Usable
  <1>5. SigningIn'
    BY DEF Auth!TypeOK, SigningIn
  <1>6. WhileClean'
    BY DEF Auth!TypeOK, NewestInHand, SigningIn, WhileClean, NoneRefreshes, Storing, Clearing, Auth!Refreshing, Auth!Usable
  <1>7. QED
    BY <1>1, <1>2, <1>3, <1>4, <1>5, <1>6

\* then the refresh token.
LEMMA ClearRefreshKeeps ==
  ASSUME NEW c \in TokenCalls, SessionInv, Auth!ClearRefresh(c)
  PROVE  SessionInv'
  <1> USE WorkAssumption DEF Auth!AuthAssumption, SessionInv, Auth!ClearRefresh, Auth!keychain, Auth!provider, Auth!user, Auth!Goto, Auth!At, Auth!Fail, Auth!Issue, Auth!Idle
  <1>1. Auth!TypeOK'
    BY DEF Auth!TypeOK, Auth!Usable, Auth!Tokens
  <1>2. Auth!RefreshIsNotNewer'
    BY DEF Auth!TypeOK, Auth!RefreshIsNotNewer, Auth!Tokens, NewestInHand, SigningIn, Storing
  <1>3. NewestInHand'
    BY DEF Auth!TypeOK, NewestInHand, OneUsable, SigningIn, Storing, Auth!Usable
  <1>4. OneUsable'
    BY DEF Auth!TypeOK, NewestInHand, OneUsable, SigningIn, Storing, Auth!Usable
  <1>5. SigningIn'
    BY DEF Auth!TypeOK, SigningIn
  <1>6. WhileClean'
    BY DEF Auth!TypeOK, NewestInHand, SigningIn, WhileClean, NoneRefreshes, Storing, Clearing, Auth!Refreshing, Auth!Usable
  <1>7. QED
    BY <1>1, <1>2, <1>3, <1>4, <1>5, <1>6

\* The launcher dies with every call; nothing is promised from there on but
\* that the keychain holds no pair out of order.
LEMMA RestartKeeps ==
  ASSUME SessionInv, Auth!Restart
  PROVE  SessionInv'
  <1> USE WorkAssumption DEF Auth!AuthAssumption, SessionInv, Auth!Restart, Auth!keychain, Auth!provider, Auth!user, Auth!Goto, Auth!At, Auth!Fail, Auth!Issue, Auth!Idle
  <1>1. Auth!TypeOK'
    BY DEF Auth!TypeOK, Auth!Usable, Auth!Tokens
  <1>2. Auth!RefreshIsNotNewer'
    BY DEF Auth!TypeOK, Auth!RefreshIsNotNewer, Auth!Tokens, NewestInHand, SigningIn, Storing
  <1>3. NewestInHand'
    BY DEF Auth!TypeOK, NewestInHand, OneUsable, SigningIn, Storing, Auth!Usable
  <1>4. OneUsable'
    BY DEF Auth!TypeOK, NewestInHand, OneUsable, SigningIn, Storing, Auth!Usable
  <1>5. SigningIn'
    BY DEF Auth!TypeOK, SigningIn
  <1>6. WhileClean'
    BY DEF Auth!TypeOK, NewestInHand, SigningIn, WhileClean, NoneRefreshes, Storing, Clearing, Auth!Refreshing, Auth!Usable
  <1>7. QED
    BY <1>1, <1>2, <1>3, <1>4, <1>5, <1>6

\* Every step keeps the invariant.
LEMMA SessionStep ==
  ASSUME SessionInv, [Auth!Next]_(Auth!vars)
  PROVE  SessionInv'
  <1>1. CASE UNCHANGED Auth!vars
    BY <1>1 DEF Auth!vars, Auth!keychain, Auth!provider, Auth!user, SessionInv, Auth!TypeOK, Auth!RefreshIsNotNewer,
       NewestInHand, OneUsable, SigningIn, WhileClean, NoneRefreshes, Auth!Usable
  <1>2. CASE Auth!Next
    BY <1>2, PollOauthKeeps, StoreTokenKeeps, DeleteRefreshKeeps, DeleteAccessKeeps, RevokeKeeps, ExpireKeeps,
       BeginKeeps, ValidateKeeps, ReadRefreshKeeps, ExchangeKeeps, StoreAccessKeeps, StoreRefreshKeeps,
       ClearAccessKeeps, ClearRefreshKeeps, RestartKeeps DEF Auth!Next
  <1>3. QED
    BY <1>1, <1>2

\* What the invariant says of the session.
LEMMA GoodByInvariant == SessionInv => Auth!SessionIsGood
  <1> SUFFICES ASSUME SessionInv PROVE Auth!SessionIsGood
    OBVIOUS
  <1> USE DEF SessionInv
  <1>1. Auth!RefreshTokenIsUnspent
    BY DEF WhileClean, NoneRefreshes, Auth!RefreshTokenIsUnspent, Auth!Quiet, Auth!At, Auth!Refreshing
  <1>2. Auth!ClearedOnlyIfRevoked
    BY DEF WhileClean, Clearing, Auth!ClearedOnlyIfRevoked
  <1>3. QED
    BY <1>1, <1>2 DEF Auth!SessionIsGood

\* Of the session alone.
THEOREM SessionInvariant == Auth!Spec => []SessionInv
  BY InitSession, SessionStep, PTL DEF Auth!Spec

\* However many calls of valid_token refresh the session, and whatever fails, the
\* keychain never pairs an access token with a newer refresh token; and while
\* nothing fails, the refresh token kept is one still to be used, and only the
\* provider's word signs the user out (try_refresh).
THEOREM SessionStaysGood == WorkSpec => []SessionIsGood
  <1>1. WorkInit => SessionInv
    BY InitSession DEF WorkInit
  <1>2. SessionInv /\ [WorkNext]_all => SessionInv'
    <2>1. [WorkNext]_all => [Auth!Next]_(Auth!vars)
      BY DEF WorkNext, all, authVars, Auth!vars, Auth!keychain, Auth!provider, Auth!user
    <2>2. QED
      BY <2>1, SessionStep
  <1>3. SessionInv => SessionIsGood
    BY GoodByInvariant DEF SessionIsGood
  <1>4. QED
    BY <1>1, <1>2, <1>3, PTL DEF WorkSpec

-----------------------------------------------------------------------------
(* The mapping of errors (Errors) *)

\* What may be told of a failure.
Facts == {"what", "why"}
Numeric(code) ==
  IF code \in {"PROJECT_NOT_FOUND", "NOT_FOUND", "AlreadyExists", "InvalidInput"}
  THEN Blame!INVALID_PARAMS ELSE Blame!INTERNAL_ERROR

MappedCodes == {"NotFound", "AlreadyExists", "InvalidInput", "AuthRequired", "VmStartFailed", "VmStopFailed",
                "VmConnectionFailed", "VmSetupFailed", "Publish", "AuthFailed", "ContainerFailed", "GitFailed",
                "StorageFailed", "VmNotRunning", "TunnelFailed", "Internal"}
AgentCodes == {"PROJECT_NOT_FOUND", "NOT_FOUND", "NO_GITHUB_AUTH", "NO_AUTH", "VM_FAILED"}
                \cup MappedCodes \cup Blame!PublishKinds

\* What an agent and a window may be told: a code has one numeric code.
AgentAnswers == {a \in [to : {"agent"}, numeric : Nat, code : AgentCodes, says : SUBSET Facts] :
                   a.numeric = Numeric(a.code)}
Answers == AgentAnswers \cup
           [to : {"window"}, title : MappedCodes \cup {"Path not allowed", "UNKNOWN"}, says : SUBSET Facts]

\* What the conversion makes of a cause: it has the cause's reason, and no code
\* that is told without its reason comes from a cause that has one.
MadeOf(e, c) ==
  /\ e.says \subseteq Facts
  /\ "why" \in c.tells => "why" \in e.says /\ e.code \notin {"NotFound", "AuthRequired"}
  /\ c.by # "nothing" => e.code \in MappedCodes
  /\ c.by = "nothing" => "why" \notin c.tells
  /\ e.code = "Publish" => e.about \in Blame!PublishKinds

ErrorInv ==
  /\ cause # Blame!Calm => cause \in Blame!Causes
  /\ cause = Blame!Calm => error = Blame!Calm
  /\ error # Blame!Calm => MadeOf(error, cause)
  /\ told \in Seq(Answers)

\* A failure is of one of six kinds, each of which says what it does.
LEMMA CauseKinds ==
  ASSUME NEW c \in Blame!Causes
  PROVE  \/ \E k \in Blame!VmKinds :
              c = Blame!Cause("vm", k, "", IF k = "ImageNotFound" THEN {"what"} ELSE Blame!Why(k))
         \/ \E k \in Blame!GuestKinds : c = Blame!Cause("guest", k, "", {"what", "why"})
         \/ \E k \in Blame!LibraryKinds : c = Blame!Cause("library", k, "", Blame!Why(k))
         \/ \E k \in Blame!PublishKinds : c = Blame!Cause("publish", k, "", Blame!Why(k))
         \/ \E k \in Blame!OwnKinds :
              c = Blame!Cause("own", k[1], k[2], CASE k[1] = "InvalidInput" -> {"what", "why"}
                                                   [] k[1] \in {"AuthFailed", "TunnelFailed"} -> {"why"}
                                                   [] OTHER -> {"what"})
         \/ c = Blame!Cause("nothing", "no token", "github", {"what"})
  BY Zenon DEF Blame!Causes

\* What a failure is converted to (error.rs) still tells why.
LEMMA ConversionIsMadeOf ==
  ASSUME cause \in Blame!Causes, Blame!Convert
  PROVE  MadeOf(error', cause)
  <1>1. ASSUME NEW k \in Blame!VmKinds,
               cause = Blame!Cause("vm", k, "", IF k = "ImageNotFound" THEN {"what"} ELSE Blame!Why(k))
        PROVE  MadeOf(error', cause)
    <2>1. cause.by = "vm" /\ cause.tells = (IF k = "ImageNotFound" THEN {"what"} ELSE Blame!Why(k)) /\ cause.kind = k
      BY <1>1 DEF Blame!Cause
    <2>2. error' = Blame!FromVm(k, cause.tells)
      BY <2>1 DEF Blame!Convert
    <2>3. cause.tells \subseteq Facts /\ (k = "NotRunning" => "why" \notin cause.tells)
      BY <2>1 DEF Blame!Why, Facts
    <2>4. error'.code \in MappedCodes \ {"NotFound", "AuthRequired", "Publish"}
      BY <2>2 DEF Blame!FromVm, Blame!VmKinds, Blame!AppError, MappedCodes
    <2>5. error'.says \subseteq Facts /\ (cause.tells \subseteq error'.says \/ k = "NotRunning")
      BY <2>2, <2>3 DEF Blame!FromVm, Blame!VmKinds, Blame!AppError, Facts
    <2>6. QED
      BY <2>1, <2>3, <2>4, <2>5 DEF MadeOf
  <1>2. ASSUME NEW k \in Blame!GuestKinds, cause = Blame!Cause("guest", k, "", {"what", "why"})
        PROVE  MadeOf(error', cause)
    <2>1. cause.by = "guest" /\ cause.tells = {"what", "why"}
      BY <1>2 DEF Blame!Cause
    <2>2. error' = Blame!AppError("ContainerFailed", "", cause.tells)
      BY <2>1 DEF Blame!Convert, Blame!InternalErr, Blame!FromLibrary
    <2>3. QED
      BY <2>1, <2>2 DEF Blame!AppError, MadeOf, MappedCodes, Facts
  <1>3. ASSUME NEW k \in Blame!LibraryKinds, cause = Blame!Cause("library", k, "", Blame!Why(k))
        PROVE  MadeOf(error', cause)
    <2>1. cause.by = "library" /\ cause.tells = Blame!Why(k) /\ cause.kind = k
      BY <1>3 DEF Blame!Cause
    <2>2. error' = Blame!FromLibrary(k, cause.tells)
      BY <2>1 DEF Blame!Convert
    <2>3. cause.tells \subseteq Facts
      BY <2>1 DEF Blame!Why, Facts
    <2>4. error'.code \in MappedCodes \ {"NotFound", "AuthRequired", "Publish"}
      BY <2>2 DEF Blame!FromLibrary, Blame!LibraryKinds, Blame!AppError, MappedCodes
    <2>5. error'.says \subseteq Facts /\ cause.tells \subseteq error'.says
      BY <2>2, <2>3 DEF Blame!FromLibrary, Blame!LibraryKinds, Blame!AppError, Facts
    <2>6. QED
      BY <2>1, <2>4, <2>5 DEF MadeOf
  <1>4. ASSUME NEW k \in Blame!PublishKinds, cause = Blame!Cause("publish", k, "", Blame!Why(k))
        PROVE  MadeOf(error', cause)
    <2>1. cause.by = "publish" /\ cause.tells = Blame!Why(k) /\ cause.kind = k
      BY <1>4 DEF Blame!Cause
    <2>2. error' = Blame!AppError("Publish", k, cause.tells) /\ cause.tells \subseteq Facts
      BY <2>1 DEF Blame!Convert, Blame!PublishKinds, Blame!PublishUnits, Blame!Why, Facts
    <2>3. QED
      BY <2>1, <2>2 DEF Blame!AppError, MadeOf, MappedCodes
  <1>5. ASSUME NEW k \in Blame!OwnKinds,
               cause = Blame!Cause("own", k[1], k[2], CASE k[1] = "InvalidInput" -> {"what", "why"}
                                                        [] k[1] \in {"AuthFailed", "TunnelFailed"} -> {"why"}
                                                        [] OTHER -> {"what"})
        PROVE  MadeOf(error', cause)
    <2>1. /\ cause.by = "own" /\ cause.kind = k[1] /\ cause.about = k[2]
          /\ cause.tells = CASE k[1] = "InvalidInput" -> {"what", "why"}
                              [] k[1] \in {"AuthFailed", "TunnelFailed"} -> {"why"}
                              [] OTHER -> {"what"}
      BY <1>5 DEF Blame!Cause
    <2>2. error' = Blame!AppError(k[1], k[2], cause.tells)
      BY <2>1 DEF Blame!Convert
    <2>3. k[1] \in {"NotFound", "AlreadyExists", "InvalidInput", "AuthRequired", "AuthFailed", "TunnelFailed"}
      <3>1. \E about : \/ k = <<"NotFound", about>> \/ k = <<"AlreadyExists", about>>
                       \/ k = <<"InvalidInput", about>> \/ k = <<"AuthRequired", about>>
                       \/ k = <<"AuthFailed", about>> \/ k = <<"TunnelFailed", about>>
        BY Zenon DEF Blame!OwnKinds
      <3>2. QED
        BY <3>1
    <2>4. cause.tells \subseteq Facts /\ (k[1] \in {"NotFound", "AuthRequired"} => "why" \notin cause.tells)
      BY <2>1, <2>3 DEF Facts
    <2>5. QED
      BY <2>1, <2>2, <2>3, <2>4 DEF Blame!AppError, MadeOf, MappedCodes
  <1>6. ASSUME cause = Blame!Cause("nothing", "no token", "github", {"what"})
        PROVE  MadeOf(error', cause)
    <2>1. cause.by = "nothing" /\ cause.kind = "no token" /\ cause.about = "github" /\ cause.tells = {"what"}
      BY <1>6 DEF Blame!Cause
    <2>2. error' = Blame!AppError("no token", "github", cause.tells)
      BY <2>1 DEF Blame!Convert
    <2>3. QED
      BY <2>1, <2>2 DEF Blame!AppError, MadeOf, Facts
  <1>7. QED
    BY <1>1, <1>2, <1>3, <1>4, <1>5, <1>6, CauseKinds

\* Whoever is told is told one answer, and the failure is over.
LEMMA ToldIsAppended ==
  ASSUME NEW answer \in Answers, told \in Seq(Answers), Blame!Told(answer)
  PROVE  told' \in Seq(Answers) /\ told'[Len(told')] = answer /\ cause' = Blame!Calm /\ error' = Blame!Calm
  <1>1. PICK s \in Seq(Answers) : told' = Append(s, answer)
    <2>1. told # <<>> => told[Len(told)] \in Answers
      OBVIOUS
    <2>2. <<>> \in Seq(Answers) /\ (told # <<>> => <<told[Len(told)]>> \in Seq(Answers))
      BY <2>1
    <2>3. QED
      BY <2>2 DEF Blame!Told
  <1>2. QED
    BY <1>1 DEF Blame!Told

\* An answer of mcp_error has the numeric code of its code.
LEMMA McpIsAnswer ==
  ASSUME NEW code \in AgentCodes, NEW says \in SUBSET Facts
  PROVE  LET a == Blame!McpError(Numeric(code), code, says) IN a \in AgentAnswers /\ a.says = says
  <1>1. Numeric(code) \in Nat
    BY DEF Numeric, Blame!INVALID_PARAMS, Blame!INTERNAL_ERROR
  <1>2. QED
    BY <1>1 DEF Blame!McpError, AgentAnswers

\* An agent is told why, whichever of the three ways it is told.
LEMMA AgentIsTold ==
  ASSUME ErrorInv, Blame!TellAgent
  PROVE  ErrorInv' /\ Blame!KeepReason
  <1>1. MadeOf(error, cause) /\ told \in Seq(Answers)
    BY DEF Blame!TellAgent, ErrorInv
  <1>2. \E a \in AgentAnswers : Blame!Told(a) /\ ("why" \in cause.tells => "why" \in a.says)
    <2>1. CASE cause.by = "nothing" /\ Blame!Told(Blame!NoGithubAuth)
      <3>1. Blame!NoGithubAuth \in AgentAnswers
        BY McpIsAnswer DEF Blame!NoGithubAuth, Numeric, Facts, AgentCodes
      <3>2. QED
        BY <1>1, <2>1, <3>1 DEF MadeOf
    <2>2. CASE cause.by # "nothing" /\ Blame!Told(Blame!MapAppError(error))
      <3>1. error.code \in MappedCodes /\ error.says \subseteq Facts
        BY <1>1, <2>2 DEF MadeOf
      <3>2. \E code \in AgentCodes, says \in SUBSET Facts :
              /\ Blame!MapAppError(error) = Blame!McpError(Numeric(code), code, says)
              /\ "why" \in cause.tells => "why" \in says
        <4>1. CASE error.code = "Publish"
          <5>1. error.about \in Blame!PublishKinds /\ Numeric(error.about) = Blame!INTERNAL_ERROR
            BY <1>1, <4>1 DEF MadeOf, Numeric, Blame!PublishKinds, Blame!PublishUnits
          <5>2. Blame!MapAppError(error) = Blame!McpError(Numeric(error.about), error.about, error.says)
            BY <4>1, <5>1 DEF Blame!MapAppError, Blame!MapPublishError
          <5>3. QED
            BY <1>1, <3>1, <5>1, <5>2 DEF MadeOf, AgentCodes
        <4>2. CASE error.code = "NotFound"
          <5>1. "why" \notin cause.tells
            BY <1>1, <4>2 DEF MadeOf
          <5>2. \E code \in {"PROJECT_NOT_FOUND", "NOT_FOUND"} :
                  Blame!MapAppError(error) = Blame!McpError(Blame!INVALID_PARAMS, code, {"what"})
            BY <4>2 DEF Blame!MapAppError
          <5>3. QED
            BY <5>1, <5>2 DEF Numeric, Facts, AgentCodes
        <4>3. CASE error.code = "AuthRequired"
          <5>1. "why" \notin cause.tells
            BY <1>1, <4>3 DEF MadeOf
          <5>2. \E code \in {"NO_GITHUB_AUTH", "NO_AUTH"} :
                  Blame!MapAppError(error) = Blame!McpError(Blame!INTERNAL_ERROR, code, {"what"})
            BY <4>3 DEF Blame!MapAppError
          <5>3. QED
            BY <5>1, <5>2 DEF Numeric, Facts, AgentCodes
        <4>4. CASE error.code \notin {"Publish", "NotFound", "AuthRequired"}
          <5>1. \E code \in AgentCodes :
                  Blame!MapAppError(error) = Blame!McpError(Numeric(code), code, error.says)
            BY <3>1, <4>4 DEF Blame!MapAppError, MappedCodes, Numeric, AgentCodes
          <5>2. QED
            BY <1>1, <3>1, <5>1 DEF MadeOf
        <4>5. QED
          BY <4>1, <4>2, <4>3, <4>4
      <3>3. QED
        <4>1. PICK code \in AgentCodes, says \in SUBSET Facts :
                /\ Blame!MapAppError(error) = Blame!McpError(Numeric(code), code, says)
                /\ "why" \in cause.tells => "why" \in says
          BY <3>2
        <4>2. Blame!MapAppError(error) \in AgentAnswers /\ Blame!MapAppError(error).says = says
          BY <4>1, McpIsAnswer
        <4>3. QED
          BY <2>2, <4>1, <4>2
    <2>3. CASE Blame!Told(Blame!PushFailed(error))
      <3>1. Blame!PushFailed(error) = Blame!McpError(Numeric("PushFailed"), "PushFailed", error.says)
        BY DEF Blame!PushFailed, Numeric
      <3>2. error.says \subseteq Facts /\ ("why" \in cause.tells => "why" \in error.says)
        BY <1>1 DEF MadeOf
      <3>3. QED
        <4>1. "PushFailed" \in AgentCodes
          BY DEF AgentCodes, Blame!PublishKinds
        <4>2. Blame!PushFailed(error) \in AgentAnswers /\ Blame!PushFailed(error).says = error.says
          BY <3>1, <3>2, <4>1, McpIsAnswer
        <4>3. QED
          BY <2>3, <3>2, <4>2
    <2>4. QED
      BY <2>1, <2>2, <2>3 DEF Blame!TellAgent
  <1>3. QED
    BY <1>1, <1>2, ToldIsAppended DEF ErrorInv, Answers, Blame!KeepReason

\* So is a window.
LEMMA WindowIsTold ==
  ASSUME ErrorInv, Blame!TellWindow
  PROVE  ErrorInv' /\ Blame!KeepReason
  <1>1. /\ error.code \in MappedCodes /\ error.says \subseteq Facts /\ error.about # "path"
        /\ "why" \in cause.tells => "why" \in error.says
        /\ told \in Seq(Answers)
    BY DEF Blame!TellWindow, Blame!ForWindow, ErrorInv, MadeOf
  <1>2. PICK a \in Answers : Blame!Told(a) /\ ("why" \in cause.tells => "why" \in a.says)
    <2>1. Blame!TranslateError(error) \in Answers
      BY <1>1 DEF Blame!TranslateError, Blame!ExtractDetail, Blame!FormatPublishDetail, Blame!Title, Answers, Facts
    <2>2. "why" \in cause.tells => "why" \in Blame!TranslateError(error).says
      BY <1>1 DEF Blame!TranslateError, Blame!ExtractDetail, Blame!FormatPublishDetail
    <2>3. Blame!DescribeError(error) \in Answers /\ ("why" \in cause.tells => "why" \in Blame!DescribeError(error).says)
      BY <1>1 DEF Blame!DescribeError, Answers
    <2>4. QED
      BY <2>1, <2>2, <2>3 DEF Blame!TellWindow
  <1>3. QED
    BY <1>1, <1>2, ToldIsAppended DEF ErrorInv, Blame!KeepReason

\* A step keeps the invariant, and loses no reason.
LEMMA ErrorStep ==
  ASSUME ErrorInv, [Blame!Next]_(Blame!vars)
  PROVE  ErrorInv' /\ (UNCHANGED Blame!vars \/ Blame!KeepReason)
  <1>1. CASE Blame!Raise
    BY <1>1 DEF Blame!Raise, ErrorInv, Blame!KeepReason, MadeOf
  <1>2. CASE Blame!Convert
    <2>1. MadeOf(error', cause') /\ cause # Blame!Calm /\ cause' = cause /\ told' = told
      BY <1>2, ConversionIsMadeOf DEF Blame!Convert, ErrorInv
    <2>2. QED
      BY <2>1 DEF ErrorInv, Blame!KeepReason
  <1>3. CASE UNCHANGED Blame!vars
    BY <1>3 DEF Blame!vars, ErrorInv, MadeOf
  <1>4. QED
    BY <1>1, <1>2, <1>3, AgentIsTold, WindowIsTold DEF Blame!Next

\* One code has one numeric code, since it is a function of the code.
LEMMA OneShapeByInvariant == ErrorInv => Blame!OneCodeOneShape
  <1> SUFFICES ASSUME told \in Seq(Answers), NEW i \in 1 .. Len(told), NEW j \in 1 .. Len(told),
                      told[i].to = "agent", told[j].to = "agent", told[i].code = told[j].code
               PROVE  told[i].numeric = told[j].numeric
    BY DEF ErrorInv, Blame!OneCodeOneShape
  <1>1. told[i] \in Answers /\ told[j] \in Answers
    OBVIOUS
  <1>2. told[i] \in AgentAnswers /\ told[j] \in AgentAnswers
    BY <1>1 DEF Answers
  <1>3. QED
    BY <1>2 DEF AgentAnswers

\* An agent that meets a code again meets the same numeric code, and nobody is told
\* of a failure without its reason when the failure had one (mcp/errors.rs).
THEOREM ErrorsStayTold == WorkSpec => ErrorsAreTold
  <1>1. WorkInit => ErrorInv
    BY DEF WorkInit, Blame!Init, ErrorInv
  <1>2. ErrorInv /\ [WorkNext]_all => ErrorInv' /\ [part = "errors" => Blame!KeepReason]_errorVars
    <2>1. [WorkNext]_all => [Blame!Next]_(Blame!vars)
      BY DEF WorkNext, all, errorVars, Blame!vars
    <2>2. UNCHANGED Blame!vars => UNCHANGED errorVars
      BY DEF Blame!vars, errorVars
    <2>3. QED
      BY <2>1, <2>2, ErrorStep
  <1>3. ErrorInv => (part = "errors" => Blame!OneCodeOneShape)
    BY OneShapeByInvariant
  <1>4. QED
    BY <1>1, <1>2, <1>3, PTL DEF WorkSpec, ErrorsAreTold

-----------------------------------------------------------------------------
(* The site of a project (Publish) *)

Contents == [v : Nat, whole : BOOLEAN]
Hosting == {"enable", "create", "again", "wait", "persist"}
Unpublishing == {"disable", "delete", "clear"}
PublishLabels == {"idle", "detect", "start", "poll", "code", "push"} \cup Hosting \cup Unpublishing
PublishStates == [pc : PublishLabels, tool : BOOLEAN, dir : Site!Dirs, pushed : Contents, was : BOOLEAN]
Unhurt(kinds) == \A m \in kinds : m \notin publishMishaps

SiteTypes ==
  /\ pkg \in Site!Packages /\ src \in Nat
  /\ out \in [Site!Dirs -> Contents] /\ branch \in Contents
  /\ box \in [st : {"none", "running", "exited"}, step : {"clean", "build", "inject", "skip"},
              dir : Site!Dirs, ok : BOOLEAN]
  /\ box.st = "none" => box = Site!NoBox
  /\ pages \in [on : BOOLEAN, live : Contents, st : {"built", "building"}]
  /\ url \in BOOLEAN /\ snap \in {"none", "url", "no url"}

\* Nothing is newer than the sources.
NotNewer == (\A d \in Site!Dirs : out[d].v <= src) /\ branch.v <= src /\ pages.live.v <= src

\* The container builds to the directory of the project's framework, and what a
\* build that ended well left there is whole; so is what was pushed, and what
\* is told to be live is.
SiteFits ==
  /\ box.st # "none" => box.dir = Site!Detect(pkg).dir
  /\ box.st = "exited" /\ box.ok => out[box.dir].whole
  /\ Unhurt({"poll", "both"}) =>
       (branch = Site!Nothing \/ branch.whole) /\ (pages.live = Site!Nothing \/ pages.live.whole)
  /\ Unhurt({"late", "both"}) => \A a \in said : a.was \/ a.live = a.pushed

\* The shape of a task,
PublishShape(c) ==
  /\ c.pc \in Hosting <=> c.pushed # Site!Nothing
  /\ c.pc \in Unpublishing => ~c.tool
  /\ c.pc \in {"start", "poll", "code", "push"} => c.dir = Site!Detect(pkg).dir

\* and what it relies on, while it is alone: a build that has ended is whole; a
\* site that is waited for is on, and one that is deleted is off; a first
\* publish finds its push in the branch, and live once Pages says it is built.
PublishFits(c) ==
  "both" \notin publishMishaps =>
    /\ "poll" \notin publishMishaps =>
         /\ c.pc \in {"code", "push"} => box.st # "running"
         /\ c.pc = "push" => out[c.dir].whole
    /\ Unhurt({"sync", "quit"}) /\ c.pc \in {"wait", "persist"} => pages.on
    /\ Unhurt({"api", "deadline", "quit", "sync"}) /\ c.pc \in {"delete", "clear"} => ~pages.on
    /\ "late" \notin publishMishaps /\ c.pc \in Hosting /\ ~c.was =>
         /\ branch = c.pushed
         /\ pages.on /\ pages.st = "built" => pages.live = branch
         /\ c.pc = "persist" => pages.live = branch

TasksFit ==
  /\ publish \in [Publishers -> PublishStates]
  /\ \A t \in Publishers : PublishShape(publish[t]) /\ PublishFits(publish[t])

\* Two tasks at once are a mishap.
Alone ==
  "both" \notin publishMishaps =>
    \A t, u \in Publishers : publish[t].pc # "idle" /\ publish[u].pc # "idle" => t = u

\* A container is waited for.
BuildAwaited ==
  "deadline" \notin publishMishaps /\ box.st # "none" =>
    \E t \in Publishers : publish[t].pc \in {"poll", "code"}

\* The record says more than there is only while an unpublish is under way,
RecordAhead ==
  Unhurt({"both", "sync", "quit"}) /\ url /\ ~pages.on =>
    \E t \in Publishers : publish[t].pc \in {"delete", "clear"}

\* and less only while a publish is.
RecordBehind ==
  Unhurt({"api", "deadline", "quit", "both", "sync"}) /\ pages.on /\ ~url =>
    \E t \in Publishers : publish[t].pc \in Hosting

SiteInv ==
  /\ SiteTypes /\ NotNewer /\ SiteFits /\ TasksFit
  /\ Alone /\ BuildAwaited /\ RecordAhead /\ RecordBehind

-----------------------------------------------------------------------------
\* A framework builds to a directory there is.
LEMMA DetectsDir ==
  ASSUME NEW p \in Site!Packages
  PROVE  Site!Detect(p).dir \in Site!Dirs
  BY DEF Site!Detect, Site!Dirs

\* No project is published in the beginning.
LEMMA InitSite == Site!Init => SiteInv
  <1> SUFFICES ASSUME Site!Init PROVE SiteInv
    OBVIOUS
  <1> USE DEF Site!Init, Site!Idle, Site!NoBox, Site!Nothing, Site!Dirs
  <1>1. SiteTypes
    BY DEF SiteTypes, Contents
  <1>2. NotNewer /\ Alone /\ BuildAwaited /\ RecordAhead /\ RecordBehind
    BY DEF NotNewer, Alone, BuildAwaited, RecordAhead, RecordBehind
  <1>3. SiteFits
    BY DEF SiteFits
  <1>4. TasksFit
    BY DEF TasksFit, PublishShape, PublishFits, PublishStates, PublishLabels, Contents, Hosting, Unpublishing
  <1>5. QED
    BY <1>1, <1>2, <1>3, <1>4 DEF SiteInv

\* What a step of one task has to show: that the project and the task still fit,
\* and that nobody is left waiting for it.
LEMMA OneMoves ==
  ASSUME SiteInv, NEW t \in Publishers, NEW r \in PublishStates,
         publish' = [publish EXCEPT ![t] = r], pkg' = pkg,
         \A m : m \in publishMishaps => m \in publishMishaps',
         \/ publish[t].pc # "idle" \/ "both" \in publishMishaps'
         \/ \A u \in Publishers : publish[u].pc = "idle",
         SiteTypes', NotNewer', SiteFits', PublishShape(r), PublishFits(r)',
         "deadline" \notin publishMishaps' /\ box'.st # "none" =>
           \/ r.pc \in {"poll", "code"}
           \/ box.st # "none" /\ publish[t].pc \notin {"poll", "code"},
         Unhurt({"both", "sync", "quit"})' /\ url' /\ ~pages'.on =>
           \/ r.pc \in {"delete", "clear"}
           \/ url /\ ~pages.on /\ publish[t].pc \notin {"delete", "clear"},
         Unhurt({"api", "deadline", "quit", "both", "sync"})' /\ pages'.on /\ ~url' =>
           \/ r.pc \in Hosting
           \/ pages.on /\ ~url /\ publish[t].pc \notin Hosting
  PROVE  SiteInv'
  <1>1. /\ publish \in [Publishers -> PublishStates] /\ publish' \in [Publishers -> PublishStates]
        /\ publish'[t] = r /\ \A u \in Publishers \ {t} : publish'[u] = publish[u]
    BY DEF SiteInv, TasksFit
  <1>2. "both" \notin publishMishaps' => \A u \in Publishers \ {t} : publish[u].pc = "idle"
    BY DEF SiteInv, Alone
  <1>3. Alone'
    BY <1>1, <1>2 DEF Alone
  <1>4. \A u \in Publishers \ {t} : PublishShape(publish[u])' /\ PublishFits(publish[u])'
    <2> SUFFICES ASSUME NEW u \in Publishers \ {t} PROVE PublishShape(publish[u])' /\ PublishFits(publish[u])'
      OBVIOUS
    <2>1. PublishShape(publish[u])'
      BY <1>1 DEF SiteInv, TasksFit, PublishShape
    <2>2. PublishFits(publish[u])'
      BY <1>1, <1>2 DEF PublishFits, Hosting
    <2>3. QED
      BY <2>1, <2>2
  <1>5. TasksFit'
    <2>1. PublishShape(publish[t])' /\ PublishFits(publish[t])'
      BY <1>1 DEF PublishShape, PublishFits
    <2>2. QED
      BY <1>1, <1>4, <2>1 DEF TasksFit
  <1>6. BuildAwaited'
    BY <1>1 DEF SiteInv, BuildAwaited
  <1>7. RecordAhead'
    BY <1>1 DEF SiteInv, RecordAhead, Unhurt
  <1>8. RecordBehind'
    BY <1>1 DEF SiteInv, RecordBehind, Unhurt
  <1>9. QED
    BY <1>3, <1>5, <1>6, <1>7, <1>8 DEF SiteInv

\* A step on the way changes where the task is, and nothing else of it;
LEMMA GoMoves ==
  ASSUME NEW t \in Publishers, publish \in [Publishers -> PublishStates],
         NEW l \in PublishLabels, Site!Go(t, l)
  PROVE  \E r \in PublishStates :
           /\ publish' = [publish EXCEPT ![t] = r]
           /\ r.pc = l /\ r.tool = publish[t].tool /\ r.dir = publish[t].dir
           /\ r.pushed = publish[t].pushed /\ r.was = publish[t].was
  <1> DEFINE r == [publish[t] EXCEPT !.pc = l]
  <1>1. publish[t] \in PublishStates
    OBVIOUS
  <1>2. r \in PublishStates /\ r.pc = l /\ r.tool = publish[t].tool /\ r.dir = publish[t].dir
        /\ r.pushed = publish[t].pushed /\ r.was = publish[t].was
    BY <1>1 DEF PublishStates
  <1>3. publish' = [publish EXCEPT ![t] = r]
    BY DEF Site!Go
  <1>4. QED
    BY <1>2, <1>3

\* a last step forgets the task.
LEMMA DoneMoves ==
  ASSUME NEW t \in Publishers, Site!Done(t)
  PROVE  \E r \in PublishStates :
           /\ publish' = [publish EXCEPT ![t] = r]
           /\ r.pc = "idle" /\ r.pushed = Site!Nothing
  <1>1. Site!Nothing \in Contents
    BY DEF Site!Nothing, Contents
  <1>2. Site!Idle \in PublishStates /\ Site!Idle.pc = "idle" /\ Site!Idle.pushed = Site!Nothing
    BY <1>1 DEF Site!Idle, PublishStates, PublishLabels, Site!Dirs
  <1>3. QED
    BY <1>2 DEF Site!Done

\* A container is started for the directory of the framework, or one is taken
\* that was.
LEMMA SiteStartBuildKeeps ==
  ASSUME NEW t \in Publishers, SiteInv, Site!StartBuild(t)
  PROVE  SiteInv'
  <1> USE DEF Site!StartBuild, Site!Happen, Site!Fails
  <1>1. /\ SiteTypes /\ NotNewer /\ SiteFits /\ PublishShape(publish[t]) /\ PublishFits(publish[t])
        /\ publish \in [Publishers -> PublishStates] /\ publish[t] \in PublishStates
    BY DEF SiteInv, TasksFit
  <1>2. publish[t].pc = "start"
    BY DEF Site!On
  <1>3. CASE Site!Done(t) /\ UNCHANGED box
    <2>1. PICK r \in PublishStates :
             /\ publish' = [publish EXCEPT ![t] = r]
             /\ r.pc = "idle" /\ r.pushed = Site!Nothing
      BY <1>3, DoneMoves
    <2>2. SiteTypes' /\ pkg' = pkg
      BY <1>1, <1>3 DEF SiteTypes
    <2>3. NotNewer'
      BY <1>1, <1>3 DEF NotNewer, SiteTypes, Contents, Site!Nothing
    <2>4. SiteFits'
      BY <1>1, <1>2, <1>3 DEF SiteTypes, SiteFits, PublishShape, PublishFits, Unhurt, Hosting, Site!NoBox, Site!Nothing
    <2>5. PublishShape(r)
      BY <1>1, <1>2, <2>1 DEF PublishShape, Hosting, Unpublishing
    <2>6. PublishFits(r)'
      BY <1>1, <1>2, <1>3, <2>1 DEF SiteTypes, SiteFits, PublishShape, PublishFits, Unhurt, Hosting, Site!NoBox
    <2>7. \A m : m \in publishMishaps => m \in publishMishaps'
      BY <1>3
    <2>8. "deadline" \notin publishMishaps' /\ box'.st # "none" =>
             \/ r.pc \in {"poll", "code"}
             \/ box.st # "none" /\ publish[t].pc \notin {"poll", "code"}
      BY <1>1, <1>2, <1>3, <2>1 DEF SiteTypes, Site!NoBox
    <2>9. Unhurt({"both", "sync", "quit"})' /\ url' /\ ~pages'.on =>
             \/ r.pc \in {"delete", "clear"}
             \/ url /\ ~pages.on /\ publish[t].pc \notin {"delete", "clear"}
      BY <1>1, <1>2, <1>3, <2>1 DEF SiteTypes, PublishFits, PublishShape, Unpublishing, Unhurt
    <2>10. Unhurt({"api", "deadline", "quit", "both", "sync"})' /\ pages'.on /\ ~url' =>
             \/ r.pc \in Hosting
             \/ pages.on /\ ~url /\ publish[t].pc \notin Hosting
      BY <1>1, <1>2, <1>3, <2>1 DEF SiteTypes, PublishFits, Unhurt, Hosting
    <2>11. publish[t].pc # "idle"
      BY <1>2
    <2>12. QED
      BY <2>1, <2>2, <2>3, <2>4, <2>5, <2>6, <2>7, <2>8, <2>9, <2>10, <2>11, OneMoves
  <1>4. CASE /\ Site!Go(t, "poll")
          /\ box' = IF box.st = "none" THEN [Site!NoBox EXCEPT !.st = "running", !.dir = publish[t].dir]
                    ELSE [box EXCEPT !.st = "running", !.step = IF box.st = "exited" THEN "clean" ELSE @]
    <2>1. PICK r \in PublishStates :
             /\ publish' = [publish EXCEPT ![t] = r]
             /\ r.pc = "poll" /\ r.tool = publish[t].tool /\ r.dir = publish[t].dir
             /\ r.pushed = publish[t].pushed /\ r.was = publish[t].was
      BY <1>1, <1>4, GoMoves DEF PublishLabels, Hosting, Unpublishing
    <2>2. SiteTypes' /\ pkg' = pkg
      <3>1. publish[t].dir \in Site!Dirs
        BY <1>1 DEF PublishStates
      <3>2. Site!NoBox \in [st : {"none", "running", "exited"}, step : {"clean", "build", "inject", "skip"},
                            dir : Site!Dirs, ok : BOOLEAN]
        BY DEF Site!NoBox, Site!Dirs
      <3>3. /\ box' \in [st : {"none", "running", "exited"}, step : {"clean", "build", "inject", "skip"},
                        dir : Site!Dirs, ok : BOOLEAN]
            /\ box'.st = "running"
        BY <1>1, <1>4, <3>1, <3>2 DEF SiteTypes
      <3>4. QED
        BY <1>1, <1>4, <3>3 DEF SiteTypes
    <2>3. NotNewer'
      BY <1>1, <1>4 DEF NotNewer, SiteTypes, Contents, Site!Nothing
    <2>4. SiteFits'
      BY <1>1, <1>2, <1>4 DEF SiteTypes, SiteFits, PublishShape, PublishFits, Unhurt, Hosting, Site!NoBox, Site!Nothing
    <2>5. PublishShape(r)
      BY <1>1, <1>2, <2>1 DEF PublishShape, Hosting, Unpublishing
    <2>6. PublishFits(r)'
      BY <1>1, <1>2, <1>4, <2>1 DEF SiteTypes, SiteFits, PublishShape, PublishFits, Unhurt, Hosting, Site!NoBox
    <2>7. \A m : m \in publishMishaps => m \in publishMishaps'
      BY <1>4
    <2>8. "deadline" \notin publishMishaps' /\ box'.st # "none" =>
             \/ r.pc \in {"poll", "code"}
             \/ box.st # "none" /\ publish[t].pc \notin {"poll", "code"}
      BY <1>1, <1>2, <1>4, <2>1 DEF SiteTypes, Site!NoBox
    <2>9. Unhurt({"both", "sync", "quit"})' /\ url' /\ ~pages'.on =>
             \/ r.pc \in {"delete", "clear"}
             \/ url /\ ~pages.on /\ publish[t].pc \notin {"delete", "clear"}
      BY <1>1, <1>2, <1>4, <2>1 DEF SiteTypes, PublishFits, PublishShape, Unpublishing, Unhurt
    <2>10. Unhurt({"api", "deadline", "quit", "both", "sync"})' /\ pages'.on /\ ~url' =>
             \/ r.pc \in Hosting
             \/ pages.on /\ ~url /\ publish[t].pc \notin Hosting
      BY <1>1, <1>2, <1>4, <2>1 DEF SiteTypes, PublishFits, Unhurt, Hosting
    <2>11. publish[t].pc # "idle"
      BY <1>2
    <2>12. QED
      BY <2>1, <2>2, <2>3, <2>4, <2>5, <2>6, <2>7, <2>8, <2>9, <2>10, <2>11, OneMoves
  <1>5. QED
    BY <1>3, <1>4

\* Only a status that could not be read takes a task on while the build runs.
LEMMA SitePollKeeps ==
  ASSUME NEW t \in Publishers, SiteInv, Site!Poll(t)
  PROVE  SiteInv'
  <1> USE DEF Site!Poll, Site!Happen, Site!Fails
  <1>1. /\ SiteTypes /\ NotNewer /\ SiteFits /\ PublishShape(publish[t]) /\ PublishFits(publish[t])
        /\ publish \in [Publishers -> PublishStates] /\ publish[t] \in PublishStates
    BY DEF SiteInv, TasksFit
  <1>2. publish[t].pc = "poll"
    BY DEF Site!On
  <1>3. CASE box.st # "running" /\ Site!Go(t, "code") /\ UNCHANGED <<box, publishMishaps>>
    <2>1. PICK r \in PublishStates :
             /\ publish' = [publish EXCEPT ![t] = r]
             /\ r.pc = "code" /\ r.tool = publish[t].tool /\ r.dir = publish[t].dir
             /\ r.pushed = publish[t].pushed /\ r.was = publish[t].was
      BY <1>1, <1>3, GoMoves DEF PublishLabels, Hosting, Unpublishing
    <2>2. SiteTypes' /\ pkg' = pkg
      BY <1>1, <1>3 DEF SiteTypes
    <2>3. NotNewer'
      BY <1>1, <1>3 DEF NotNewer, SiteTypes, Contents, Site!Nothing
    <2>4. SiteFits'
      BY <1>1, <1>2, <1>3 DEF SiteTypes, SiteFits, PublishShape, PublishFits, Unhurt, Hosting, Site!NoBox, Site!Nothing
    <2>5. PublishShape(r)
      BY <1>1, <1>2, <2>1 DEF PublishShape, Hosting, Unpublishing
    <2>6. PublishFits(r)'
      BY <1>1, <1>2, <1>3, <2>1 DEF SiteTypes, SiteFits, PublishShape, PublishFits, Unhurt, Hosting, Site!NoBox
    <2>7. \A m : m \in publishMishaps => m \in publishMishaps'
      BY <1>3
    <2>8. "deadline" \notin publishMishaps' /\ box'.st # "none" =>
             \/ r.pc \in {"poll", "code"}
             \/ box.st # "none" /\ publish[t].pc \notin {"poll", "code"}
      BY <1>1, <1>2, <1>3, <2>1 DEF SiteTypes, Site!NoBox
    <2>9. Unhurt({"both", "sync", "quit"})' /\ url' /\ ~pages'.on =>
             \/ r.pc \in {"delete", "clear"}
             \/ url /\ ~pages.on /\ publish[t].pc \notin {"delete", "clear"}
      BY <1>1, <1>2, <1>3, <2>1 DEF SiteTypes, PublishFits, PublishShape, Unpublishing, Unhurt
    <2>10. Unhurt({"api", "deadline", "quit", "both", "sync"})' /\ pages'.on /\ ~url' =>
             \/ r.pc \in Hosting
             \/ pages.on /\ ~url /\ publish[t].pc \notin Hosting
      BY <1>1, <1>2, <1>3, <2>1 DEF SiteTypes, PublishFits, Unhurt, Hosting
    <2>11. publish[t].pc # "idle"
      BY <1>2
    <2>12. QED
      BY <2>1, <2>2, <2>3, <2>4, <2>5, <2>6, <2>7, <2>8, <2>9, <2>10, <2>11, OneMoves
  <1>4. CASE box.st = "running" /\ Site!Go(t, "code") /\ Site!Happen({"poll"}) /\ UNCHANGED box
    <2>1. PICK r \in PublishStates :
             /\ publish' = [publish EXCEPT ![t] = r]
             /\ r.pc = "code" /\ r.tool = publish[t].tool /\ r.dir = publish[t].dir
             /\ r.pushed = publish[t].pushed /\ r.was = publish[t].was
      BY <1>1, <1>4, GoMoves DEF PublishLabels, Hosting, Unpublishing
    <2>2. SiteTypes' /\ pkg' = pkg
      BY <1>1, <1>4 DEF SiteTypes
    <2>3. NotNewer'
      BY <1>1, <1>4 DEF NotNewer, SiteTypes, Contents, Site!Nothing
    <2>4. SiteFits'
      BY <1>1, <1>2, <1>4 DEF SiteTypes, SiteFits, PublishShape, PublishFits, Unhurt, Hosting, Site!NoBox, Site!Nothing
    <2>5. PublishShape(r)
      BY <1>1, <1>2, <2>1 DEF PublishShape, Hosting, Unpublishing
    <2>6. PublishFits(r)'
      BY <1>1, <1>2, <1>4, <2>1 DEF SiteTypes, SiteFits, PublishShape, PublishFits, Unhurt, Hosting, Site!NoBox
    <2>7. \A m : m \in publishMishaps => m \in publishMishaps'
      BY <1>4
    <2>8. "deadline" \notin publishMishaps' /\ box'.st # "none" =>
             \/ r.pc \in {"poll", "code"}
             \/ box.st # "none" /\ publish[t].pc \notin {"poll", "code"}
      BY <1>1, <1>2, <1>4, <2>1 DEF SiteTypes, Site!NoBox
    <2>9. Unhurt({"both", "sync", "quit"})' /\ url' /\ ~pages'.on =>
             \/ r.pc \in {"delete", "clear"}
             \/ url /\ ~pages.on /\ publish[t].pc \notin {"delete", "clear"}
      BY <1>1, <1>2, <1>4, <2>1 DEF SiteTypes, PublishFits, PublishShape, Unpublishing, Unhurt
    <2>10. Unhurt({"api", "deadline", "quit", "both", "sync"})' /\ pages'.on /\ ~url' =>
             \/ r.pc \in Hosting
             \/ pages.on /\ ~url /\ publish[t].pc \notin Hosting
      BY <1>1, <1>2, <1>4, <2>1 DEF SiteTypes, PublishFits, Unhurt, Hosting
    <2>11. publish[t].pc # "idle"
      BY <1>2
    <2>12. QED
      BY <2>1, <2>2, <2>3, <2>4, <2>5, <2>6, <2>7, <2>8, <2>9, <2>10, <2>11, OneMoves
  <1>5. CASE Site!Done(t) /\ box' = Site!NoBox /\ UNCHANGED publishMishaps
    <2>1. PICK r \in PublishStates :
             /\ publish' = [publish EXCEPT ![t] = r]
             /\ r.pc = "idle" /\ r.pushed = Site!Nothing
      BY <1>5, DoneMoves
    <2>2. SiteTypes' /\ pkg' = pkg
      <3>1. Site!NoBox \in [st : {"none", "running", "exited"}, step : {"clean", "build", "inject", "skip"},
                            dir : Site!Dirs, ok : BOOLEAN]
        BY DEF Site!NoBox, Site!Dirs
      <3>2. QED
        BY <1>1, <1>5, <3>1 DEF SiteTypes
    <2>3. NotNewer'
      BY <1>1, <1>5 DEF NotNewer, SiteTypes, Contents, Site!Nothing
    <2>4. SiteFits'
      BY <1>1, <1>2, <1>5 DEF SiteTypes, SiteFits, PublishShape, PublishFits, Unhurt, Hosting, Site!NoBox, Site!Nothing
    <2>5. PublishShape(r)
      BY <1>1, <1>2, <2>1 DEF PublishShape, Hosting, Unpublishing
    <2>6. PublishFits(r)'
      BY <1>1, <1>2, <1>5, <2>1 DEF SiteTypes, SiteFits, PublishShape, PublishFits, Unhurt, Hosting, Site!NoBox
    <2>7. \A m : m \in publishMishaps => m \in publishMishaps'
      BY <1>5
    <2>8. "deadline" \notin publishMishaps' /\ box'.st # "none" =>
             \/ r.pc \in {"poll", "code"}
             \/ box.st # "none" /\ publish[t].pc \notin {"poll", "code"}
      BY <1>1, <1>2, <1>5, <2>1 DEF SiteTypes, Site!NoBox
    <2>9. Unhurt({"both", "sync", "quit"})' /\ url' /\ ~pages'.on =>
             \/ r.pc \in {"delete", "clear"}
             \/ url /\ ~pages.on /\ publish[t].pc \notin {"delete", "clear"}
      BY <1>1, <1>2, <1>5, <2>1 DEF SiteTypes, PublishFits, PublishShape, Unpublishing, Unhurt
    <2>10. Unhurt({"api", "deadline", "quit", "both", "sync"})' /\ pages'.on /\ ~url' =>
             \/ r.pc \in Hosting
             \/ pages.on /\ ~url /\ publish[t].pc \notin Hosting
      BY <1>1, <1>2, <1>5, <2>1 DEF SiteTypes, PublishFits, Unhurt, Hosting
    <2>11. publish[t].pc # "idle"
      BY <1>2
    <2>12. QED
      BY <2>1, <2>2, <2>3, <2>4, <2>5, <2>6, <2>7, <2>8, <2>9, <2>10, <2>11, OneMoves
  <1>6. QED
    BY <1>3, <1>4, <1>5

\* An exit code of a build that has ended well vouches for the directory.
LEMMA SiteCodeKeeps ==
  ASSUME NEW t \in Publishers, SiteInv, Site!Code(t)
  PROVE  SiteInv'
  <1> USE DEF Site!Code, Site!Happen, Site!Fails
  <1>1. /\ SiteTypes /\ NotNewer /\ SiteFits /\ PublishShape(publish[t]) /\ PublishFits(publish[t])
        /\ publish \in [Publishers -> PublishStates] /\ publish[t] \in PublishStates
    BY DEF SiteInv, TasksFit
  <1>2. publish[t].pc = "code"
    BY DEF Site!On
  <1>3. CASE /\ box.st # "none" /\ (box.st = "exited" => box.ok) /\ out[publish[t].dir] # Site!Nothing
          /\ Site!Go(t, "push")
    <2>1. PICK r \in PublishStates :
             /\ publish' = [publish EXCEPT ![t] = r]
             /\ r.pc = "push" /\ r.tool = publish[t].tool /\ r.dir = publish[t].dir
             /\ r.pushed = publish[t].pushed /\ r.was = publish[t].was
      BY <1>1, <1>3, GoMoves DEF PublishLabels, Hosting, Unpublishing
    <2>2. SiteTypes' /\ pkg' = pkg
      <3>1. Site!NoBox \in [st : {"none", "running", "exited"}, step : {"clean", "build", "inject", "skip"},
                            dir : Site!Dirs, ok : BOOLEAN]
        BY DEF Site!NoBox, Site!Dirs
      <3>2. QED
        BY <1>1, <1>3, <3>1 DEF SiteTypes
    <2>3. NotNewer'
      BY <1>1, <1>3 DEF NotNewer, SiteTypes, Contents, Site!Nothing
    <2>4. SiteFits'
      BY <1>1, <1>2, <1>3 DEF SiteTypes, SiteFits, PublishShape, PublishFits, Unhurt, Hosting, Site!NoBox, Site!Nothing
    <2>5. PublishShape(r)
      BY <1>1, <1>2, <2>1 DEF PublishShape, Hosting, Unpublishing
    <2>6. PublishFits(r)'
      BY <1>1, <1>2, <1>3, <2>1 DEF SiteTypes, SiteFits, PublishShape, PublishFits, Unhurt, Hosting, Site!NoBox
    <2>7. \A m : m \in publishMishaps => m \in publishMishaps'
      BY <1>3
    <2>8. "deadline" \notin publishMishaps' /\ box'.st # "none" =>
             \/ r.pc \in {"poll", "code"}
             \/ box.st # "none" /\ publish[t].pc \notin {"poll", "code"}
      BY <1>1, <1>2, <1>3, <2>1 DEF SiteTypes, Site!NoBox
    <2>9. Unhurt({"both", "sync", "quit"})' /\ url' /\ ~pages'.on =>
             \/ r.pc \in {"delete", "clear"}
             \/ url /\ ~pages.on /\ publish[t].pc \notin {"delete", "clear"}
      BY <1>1, <1>2, <1>3, <2>1 DEF SiteTypes, PublishFits, PublishShape, Unpublishing, Unhurt
    <2>10. Unhurt({"api", "deadline", "quit", "both", "sync"})' /\ pages'.on /\ ~url' =>
             \/ r.pc \in Hosting
             \/ pages.on /\ ~url /\ publish[t].pc \notin Hosting
      BY <1>1, <1>2, <1>3, <2>1 DEF SiteTypes, PublishFits, Unhurt, Hosting
    <2>11. publish[t].pc # "idle"
      BY <1>2
    <2>12. QED
      BY <2>1, <2>2, <2>3, <2>4, <2>5, <2>6, <2>7, <2>8, <2>9, <2>10, <2>11, OneMoves
  <1>4. CASE Site!Done(t)
    <2>1. PICK r \in PublishStates :
             /\ publish' = [publish EXCEPT ![t] = r]
             /\ r.pc = "idle" /\ r.pushed = Site!Nothing
      BY <1>4, DoneMoves
    <2>2. SiteTypes' /\ pkg' = pkg
      <3>1. Site!NoBox \in [st : {"none", "running", "exited"}, step : {"clean", "build", "inject", "skip"},
                            dir : Site!Dirs, ok : BOOLEAN]
        BY DEF Site!NoBox, Site!Dirs
      <3>2. QED
        BY <1>1, <1>4, <3>1 DEF SiteTypes
    <2>3. NotNewer'
      BY <1>1, <1>4 DEF NotNewer, SiteTypes, Contents, Site!Nothing
    <2>4. SiteFits'
      BY <1>1, <1>2, <1>4 DEF SiteTypes, SiteFits, PublishShape, PublishFits, Unhurt, Hosting, Site!NoBox, Site!Nothing
    <2>5. PublishShape(r)
      BY <1>1, <1>2, <2>1 DEF PublishShape, Hosting, Unpublishing
    <2>6. PublishFits(r)'
      BY <1>1, <1>2, <1>4, <2>1 DEF SiteTypes, SiteFits, PublishShape, PublishFits, Unhurt, Hosting, Site!NoBox
    <2>7. \A m : m \in publishMishaps => m \in publishMishaps'
      BY <1>4
    <2>8. "deadline" \notin publishMishaps' /\ box'.st # "none" =>
             \/ r.pc \in {"poll", "code"}
             \/ box.st # "none" /\ publish[t].pc \notin {"poll", "code"}
      BY <1>1, <1>2, <1>4, <2>1 DEF SiteTypes, Site!NoBox
    <2>9. Unhurt({"both", "sync", "quit"})' /\ url' /\ ~pages'.on =>
             \/ r.pc \in {"delete", "clear"}
             \/ url /\ ~pages.on /\ publish[t].pc \notin {"delete", "clear"}
      BY <1>1, <1>2, <1>4, <2>1 DEF SiteTypes, PublishFits, PublishShape, Unpublishing, Unhurt
    <2>10. Unhurt({"api", "deadline", "quit", "both", "sync"})' /\ pages'.on /\ ~url' =>
             \/ r.pc \in Hosting
             \/ pages.on /\ ~url /\ publish[t].pc \notin Hosting
      BY <1>1, <1>2, <1>4, <2>1 DEF SiteTypes, PublishFits, Unhurt, Hosting
    <2>11. publish[t].pc # "idle"
      BY <1>2
    <2>12. QED
      BY <2>1, <2>2, <2>3, <2>4, <2>5, <2>6, <2>7, <2>8, <2>9, <2>10, <2>11, OneMoves
  <1>5. QED
    BY <1>3, <1>4

\* After the push the site is looked up,
LEMMA SiteEnableKeeps ==
  ASSUME NEW t \in Publishers, SiteInv, Site!Enable(t)
  PROVE  SiteInv'
  <1> USE DEF Site!Enable, Site!Happen, Site!Fails
  <1>1. /\ SiteTypes /\ NotNewer /\ SiteFits /\ PublishShape(publish[t]) /\ PublishFits(publish[t])
        /\ publish \in [Publishers -> PublishStates] /\ publish[t] \in PublishStates
    BY DEF SiteInv, TasksFit
  <1>2. publish[t].pc = "enable"
    BY DEF Site!On
  <1>3. CASE pages.on /\ Site!Go(t, "wait") /\ UNCHANGED publishMishaps
    <2>1. PICK r \in PublishStates :
             /\ publish' = [publish EXCEPT ![t] = r]
             /\ r.pc = "wait" /\ r.tool = publish[t].tool /\ r.dir = publish[t].dir
             /\ r.pushed = publish[t].pushed /\ r.was = publish[t].was
      BY <1>1, <1>3, GoMoves DEF PublishLabels, Hosting, Unpublishing
    <2>2. SiteTypes' /\ pkg' = pkg
      BY <1>1, <1>3 DEF SiteTypes
    <2>3. NotNewer'
      BY <1>1, <1>3 DEF NotNewer, SiteTypes, Contents, Site!Nothing
    <2>4. SiteFits'
      BY <1>1, <1>2, <1>3 DEF SiteTypes, SiteFits, PublishShape, PublishFits, Unhurt, Hosting, Site!NoBox, Site!Nothing
    <2>5. PublishShape(r)
      BY <1>1, <1>2, <2>1 DEF PublishShape, Hosting, Unpublishing
    <2>6. PublishFits(r)'
      BY <1>1, <1>2, <1>3, <2>1 DEF SiteTypes, SiteFits, PublishShape, PublishFits, Unhurt, Hosting, Site!NoBox
    <2>7. \A m : m \in publishMishaps => m \in publishMishaps'
      BY <1>3
    <2>8. "deadline" \notin publishMishaps' /\ box'.st # "none" =>
             \/ r.pc \in {"poll", "code"}
             \/ box.st # "none" /\ publish[t].pc \notin {"poll", "code"}
      BY <1>1, <1>2, <1>3, <2>1 DEF SiteTypes, Site!NoBox
    <2>9. Unhurt({"both", "sync", "quit"})' /\ url' /\ ~pages'.on =>
             \/ r.pc \in {"delete", "clear"}
             \/ url /\ ~pages.on /\ publish[t].pc \notin {"delete", "clear"}
      BY <1>1, <1>2, <1>3, <2>1 DEF SiteTypes, PublishFits, PublishShape, Unpublishing, Unhurt
    <2>10. Unhurt({"api", "deadline", "quit", "both", "sync"})' /\ pages'.on /\ ~url' =>
             \/ r.pc \in Hosting
             \/ pages.on /\ ~url /\ publish[t].pc \notin Hosting
      BY <1>1, <1>2, <1>3, <2>1 DEF SiteTypes, PublishFits, Unhurt, Hosting
    <2>11. publish[t].pc # "idle"
      BY <1>2
    <2>12. QED
      BY <2>1, <2>2, <2>3, <2>4, <2>5, <2>6, <2>7, <2>8, <2>9, <2>10, <2>11, OneMoves
  <1>4. CASE ~pages.on /\ Site!Go(t, "create") /\ UNCHANGED publishMishaps
    <2>1. PICK r \in PublishStates :
             /\ publish' = [publish EXCEPT ![t] = r]
             /\ r.pc = "create" /\ r.tool = publish[t].tool /\ r.dir = publish[t].dir
             /\ r.pushed = publish[t].pushed /\ r.was = publish[t].was
      BY <1>1, <1>4, GoMoves DEF PublishLabels, Hosting, Unpublishing
    <2>2. SiteTypes' /\ pkg' = pkg
      BY <1>1, <1>4 DEF SiteTypes
    <2>3. NotNewer'
      BY <1>1, <1>4 DEF NotNewer, SiteTypes, Contents, Site!Nothing
    <2>4. SiteFits'
      BY <1>1, <1>2, <1>4 DEF SiteTypes, SiteFits, PublishShape, PublishFits, Unhurt, Hosting, Site!NoBox, Site!Nothing
    <2>5. PublishShape(r)
      BY <1>1, <1>2, <2>1 DEF PublishShape, Hosting, Unpublishing
    <2>6. PublishFits(r)'
      BY <1>1, <1>2, <1>4, <2>1 DEF SiteTypes, SiteFits, PublishShape, PublishFits, Unhurt, Hosting, Site!NoBox
    <2>7. \A m : m \in publishMishaps => m \in publishMishaps'
      BY <1>4
    <2>8. "deadline" \notin publishMishaps' /\ box'.st # "none" =>
             \/ r.pc \in {"poll", "code"}
             \/ box.st # "none" /\ publish[t].pc \notin {"poll", "code"}
      BY <1>1, <1>2, <1>4, <2>1 DEF SiteTypes, Site!NoBox
    <2>9. Unhurt({"both", "sync", "quit"})' /\ url' /\ ~pages'.on =>
             \/ r.pc \in {"delete", "clear"}
             \/ url /\ ~pages.on /\ publish[t].pc \notin {"delete", "clear"}
      BY <1>1, <1>2, <1>4, <2>1 DEF SiteTypes, PublishFits, PublishShape, Unpublishing, Unhurt
    <2>10. Unhurt({"api", "deadline", "quit", "both", "sync"})' /\ pages'.on /\ ~url' =>
             \/ r.pc \in Hosting
             \/ pages.on /\ ~url /\ publish[t].pc \notin Hosting
      BY <1>1, <1>2, <1>4, <2>1 DEF SiteTypes, PublishFits, Unhurt, Hosting
    <2>11. publish[t].pc # "idle"
      BY <1>2
    <2>12. QED
      BY <2>1, <2>2, <2>3, <2>4, <2>5, <2>6, <2>7, <2>8, <2>9, <2>10, <2>11, OneMoves
  <1>5. CASE Site!Fails(t)
    <2>1. PICK r \in PublishStates :
             /\ publish' = [publish EXCEPT ![t] = r]
             /\ r.pc = "idle" /\ r.pushed = Site!Nothing
      BY <1>5, DoneMoves
    <2>2. SiteTypes' /\ pkg' = pkg
      BY <1>1, <1>5 DEF SiteTypes
    <2>3. NotNewer'
      BY <1>1, <1>5 DEF NotNewer, SiteTypes, Contents, Site!Nothing
    <2>4. SiteFits'
      BY <1>1, <1>2, <1>5 DEF SiteTypes, SiteFits, PublishShape, PublishFits, Unhurt, Hosting, Site!NoBox, Site!Nothing
    <2>5. PublishShape(r)
      BY <1>1, <1>2, <2>1 DEF PublishShape, Hosting, Unpublishing
    <2>6. PublishFits(r)'
      BY <1>1, <1>2, <1>5, <2>1 DEF SiteTypes, SiteFits, PublishShape, PublishFits, Unhurt, Hosting, Site!NoBox
    <2>7. \A m : m \in publishMishaps => m \in publishMishaps'
      BY <1>5
    <2>8. "deadline" \notin publishMishaps' /\ box'.st # "none" =>
             \/ r.pc \in {"poll", "code"}
             \/ box.st # "none" /\ publish[t].pc \notin {"poll", "code"}
      BY <1>1, <1>2, <1>5, <2>1 DEF SiteTypes, Site!NoBox
    <2>9. Unhurt({"both", "sync", "quit"})' /\ url' /\ ~pages'.on =>
             \/ r.pc \in {"delete", "clear"}
             \/ url /\ ~pages.on /\ publish[t].pc \notin {"delete", "clear"}
      BY <1>1, <1>2, <1>5, <2>1 DEF SiteTypes, PublishFits, PublishShape, Unpublishing, Unhurt
    <2>10. Unhurt({"api", "deadline", "quit", "both", "sync"})' /\ pages'.on /\ ~url' =>
             \/ r.pc \in Hosting
             \/ pages.on /\ ~url /\ publish[t].pc \notin Hosting
      BY <1>1, <1>2, <1>5, <2>1 DEF SiteTypes, PublishFits, Unhurt, Hosting
    <2>11. publish[t].pc # "idle"
      BY <1>2
    <2>12. QED
      BY <2>1, <2>2, <2>3, <2>4, <2>5, <2>6, <2>7, <2>8, <2>9, <2>10, <2>11, OneMoves
  <1>6. QED
    BY <1>3, <1>4, <1>5

\* created,
LEMMA SiteCreateKeeps ==
  ASSUME NEW t \in Publishers, SiteInv, Site!Create(t)
  PROVE  SiteInv'
  <1> USE DEF Site!Create, Site!Happen, Site!Fails
  <1>1. /\ SiteTypes /\ NotNewer /\ SiteFits /\ PublishShape(publish[t]) /\ PublishFits(publish[t])
        /\ publish \in [Publishers -> PublishStates] /\ publish[t] \in PublishStates
    BY DEF SiteInv, TasksFit
  <1>2. publish[t].pc = "create"
    BY DEF Site!On
  <1>3. CASE /\ ~pages.on /\ branch # Site!Nothing /\ Site!Go(t, "wait")
          /\ pages' = [pages EXCEPT !.on = TRUE, !.st = "building"]
    <2>1. PICK r \in PublishStates :
             /\ publish' = [publish EXCEPT ![t] = r]
             /\ r.pc = "wait" /\ r.tool = publish[t].tool /\ r.dir = publish[t].dir
             /\ r.pushed = publish[t].pushed /\ r.was = publish[t].was
      BY <1>1, <1>3, GoMoves DEF PublishLabels, Hosting, Unpublishing
    <2>2. SiteTypes' /\ pkg' = pkg
      BY <1>1, <1>3 DEF SiteTypes, Contents, Site!NoBox, Site!Nothing, PublishStates
    <2>3. NotNewer'
      BY <1>1, <1>3 DEF NotNewer, SiteTypes, Contents, Site!Nothing
    <2>4. SiteFits'
      BY <1>1, <1>2, <1>3 DEF SiteTypes, SiteFits, PublishShape, PublishFits, Unhurt, Hosting, Site!NoBox, Site!Nothing
    <2>5. PublishShape(r)
      BY <1>1, <1>2, <2>1 DEF PublishShape, Hosting, Unpublishing
    <2>6. PublishFits(r)'
      BY <1>1, <1>2, <1>3, <2>1 DEF SiteTypes, SiteFits, PublishShape, PublishFits, Unhurt, Hosting, Site!NoBox
    <2>7. \A m : m \in publishMishaps => m \in publishMishaps'
      BY <1>3
    <2>8. "deadline" \notin publishMishaps' /\ box'.st # "none" =>
             \/ r.pc \in {"poll", "code"}
             \/ box.st # "none" /\ publish[t].pc \notin {"poll", "code"}
      BY <1>1, <1>2, <1>3, <2>1 DEF SiteTypes, Site!NoBox
    <2>9. Unhurt({"both", "sync", "quit"})' /\ url' /\ ~pages'.on =>
             \/ r.pc \in {"delete", "clear"}
             \/ url /\ ~pages.on /\ publish[t].pc \notin {"delete", "clear"}
      BY <1>1, <1>2, <1>3, <2>1 DEF SiteTypes, PublishFits, PublishShape, Unpublishing, Unhurt
    <2>10. Unhurt({"api", "deadline", "quit", "both", "sync"})' /\ pages'.on /\ ~url' =>
             \/ r.pc \in Hosting
             \/ pages.on /\ ~url /\ publish[t].pc \notin Hosting
      BY <1>1, <1>2, <1>3, <2>1 DEF SiteTypes, PublishFits, Unhurt, Hosting
    <2>11. publish[t].pc # "idle"
      BY <1>2
    <2>12. QED
      BY <2>1, <2>2, <2>3, <2>4, <2>5, <2>6, <2>7, <2>8, <2>9, <2>10, <2>11, OneMoves
  <1>4. CASE Site!Go(t, "again") /\ UNCHANGED pages
    <2>1. PICK r \in PublishStates :
             /\ publish' = [publish EXCEPT ![t] = r]
             /\ r.pc = "again" /\ r.tool = publish[t].tool /\ r.dir = publish[t].dir
             /\ r.pushed = publish[t].pushed /\ r.was = publish[t].was
      BY <1>1, <1>4, GoMoves DEF PublishLabels, Hosting, Unpublishing
    <2>2. SiteTypes' /\ pkg' = pkg
      BY <1>1, <1>4 DEF SiteTypes
    <2>3. NotNewer'
      BY <1>1, <1>4 DEF NotNewer, SiteTypes, Contents, Site!Nothing
    <2>4. SiteFits'
      BY <1>1, <1>2, <1>4 DEF SiteTypes, SiteFits, PublishShape, PublishFits, Unhurt, Hosting, Site!NoBox, Site!Nothing
    <2>5. PublishShape(r)
      BY <1>1, <1>2, <2>1 DEF PublishShape, Hosting, Unpublishing
    <2>6. PublishFits(r)'
      BY <1>1, <1>2, <1>4, <2>1 DEF SiteTypes, SiteFits, PublishShape, PublishFits, Unhurt, Hosting, Site!NoBox
    <2>7. \A m : m \in publishMishaps => m \in publishMishaps'
      BY <1>4
    <2>8. "deadline" \notin publishMishaps' /\ box'.st # "none" =>
             \/ r.pc \in {"poll", "code"}
             \/ box.st # "none" /\ publish[t].pc \notin {"poll", "code"}
      BY <1>1, <1>2, <1>4, <2>1 DEF SiteTypes, Site!NoBox
    <2>9. Unhurt({"both", "sync", "quit"})' /\ url' /\ ~pages'.on =>
             \/ r.pc \in {"delete", "clear"}
             \/ url /\ ~pages.on /\ publish[t].pc \notin {"delete", "clear"}
      BY <1>1, <1>2, <1>4, <2>1 DEF SiteTypes, PublishFits, PublishShape, Unpublishing, Unhurt
    <2>10. Unhurt({"api", "deadline", "quit", "both", "sync"})' /\ pages'.on /\ ~url' =>
             \/ r.pc \in Hosting
             \/ pages.on /\ ~url /\ publish[t].pc \notin Hosting
      BY <1>1, <1>2, <1>4, <2>1 DEF SiteTypes, PublishFits, Unhurt, Hosting
    <2>11. publish[t].pc # "idle"
      BY <1>2
    <2>12. QED
      BY <2>1, <2>2, <2>3, <2>4, <2>5, <2>6, <2>7, <2>8, <2>9, <2>10, <2>11, OneMoves
  <1>5. QED
    BY <1>3, <1>4

\* looked up again when that failed,
LEMMA SiteAgainKeeps ==
  ASSUME NEW t \in Publishers, SiteInv, Site!Again(t)
  PROVE  SiteInv'
  <1> USE DEF Site!Again, Site!Happen, Site!Fails
  <1>1. /\ SiteTypes /\ NotNewer /\ SiteFits /\ PublishShape(publish[t]) /\ PublishFits(publish[t])
        /\ publish \in [Publishers -> PublishStates] /\ publish[t] \in PublishStates
    BY DEF SiteInv, TasksFit
  <1>2. publish[t].pc = "again"
    BY DEF Site!On
  <1>3. CASE pages.on /\ Site!Go(t, "wait")
    <2>1. PICK r \in PublishStates :
             /\ publish' = [publish EXCEPT ![t] = r]
             /\ r.pc = "wait" /\ r.tool = publish[t].tool /\ r.dir = publish[t].dir
             /\ r.pushed = publish[t].pushed /\ r.was = publish[t].was
      BY <1>1, <1>3, GoMoves DEF PublishLabels, Hosting, Unpublishing
    <2>2. SiteTypes' /\ pkg' = pkg
      BY <1>1, <1>3 DEF SiteTypes
    <2>3. NotNewer'
      BY <1>1, <1>3 DEF NotNewer, SiteTypes, Contents, Site!Nothing
    <2>4. SiteFits'
      BY <1>1, <1>2, <1>3 DEF SiteTypes, SiteFits, PublishShape, PublishFits, Unhurt, Hosting, Site!NoBox, Site!Nothing
    <2>5. PublishShape(r)
      BY <1>1, <1>2, <2>1 DEF PublishShape, Hosting, Unpublishing
    <2>6. PublishFits(r)'
      BY <1>1, <1>2, <1>3, <2>1 DEF SiteTypes, SiteFits, PublishShape, PublishFits, Unhurt, Hosting, Site!NoBox
    <2>7. \A m : m \in publishMishaps => m \in publishMishaps'
      BY <1>3
    <2>8. "deadline" \notin publishMishaps' /\ box'.st # "none" =>
             \/ r.pc \in {"poll", "code"}
             \/ box.st # "none" /\ publish[t].pc \notin {"poll", "code"}
      BY <1>1, <1>2, <1>3, <2>1 DEF SiteTypes, Site!NoBox
    <2>9. Unhurt({"both", "sync", "quit"})' /\ url' /\ ~pages'.on =>
             \/ r.pc \in {"delete", "clear"}
             \/ url /\ ~pages.on /\ publish[t].pc \notin {"delete", "clear"}
      BY <1>1, <1>2, <1>3, <2>1 DEF SiteTypes, PublishFits, PublishShape, Unpublishing, Unhurt
    <2>10. Unhurt({"api", "deadline", "quit", "both", "sync"})' /\ pages'.on /\ ~url' =>
             \/ r.pc \in Hosting
             \/ pages.on /\ ~url /\ publish[t].pc \notin Hosting
      BY <1>1, <1>2, <1>3, <2>1 DEF SiteTypes, PublishFits, Unhurt, Hosting
    <2>11. publish[t].pc # "idle"
      BY <1>2
    <2>12. QED
      BY <2>1, <2>2, <2>3, <2>4, <2>5, <2>6, <2>7, <2>8, <2>9, <2>10, <2>11, OneMoves
  <1>4. CASE ~pages.on /\ Site!Done(t)
    <2>1. PICK r \in PublishStates :
             /\ publish' = [publish EXCEPT ![t] = r]
             /\ r.pc = "idle" /\ r.pushed = Site!Nothing
      BY <1>4, DoneMoves
    <2>2. SiteTypes' /\ pkg' = pkg
      BY <1>1, <1>4 DEF SiteTypes
    <2>3. NotNewer'
      BY <1>1, <1>4 DEF NotNewer, SiteTypes, Contents, Site!Nothing
    <2>4. SiteFits'
      BY <1>1, <1>2, <1>4 DEF SiteTypes, SiteFits, PublishShape, PublishFits, Unhurt, Hosting, Site!NoBox, Site!Nothing
    <2>5. PublishShape(r)
      BY <1>1, <1>2, <2>1 DEF PublishShape, Hosting, Unpublishing
    <2>6. PublishFits(r)'
      BY <1>1, <1>2, <1>4, <2>1 DEF SiteTypes, SiteFits, PublishShape, PublishFits, Unhurt, Hosting, Site!NoBox
    <2>7. \A m : m \in publishMishaps => m \in publishMishaps'
      BY <1>4
    <2>8. "deadline" \notin publishMishaps' /\ box'.st # "none" =>
             \/ r.pc \in {"poll", "code"}
             \/ box.st # "none" /\ publish[t].pc \notin {"poll", "code"}
      BY <1>1, <1>2, <1>4, <2>1 DEF SiteTypes, Site!NoBox
    <2>9. Unhurt({"both", "sync", "quit"})' /\ url' /\ ~pages'.on =>
             \/ r.pc \in {"delete", "clear"}
             \/ url /\ ~pages.on /\ publish[t].pc \notin {"delete", "clear"}
      BY <1>1, <1>2, <1>4, <2>1 DEF SiteTypes, PublishFits, PublishShape, Unpublishing, Unhurt
    <2>10. Unhurt({"api", "deadline", "quit", "both", "sync"})' /\ pages'.on /\ ~url' =>
             \/ r.pc \in Hosting
             \/ pages.on /\ ~url /\ publish[t].pc \notin Hosting
      BY <1>1, <1>2, <1>4, <2>1 DEF SiteTypes, PublishFits, Unhurt, Hosting
    <2>11. publish[t].pc # "idle"
      BY <1>2
    <2>12. QED
      BY <2>1, <2>2, <2>3, <2>4, <2>5, <2>6, <2>7, <2>8, <2>9, <2>10, <2>11, OneMoves
  <1>5. QED
    BY <1>3, <1>4

\* and waited for.  What is built is what is in the branch,
LEMMA SiteAwaitKeeps ==
  ASSUME NEW t \in Publishers, SiteInv, Site!Await(t)
  PROVE  SiteInv'
  <1> USE DEF Site!Await, Site!Happen, Site!Fails
  <1>1. /\ SiteTypes /\ NotNewer /\ SiteFits /\ PublishShape(publish[t]) /\ PublishFits(publish[t])
        /\ publish \in [Publishers -> PublishStates] /\ publish[t] \in PublishStates
    BY DEF SiteInv, TasksFit
  <1>2. publish[t].pc = "wait"
    BY DEF Site!On
  <1>3. CASE pages.on /\ pages.st = "built" /\ Site!Go(t, "persist") /\ UNCHANGED publishMishaps
    <2>1. PICK r \in PublishStates :
             /\ publish' = [publish EXCEPT ![t] = r]
             /\ r.pc = "persist" /\ r.tool = publish[t].tool /\ r.dir = publish[t].dir
             /\ r.pushed = publish[t].pushed /\ r.was = publish[t].was
      BY <1>1, <1>3, GoMoves DEF PublishLabels, Hosting, Unpublishing
    <2>2. SiteTypes' /\ pkg' = pkg
      BY <1>1, <1>3 DEF SiteTypes
    <2>3. NotNewer'
      BY <1>1, <1>3 DEF NotNewer, SiteTypes, Contents, Site!Nothing
    <2>4. SiteFits'
      BY <1>1, <1>2, <1>3 DEF SiteTypes, SiteFits, PublishShape, PublishFits, Unhurt, Hosting, Site!NoBox, Site!Nothing
    <2>5. PublishShape(r)
      BY <1>1, <1>2, <2>1 DEF PublishShape, Hosting, Unpublishing
    <2>6. PublishFits(r)'
      BY <1>1, <1>2, <1>3, <2>1 DEF SiteTypes, SiteFits, PublishShape, PublishFits, Unhurt, Hosting, Site!NoBox
    <2>7. \A m : m \in publishMishaps => m \in publishMishaps'
      BY <1>3
    <2>8. "deadline" \notin publishMishaps' /\ box'.st # "none" =>
             \/ r.pc \in {"poll", "code"}
             \/ box.st # "none" /\ publish[t].pc \notin {"poll", "code"}
      BY <1>1, <1>2, <1>3, <2>1 DEF SiteTypes, Site!NoBox
    <2>9. Unhurt({"both", "sync", "quit"})' /\ url' /\ ~pages'.on =>
             \/ r.pc \in {"delete", "clear"}
             \/ url /\ ~pages.on /\ publish[t].pc \notin {"delete", "clear"}
      BY <1>1, <1>2, <1>3, <2>1 DEF SiteTypes, PublishFits, PublishShape, Unpublishing, Unhurt
    <2>10. Unhurt({"api", "deadline", "quit", "both", "sync"})' /\ pages'.on /\ ~url' =>
             \/ r.pc \in Hosting
             \/ pages.on /\ ~url /\ publish[t].pc \notin Hosting
      BY <1>1, <1>2, <1>3, <2>1 DEF SiteTypes, PublishFits, Unhurt, Hosting
    <2>11. publish[t].pc # "idle"
      BY <1>2
    <2>12. QED
      BY <2>1, <2>2, <2>3, <2>4, <2>5, <2>6, <2>7, <2>8, <2>9, <2>10, <2>11, OneMoves
  <1>4. CASE Site!Go(t, "persist") /\ Site!Happen({"late"})
    <2>1. PICK r \in PublishStates :
             /\ publish' = [publish EXCEPT ![t] = r]
             /\ r.pc = "persist" /\ r.tool = publish[t].tool /\ r.dir = publish[t].dir
             /\ r.pushed = publish[t].pushed /\ r.was = publish[t].was
      BY <1>1, <1>4, GoMoves DEF PublishLabels, Hosting, Unpublishing
    <2>2. SiteTypes' /\ pkg' = pkg
      BY <1>1, <1>4 DEF SiteTypes
    <2>3. NotNewer'
      BY <1>1, <1>4 DEF NotNewer, SiteTypes, Contents, Site!Nothing
    <2>4. SiteFits'
      BY <1>1, <1>2, <1>4 DEF SiteTypes, SiteFits, PublishShape, PublishFits, Unhurt, Hosting, Site!NoBox, Site!Nothing
    <2>5. PublishShape(r)
      BY <1>1, <1>2, <2>1 DEF PublishShape, Hosting, Unpublishing
    <2>6. PublishFits(r)'
      BY <1>1, <1>2, <1>4, <2>1 DEF SiteTypes, SiteFits, PublishShape, PublishFits, Unhurt, Hosting, Site!NoBox
    <2>7. \A m : m \in publishMishaps => m \in publishMishaps'
      BY <1>4
    <2>8. "deadline" \notin publishMishaps' /\ box'.st # "none" =>
             \/ r.pc \in {"poll", "code"}
             \/ box.st # "none" /\ publish[t].pc \notin {"poll", "code"}
      BY <1>1, <1>2, <1>4, <2>1 DEF SiteTypes, Site!NoBox
    <2>9. Unhurt({"both", "sync", "quit"})' /\ url' /\ ~pages'.on =>
             \/ r.pc \in {"delete", "clear"}
             \/ url /\ ~pages.on /\ publish[t].pc \notin {"delete", "clear"}
      BY <1>1, <1>2, <1>4, <2>1 DEF SiteTypes, PublishFits, PublishShape, Unpublishing, Unhurt
    <2>10. Unhurt({"api", "deadline", "quit", "both", "sync"})' /\ pages'.on /\ ~url' =>
             \/ r.pc \in Hosting
             \/ pages.on /\ ~url /\ publish[t].pc \notin Hosting
      BY <1>1, <1>2, <1>4, <2>1 DEF SiteTypes, PublishFits, Unhurt, Hosting
    <2>11. publish[t].pc # "idle"
      BY <1>2
    <2>12. QED
      BY <2>1, <2>2, <2>3, <2>4, <2>5, <2>6, <2>7, <2>8, <2>9, <2>10, <2>11, OneMoves
  <1>5. CASE Site!Fails(t)
    <2>1. PICK r \in PublishStates :
             /\ publish' = [publish EXCEPT ![t] = r]
             /\ r.pc = "idle" /\ r.pushed = Site!Nothing
      BY <1>5, DoneMoves
    <2>2. SiteTypes' /\ pkg' = pkg
      BY <1>1, <1>5 DEF SiteTypes
    <2>3. NotNewer'
      BY <1>1, <1>5 DEF NotNewer, SiteTypes, Contents, Site!Nothing
    <2>4. SiteFits'
      BY <1>1, <1>2, <1>5 DEF SiteTypes, SiteFits, PublishShape, PublishFits, Unhurt, Hosting, Site!NoBox, Site!Nothing
    <2>5. PublishShape(r)
      BY <1>1, <1>2, <2>1 DEF PublishShape, Hosting, Unpublishing
    <2>6. PublishFits(r)'
      BY <1>1, <1>2, <1>5, <2>1 DEF SiteTypes, SiteFits, PublishShape, PublishFits, Unhurt, Hosting, Site!NoBox
    <2>7. \A m : m \in publishMishaps => m \in publishMishaps'
      BY <1>5
    <2>8. "deadline" \notin publishMishaps' /\ box'.st # "none" =>
             \/ r.pc \in {"poll", "code"}
             \/ box.st # "none" /\ publish[t].pc \notin {"poll", "code"}
      BY <1>1, <1>2, <1>5, <2>1 DEF SiteTypes, Site!NoBox
    <2>9. Unhurt({"both", "sync", "quit"})' /\ url' /\ ~pages'.on =>
             \/ r.pc \in {"delete", "clear"}
             \/ url /\ ~pages.on /\ publish[t].pc \notin {"delete", "clear"}
      BY <1>1, <1>2, <1>5, <2>1 DEF SiteTypes, PublishFits, PublishShape, Unpublishing, Unhurt
    <2>10. Unhurt({"api", "deadline", "quit", "both", "sync"})' /\ pages'.on /\ ~url' =>
             \/ r.pc \in Hosting
             \/ pages.on /\ ~url /\ publish[t].pc \notin Hosting
      BY <1>1, <1>2, <1>5, <2>1 DEF SiteTypes, PublishFits, Unhurt, Hosting
    <2>11. publish[t].pc # "idle"
      BY <1>2
    <2>12. QED
      BY <2>1, <2>2, <2>3, <2>4, <2>5, <2>6, <2>7, <2>8, <2>9, <2>10, <2>11, OneMoves
  <1>6. QED
    BY <1>3, <1>4, <1>5

\* so that what is told to be live is what was pushed.
LEMMA SitePersistKeeps ==
  ASSUME NEW t \in Publishers, SiteInv, Site!Persist(t)
  PROVE  SiteInv'
  <1> USE DEF Site!Persist, Site!Happen, Site!Fails
  <1>1. /\ SiteTypes /\ NotNewer /\ SiteFits /\ PublishShape(publish[t]) /\ PublishFits(publish[t])
        /\ publish \in [Publishers -> PublishStates] /\ publish[t] \in PublishStates
    BY DEF SiteInv, TasksFit
  <1>2. publish[t].pc = "persist"
    BY DEF Site!On
  <1>3. CASE Site!Done(t)
    <2>1. PICK r \in PublishStates :
             /\ publish' = [publish EXCEPT ![t] = r]
             /\ r.pc = "idle" /\ r.pushed = Site!Nothing
      BY <1>3, DoneMoves
    <2>2. SiteTypes' /\ pkg' = pkg
      BY <1>1, <1>3 DEF SiteTypes
    <2>3. NotNewer'
      BY <1>1, <1>3 DEF NotNewer, SiteTypes, Contents, Site!Nothing
    <2>4. SiteFits'
      <3>1. UNCHANGED <<pkg, out, box, branch, pages, publishMishaps>>
        BY <1>3
      <3>2. said' = said \cup {[pushed |-> publish[t].pushed, live |-> pages.live, was |-> publish[t].was]}
        BY <1>3
      <3>3. Unhurt({"late", "both"}) => publish[t].was \/ pages.live = publish[t].pushed
        BY <1>1, <1>2 DEF PublishFits, Unhurt, Hosting
      <3>4. Unhurt({"late", "both"}) => \A a \in said' : a.was \/ a.live = a.pushed
        BY <1>1, <3>2, <3>3 DEF SiteFits
      <3>5. QED
        BY <1>1, <3>1, <3>4 DEF SiteFits, Unhurt
    <2>5. PublishShape(r)
      BY <1>1, <1>2, <2>1 DEF PublishShape, Hosting, Unpublishing
    <2>6. PublishFits(r)'
      BY <1>1, <1>2, <1>3, <2>1 DEF SiteTypes, SiteFits, PublishShape, PublishFits, Unhurt, Hosting, Site!NoBox
    <2>7. \A m : m \in publishMishaps => m \in publishMishaps'
      BY <1>3
    <2>8. "deadline" \notin publishMishaps' /\ box'.st # "none" =>
             \/ r.pc \in {"poll", "code"}
             \/ box.st # "none" /\ publish[t].pc \notin {"poll", "code"}
      BY <1>1, <1>2, <1>3, <2>1 DEF SiteTypes, Site!NoBox
    <2>9. Unhurt({"both", "sync", "quit"})' /\ url' /\ ~pages'.on =>
             \/ r.pc \in {"delete", "clear"}
             \/ url /\ ~pages.on /\ publish[t].pc \notin {"delete", "clear"}
      BY <1>1, <1>2, <1>3, <2>1 DEF SiteTypes, PublishFits, PublishShape, Unpublishing, Unhurt
    <2>10. Unhurt({"api", "deadline", "quit", "both", "sync"})' /\ pages'.on /\ ~url' =>
             \/ r.pc \in Hosting
             \/ pages.on /\ ~url /\ publish[t].pc \notin Hosting
      BY <1>1, <1>2, <1>3, <2>1 DEF SiteTypes, PublishFits, Unhurt, Hosting
    <2>11. publish[t].pc # "idle"
      BY <1>2
    <2>12. QED
      BY <2>1, <2>2, <2>3, <2>4, <2>5, <2>6, <2>7, <2>8, <2>9, <2>10, <2>11, OneMoves
  <1>4. QED
    BY <1>3

\* Unpublish switches the site off,
LEMMA SiteDisableKeeps ==
  ASSUME NEW t \in Publishers, SiteInv, Site!Disable(t)
  PROVE  SiteInv'
  <1> USE DEF Site!Disable, Site!Happen, Site!Fails
  <1>1. /\ SiteTypes /\ NotNewer /\ SiteFits /\ PublishShape(publish[t]) /\ PublishFits(publish[t])
        /\ publish \in [Publishers -> PublishStates] /\ publish[t] \in PublishStates
    BY DEF SiteInv, TasksFit
  <1>2. publish[t].pc = "disable"
    BY DEF Site!On
  <1>3. CASE Site!Go(t, "delete") /\ pages' = [on |-> FALSE, live |-> Site!Nothing, st |-> "built"] /\ UNCHANGED publishMishaps
    <2>1. PICK r \in PublishStates :
             /\ publish' = [publish EXCEPT ![t] = r]
             /\ r.pc = "delete" /\ r.tool = publish[t].tool /\ r.dir = publish[t].dir
             /\ r.pushed = publish[t].pushed /\ r.was = publish[t].was
      BY <1>1, <1>3, GoMoves DEF PublishLabels, Hosting, Unpublishing
    <2>2. SiteTypes' /\ pkg' = pkg
      BY <1>1, <1>3 DEF SiteTypes, Contents, Site!NoBox, Site!Nothing, PublishStates
    <2>3. NotNewer'
      <3>1. pages'.live.v = 0 /\ out' = out /\ branch' = branch /\ src' = src /\ src \in Nat
        BY <1>1, <1>3 DEF SiteTypes, Site!Nothing
      <3>2. QED
        BY <1>1, <3>1 DEF NotNewer
    <2>4. SiteFits'
      BY <1>1, <1>2, <1>3 DEF SiteTypes, SiteFits, PublishShape, PublishFits, Unhurt, Hosting, Site!NoBox, Site!Nothing
    <2>5. PublishShape(r)
      BY <1>1, <1>2, <2>1 DEF PublishShape, Hosting, Unpublishing
    <2>6. PublishFits(r)'
      BY <1>1, <1>2, <1>3, <2>1 DEF SiteTypes, SiteFits, PublishShape, PublishFits, Unhurt, Hosting, Site!NoBox
    <2>7. \A m : m \in publishMishaps => m \in publishMishaps'
      BY <1>3
    <2>8. "deadline" \notin publishMishaps' /\ box'.st # "none" =>
             \/ r.pc \in {"poll", "code"}
             \/ box.st # "none" /\ publish[t].pc \notin {"poll", "code"}
      BY <1>1, <1>2, <1>3, <2>1 DEF SiteTypes, Site!NoBox
    <2>9. Unhurt({"both", "sync", "quit"})' /\ url' /\ ~pages'.on =>
             \/ r.pc \in {"delete", "clear"}
             \/ url /\ ~pages.on /\ publish[t].pc \notin {"delete", "clear"}
      BY <1>1, <1>2, <1>3, <2>1 DEF SiteTypes, PublishFits, PublishShape, Unpublishing, Unhurt
    <2>10. Unhurt({"api", "deadline", "quit", "both", "sync"})' /\ pages'.on /\ ~url' =>
             \/ r.pc \in Hosting
             \/ pages.on /\ ~url /\ publish[t].pc \notin Hosting
      BY <1>1, <1>2, <1>3, <2>1 DEF SiteTypes, PublishFits, Unhurt, Hosting
    <2>11. publish[t].pc # "idle"
      BY <1>2
    <2>12. QED
      BY <2>1, <2>2, <2>3, <2>4, <2>5, <2>6, <2>7, <2>8, <2>9, <2>10, <2>11, OneMoves
  <1>4. CASE Site!Go(t, "delete") /\ Site!Happen({"api"}) /\ UNCHANGED pages
    <2>1. PICK r \in PublishStates :
             /\ publish' = [publish EXCEPT ![t] = r]
             /\ r.pc = "delete" /\ r.tool = publish[t].tool /\ r.dir = publish[t].dir
             /\ r.pushed = publish[t].pushed /\ r.was = publish[t].was
      BY <1>1, <1>4, GoMoves DEF PublishLabels, Hosting, Unpublishing
    <2>2. SiteTypes' /\ pkg' = pkg
      <3>1. UNCHANGED <<pkg, src, out, box, branch, pages, url, snap>>
        BY <1>4
      <3>2. QED
        BY <1>1, <3>1 DEF SiteTypes, Contents
    <2>3. NotNewer'
      BY <1>1, <1>4 DEF NotNewer, SiteTypes, Contents, Site!Nothing
    <2>4. SiteFits'
      BY <1>1, <1>2, <1>4 DEF SiteTypes, SiteFits, PublishShape, PublishFits, Unhurt, Hosting, Site!NoBox, Site!Nothing
    <2>5. PublishShape(r)
      BY <1>1, <1>2, <2>1 DEF PublishShape, Hosting, Unpublishing
    <2>6. PublishFits(r)'
      BY <1>1, <1>2, <1>4, <2>1 DEF SiteTypes, SiteFits, PublishShape, PublishFits, Unhurt, Hosting, Site!NoBox
    <2>7. \A m : m \in publishMishaps => m \in publishMishaps'
      BY <1>4
    <2>8. "deadline" \notin publishMishaps' /\ box'.st # "none" =>
             \/ r.pc \in {"poll", "code"}
             \/ box.st # "none" /\ publish[t].pc \notin {"poll", "code"}
      BY <1>1, <1>2, <1>4, <2>1 DEF SiteTypes, Site!NoBox
    <2>9. Unhurt({"both", "sync", "quit"})' /\ url' /\ ~pages'.on =>
             \/ r.pc \in {"delete", "clear"}
             \/ url /\ ~pages.on /\ publish[t].pc \notin {"delete", "clear"}
      BY <1>1, <1>2, <1>4, <2>1 DEF SiteTypes, PublishFits, PublishShape, Unpublishing, Unhurt
    <2>10. Unhurt({"api", "deadline", "quit", "both", "sync"})' /\ pages'.on /\ ~url' =>
             \/ r.pc \in Hosting
             \/ pages.on /\ ~url /\ publish[t].pc \notin Hosting
      BY <1>1, <1>2, <1>4, <2>1 DEF SiteTypes, PublishFits, Unhurt, Hosting
    <2>11. publish[t].pc # "idle"
      BY <1>2
    <2>12. QED
      BY <2>1, <2>2, <2>3, <2>4, <2>5, <2>6, <2>7, <2>8, <2>9, <2>10, <2>11, OneMoves
  <1>5. QED
    BY <1>3, <1>4

\* deletes the branch,
LEMMA SiteDeleteKeeps ==
  ASSUME NEW t \in Publishers, SiteInv, Site!Delete(t)
  PROVE  SiteInv'
  <1> USE DEF Site!Delete, Site!Happen, Site!Fails
  <1>1. /\ SiteTypes /\ NotNewer /\ SiteFits /\ PublishShape(publish[t]) /\ PublishFits(publish[t])
        /\ publish \in [Publishers -> PublishStates] /\ publish[t] \in PublishStates
    BY DEF SiteInv, TasksFit
  <1>2. publish[t].pc = "delete"
    BY DEF Site!On
  <1>3. CASE Site!Go(t, "clear") /\ branch' = Site!Nothing /\ UNCHANGED publishMishaps
    <2>1. PICK r \in PublishStates :
             /\ publish' = [publish EXCEPT ![t] = r]
             /\ r.pc = "clear" /\ r.tool = publish[t].tool /\ r.dir = publish[t].dir
             /\ r.pushed = publish[t].pushed /\ r.was = publish[t].was
      BY <1>1, <1>3, GoMoves DEF PublishLabels, Hosting, Unpublishing
    <2>2. SiteTypes' /\ pkg' = pkg
      <3>1. branch' \in Contents
        BY <1>3 DEF Site!Nothing, Contents
      <3>2. QED
        BY <1>1, <1>3, <3>1 DEF SiteTypes
    <2>3. NotNewer'
      <3>1. branch'.v = 0 /\ out' = out /\ pages' = pages /\ src' = src /\ src \in Nat
        BY <1>1, <1>3 DEF SiteTypes, Site!Nothing
      <3>2. QED
        BY <1>1, <3>1 DEF NotNewer
    <2>4. SiteFits'
      BY <1>1, <1>2, <1>3 DEF SiteTypes, SiteFits, PublishShape, PublishFits, Unhurt, Hosting, Site!NoBox, Site!Nothing
    <2>5. PublishShape(r)
      BY <1>1, <1>2, <2>1 DEF PublishShape, Hosting, Unpublishing
    <2>6. PublishFits(r)'
      BY <1>1, <1>2, <1>3, <2>1 DEF SiteTypes, SiteFits, PublishShape, PublishFits, Unhurt, Hosting, Site!NoBox
    <2>7. \A m : m \in publishMishaps => m \in publishMishaps'
      BY <1>3
    <2>8. "deadline" \notin publishMishaps' /\ box'.st # "none" =>
             \/ r.pc \in {"poll", "code"}
             \/ box.st # "none" /\ publish[t].pc \notin {"poll", "code"}
      BY <1>1, <1>2, <1>3, <2>1 DEF SiteTypes, Site!NoBox
    <2>9. Unhurt({"both", "sync", "quit"})' /\ url' /\ ~pages'.on =>
             \/ r.pc \in {"delete", "clear"}
             \/ url /\ ~pages.on /\ publish[t].pc \notin {"delete", "clear"}
      BY <1>1, <1>2, <1>3, <2>1 DEF SiteTypes, PublishFits, PublishShape, Unpublishing, Unhurt
    <2>10. Unhurt({"api", "deadline", "quit", "both", "sync"})' /\ pages'.on /\ ~url' =>
             \/ r.pc \in Hosting
             \/ pages.on /\ ~url /\ publish[t].pc \notin Hosting
      BY <1>1, <1>2, <1>3, <2>1 DEF SiteTypes, PublishFits, Unhurt, Hosting
    <2>11. publish[t].pc # "idle"
      BY <1>2
    <2>12. QED
      BY <2>1, <2>2, <2>3, <2>4, <2>5, <2>6, <2>7, <2>8, <2>9, <2>10, <2>11, OneMoves
  <1>4. CASE Site!Go(t, "clear") /\ Site!Happen({"api"}) /\ UNCHANGED branch
    <2>1. PICK r \in PublishStates :
             /\ publish' = [publish EXCEPT ![t] = r]
             /\ r.pc = "clear" /\ r.tool = publish[t].tool /\ r.dir = publish[t].dir
             /\ r.pushed = publish[t].pushed /\ r.was = publish[t].was
      BY <1>1, <1>4, GoMoves DEF PublishLabels, Hosting, Unpublishing
    <2>2. SiteTypes' /\ pkg' = pkg
      BY <1>1, <1>4 DEF SiteTypes
    <2>3. NotNewer'
      BY <1>1, <1>4 DEF NotNewer, SiteTypes, Contents, Site!Nothing
    <2>4. SiteFits'
      BY <1>1, <1>2, <1>4 DEF SiteTypes, SiteFits, PublishShape, PublishFits, Unhurt, Hosting, Site!NoBox, Site!Nothing
    <2>5. PublishShape(r)
      BY <1>1, <1>2, <2>1 DEF PublishShape, Hosting, Unpublishing
    <2>6. PublishFits(r)'
      BY <1>1, <1>2, <1>4, <2>1 DEF SiteTypes, SiteFits, PublishShape, PublishFits, Unhurt, Hosting, Site!NoBox
    <2>7. \A m : m \in publishMishaps => m \in publishMishaps'
      BY <1>4
    <2>8. "deadline" \notin publishMishaps' /\ box'.st # "none" =>
             \/ r.pc \in {"poll", "code"}
             \/ box.st # "none" /\ publish[t].pc \notin {"poll", "code"}
      BY <1>1, <1>2, <1>4, <2>1 DEF SiteTypes, Site!NoBox
    <2>9. Unhurt({"both", "sync", "quit"})' /\ url' /\ ~pages'.on =>
             \/ r.pc \in {"delete", "clear"}
             \/ url /\ ~pages.on /\ publish[t].pc \notin {"delete", "clear"}
      BY <1>1, <1>2, <1>4, <2>1 DEF SiteTypes, PublishFits, PublishShape, Unpublishing, Unhurt
    <2>10. Unhurt({"api", "deadline", "quit", "both", "sync"})' /\ pages'.on /\ ~url' =>
             \/ r.pc \in Hosting
             \/ pages.on /\ ~url /\ publish[t].pc \notin Hosting
      BY <1>1, <1>2, <1>4, <2>1 DEF SiteTypes, PublishFits, Unhurt, Hosting
    <2>11. publish[t].pc # "idle"
      BY <1>2
    <2>12. QED
      BY <2>1, <2>2, <2>3, <2>4, <2>5, <2>6, <2>7, <2>8, <2>9, <2>10, <2>11, OneMoves
  <1>5. QED
    BY <1>3, <1>4

\* and takes the address out of the record last.
LEMMA SiteClearKeeps ==
  ASSUME NEW t \in Publishers, SiteInv, Site!Clear(t)
  PROVE  SiteInv'
  <1> USE DEF Site!Clear, Site!Happen, Site!Fails
  <1>1. /\ SiteTypes /\ NotNewer /\ SiteFits /\ PublishShape(publish[t]) /\ PublishFits(publish[t])
        /\ publish \in [Publishers -> PublishStates] /\ publish[t] \in PublishStates
    BY DEF SiteInv, TasksFit
  <1>2. publish[t].pc = "clear"
    BY DEF Site!On
  <1>3. CASE Site!Done(t)
    <2>1. PICK r \in PublishStates :
             /\ publish' = [publish EXCEPT ![t] = r]
             /\ r.pc = "idle" /\ r.pushed = Site!Nothing
      BY <1>3, DoneMoves
    <2>2. SiteTypes' /\ pkg' = pkg
      BY <1>1, <1>3 DEF SiteTypes
    <2>3. NotNewer'
      BY <1>1, <1>3 DEF NotNewer, SiteTypes, Contents, Site!Nothing
    <2>4. SiteFits'
      BY <1>1, <1>2, <1>3 DEF SiteTypes, SiteFits, PublishShape, PublishFits, Unhurt, Hosting, Site!NoBox, Site!Nothing
    <2>5. PublishShape(r)
      BY <1>1, <1>2, <2>1 DEF PublishShape, Hosting, Unpublishing
    <2>6. PublishFits(r)'
      BY <1>1, <1>2, <1>3, <2>1 DEF SiteTypes, SiteFits, PublishShape, PublishFits, Unhurt, Hosting, Site!NoBox
    <2>7. \A m : m \in publishMishaps => m \in publishMishaps'
      BY <1>3
    <2>8. "deadline" \notin publishMishaps' /\ box'.st # "none" =>
             \/ r.pc \in {"poll", "code"}
             \/ box.st # "none" /\ publish[t].pc \notin {"poll", "code"}
      BY <1>1, <1>2, <1>3, <2>1 DEF SiteTypes, Site!NoBox
    <2>9. Unhurt({"both", "sync", "quit"})' /\ url' /\ ~pages'.on =>
             \/ r.pc \in {"delete", "clear"}
             \/ url /\ ~pages.on /\ publish[t].pc \notin {"delete", "clear"}
      BY <1>1, <1>2, <1>3, <2>1 DEF SiteTypes, PublishFits, PublishShape, Unpublishing, Unhurt
    <2>10. Unhurt({"api", "deadline", "quit", "both", "sync"})' /\ pages'.on /\ ~url' =>
             \/ r.pc \in Hosting
             \/ pages.on /\ ~url /\ publish[t].pc \notin Hosting
      BY <1>1, <1>2, <1>3, <2>1 DEF SiteTypes, PublishFits, Unhurt, Hosting
    <2>11. publish[t].pc # "idle"
      BY <1>2
    <2>12. QED
      BY <2>1, <2>2, <2>3, <2>4, <2>5, <2>6, <2>7, <2>8, <2>9, <2>10, <2>11, OneMoves
  <1>4. QED
    BY <1>3

\* A tool that is dropped may leave anything half-way; that is a mishap.
LEMMA SiteDeadlineKeeps ==
  ASSUME NEW t \in Publishers, SiteInv, Site!Deadline(t)
  PROVE  SiteInv'
  <1> USE DEF Site!Deadline, Site!Happen, Site!Fails
  <1>1. /\ SiteTypes /\ NotNewer /\ SiteFits /\ PublishShape(publish[t]) /\ PublishFits(publish[t])
        /\ publish \in [Publishers -> PublishStates] /\ publish[t] \in PublishStates
    BY DEF SiteInv, TasksFit
  <1>2. publish[t].tool /\ publish[t].pc \notin {"idle", "detect"}
    OBVIOUS
  <1>3. CASE Site!Done(t) /\ Site!Happen({"deadline"})
    <2>1. PICK r \in PublishStates :
             /\ publish' = [publish EXCEPT ![t] = r]
             /\ r.pc = "idle" /\ r.pushed = Site!Nothing
      BY <1>3, DoneMoves
    <2>2. SiteTypes' /\ pkg' = pkg
      BY <1>1, <1>3 DEF SiteTypes
    <2>3. NotNewer'
      BY <1>1, <1>3 DEF NotNewer, SiteTypes, Contents, Site!Nothing
    <2>4. SiteFits'
      BY <1>1, <1>2, <1>3 DEF SiteTypes, SiteFits, PublishShape, PublishFits, Unhurt, Hosting, Site!NoBox, Site!Nothing
    <2>5. PublishShape(r)
      BY <1>1, <1>2, <2>1 DEF PublishShape, Hosting, Unpublishing
    <2>6. PublishFits(r)'
      BY <1>1, <1>2, <1>3, <2>1 DEF SiteTypes, SiteFits, PublishShape, PublishFits, Unhurt, Hosting, Site!NoBox
    <2>7. \A m : m \in publishMishaps => m \in publishMishaps'
      BY <1>3
    <2>8. "deadline" \notin publishMishaps' /\ box'.st # "none" =>
             \/ r.pc \in {"poll", "code"}
             \/ box.st # "none" /\ publish[t].pc \notin {"poll", "code"}
      BY <1>1, <1>2, <1>3, <2>1 DEF SiteTypes, Site!NoBox
    <2>9. Unhurt({"both", "sync", "quit"})' /\ url' /\ ~pages'.on =>
             \/ r.pc \in {"delete", "clear"}
             \/ url /\ ~pages.on /\ publish[t].pc \notin {"delete", "clear"}
      BY <1>1, <1>2, <1>3, <2>1 DEF SiteTypes, PublishFits, PublishShape, Unpublishing, Unhurt
    <2>10. Unhurt({"api", "deadline", "quit", "both", "sync"})' /\ pages'.on /\ ~url' =>
             \/ r.pc \in Hosting
             \/ pages.on /\ ~url /\ publish[t].pc \notin Hosting
      BY <1>1, <1>2, <1>3, <2>1 DEF SiteTypes, PublishFits, Unhurt, Hosting
    <2>11. publish[t].pc # "idle"
      BY <1>2
    <2>12. QED
      BY <2>1, <2>2, <2>3, <2>4, <2>5, <2>6, <2>7, <2>8, <2>9, <2>10, <2>11, OneMoves
  <1>4. QED
    BY <1>3

\* A task begins; beside another it is a mishap.
LEMMA BeginKeepsSite ==
  ASSUME NEW t \in Publishers, SiteInv, NEW c \in PublishStates, Site!Begin(t, c),
         c.pc \in {"detect", "disable"}, c.pushed = Site!Nothing, c.pc = "disable" => ~c.tool
  PROVE  SiteInv'
  <1>1. /\ publish' = [publish EXCEPT ![t] = c] /\ publish[t].pc = "idle"
        /\ UNCHANGED <<pkg, src, out, box, branch, pages, url, snap, said>>
        /\ \A m : m \in publishMishaps => m \in publishMishaps'
        /\ "both" \in publishMishaps' \/ \A u \in Publishers : publish[u].pc = "idle"
    BY DEF Site!Begin, Site!Happen, Site!On
  <1>2. SiteTypes' /\ NotNewer'
    <2>1. SiteTypes'
      BY <1>1 DEF SiteInv, SiteTypes
    <2>2. NotNewer'
      BY <1>1 DEF SiteInv, NotNewer
    <2>3. QED
      BY <2>1, <2>2
  <1>3. SiteFits'
    BY <1>1 DEF SiteInv, SiteFits, Unhurt
  <1>4. PublishShape(c) /\ PublishFits(c)'
    BY DEF PublishShape, PublishFits, Hosting, Unpublishing
  <1>5. Unhurt({"both", "sync", "quit"})' /\ url' /\ ~pages'.on => url /\ ~pages.on
    BY <1>1
  <1>6. Unhurt({"api", "deadline", "quit", "both", "sync"})' /\ pages'.on /\ ~url' => pages.on /\ ~url
    BY <1>1
  <1>7. QED
    BY <1>1, <1>2, <1>3, <1>4, <1>5, <1>6, OneMoves DEF Hosting

\* A publish begins with nothing pushed,
LEMMA SiteAskKeeps ==
  ASSUME NEW t \in Publishers, SiteInv, Site!Ask(t)
  PROVE  SiteInv'
  <1>1. PICK tool \in BOOLEAN : Site!Begin(t, [Site!Idle EXCEPT !.pc = "detect", !.tool = tool])
    BY DEF Site!Ask
  <1> DEFINE c == [Site!Idle EXCEPT !.pc = "detect", !.tool = tool]
  <1>2. Site!Nothing \in Contents
    BY DEF Site!Nothing, Contents
  <1>3. Site!Idle \in PublishStates /\ Site!Idle.pushed = Site!Nothing
    BY <1>2 DEF Site!Idle, PublishStates, PublishLabels, Site!Dirs
  <1>4. c \in PublishStates /\ c.pc = "detect" /\ c.pushed = Site!Nothing
    BY <1>3 DEF PublishStates, PublishLabels
  <1> HIDE DEF c
  <1>5. QED
    BY <1>1, <1>4, BeginKeepsSite DEF c

\* and so does an unpublish.
LEMMA SiteUnpublishKeeps ==
  ASSUME NEW t \in Publishers, SiteInv, Site!Unpublish(t)
  PROVE  SiteInv'
  <1> DEFINE c == [Site!Idle EXCEPT !.pc = "disable"]
  <1>1. Site!Begin(t, c)
    BY DEF Site!Unpublish
  <1>2. Site!Nothing \in Contents
    BY DEF Site!Nothing, Contents
  <1>3. Site!Idle \in PublishStates /\ Site!Idle.pushed = Site!Nothing /\ ~Site!Idle.tool
    BY <1>2 DEF Site!Idle, PublishStates, PublishLabels, Site!Dirs
  <1>4. c \in PublishStates /\ c.pc = "disable" /\ c.pushed = Site!Nothing /\ ~c.tool
    BY <1>3 DEF PublishStates, PublishLabels, Unpublishing
  <1> HIDE DEF c
  <1>5. QED
    BY <1>1, <1>4, BeginKeepsSite

\* The framework says which directory is built to.
LEMMA SitePrepareKeeps ==
  ASSUME NEW t \in Publishers, SiteInv, Site!Prepare(t)
  PROVE  SiteInv'
  <1>1. /\ SiteTypes /\ NotNewer /\ SiteFits /\ PublishShape(publish[t])
        /\ publish \in [Publishers -> PublishStates] /\ publish[t] \in PublishStates
    BY DEF SiteInv, TasksFit
  <1>2. /\ publish[t].pc = "detect"
        /\ UNCHANGED <<pkg, src, out, box, branch, pages, url, snap, said, publishMishaps>>
    BY DEF Site!Prepare, Site!On
  <1>3. PICK r \in PublishStates :
          /\ publish' = [publish EXCEPT ![t] = r]
          /\ r.pc \in {"idle", "start"} /\ r.pushed = Site!Nothing
          /\ r.pc = "start" => r.dir = Site!Detect(pkg).dir
    <2>1. CASE Site!Done(t)
      BY <2>1, DoneMoves
    <2>2. CASE Site!Detect(pkg).ok /\ publish' = [publish EXCEPT ![t].pc = "start", ![t].dir = Site!Detect(pkg).dir]
      <3> DEFINE r == [publish[t] EXCEPT !.pc = "start", !.dir = Site!Detect(pkg).dir]
      <3>1. Site!Detect(pkg).dir \in Site!Dirs
        BY <1>1, DetectsDir DEF SiteTypes
      <3>2. r \in PublishStates /\ r.pc = "start" /\ r.dir = Site!Detect(pkg).dir /\ r.pushed = publish[t].pushed
        BY <1>1, <3>1 DEF PublishStates, PublishLabels
      <3>3. publish[t].pushed = Site!Nothing
        BY <1>1, <1>2 DEF PublishShape, Hosting
      <3>4. publish' = [publish EXCEPT ![t] = r]
        BY <2>2
      <3>5. QED
        BY <3>2, <3>3, <3>4
    <2>3. QED
      BY <2>1, <2>2 DEF Site!Prepare
  <1>4. SiteTypes' /\ NotNewer'
    <2>1. SiteTypes'
      BY <1>1, <1>2 DEF SiteTypes
    <2>2. NotNewer'
      BY <1>1, <1>2 DEF NotNewer
    <2>3. QED
      BY <2>1, <2>2
  <1>5. SiteFits'
    BY <1>1, <1>2 DEF SiteFits, Unhurt
  <1>6. PublishShape(r) /\ PublishFits(r)'
    BY <1>2, <1>3 DEF PublishShape, PublishFits, Hosting, Unpublishing
  <1>7. publish[t].pc \notin {"poll", "code", "delete", "clear", "idle"} \cup Hosting
    BY <1>2 DEF Hosting
  <1>8. QED
    BY <1>2, <1>3, <1>4, <1>5, <1>6, <1>7, OneMoves DEF Unhurt

\* What is pushed is whole; a site that was off is to be built from it.
LEMMA SitePushKeeps ==
  ASSUME NEW t \in Publishers, SiteInv, Site!Push(t)
  PROVE  SiteInv'
  <1>1. /\ SiteTypes /\ NotNewer /\ SiteFits /\ PublishShape(publish[t]) /\ PublishFits(publish[t])
        /\ publish \in [Publishers -> PublishStates] /\ publish[t] \in PublishStates
    BY DEF SiteInv, TasksFit
  <1>2. /\ publish[t].pc = "push" /\ publish[t].dir \in Site!Dirs
        /\ UNCHANGED <<pkg, src, out, box, url, snap, said, publishMishaps>>
    BY <1>1 DEF Site!Push, Site!On, PublishStates
  <1>3. CASE Site!Done(t) /\ UNCHANGED <<branch, pages>>
    <2>1. PICK r \in PublishStates :
             publish' = [publish EXCEPT ![t] = r] /\ r.pc = "idle" /\ r.pushed = Site!Nothing
      BY <1>3, DoneMoves
    <2>2. SiteTypes' /\ NotNewer' /\ SiteFits'
      <3>1. SiteTypes'
        BY <1>1, <1>2, <1>3 DEF SiteTypes
      <3>2. NotNewer' /\ SiteFits'
        BY <1>1, <1>2, <1>3 DEF NotNewer, SiteFits, Unhurt
      <3>3. QED
        BY <3>1, <3>2
    <2>3. PublishShape(r) /\ PublishFits(r)'
      BY <2>1 DEF PublishShape, PublishFits, Hosting, Unpublishing
    <2>4. publish[t].pc \notin {"poll", "code", "delete", "clear", "idle"} \cup Hosting
      BY <1>2 DEF Hosting
    <2>5. QED
      BY <1>2, <1>3, <2>1, <2>2, <2>3, <2>4, OneMoves DEF Unhurt
  <1> DEFINE c == out[publish[t].dir]
             r == [publish[t] EXCEPT !.pc = "enable", !.pushed = c, !.was = pages.on]
  <1>4. CASE /\ c # Site!Nothing /\ branch' = c
             /\ publish' = [publish EXCEPT ![t].pc = "enable", ![t].pushed = c, ![t].was = pages.on]
             /\ \E on \in {pages.on, TRUE} :
                  pages' = [pages EXCEPT !.on = on, !.st = IF on # pages.on THEN "building" ELSE @]
    <2>1. c \in Contents /\ c.v <= src /\ pages.on \in BOOLEAN
      BY <1>1, <1>2 DEF SiteTypes, NotNewer
    <2>2. /\ r \in PublishStates /\ r.pc = "enable" /\ r.pushed = c /\ r.was = pages.on /\ r.tool = publish[t].tool
          /\ publish' = [publish EXCEPT ![t] = r]
      BY <1>1, <1>4, <2>1 DEF PublishStates, PublishLabels, Hosting
    <2>3. /\ pages' \in [on : BOOLEAN, live : Contents, st : {"built", "building"}] /\ pages'.live = pages.live
          /\ pages'.on # pages.on => pages'.on /\ pages'.st = "building"
      BY <1>1, <1>4, <2>1 DEF SiteTypes
    <2>4. PICK q \in PublishStates : q = r /\ publish' = [publish EXCEPT ![t] = q]
      BY <2>2
    <2> HIDE DEF r
    <2>5. q.pc = "enable" /\ q.pushed = branch' /\ q.was = pages.on /\ branch' # Site!Nothing
      BY <1>4, <2>2, <2>4
    <2>6. SiteTypes' /\ NotNewer'
      BY <1>1, <1>2, <1>4, <2>1, <2>3 DEF SiteTypes, NotNewer
    <2>7. SiteFits'
      <3>1. Unhurt({"poll", "both"}) => branch'.whole
        BY <1>1, <1>2, <1>4 DEF PublishFits, Unhurt
      <3>2. QED
        BY <1>1, <1>2, <2>3, <3>1 DEF SiteFits, Unhurt
    <2>8. PublishShape(q)
      BY <2>5 DEF PublishShape, Hosting, Unpublishing
    <2>9. PublishFits(q)'
      BY <1>2, <2>3, <2>5 DEF PublishFits
    <2>10. publish[t].pc \notin {"poll", "code", "delete", "clear", "idle"} /\ q.pc \in Hosting
      BY <1>2, <2>5 DEF Hosting
    <2>11. url' /\ ~pages'.on => url /\ ~pages.on
      BY <1>2, <2>3
    <2>12. QED
      BY <1>2, <2>4, <2>6, <2>7, <2>8, <2>9, <2>10, <2>11, OneMoves DEF Unhurt
  <1>5. QED
    BY <1>3, <1>4 DEF Site!Push

-----------------------------------------------------------------------------
\* What happens beside the tasks leaves them as they are.
LEMMA BesideTasks ==
  ASSUME SiteInv, SiteTypes', NotNewer', SiteFits', UNCHANGED <<pkg, publish>>,
         \A m : m \in publishMishaps => m \in publishMishaps',
         \A t \in Publishers : PublishFits(publish[t]) => PublishFits(publish[t])',
         box'.st # "none" => box.st # "none",
         "sync" \notin publishMishaps' => url' = url,
         pages'.on = pages.on
  PROVE  SiteInv'
  <1>1. TasksFit'
    BY DEF SiteInv, TasksFit, PublishShape
  <1>2. Alone' /\ BuildAwaited'
    BY DEF SiteInv, Alone, BuildAwaited
  <1>3. RecordAhead' /\ RecordBehind'
    BY DEF SiteInv, RecordAhead, RecordBehind, Unhurt
  <1>4. QED
    BY <1>1, <1>2, <1>3 DEF SiteInv

\* The user edits the sources.
LEMMA SiteEditKeeps ==
  ASSUME SiteInv, Site!Edit
  PROVE  SiteInv'
  <1>1. /\ src' = src + 1 /\ src \in Nat
        /\ UNCHANGED <<pkg, out, box, branch, pages, url, snap, publish, said, publishMishaps>>
    BY DEF Site!Edit, SiteInv, SiteTypes
  <1>2. SiteTypes'
    <2>1. src' \in Nat
      BY <1>1
    <2>2. QED
      BY <1>1, <2>1 DEF SiteInv, SiteTypes
  <1>3. NotNewer'
    <2>1. \A d \in Site!Dirs : out[d].v \in Nat /\ out[d].v <= src
      BY DEF SiteInv, SiteTypes, NotNewer, Contents
    <2>2. branch.v \in Nat /\ pages.live.v \in Nat /\ branch.v <= src /\ pages.live.v <= src
      BY DEF SiteInv, SiteTypes, NotNewer, Contents
    <2>3. QED
      BY <1>1, <2>1, <2>2 DEF NotNewer
  <1>4. SiteFits'
    BY <1>1 DEF SiteInv, SiteFits, Unhurt
  <1>5. \A t \in Publishers : PublishFits(publish[t]) => PublishFits(publish[t])'
    BY <1>1 DEF PublishFits, Unhurt
  <1>6. QED
    BY <1>1, <1>2, <1>3, <1>4, <1>5, BesideTasks

\* The syncer reads, and writes back: another record than there is, which is a
\* mishap, or the same.
LEMMA SiteSyncKeeps ==
  ASSUME SiteInv, Site!SyncReads \/ Site!SyncWrites
  PROVE  SiteInv'
  <1>1. /\ UNCHANGED <<pkg, src, out, box, branch, pages, publish, said>>
        /\ snap' \in {"none", "url", "no url"} /\ url' \in BOOLEAN
        /\ \A m : m \in publishMishaps => m \in publishMishaps'
        /\ "sync" \notin publishMishaps' => url' = url
    BY DEF Site!SyncReads, Site!SyncWrites, Site!Happen, SiteInv, SiteTypes
  <1>2. SiteTypes'
    BY <1>1 DEF SiteInv, SiteTypes
  <1>3. NotNewer' /\ SiteFits'
    BY <1>1 DEF SiteInv, NotNewer, SiteFits, Unhurt
  <1>4. ASSUME NEW t \in Publishers, PublishFits(publish[t]) PROVE PublishFits(publish[t])'
    <2>1. /\ Unhurt({"sync", "quit"})' => Unhurt({"sync", "quit"})
          /\ Unhurt({"api", "deadline", "quit", "sync"})' => Unhurt({"api", "deadline", "quit", "sync"})
      BY <1>1 DEF Unhurt
    <2>2. QED
      BY <1>1, <1>4, <2>1 DEF PublishFits
  <1>5. QED
    BY <1>1, <1>2, <1>3, <1>4, BesideTasks

\* The build writes to directories while it runs, when no task that is alone
\* has one to push.
LEMMA SiteBuildKeeps ==
  ASSUME SiteInv, Site!Clean \/ Site!Compile \/ Site!Inject
  PROVE  SiteInv'
  <1>1. /\ box.st = "running" /\ box'.st \in {"running", "exited"}
        /\ UNCHANGED <<pkg, src, branch, pages, url, snap, publish, said, publishMishaps>>
    BY DEF Site!Clean, Site!Compile, Site!Inject, SiteInv, SiteTypes
  <1>2. /\ out' \in [Site!Dirs -> Contents]
        /\ box' \in [st : {"none", "running", "exited"}, step : {"clean", "build", "inject", "skip"},
                     dir : Site!Dirs, ok : BOOLEAN]
        /\ box'.dir = box.dir
        /\ \A d \in Site!Dirs : out'[d].v <= src
        /\ box'.st = "exited" /\ box'.ok => out'[box'.dir].whole
    <2>1. /\ src \in Nat /\ pkg \in Site!Packages /\ out \in [Site!Dirs -> Contents]
          /\ box \in [st : {"none", "running", "exited"}, step : {"clean", "build", "inject", "skip"},
                      dir : Site!Dirs, ok : BOOLEAN]
          /\ \A d \in Site!Dirs : out[d].v <= src
      BY DEF SiteInv, SiteTypes, NotNewer
    <2>2. CASE Site!Clean
      <3>1. Site!Nothing \in Contents /\ Site!Nothing.v <= src
        BY <2>1 DEF Site!Nothing, Contents
      <3>2. out' = [out EXCEPT ![box.dir] = Site!Nothing] /\ box' = [box EXCEPT !.step = "build"]
        BY <2>2 DEF Site!Clean
      <3>3. QED
        BY <1>1, <2>1, <3>1, <3>2
    <2>3. CASE Site!Compile
      <3>1. PICK step \in {"inject", "skip"} : box' = [box EXCEPT !.step = step]
        BY <2>3 DEF Site!Compile
      <3> DEFINE c == [v |-> src, whole |-> FALSE]
      <3>2. (out' = out \/ out' = [out EXCEPT ![pkg.into] = c]) /\ pkg.into \in Site!Dirs
        BY <2>1, <2>3 DEF Site!Compile, Site!Packages
      <3>3. c \in Contents /\ c.v <= src
        BY <2>1 DEF Contents
      <3> HIDE DEF c
      <3>4. out' \in [Site!Dirs -> Contents] /\ \A d \in Site!Dirs : out'[d].v <= src
        BY <2>1, <3>2, <3>3
      <3>5. QED
        BY <1>1, <2>1, <3>1, <3>4
    <2>4. CASE Site!Inject
      BY <2>1, <2>4 DEF Site!Inject, Contents
    <2>5. QED
      BY <2>2, <2>3, <2>4
  <1>3. SiteTypes' /\ NotNewer'
    BY <1>1, <1>2 DEF SiteInv, SiteTypes, NotNewer
  <1>4. SiteFits'
    BY <1>1, <1>2 DEF SiteInv, SiteFits, Unhurt
  <1>5. \A t \in Publishers : PublishFits(publish[t]) => PublishFits(publish[t])'
    BY <1>1 DEF PublishFits, Unhurt
  <1>6. QED
    BY <1>1, <1>3, <1>4, <1>5, BesideTasks

\* Pages serves what is in the branch.
LEMMA SiteDeployKeeps ==
  ASSUME SiteInv, Site!Deploy
  PROVE  SiteInv'
  <1>1. /\ pages' \in [on : BOOLEAN, live : Contents, st : {"built", "building"}] /\ pages'.on = pages.on
        /\ \/ pages'.st = "building" /\ pages'.live = pages.live /\ pages.live # branch
           \/ pages'.live = branch
        /\ branch \in Contents
        /\ UNCHANGED <<pkg, src, out, box, branch, url, snap, publish, said, publishMishaps>>
    BY DEF Site!Deploy, SiteInv, SiteTypes
  <1>2. SiteTypes' /\ NotNewer'
    BY <1>1 DEF SiteInv, SiteTypes, NotNewer
  <1>3. SiteFits'
    BY <1>1 DEF SiteInv, SiteFits, Unhurt
  <1>4. \A t \in Publishers : PublishFits(publish[t]) => PublishFits(publish[t])'
    BY <1>1 DEF PublishFits, Unhurt
  <1>5. QED
    BY <1>1, <1>2, <1>3, <1>4, BesideTasks

\* The launcher ends, and its machine with it.
LEMMA SiteQuitKeeps ==
  ASSUME SiteInv, Site!Quit
  PROVE  SiteInv'
  <1>1. /\ publish' = [t \in Publishers |-> Site!Idle] /\ box' = Site!NoBox /\ snap' = "none"
        /\ "quit" \in publishMishaps' /\ \A m : m \in publishMishaps => m \in publishMishaps'
        /\ UNCHANGED <<pkg, src, out, branch, pages, url, said>>
    BY DEF Site!Quit, Site!Happen
  <1>2. SiteTypes' /\ NotNewer'
    <2>1. Site!NoBox \in [st : {"none", "running", "exited"}, step : {"clean", "build", "inject", "skip"},
                          dir : Site!Dirs, ok : BOOLEAN]
      BY DEF Site!NoBox, Site!Dirs
    <2>2. QED
      BY <1>1, <2>1 DEF SiteInv, SiteTypes, NotNewer
  <1>3. SiteFits'
    BY <1>1 DEF SiteInv, SiteFits, Unhurt, Site!NoBox
  <1>4. TasksFit' /\ Alone'
    <2>1. Site!Nothing \in Contents
      BY DEF Site!Nothing, Contents
    <2>2. Site!Idle \in PublishStates /\ Site!Idle.pc = "idle" /\ Site!Idle.pushed = Site!Nothing
      BY <2>1 DEF Site!Idle, PublishStates, PublishLabels, Site!Dirs
    <2>3. publish' \in [Publishers -> PublishStates] /\ \A t \in Publishers : publish'[t] = Site!Idle
      BY <1>1, <2>2
    <2>4. \A t \in Publishers : PublishShape(publish[t])' /\ PublishFits(publish[t])'
      BY <2>2, <2>3 DEF PublishShape, PublishFits, Hosting, Unpublishing
    <2>5. QED
      BY <2>2, <2>3, <2>4 DEF TasksFit, Alone
  <1>5. BuildAwaited' /\ RecordAhead' /\ RecordBehind'
    BY <1>1 DEF BuildAwaited, RecordAhead, RecordBehind, Unhurt, Site!NoBox
  <1>6. QED
    BY <1>2, <1>3, <1>4, <1>5 DEF SiteInv

-----------------------------------------------------------------------------
\* Every step of the project, its tasks and GitHub keeps the invariant.
LEMMA SiteStep ==
  ASSUME SiteInv, [Site!Next]_(Site!vars)
  PROVE  SiteInv'
  <1>1. CASE UNCHANGED Site!vars
    <2>1. UNCHANGED <<pkg, src, out, box, branch, pages, url, snap, publish, said, publishMishaps>>
      BY <1>1 DEF Site!vars
    <2>2. SiteTypes'
      BY <2>1 DEF SiteInv, SiteTypes
    <2>3. NotNewer' /\ SiteFits'
      BY <2>1 DEF SiteInv, NotNewer, SiteFits, Unhurt
    <2>4. \A t \in Publishers : PublishFits(publish[t]) => PublishFits(publish[t])'
      BY <2>1 DEF PublishFits, Unhurt
    <2>5. QED
      BY <2>1, <2>2, <2>3, <2>4, BesideTasks
  <1>2. ASSUME NEW t \in Publishers, Site!Task(t) PROVE SiteInv'
    BY <1>2, SitePrepareKeeps, SiteStartBuildKeeps, SitePollKeeps, SiteCodeKeeps, SitePushKeeps, SiteEnableKeeps,
       SiteCreateKeeps, SiteAgainKeeps, SiteAwaitKeeps, SitePersistKeeps, SiteDisableKeeps, SiteDeleteKeeps,
       SiteClearKeeps DEF Site!Task
  <1>3. CASE Site!Next
    BY <1>2, <1>3, SiteAskKeeps, SiteUnpublishKeeps, SiteDeadlineKeeps, SiteEditKeeps, SiteSyncKeeps, SiteBuildKeeps,
       SiteDeployKeeps, SiteQuitKeeps DEF Site!Next
  <1>4. QED
    BY <1>1, <1>3

\* When nothing is under way, no task is left to excuse a record that differs.
LEMMA RecordedByInvariant == SiteInv => Site!SiteIsRecorded
  <1> SUFFICES ASSUME SiteInv PROVE Site!SiteIsRecorded
    OBVIOUS
  <1> USE DEF SiteInv, Site!Free, Unhurt, Site!AllIdle
  <1>1. Site!TypeOK
    <2>1. \A c \in Contents : c.v \in Nat
      BY DEF Contents
    <2>2. src \in Nat /\ branch \in Contents /\ pages.live \in Contents /\ \A d \in Site!Dirs : out[d] \in Contents
      BY DEF SiteTypes
    <2>3. branch.v \in 0 .. src /\ pages.live.v \in 0 .. src /\ \A d \in Site!Dirs : out[d].v \in 0 .. src
      BY <2>1, <2>2 DEF NotNewer
    <2>4. QED
      BY <2>3 DEF Site!TypeOK, SiteTypes, TasksFit, PublishShape, Hosting
  <1>2. Site!SaidIsServed
    BY DEF RecordAhead, Site!SaidIsServed
  <1>3. Site!ServedIsSaid
    BY DEF RecordBehind, Site!ServedIsSaid, Hosting
  <1>4. Site!SitesAreWhole /\ Site!FirstIsLive
    BY DEF SiteFits, Site!SitesAreWhole, Site!FirstIsLive
  <1>5. Site!NoBuildLeft
    BY DEF BuildAwaited, Site!NoBuildLeft
  <1>6. QED
    BY <1>1, <1>2, <1>3, <1>4, <1>5 DEF Site!SiteIsRecorded

\* Of a project's site alone.
THEOREM SiteInvariant == Site!Spec => []SiteInv
  BY InitSite, SiteStep, PTL DEF Site!Spec

\* Whatever the tasks do, a project is said to be published only when it is and, if
\* no call failed or was dropped, whenever it is; what is pushed is a whole build, and
\* no build container is left behind (publish/).
THEOREM SiteStaysRecorded == WorkSpec => []SiteIsRecorded
  <1>1. WorkInit => SiteInv
    BY InitSite DEF WorkInit
  <1>2. SiteInv /\ [WorkNext]_all => SiteInv'
    <2>1. [WorkNext]_all => [Site!Next]_(Site!vars)
      BY DEF WorkNext, all, siteVars, Site!vars
    <2>2. QED
      BY <2>1, SiteStep
  <1>3. SiteInv => SiteIsRecorded
    BY RecordedByInvariant DEF SiteIsRecorded
  <1>4. QED
    BY <1>1, <1>2, <1>3, PTL DEF WorkSpec

-----------------------------------------------------------------------------
(* The git repositories (GitSync) *)

\* The history of a commit among those of a list.
Past(cs, c) == LET h[i \in 0..Len(cs)] == IF i = 0 THEN {} ELSE {i} \cup h[cs[i].p] IN h[c]
Rooted(cs) == Len(cs) \in Nat /\ \A c \in 1..Len(cs) : cs[c].p \in 0..(c - 1)

LEMMA HistoryIs == \A c : Git!History(c) = Past(commits, c)
  BY DEF Git!History, Past

\* A finite set of numbers has a least one.  The library's least elements are
\* those of well-founded orderings: here of the sets of numbers up to each one.
LEMMA LeastExists ==
  ASSUME NEW S \in SUBSET Nat, IsFiniteSet(S), S # {}
  PROVE  \E p \in S : \A q \in S : p <= q
<1> DEFINE UpTo(p) == {q \in S : q <= p}
           Family == {T \in SUBSET S : \E p \in S : T = UpTo(p)}
<1>1. IsWellFoundedOn(StrictSubsetOrdering(S), SUBSET S)
  BY FS_StrictSubsetOrderingWellFounded, FS_FiniteSubsetsOfFinite
<1>2. \A p \in S : UpTo(p) \in Family
  OBVIOUS
<1>3. Family \subseteq SUBSET S /\ Family # {}
  BY <1>2
<1> HIDE DEF Family
<1>4. PICK T \in Family : \A U \in Family : ~(<<U, T>> \in StrictSubsetOrdering(S))
  <2> DEFINE O == StrictSubsetOrdering(S)
  <2>1. IsWellFoundedOn(O, SUBSET S)
    BY <1>1
  <2> HIDE DEF O
  <2>2. \E x \in Family : \A y \in Family : ~(<<y, x>> \in O)
    BY <1>3, <2>1, WFMin
  <2> QED
    BY <2>2 DEF O
<1>5. PICK p \in S : T = UpTo(p)
  BY <1>4 DEF Family
<1>6. \A q \in S : p <= q
  <2> SUFFICES ASSUME NEW q \in S, q < p PROVE FALSE
    OBVIOUS
  <2>1. UpTo(q) \subseteq UpTo(p) /\ UpTo(q) # UpTo(p)
    <3>1. p \in UpTo(p) /\ p \notin UpTo(q)
      OBVIOUS
    <3>2. \A x \in S : x <= q => x <= p
      OBVIOUS
    <3> QED
      BY <3>1, <3>2
  <2>2. <<UpTo(q), UpTo(p)>> \in StrictSubsetOrdering(S)
    BY <2>1 DEF StrictSubsetOrdering
  <2> QED
    BY <1>2, <1>4, <1>5, <2>2
<1> QED
  BY <1>6

LEMMA LeastUpTo ==
  ASSUME NEW n \in Nat, NEW S \in SUBSET (0..n), S # {}
  PROVE  \E p \in S : \A q \in S : p <= q
<1>1. IsFiniteSet(S)
  <2>1. IsFiniteSet(0..n)
    BY FS_Interval
  <2> QED
    BY <2>1, FS_Subset
<1>2. S \in SUBSET Nat
  OBVIOUS
<1> QED
  BY <1>1, <1>2, LeastExists

\* h is the history of the commits up to n.
Tells(cs, h, n) == h = [i \in 0..n |-> IF i = 0 THEN {} ELSE {i} \cup h[cs[i].p]]

LEMMA HistoryExists ==
  ASSUME NEW cs, Rooted(cs), NEW n \in 0..Len(cs)
  PROVE  \E h : Tells(cs, h, n)
<1> DEFINE Bad == {m \in 0..Len(cs) : ~\E h : Tells(cs, h, m)}
<1> SUFFICES ASSUME Bad # {} PROVE FALSE
  OBVIOUS
<1>1. Len(cs) \in Nat /\ Bad \in SUBSET (0..Len(cs))
  BY DEF Rooted
<1>2. PICK m \in Bad : \A q \in Bad : m <= q
  <2> HIDE DEF Bad
  <2> QED
    BY <1>1, LeastUpTo
<1>3. m \in 0..Len(cs) /\ ~\E h : Tells(cs, h, m)
  OBVIOUS
<1>4. m # 0
  <2> DEFINE g == [i \in 0..0 |-> {}]
  <2>1. Tells(cs, g, 0)
    BY DEF Tells
  <2> QED
    BY <1>3, <2>1
<1>5. m - 1 \in 0..Len(cs) /\ ~(m <= m - 1)
  BY <1>1, <1>3, <1>4
<1>6. PICK g : Tells(cs, g, m - 1)
  BY <1>2, <1>5
<1> DEFINE k == [i \in 0..m |-> IF i = m THEN {m} \cup g[cs[m].p] ELSE g[i]]
<1>7. \A i \in 0..m : i = 0 \/ (i # 0 /\ cs[i].p \in 0..(i - 1) /\ cs[i].p \in 0..(m - 1) /\ cs[i].p # m)
  BY <1>1, <1>3 DEF Rooted
<1>8. \A i \in 0..(m - 1) : g[i] = IF i = 0 THEN {} ELSE {i} \cup g[cs[i].p]
  BY <1>6 DEF Tells
<1>9. ASSUME NEW i \in 0..m PROVE k[i] = IF i = 0 THEN {} ELSE {i} \cup k[cs[i].p]
  <2>1. CASE i = 0
    <3>1. 0 \in 0..(m - 1) /\ 0 # m
      BY <1>1, <1>3, <1>4
    <3> QED
      BY <1>8, <2>1, <3>1
  <2>2. CASE i = m
    <3>1. cs[m].p \in 0..(m - 1) /\ cs[m].p \in 0..m /\ cs[m].p # m
      BY <1>1, <1>3, <1>4, <1>7
    <3>2. k[cs[m].p] = g[cs[m].p]
      BY <3>1
    <3> QED
      BY <1>4, <2>2, <3>2
  <2>3. CASE i # 0 /\ i # m
    <3>1. i \in 0..(m - 1) /\ cs[i].p \in 0..m /\ cs[i].p # m
      BY <1>1, <1>3, <1>7, <2>3
    <3>2. k[i] = g[i] /\ k[cs[i].p] = g[cs[i].p]
      BY <2>3, <3>1
    <3> QED
      BY <1>8, <2>3, <3>1, <3>2
  <2> QED
    BY <2>1, <2>2, <2>3
<1>10. Tells(cs, k, m)
  <2>1. k = [i \in 0..m |-> k[i]]
    OBVIOUS
  <2> HIDE DEF k
  <2>2. k = [i \in 0..m |-> IF i = 0 THEN {} ELSE {i} \cup k[cs[i].p]]
    BY <1>9, <2>1
  <2> QED
    BY <2>2 DEF Tells
<1> QED
  BY <1>3, <1>10

\* The history of a commit is the commit and the history of its parent.
LEMMA PastIs ==
  ASSUME NEW cs, Rooted(cs)
  PROVE  Past(cs, 0) = {} /\ \A c \in 1..Len(cs) : Past(cs, c) = {c} \cup Past(cs, cs[c].p)
<1> DEFINE h == CHOOSE h : Tells(cs, h, Len(cs))
<1>1. Len(cs) \in 0..Len(cs)
  BY DEF Rooted
<1>2. Tells(cs, h, Len(cs))
  BY <1>1, HistoryExists
<1>3. \A c : Past(cs, c) = h[c]
  BY DEF Past, Tells
<1> HIDE DEF h
<1>4. \A i \in 0..Len(cs) : h[i] = IF i = 0 THEN {} ELSE {i} \cup h[cs[i].p]
  BY <1>2 DEF Tells
<1>5. 0 \in 0..Len(cs) /\ \A c \in 1..Len(cs) : c \in 0..Len(cs) /\ c # 0
  BY DEF Rooted
<1> QED
  BY <1>3, <1>4, <1>5

LEMMA PastWithin ==
  ASSUME NEW cs, Rooted(cs), NEW c \in 0..Len(cs)
  PROVE  Past(cs, c) \subseteq 1..Len(cs)
<1> DEFINE Bad == {m \in 0..Len(cs) : ~(Past(cs, m) \subseteq 1..Len(cs))}
<1> SUFFICES ASSUME Bad # {} PROVE FALSE
  OBVIOUS
<1>1. Len(cs) \in Nat /\ Bad \in SUBSET (0..Len(cs))
  BY DEF Rooted
<1>2. PICK m \in Bad : \A q \in Bad : m <= q
  <2> HIDE DEF Bad
  <2> QED
    BY <1>1, LeastUpTo
<1>3. m # 0
  BY PastIs
<1>4. m \in 1..Len(cs) /\ cs[m].p \in 0..Len(cs) /\ ~(m <= cs[m].p)
  BY <1>1, <1>3 DEF Rooted
<1>5. Past(cs, cs[m].p) \subseteq 1..Len(cs)
  BY <1>2, <1>4
<1>6. Past(cs, m) = {m} \cup Past(cs, cs[m].p)
  BY <1>4, PastIs
<1> QED
  BY <1>4, <1>5, <1>6

\* What is in the history of a commit brings its own history along.
LEMMA PastOfPast ==
  ASSUME NEW cs, Rooted(cs), NEW c \in 0..Len(cs), NEW d \in Past(cs, c)
  PROVE  Past(cs, d) \subseteq Past(cs, c)
<1> DEFINE Bad == {m \in 0..Len(cs) : \E x \in Past(cs, m) : ~(Past(cs, x) \subseteq Past(cs, m))}
<1> SUFFICES ASSUME Bad # {} PROVE FALSE
  OBVIOUS
<1>1. Len(cs) \in Nat /\ Bad \in SUBSET (0..Len(cs))
  BY DEF Rooted
<1>2. PICK m \in Bad : \A q \in Bad : m <= q
  <2> HIDE DEF Bad
  <2> QED
    BY <1>1, LeastUpTo
<1>3. m # 0
  BY PastIs
<1>4. m \in 1..Len(cs) /\ cs[m].p \in 0..Len(cs) /\ ~(m <= cs[m].p)
  BY <1>1, <1>3 DEF Rooted
<1>5. \A x \in Past(cs, cs[m].p) : Past(cs, x) \subseteq Past(cs, cs[m].p)
  BY <1>2, <1>4
<1>6. Past(cs, m) = {m} \cup Past(cs, cs[m].p)
  BY <1>4, PastIs
<1> QED
  BY <1>5, <1>6

\* A commit that is added has no place in the histories there are.
LEMMA PastStays ==
  ASSUME NEW cs, NEW ds, Rooted(cs), Rooted(ds), Len(cs) <= Len(ds), \A i \in 1..Len(cs) : ds[i] = cs[i],
         NEW c \in 0..Len(cs)
  PROVE  Past(ds, c) = Past(cs, c)
<1> DEFINE Bad == {m \in 0..Len(cs) : Past(ds, m) # Past(cs, m)}
<1> SUFFICES ASSUME Bad # {} PROVE FALSE
  OBVIOUS
<1>1. Len(cs) \in Nat /\ Len(ds) \in Nat /\ Bad \in SUBSET (0..Len(cs))
  BY DEF Rooted
<1>2. PICK m \in Bad : \A q \in Bad : m <= q
  <2> HIDE DEF Bad
  <2> QED
    BY <1>1, LeastUpTo
<1>3. m # 0
  BY PastIs
<1>4. m \in 1..Len(cs) /\ m \in 1..Len(ds) /\ cs[m].p \in 0..Len(cs) /\ ~(m <= cs[m].p)
  BY <1>1, <1>3 DEF Rooted
<1>5. Past(ds, cs[m].p) = Past(cs, cs[m].p)
  BY <1>2, <1>4
<1>6. Past(cs, m) = {m} \cup Past(cs, cs[m].p) /\ Past(ds, m) = {m} \cup Past(ds, ds[m].p) /\ ds[m] = cs[m]
  BY <1>4, PastIs
<1> QED
  BY <1>5, <1>6

\* The tree of a commit, and the types.
TreeIn(cs, c) == IF c = 0 THEN Git!Empty ELSE cs[c].t
GitTrees == [GitFiles -> Nat]
GitCommits == [p : Nat, t : GitTrees, by : {"user", "others"}, of : SUBSET GitFiles]
GitPcs == {"idle", "sync", "push", "status", "fetch", "merge", "remote", "create", "add", "commit", "send", "sha"}

GitShape ==
  /\ commits \in Seq(GitCommits) /\ Rooted(commits)
  /\ heads \in [Git!Refs -> 0..Len(commits)]
  /\ remote \in [Git!Refs -> 0..Len(commits)] /\ track \in [Git!Refs -> 0..Len(commits)]
  /\ cur \in Git!Refs /\ heads[cur] # 0 /\ (cur = Git!Detached => "detached" \in gitMishaps)
  /\ work \in GitTrees /\ mine \in GitTrees /\ touched \subseteq GitFiles /\ edits \in Nat
  /\ repo \in {"none", "ours", "others"} /\ (origin => repo # "none")
  /\ promised \subseteq Git!Refs \X Nat
  /\ remote[Git!Detached] = 0 /\ track[Git!Detached] = 0
  /\ task \in [GitTasks -> [pc : GitPcs, at : Nat, br : Git!Refs, create : BOOLEAN]]
  /\ \A t \in GitTasks : task[t].pc \in {"fetch", "merge"} => task[t].br \in GitBranches
  /\ \A t \in GitTasks : task[t].pc = "add" => repo # "none"

\* What a branch of the remote held stays in its history; so what is known, or
\* told, or is to be told, is there.
GitTold ==
  /\ \A b \in Git!Refs : track[b] = 0 \/ track[b] \in Past(commits, remote[b])
  /\ gitMishaps \cap {"refused", "late"} = {} => \A x \in promised : x[2] \in Past(commits, remote[x[1]])
  /\ "refused" \notin gitMishaps =>
       \A t \in GitTasks : task[t].pc = "sha" => task[t].at \in Past(commits, remote[task[t].br])

\* What the user wrote last in a file is in the tree or in the history of a
\* branch; and the tree differs from the head where the user has edited it.
Kept(f) ==
  \/ mine[f] = 0 \/ work[f] = mine[f]
  \/ \E b \in GitBranches : \E c \in Past(commits, heads[b]) : TreeIn(commits, c)[f] = mine[f]
GitKept ==
  /\ "detached" \notin gitMishaps => \A f \in GitFiles : Kept(f)
  /\ "pull" \notin gitMishaps =>
       /\ \A f \in GitFiles : work[f] # TreeIn(commits, heads[cur])[f] => f \in touched
       /\ \A c \in 1..Len(commits) : commits[c].by = "user" =>
            \A f \in GitFiles : commits[c].t[f] # TreeIn(commits, commits[c].p)[f] => f \in commits[c].of

GitInv == GitShape /\ GitTold /\ GitKept

LEMMA GitGiven == Git!GitAssumption
  BY WorkAssumption DEF WorkAssumption

LEMMA GitNames ==
  /\ Git!Refs = GitBranches \cup {Git!Detached} /\ Git!Detached \notin GitBranches /\ main \in GitBranches
  /\ Git!Empty = [f \in GitFiles |-> 0] /\ Git!Empty \in GitTrees
  /\ \A c : Git!TreeOf(c) = TreeIn(commits, c)
<1>1. Git!Refs = GitBranches \cup {Git!Detached} /\ Git!Detached \notin GitBranches /\ main \in GitBranches
  BY GitGiven DEF Git!GitAssumption, Git!Refs, Git!Detached
<1>2. Git!Empty = [f \in GitFiles |-> 0] /\ Git!Empty \in GitTrees
  BY DEF Git!Empty, GitTrees
<1>3. \A c : Git!TreeOf(c) = TreeIn(commits, c)
  BY DEF Git!TreeOf, TreeIn
<1> QED
  BY <1>1, <1>2, <1>3

LEMMA TreeTypes ==
  ASSUME GitShape, NEW c \in 0..Len(commits) PROVE TreeIn(commits, c) \in GitTrees
<1>1. CASE c = 0
  BY <1>1, GitNames DEF TreeIn
<1>2. CASE c # 0
  <2>1. c \in 1..Len(commits) /\ commits \in Seq(GitCommits)
    BY <1>2 DEF GitShape, Rooted
  <2>2. commits[c] \in GitCommits
    BY <2>1
  <2> QED
    BY <1>2, <2>2 DEF TreeIn, GitCommits
<1> QED
  BY <1>1, <1>2

\* The properties follow.
LEMMA GitFollows ==
  ASSUME GitInv PROVE Git!PushedIsThere /\ Git!EditsAreKept
<1>1. Git!TypeOK
  BY GitNames DEF GitInv, GitShape, Rooted, Git!TypeOK
<1>2. Git!ToldIsThere
  BY HistoryIs DEF GitInv, GitTold, Git!ToldIsThere
<1>3. Git!TrackIsPast
  BY HistoryIs, GitNames DEF GitInv, GitTold, Git!TrackIsPast
<1>4. Git!EditsSurvive
  <2> SUFFICES ASSUME "detached" \notin gitMishaps, NEW f \in GitFiles, mine[f] # 0, work[f] # mine[f]
               PROVE  \E b \in GitBranches \cup {cur} : \E c \in Git!History(heads[b]) : Git!TreeOf(c)[f] = mine[f]
    BY DEF Git!EditsSurvive, Git!NothingIsLost
  <2> HIDE DEF Kept
  <2>1. Kept(f)
    <3>1. GitKept
      BY DEF GitInv
    <3> QED
      BY <3>1, Zenon DEF GitKept
  <2>2. PICK b \in GitBranches : \E c \in Past(commits, heads[b]) : TreeIn(commits, c)[f] = mine[f]
    BY <2>1 DEF Kept
  <2> QED
    BY <2>2, HistoryIs, GitNames
<1>5. Git!EditsOnly
  <2> SUFFICES ASSUME "pull" \notin gitMishaps, NEW c \in 1..Len(commits), commits[c].by = "user", NEW f \in GitFiles,
                      commits[c].t[f] # Git!TreeOf(commits[c].p)[f]
               PROVE  f \in commits[c].of
    BY DEF Git!EditsOnly, Git!CommitsAreEdits
  <2> QED
    BY GitNames DEF GitInv, GitKept
<1> QED
  BY <1>1, <1>2, <1>3, <1>4, <1>5 DEF Git!PushedIsThere, Git!EditsAreKept

LEMMA GitStarts == Git!Init => GitInv
<1> SUFFICES ASSUME Git!Init PROVE GitInv
  OBVIOUS
<1> DEFINE first == [p |-> 0, t |-> Git!Empty, by |-> "user", of |-> GitFiles]
           theirs == [p |-> 0, t |-> Git!Empty, by |-> "others", of |-> GitFiles]
<1>1. first \in GitCommits /\ theirs \in GitCommits
  BY GitNames DEF GitCommits
<1>2. /\ commits = <<first>> \o IF repo = "others" THEN <<theirs>> ELSE <<>>
      /\ repo \in {"none", "ours", "others"} /\ (origin => repo = "ours")
  BY DEF Git!Init
<1>3. /\ commits \in Seq(GitCommits) /\ Len(commits) = (IF repo = "others" THEN 2 ELSE 1)
      /\ \A c \in 1..Len(commits) : commits[c].p = 0 /\ commits[c].t = Git!Empty
  <2>1. first.p = 0 /\ theirs.p = 0 /\ first.t = Git!Empty /\ theirs.t = Git!Empty
    OBVIOUS
  <2> HIDE DEF first, theirs
  <2>2. \A x \in GitCommits : <<x>> \in Seq(GitCommits) /\ Len(<<x>>) = 1 /\ <<x>>[1] = x
    OBVIOUS
  <2>3. \A r, s \in Seq(GitCommits) :
          /\ r \o s \in Seq(GitCommits) /\ Len(r \o s) = Len(r) + Len(s)
          /\ \A i \in 1..Len(r) : (r \o s)[i] = r[i]
          /\ \A i \in 1..Len(s) : (r \o s)[Len(r) + i] = s[i]
    OBVIOUS
  <2>4. CASE repo = "others"
    <3> DEFINE r == <<first>>
               s == <<theirs>>
    <3>1. commits = r \o s /\ r \in Seq(GitCommits) /\ s \in Seq(GitCommits)
      BY <1>1, <1>2, <2>2, <2>4
    <3>2. Len(r) = 1 /\ Len(s) = 1 /\ r[1] = first /\ s[1] = theirs
      OBVIOUS
    <3> HIDE DEF r, s
    <3>3. commits \in Seq(GitCommits) /\ Len(commits) = 2 /\ commits[1] = first /\ commits[2] = theirs
      BY <2>3, <3>1, <3>2
    <3>4. \A c \in 1..2 : c = 1 \/ c = 2
      OBVIOUS
    <3> QED
      BY <2>1, <2>4, <3>3, <3>4
  <2>5. CASE repo # "others"
    <3> DEFINE r == <<first>>
    <3>1. commits = r \o <<>> /\ r \in Seq(GitCommits) /\ <<>> \in Seq(GitCommits) /\ Len(<<>>) = 0
      BY <1>1, <1>2, <2>2, <2>5
    <3>2. Len(r) = 1 /\ r[1] = first
      OBVIOUS
    <3> HIDE DEF r
    <3>3. commits \in Seq(GitCommits) /\ Len(commits) = 1 /\ commits[1] = first
      BY <2>3, <3>1, <3>2
    <3>4. \A c \in 1..1 : c = 1
      OBVIOUS
    <3> QED
      BY <2>1, <2>5, <3>3, <3>4
  <2> QED
    BY <2>4, <2>5
<1> HIDE DEF first, theirs
<1>4. Rooted(commits)
  BY <1>3 DEF Rooted
<1>5. /\ heads = Git!At(main, 1) /\ cur = main /\ work = Git!Empty /\ touched = {} /\ mine = Git!Empty
      /\ remote = Git!At(main, CASE repo = "ours" -> 1 [] repo = "others" -> 2 [] OTHER -> 0)
      /\ track = Git!At(main, IF origin THEN 1 ELSE 0)
      /\ edits = 0 /\ promised = {} /\ task = [t \in GitTasks |-> Git!NoTask]
  BY DEF Git!Init
<1>6. \A n \in 0..2 : /\ Git!At(main, n) \in [Git!Refs -> 0..2] /\ Git!At(main, n)[main] = n
                      /\ \A b \in Git!Refs : b # main => Git!At(main, n)[b] = 0
  BY GitNames DEF Git!At
<1>7. Git!NoTask \in [pc : GitPcs, at : Nat, br : Git!Refs, create : BOOLEAN] /\ Git!NoTask.pc = "idle"
  BY GitNames DEF Git!NoTask, GitPcs
<1>8. GitShape
  <2>1. /\ heads \in [Git!Refs -> 0..Len(commits)] /\ remote \in [Git!Refs -> 0..Len(commits)]
        /\ track \in [Git!Refs -> 0..Len(commits)]
    BY <1>2, <1>3, <1>5, GitNames DEF Git!At
  <2>2. heads[cur] = 1 /\ cur \in Git!Refs /\ cur # Git!Detached /\ remote[Git!Detached] = 0 /\ track[Git!Detached] = 0
    BY <1>2, <1>5, GitNames DEF Git!At
  <2>3. task \in [GitTasks -> [pc : GitPcs, at : Nat, br : Git!Refs, create : BOOLEAN]] /\ \A t \in GitTasks : task[t].pc = "idle"
    BY <1>5, <1>7
  <2> QED
    BY <1>2, <1>3, <1>4, <1>5, <2>1, <2>2, <2>3, GitNames DEF GitShape
<1>9. GitTold
  <2>1. \A t \in GitTasks : task[t].pc # "sha"
    BY <1>5, <1>7
  <2>2. ASSUME NEW b \in Git!Refs PROVE track[b] = 0 \/ track[b] \in Past(commits, remote[b])
    <3>1. CASE b = main /\ origin
      <4>1. track[b] = 1 /\ remote[b] = 1 /\ 1 \in 1..Len(commits)
        BY <1>2, <1>3, <1>5, <3>1, GitNames DEF Git!At
      <4> QED
        BY <1>4, <4>1, PastIs
    <3>2. CASE ~(b = main /\ origin)
      BY <1>5, <3>2 DEF Git!At
    <3> QED
      BY <3>1, <3>2
  <2> QED
    BY <1>5, <2>1, <2>2 DEF GitTold
<1>10. GitKept
  <2>1. \A f \in GitFiles : mine[f] = 0
    BY <1>5, GitNames
  <2>2. \A c \in 1..Len(commits) : commits[c].t = TreeIn(commits, commits[c].p)
    BY <1>3 DEF TreeIn
  <2>3. work = TreeIn(commits, heads[cur])
    <3>1. heads[cur] = 1 /\ 1 \in 1..Len(commits)
      BY <1>3, <1>5, GitNames DEF Git!At
    <3> QED
      BY <1>3, <1>5, <3>1 DEF TreeIn
  <2> QED
    BY <2>1, <2>2, <2>3 DEF GitKept, Kept
<1> QED
  BY <1>8, <1>9, <1>10 DEF GitInv

-----------------------------------------------------------------------------
\* Where nothing moves that a part of the invariant looks at.
LEMMA ToldRests ==
  ASSUME GitTold, UNCHANGED <<commits, remote, promised>>, track' \in {track, remote}, gitMishaps \subseteq gitMishaps',
         \A t \in GitTasks : task'[t].pc = "sha" => task'[t] = task[t], GitShape
  PROVE  GitTold'
<1>1. \A b \in Git!Refs : track'[b] = 0 \/ track'[b] \in Past(commits, remote[b])
  <2>1. CASE track' = track
    BY <2>1 DEF GitTold
  <2>2. CASE track' = remote
    <3>1. Rooted(commits) /\ \A b \in Git!Refs : remote[b] = 0 \/ remote[b] \in 1..Len(commits)
      BY DEF GitShape, Rooted
    <3> QED
      BY <2>2, <3>1, PastIs
  <2> QED
    BY <2>1, <2>2
<1>2. gitMishaps' \cap {"refused", "late"} = {} => gitMishaps \cap {"refused", "late"} = {}
  OBVIOUS
<1>3. "refused" \notin gitMishaps' => "refused" \notin gitMishaps
  OBVIOUS
<1> QED
  BY <1>1, <1>2, <1>3 DEF GitTold

LEMMA KeptRests ==
  ASSUME GitKept, UNCHANGED <<commits, heads, cur, work, touched, mine>>, gitMishaps \subseteq gitMishaps'
  PROVE  GitKept'
<1>1. \A f : Kept(f)' <=> Kept(f)
  BY DEF Kept, TreeIn
<1>2. ("pull" \notin gitMishaps' => "pull" \notin gitMishaps) /\ ("detached" \notin gitMishaps' => "detached" \notin gitMishaps)
  OBVIOUS
<1>3. "detached" \notin gitMishaps' => \A f \in GitFiles : Kept(f)'
  <2> HIDE DEF Kept
  <2> QED
    BY <1>1, <1>2 DEF GitKept
<1>4. \A c : TreeIn(commits', c) = TreeIn(commits, c)
  OBVIOUS
<1>5. "pull" \notin gitMishaps' =>
       /\ \A f \in GitFiles : work'[f] # TreeIn(commits', heads'[cur'])[f] => f \in touched'
       /\ \A c \in 1..Len(commits') : commits'[c].by = "user" =>
            \A f \in GitFiles : commits'[c].t[f] # TreeIn(commits', commits'[c].p)[f] => f \in commits'[c].of
  BY <1>2, <1>4 DEF GitKept
<1> QED
  BY <1>3, <1>5 DEF GitKept

\* A step that moves a task and asks for the remote at most.
LEMMA TaskMoves ==
  ASSUME GitInv, UNCHANGED <<commits, heads, cur, work, touched, mine, remote, promised, edits, gitMishaps>>,
         track' \in {track, remote}, repo' \in {"none", "ours", "others"}, origin' => repo' # "none",
         NEW t \in GitTasks, NEW k \in [pc : GitPcs, at : Nat, br : Git!Refs, create : BOOLEAN],
         repo # "none" => repo' # "none", k.pc = "add" => repo' # "none",
         task' = [task EXCEPT ![t] = k], k.pc # "sha", k.pc \in {"fetch", "merge"} => k.br \in GitBranches
  PROVE  GitInv'
<1>1. /\ task' \in [GitTasks -> [pc : GitPcs, at : Nat, br : Git!Refs, create : BOOLEAN]]
      /\ \A u \in GitTasks : task'[u] = IF u = t THEN k ELSE task[u]
  BY DEF GitInv, GitShape
<1>2. GitShape'
  <2>1. \A u \in GitTasks : task'[u].pc \in {"fetch", "merge"} => task'[u].br \in GitBranches
    BY <1>1 DEF GitInv, GitShape
  <2>3. \A u \in GitTasks : task'[u].pc = "add" => repo' # "none"
    BY <1>1 DEF GitInv, GitShape
  <2>2. track' \in [Git!Refs -> 0..Len(commits)] /\ track'[Git!Detached] = 0
    BY DEF GitInv, GitShape
  <2> QED
    BY <1>1, <2>1, <2>2, <2>3 DEF GitInv, GitShape
<1>3. GitTold'
  BY <1>1, ToldRests DEF GitInv
<1>4. GitKept'
  BY KeptRests DEF GitInv
<1> QED
  BY <1>2, <1>3, <1>4 DEF GitInv

LEMMA TaskTypes ==
  ASSUME GitShape, NEW t \in GitTasks
  PROVE  /\ task[t] \in [pc : GitPcs, at : Nat, br : Git!Refs, create : BOOLEAN]
         /\ \A l \in GitPcs : /\ [task[t] EXCEPT !.pc = l] \in [pc : GitPcs, at : Nat, br : Git!Refs, create : BOOLEAN]
                              /\ [task[t] EXCEPT !.pc = l].pc = l /\ [task[t] EXCEPT !.pc = l].br = task[t].br
         /\ Git!NoTask \in [pc : GitPcs, at : Nat, br : Git!Refs, create : BOOLEAN] /\ Git!NoTask.pc = "idle"
  BY GitNames DEF GitShape, Git!NoTask, GitPcs

LEMMA TaskBegins ==
  ASSUME GitInv, NEW t \in GitTasks, NEW l \in GitPcs \ {"add", "sha"}, NEW create \in BOOLEAN, Git!Begin(t, l, create),
         l \in {"fetch", "merge"} => cur # Git!Detached
  PROVE  GitInv'
<1> DEFINE k == [Git!NoTask EXCEPT !.pc = l, !.br = cur, !.create = create]
<1>1. cur \in Git!Refs
  BY DEF GitInv, GitShape
<1>2. /\ k \in [pc : GitPcs, at : Nat, br : Git!Refs, create : BOOLEAN] /\ k.pc = l /\ k.br = cur
  BY <1>1, TaskTypes DEF GitInv, Git!NoTask
<1>3. /\ task' = [task EXCEPT ![t] = k]
      /\ UNCHANGED <<commits, heads, cur, work, touched, mine, remote, promised, edits, gitMishaps, track, origin, repo>>
  BY DEF Git!Begin
<1>4. repo \in {"none", "ours", "others"} /\ (origin => repo # "none")
  BY DEF GitInv, GitShape
<1>5. l \in {"fetch", "merge"} => cur \in GitBranches
  BY <1>1, GitNames
<1> HIDE DEF k
<1> QED
  BY <1>2, <1>3, <1>4, <1>5, TaskMoves

LEMMA TaskAloneKeeps ==
  ASSUME GitInv, NEW t \in GitTasks,
         \/ Git!Sync(t) \/ Git!SyncSkip(t) \/ Git!Pull(t) \/ Git!Fetch(t) \/ Git!GithubPush(t)
         \/ Git!FindRemote(t) \/ Git!CreateRepo(t) \/ Git!AddRemote(t)
  PROVE  GitInv'
<1>1. repo \in {"none", "ours", "others"} /\ (origin => repo # "none")
  BY DEF GitInv, GitShape
<1>2. GitShape
  BY DEF GitInv
<1>3. CASE Git!Sync(t)
  BY <1>3, TaskBegins DEF Git!Sync, GitPcs
<1>4. CASE Git!Pull(t)
  BY <1>4, TaskBegins DEF Git!Pull, GitPcs
<1>5. CASE Git!GithubPush(t)
  BY <1>5, TaskBegins DEF Git!GithubPush, GitPcs
<1>6. CASE Git!SyncSkip(t) \/ Git!Fetch(t) \/ Git!FindRemote(t) \/ Git!CreateRepo(t) \/ Git!AddRemote(t)
  <2>1. \/ Git!Done(t)
        \/ \E l \in GitPcs \ {"sha"} :
             /\ Git!Go(t, l) /\ (l \in {"fetch", "merge"} => task[t].pc = "fetch") /\ (l = "add" => Git!CreateRepo(t) /\ repo' = Git!RepoAfter)
    BY <1>6 DEF Git!SyncSkip, Git!Fetch, Git!FindRemote, Git!CreateRepo, Git!AddRemote, Git!On, GitPcs
  <2>2. /\ repo' \in {"none", "ours", "others"} /\ (origin' => repo' # "none") /\ (repo # "none" => repo' # "none")
        /\ repo' = Git!RepoAfter => repo' # "none"
    <3>1. CASE ~Git!CreateRepo(t) /\ ~Git!AddRemote(t)
      BY <1>1, <1>6, <3>1 DEF Git!SyncSkip, Git!Fetch, Git!FindRemote, Git!RepoAfter
    <3>2. CASE Git!CreateRepo(t)
      BY <1>1, <3>2 DEF Git!CreateRepo, Git!RepoAfter
    <3>3. CASE Git!AddRemote(t)
      <4>1. repo # "none" /\ repo' = repo
        BY <1>2, <3>3 DEF Git!AddRemote, Git!On, GitShape
      <4> QED
        BY <1>1, <4>1
    <3> QED
      BY <3>1, <3>2, <3>3
  <2>3. \E k \in [pc : GitPcs, at : Nat, br : Git!Refs, create : BOOLEAN] :
          /\ task' = [task EXCEPT ![t] = k] /\ k.pc # "sha" /\ (k.pc \in {"fetch", "merge"} => k.br \in GitBranches)
          /\ k.pc = "add" => repo' # "none"
    <3>1. CASE Git!Done(t)
      BY <1>2, <3>1, TaskTypes DEF Git!Done
    <3>2. ASSUME NEW l \in GitPcs \ {"sha"}, Git!Go(t, l), l \in {"fetch", "merge"} => task[t].pc = "fetch",
                 l = "add" => repo' = Git!RepoAfter
          PROVE  \E k \in [pc : GitPcs, at : Nat, br : Git!Refs, create : BOOLEAN] :
                   /\ task' = [task EXCEPT ![t] = k] /\ k.pc # "sha" /\ (k.pc \in {"fetch", "merge"} => k.br \in GitBranches)
                   /\ k.pc = "add" => repo' # "none"
      <4> DEFINE k == [task[t] EXCEPT !.pc = l]
      <4>1. task' = [task EXCEPT ![t] = k]
        BY <1>2, <3>2 DEF Git!Go, GitShape
      <4>2. l \in {"fetch", "merge"} => task[t].br \in GitBranches
        BY <1>2, <3>2 DEF GitShape
      <4>3. k \in [pc : GitPcs, at : Nat, br : Git!Refs, create : BOOLEAN] /\ k.pc = l /\ k.br = task[t].br
        BY <1>2, TaskTypes
      <4> HIDE DEF k
      <4> QED
        BY <2>2, <3>2, <4>1, <4>2, <4>3
    <3> QED
      BY <2>1, <3>1, <3>2
  <2>4. /\ UNCHANGED <<commits, heads, cur, work, touched, mine, remote, promised, edits, gitMishaps>>
        /\ track' \in {track, remote}
    BY <1>6 DEF Git!SyncSkip, Git!Fetch, Git!FindRemote, Git!CreateRepo, Git!AddRemote
  <2> QED
    BY <2>2, <2>3, <2>4, TaskMoves
<1> QED
  BY <1>3, <1>4, <1>5, <1>6

-----------------------------------------------------------------------------
\* A commit that is added.
Added(x, ds) ==
  /\ Len(commits) \in Nat /\ Len(ds) = Len(commits) + 1
  /\ ds \in Seq(GitCommits) /\ Rooted(ds) /\ ds[Len(commits) + 1] = x
  /\ \A i \in 1..Len(commits) : ds[i] = commits[i]
  /\ \A c \in 0..Len(commits) : Past(ds, c) = Past(commits, c) /\ TreeIn(ds, c) = TreeIn(commits, c)
  /\ Past(ds, Len(commits) + 1) = {Len(commits) + 1} \cup Past(commits, x.p)
  /\ TreeIn(ds, Len(commits) + 1) = x.t

LEMMA CommitAdds ==
  ASSUME GitShape, NEW x \in GitCommits, x.p \in 0..Len(commits)
  PROVE  Added(x, Append(commits, x))
<1> DEFINE ds == Append(commits, x)
<1> HIDE DEF ds
<1>1. Rooted(commits) /\ commits \in Seq(GitCommits) /\ Len(commits) \in Nat
  BY DEF GitShape, Rooted
<1>2. /\ ds \in Seq(GitCommits) /\ Len(ds) = Len(commits) + 1 /\ ds[Len(commits) + 1] = x
      /\ \A i \in 1..Len(commits) : ds[i] = commits[i]
  BY <1>1 DEF ds
<1>3. Rooted(ds)
  <2> SUFFICES ASSUME NEW c \in 1..(Len(commits) + 1) PROVE ds[c].p \in 0..(c - 1)
    BY <1>1, <1>2 DEF Rooted
  <2>1. CASE c \in 1..Len(commits)
    BY <1>1, <1>2, <2>1 DEF Rooted
  <2>2. CASE c = Len(commits) + 1
    BY <1>1, <1>2, <2>2
  <2> QED
    BY <1>1, <2>1, <2>2
<1>4. \A c \in 0..Len(commits) : Past(ds, c) = Past(commits, c)
  <2>1. Len(commits) <= Len(ds)
    BY <1>1, <1>2
  <2> QED
    BY <1>1, <1>2, <1>3, <2>1, PastStays
<1>5. \A c \in 0..Len(commits) : TreeIn(ds, c) = TreeIn(commits, c)
  BY <1>1, <1>2 DEF TreeIn
<1>6. Len(commits) + 1 \in 1..Len(ds) /\ Len(commits) + 1 # 0
  BY <1>1, <1>2
<1>7. Past(ds, Len(commits) + 1) = {Len(commits) + 1} \cup Past(commits, x.p)
  <2>1. Past(ds, Len(commits) + 1) = {Len(commits) + 1} \cup Past(ds, ds[Len(commits) + 1].p)
    BY <1>3, <1>6, PastIs
  <2> QED
    BY <1>2, <1>4, <2>1
<1>8. TreeIn(ds, Len(commits) + 1) = x.t
  BY <1>2, <1>6 DEF TreeIn
<1>9. Added(x, ds)
  BY <1>1, <1>2, <1>3, <1>4, <1>5, <1>7, <1>8 DEF Added
<1> QED
  BY <1>9 DEF ds

\* The branches of the remote grow.
LEMMA ToldGrows ==
  ASSUME GitShape, GitTold, gitMishaps \subseteq gitMishaps',
         \A b \in Git!Refs : Past(commits, remote[b]) \subseteq Past(commits', remote'[b]),
         \A b \in Git!Refs : track'[b] \in {0, track[b]} \cup Past(commits', remote'[b]),
         \A x \in promised' : x \in promised \/
           (gitMishaps' \cap {"refused", "late"} = {} => x[2] \in Past(commits', remote'[x[1]])),
         \A t \in GitTasks : task'[t].pc = "sha" => task'[t] = task[t] \/
           ("refused" \notin gitMishaps' => task'[t].at \in Past(commits', remote'[task'[t].br]))
  PROVE  GitTold'
<1>1. \A b \in Git!Refs : track'[b] = 0 \/ track'[b] \in Past(commits', remote'[b])
  BY DEF GitTold
<1>2. (gitMishaps' \cap {"refused", "late"} = {} => gitMishaps \cap {"refused", "late"} = {})
      /\ ("refused" \notin gitMishaps' => "refused" \notin gitMishaps)
  OBVIOUS
<1>3. \A x \in promised : x[1] \in Git!Refs
  BY DEF GitShape
<1>4. \A t \in GitTasks : task[t].br \in Git!Refs
  BY DEF GitShape
<1>5. gitMishaps' \cap {"refused", "late"} = {} => \A x \in promised' : x[2] \in Past(commits', remote'[x[1]])
  BY <1>2, <1>3 DEF GitTold
<1>6. "refused" \notin gitMishaps' =>
        \A t \in GitTasks : task'[t].pc = "sha" => task'[t].at \in Past(commits', remote'[task'[t].br])
  BY <1>2, <1>4 DEF GitTold
<1> QED
  BY <1>1, <1>5, <1>6 DEF GitTold

\* The branches grow, and nothing is written.
LEMMA KeptGrows ==
  ASSUME UNCHANGED <<work, mine>>,
         \A b \in GitBranches : \A c \in Past(commits, heads[b]) :
           c \in Past(commits', heads'[b]) /\ TreeIn(commits', c) = TreeIn(commits, c)
  PROVE  \A f : Kept(f) => Kept(f)'
  BY DEF Kept

\* commit_auto.
LEMMA CommitKeeps ==
  ASSUME GitInv, Git!Commit, UNCHANGED <<cur, work, mine, remote, track, origin, repo, edits, promised, gitMishaps>>,
         NEW t \in GitTasks, NEW k \in [pc : GitPcs, at : Nat, br : Git!Refs, create : BOOLEAN],
         task' = [task EXCEPT ![t] = k], k.pc \in {"push", "send"}
  PROVE  GitInv'
<1>1. CASE ~Git!Dirty
  <2>1. repo \in {"none", "ours", "others"} /\ (origin => repo # "none")
    BY DEF GitInv, GitShape
  <2>2. UNCHANGED <<commits, heads, touched>>
    BY <1>1 DEF Git!Commit
  <2> QED
    BY <2>1, <2>2, TaskMoves
<1>2. CASE Git!Dirty
  <2> DEFINE n == Len(commits) + 1
  <2>1. GitShape /\ GitTold /\ GitKept
    BY DEF GitInv
  <2>2. heads' = [heads EXCEPT ![cur] = n] /\ touched' = {}
    BY <1>2 DEF Git!Commit
  <2>3. heads[cur] \in 0..Len(commits) /\ cur \in Git!Refs
    BY <2>1 DEF GitShape
  <2>4. PICK x \in GitCommits : commits' = Append(commits, x) /\ x.p = heads[cur] /\ x.t = work /\ x.of = touched
    <3> DEFINE y == [p |-> heads[cur], t |-> work, by |-> "user", of |-> touched]
    <3>1. heads[cur] \in Nat /\ work \in GitTrees /\ touched \subseteq GitFiles
      BY <2>1, <2>3 DEF GitShape, Rooted
    <3>2. y \in GitCommits /\ y.p = heads[cur] /\ y.t = work /\ y.of = touched
      BY <3>1 DEF GitCommits
    <3>3. commits' = Append(commits, y)
      BY <1>2 DEF Git!Commit
    <3> QED
      BY <3>2, <3>3
  <2>5. /\ Len(commits) \in Nat /\ Len(commits') = n
        /\ commits' \in Seq(GitCommits) /\ Rooted(commits') /\ commits'[n] = x
        /\ \A i \in 1..Len(commits) : commits'[i] = commits[i]
        /\ \A c \in 0..Len(commits) : Past(commits', c) = Past(commits, c) /\ TreeIn(commits', c) = TreeIn(commits, c)
        /\ Past(commits', n) = {n} \cup Past(commits, heads[cur]) /\ TreeIn(commits', n) = work
    <3>1. Added(x, commits')
      BY <2>1, <2>3, <2>4, CommitAdds
    <3> QED
      BY <2>4, <3>1 DEF Added
  <2>6. /\ n \in 1..n /\ \A c \in 0..Len(commits) : c \in 0..n
    BY <2>5
  <2> HIDE DEF n
  <2>7. /\ task' \in [GitTasks -> [pc : GitPcs, at : Nat, br : Git!Refs, create : BOOLEAN]]
        /\ \A u \in GitTasks : task'[u] = IF u = t THEN k ELSE task[u]
    BY <2>1 DEF GitShape
  <2>8. /\ heads' \in [Git!Refs -> 0..n] /\ heads'[cur] = n /\ n # 0
        /\ \A b \in Git!Refs : heads'[b] = IF b = cur THEN n ELSE heads[b]
    BY <2>1, <2>2, <2>3, <2>5, <2>6 DEF GitShape
  <2>9. GitShape'
    <3>1. remote \in [Git!Refs -> 0..n] /\ track \in [Git!Refs -> 0..n]
      BY <2>1, <2>6 DEF GitShape
    <3>2. \A u \in GitTasks : /\ task'[u].pc \in {"fetch", "merge"} => task'[u].br \in GitBranches
                              /\ task'[u].pc = "add" => repo # "none"
      BY <2>1, <2>7 DEF GitShape
    <3>3. heads'[cur'] # 0 /\ touched' \subseteq GitFiles
      BY <2>2, <2>8
    <3> QED
      BY <2>1, <2>5, <2>7, <2>8, <3>1, <3>2, <3>3 DEF GitShape
  <2>10. GitTold'
    <3>1. \A b \in Git!Refs : remote[b] \in 0..Len(commits)
      BY <2>1 DEF GitShape
    <3>2. \A b \in Git!Refs : Past(commits, remote[b]) \subseteq Past(commits', remote'[b])
      BY <2>5, <3>1
    <3>3. \A u \in GitTasks : task'[u].pc = "sha" => task'[u] = task[u]
      BY <2>7
    <3> QED
      BY <2>1, <3>2, <3>3, ToldGrows
  <2>11. GitKept'
    <3>1. \A b \in GitBranches : heads[b] \in 0..Len(commits) /\ b \in Git!Refs
      BY <2>1, GitNames DEF GitShape
    <3>2. \A c \in 0..Len(commits) : Past(commits, c) \subseteq 0..Len(commits)
      <4>1. \A c \in 0..Len(commits) : Past(commits, c) \subseteq 1..Len(commits)
        BY <2>1, PastWithin DEF GitShape
      <4> QED
        BY <4>1
    <3>3. \A b \in GitBranches : \A c \in Past(commits, heads[b]) :
            c \in Past(commits', heads'[b]) /\ TreeIn(commits', c) = TreeIn(commits, c)
      <4> TAKE b \in GitBranches
      <4> TAKE c \in Past(commits, heads[b])
      <4>1. TreeIn(commits', c) = TreeIn(commits, c)
        BY <2>5, <3>1, <3>2
      <4>2. c \in Past(commits', heads'[b])
        BY <2>5, <2>8, <3>1
      <4> QED
        BY <4>1, <4>2
    <3>4. \A f : Kept(f) => Kept(f)'
      BY <3>3, KeptGrows
    <3>5. "detached" \notin gitMishaps' => \A f \in GitFiles : Kept(f)'
      <4> HIDE DEF Kept
      <4> QED
        BY <2>1, <3>4 DEF GitKept
    <3>6. \A f \in GitFiles : work'[f] # TreeIn(commits', heads'[cur'])[f] => f \in touched'
      BY <2>5, <2>8
    <3>7. ASSUME "pull" \notin gitMishaps', NEW c \in 1..Len(commits'), commits'[c].by = "user",
                 NEW f \in GitFiles, commits'[c].t[f] # TreeIn(commits', commits'[c].p)[f]
          PROVE  f \in commits'[c].of
      <4>1. CASE c \in 1..Len(commits)
        <5>1. commits'[c] = commits[c] /\ commits[c].p \in 0..Len(commits)
          <6>1. commits[c].p \in 0..(c - 1)
            BY <2>1, <4>1 DEF GitShape, Rooted
          <6> QED
            BY <2>5, <4>1, <6>1
        <5>2. TreeIn(commits', commits[c].p) = TreeIn(commits, commits[c].p)
          BY <2>5, <5>1
        <5> QED
          BY <2>1, <3>7, <4>1, <5>1, <5>2 DEF GitKept
      <4>2. CASE c = n
        <5>1. TreeIn(commits', commits'[c].p) = TreeIn(commits, heads[cur])
          BY <2>3, <2>4, <2>5, <4>2
        <5> QED
          BY <2>1, <2>4, <2>5, <3>7, <4>2, <5>1 DEF GitKept
      <4>3. c \in 1..Len(commits) \/ c = n
        BY <2>5, <3>7 DEF n
      <4> QED
        BY <4>1, <4>2, <4>3
    <3> QED
      BY <3>5, <3>6, <3>7 DEF GitKept
  <2> QED
    BY <2>9, <2>10, <2>11 DEF GitInv
<1> QED
  BY <1>1, <1>2

\* What the host does with a push, and what is told of it.
LEMMA RemoteMoves ==
  ASSUME GitInv, UNCHANGED <<commits, heads, cur, work, touched, mine, origin, repo, edits>>,
         gitMishaps \subseteq gitMishaps',
         remote' \in [Git!Refs -> 0..Len(commits)], track' \in [Git!Refs -> 0..Len(commits)],
         remote'[Git!Detached] = 0, track'[Git!Detached] = 0,
         \A b \in Git!Refs : Past(commits, remote[b]) \subseteq Past(commits, remote'[b]),
         \A b \in Git!Refs : track'[b] \in {0, track[b]} \cup Past(commits, remote'[b]),
         promised' = promised \/ promised' = promised \cup {<<cur, heads[cur]>>},
         promised' = promised \/ gitMishaps' \cap {"refused", "late"} # {} \/ heads[cur] \in Past(commits, remote'[cur]),
         NEW t \in GitTasks, NEW k \in [pc : GitPcs, at : Nat, br : Git!Refs, create : BOOLEAN],
         task' = [task EXCEPT ![t] = k], k.pc \notin {"fetch", "merge", "add"},
         k.pc = "sha" /\ "refused" \notin gitMishaps' => k.at \in Past(commits, remote'[k.br])
  PROVE  GitInv'
<1>1. GitShape /\ GitTold /\ GitKept
  BY DEF GitInv
<1>2. /\ task' \in [GitTasks -> [pc : GitPcs, at : Nat, br : Git!Refs, create : BOOLEAN]]
      /\ \A u \in GitTasks : task'[u] = IF u = t THEN k ELSE task[u]
  BY <1>1 DEF GitShape
<1>3. cur \in Git!Refs /\ heads[cur] \in Nat
  BY <1>1 DEF GitShape, Rooted
<1>4. GitShape'
  <2>1. promised' \subseteq Git!Refs \X Nat
    <3>1. promised \subseteq Git!Refs \X Nat
      BY <1>1 DEF GitShape
    <3>2. <<cur, heads[cur]>> \in Git!Refs \X Nat
      BY <1>3
    <3> QED
      BY <3>1, <3>2
  <2>2. \A u \in GitTasks : /\ task'[u].pc \in {"fetch", "merge"} => task'[u].br \in GitBranches
                            /\ task'[u].pc = "add" => repo # "none"
    BY <1>1, <1>2 DEF GitShape
  <2> QED
    BY <1>1, <1>2, <2>1, <2>2 DEF GitShape
<1>5. GitTold'
  <2>1. \A x \in promised' : x \in promised \/
          (gitMishaps' \cap {"refused", "late"} = {} => x[2] \in Past(commits', remote'[x[1]]))
    OBVIOUS
  <2>2. \A u \in GitTasks : task'[u].pc = "sha" => task'[u] = task[u] \/
          ("refused" \notin gitMishaps' => task'[u].at \in Past(commits', remote'[task'[u].br]))
    BY <1>2
  <2> QED
    BY <1>1, <2>1, <2>2, ToldGrows
<1>6. GitKept'
  BY <1>1, KeptRests
<1> QED
  BY <1>4, <1>5, <1>6 DEF GitInv

\* The head is on the remote where it is its upstream.
LEMMA HeadIsThere ==
  ASSUME GitInv, heads[cur] = track[cur] PROVE heads[cur] \in Past(commits, remote[cur])
  BY DEF GitInv, GitShape, GitTold

\* push_current_branch.
LEMMA PushIs ==
  ASSUME GitInv, NEW ans \in {"same", "failed", "pushed"}, Git!Push(ans)
  PROVE  /\ gitMishaps \subseteq gitMishaps'
         /\ remote' \in [Git!Refs -> 0..Len(commits)] /\ track' \in [Git!Refs -> 0..Len(commits)]
         /\ remote'[Git!Detached] = 0 /\ track'[Git!Detached] = 0
         /\ \A b \in Git!Refs : Past(commits, remote[b]) \subseteq Past(commits, remote'[b])
         /\ \A b \in Git!Refs : track'[b] \in {0, track[b]} \cup Past(commits, remote'[b])
         /\ ans # "failed" => "refused" \in gitMishaps' \/ heads[cur] \in Past(commits, remote'[cur])
<1>1. /\ GitShape /\ GitTold /\ Rooted(commits) /\ cur \in Git!Refs /\ heads[cur] \in 1..Len(commits)
      /\ remote \in [Git!Refs -> 0..Len(commits)] /\ track \in [Git!Refs -> 0..Len(commits)]
      /\ remote[Git!Detached] = 0 /\ track[Git!Detached] = 0
  BY DEF GitInv, GitShape, Rooted
<1>2. CASE UNCHANGED <<remote, track, gitMishaps>> /\ (ans # "failed" => heads[cur] = track[cur])
  <2>1. ans # "failed" => heads[cur] \in Past(commits, remote[cur])
    BY <1>2, HeadIsThere
  <2> QED
    BY <1>1, <1>2, <2>1
<1>3. CASE /\ cur # Git!Detached /\ Git!Descends(heads[cur], remote[cur])
           /\ remote' = [remote EXCEPT ![cur] = heads[cur]] /\ track' = [track EXCEPT ![cur] = heads[cur]]
           /\ UNCHANGED gitMishaps
  <2>1. /\ \A b \in Git!Refs : /\ remote'[b] = IF b = cur THEN heads[cur] ELSE remote[b]
                               /\ track'[b] = IF b = cur THEN heads[cur] ELSE track[b]
        /\ remote' \in [Git!Refs -> 0..Len(commits)] /\ track' \in [Git!Refs -> 0..Len(commits)]
    BY <1>1, <1>3
  <2>2. heads[cur] \in Past(commits, heads[cur])
    BY <1>1, PastIs
  <2>3. Past(commits, remote[cur]) \subseteq Past(commits, heads[cur])
    <3>1. CASE remote[cur] = 0
      BY <1>1, <3>1, PastIs
    <3>2. CASE remote[cur] \in Past(commits, heads[cur])
      BY <1>1, <3>2, PastOfPast
    <3> QED
      BY <1>3, <3>1, <3>2, HistoryIs DEF Git!Descends
  <2>4. \A b \in Git!Refs : Past(commits, remote[b]) \subseteq Past(commits, remote'[b])
    BY <2>1, <2>3
  <2>5. \A b \in Git!Refs : track'[b] \in {0, track[b]} \cup Past(commits, remote'[b])
    BY <2>1, <2>2
  <2>6. remote'[Git!Detached] = 0 /\ track'[Git!Detached] = 0
    BY <1>1, <1>3
  <2>7. heads[cur] \in Past(commits, remote'[cur])
    BY <1>1, <2>1, <2>2
  <2> QED
    BY <1>3, <2>1, <2>4, <2>5, <2>6, <2>7
<1>4. CASE Git!Happen("refused") /\ UNCHANGED <<remote, track>>
  <2>1. gitMishaps \subseteq gitMishaps' /\ "refused" \in gitMishaps'
    BY <1>4 DEF Git!Happen
  <2> QED
    BY <1>1, <1>4, <2>1
<1> QED
  BY <1>2, <1>3, <1>4 DEF Git!Push

LEMMA PushKeeps ==
  ASSUME GitInv, NEW t \in GitTasks, Git!SyncPush(t) \/ Git!PushSend(t) PROVE GitInv'
<1>1. PICK ans \in {"same", "failed", "pushed"} :
        /\ Git!Push(ans)
        /\ \/ Git!Done(t) /\ promised' = promised
           \/ /\ ans # "failed" /\ promised' = promised \cup {<<cur, heads[cur]>>} /\ task' = [task EXCEPT ![t].pc = "status"]
           \/ /\ ans # "failed" /\ promised' = promised
              /\ task' = [task EXCEPT ![t].pc = "sha", ![t].br = cur, ![t].at = heads[cur]]
  BY DEF Git!SyncPush, Git!PushSend
<1>2. UNCHANGED <<commits, heads, cur, work, touched, mine, origin, repo, edits>>
  BY DEF Git!SyncPush, Git!PushSend
<1>3. GitShape /\ cur \in Git!Refs /\ heads[cur] \in Nat
  <2>1. GitShape
    BY DEF GitInv
  <2> QED
    BY <2>1 DEF GitShape, Rooted
<1>4. /\ gitMishaps \subseteq gitMishaps'
      /\ remote' \in [Git!Refs -> 0..Len(commits)] /\ track' \in [Git!Refs -> 0..Len(commits)]
      /\ remote'[Git!Detached] = 0 /\ track'[Git!Detached] = 0
      /\ \A b \in Git!Refs : Past(commits, remote[b]) \subseteq Past(commits, remote'[b])
      /\ \A b \in Git!Refs : track'[b] \in {0, track[b]} \cup Past(commits, remote'[b])
      /\ ans # "failed" => "refused" \in gitMishaps' \/ heads[cur] \in Past(commits, remote'[cur])
  BY <1>1, PushIs
<1>5. CASE Git!Done(t) /\ promised' = promised
  <2>1. task' = [task EXCEPT ![t] = Git!NoTask]
    BY <1>5 DEF Git!Done
  <2> QED
    BY <1>2, <1>3, <1>4, <1>5, <2>1, TaskTypes, RemoteMoves
<1>6. CASE /\ ans # "failed" /\ promised' = promised \cup {<<cur, heads[cur]>>} /\ task' = [task EXCEPT ![t].pc = "status"]
  <2>1. PICK k : k = [task[t] EXCEPT !.pc = "status"]
    OBVIOUS
  <2>2. k \in [pc : GitPcs, at : Nat, br : Git!Refs, create : BOOLEAN] /\ k.pc = "status" /\ task' = [task EXCEPT ![t] = k]
    BY <1>3, <1>6, <2>1, TaskTypes DEF GitPcs
  <2> QED
    BY <1>2, <1>4, <1>6, <2>2, RemoteMoves
<1>7. CASE /\ ans # "failed" /\ promised' = promised
           /\ task' = [task EXCEPT ![t].pc = "sha", ![t].br = cur, ![t].at = heads[cur]]
  <2>1. PICK k : k = [task[t] EXCEPT !.pc = "sha", !.br = cur, !.at = heads[cur]]
    OBVIOUS
  <2>2. task[t] \in [pc : GitPcs, at : Nat, br : Git!Refs, create : BOOLEAN]
    BY <1>3, TaskTypes
  <2>3. k \in [pc : GitPcs, at : Nat, br : Git!Refs, create : BOOLEAN] /\ k.pc = "sha" /\ k.br = cur /\ k.at = heads[cur]
    BY <1>3, <2>1, <2>2 DEF GitPcs
  <2>4. task' = [task EXCEPT ![t] = k]
    <3>1. task \in [GitTasks -> [pc : GitPcs, at : Nat, br : Git!Refs, create : BOOLEAN]]
      BY <1>3 DEF GitShape
    <3> QED
      BY <1>7, <2>1, <3>1
  <2> QED
    BY <1>2, <1>4, <1>7, <2>3, <2>4, RemoteMoves
<1> QED
  BY <1>1, <1>5, <1>6, <1>7

\* What is told when the call ends.
LEMMA AnswerKeeps ==
  ASSUME GitInv, NEW t \in GitTasks, Git!SyncStatus(t) \/ Git!PushAnswer(t) PROVE GitInv'
<1>1. /\ UNCHANGED <<commits, heads, cur, work, touched, mine, remote, track, origin, repo, edits>>
      /\ task' = [task EXCEPT ![t] = Git!NoTask]
  BY DEF Git!SyncStatus, Git!PushAnswer, Git!Done
<1>2. gitMishaps \subseteq gitMishaps' /\ (promised' = promised \/ promised' = promised \cup {<<cur, heads[cur]>>})
  BY DEF Git!SyncStatus, Git!PushAnswer, Git!Happen
<1>3. promised' = promised \/ gitMishaps' \cap {"refused", "late"} # {} \/ heads[cur] \in Past(commits, remote[cur])
  <2>1. CASE Git!SyncStatus(t)
    BY <2>1, HeadIsThere DEF Git!SyncStatus, Git!Clean
  <2>2. CASE Git!PushAnswer(t)
    <3>1. CASE <<cur, heads[cur]>> = <<task[t].br, task[t].at>>
      <4>1. cur = task[t].br /\ heads[cur] = task[t].at /\ task[t].pc = "sha"
        BY <2>2, <3>1 DEF Git!PushAnswer, Git!On
      <4>2. "refused" \in gitMishaps \/ task[t].at \in Past(commits, remote[task[t].br])
        BY <4>1 DEF GitInv, GitTold
      <4> QED
        BY <1>2, <4>1, <4>2
    <3>2. CASE <<cur, heads[cur]>> # <<task[t].br, task[t].at>>
      BY <2>2, <3>2 DEF Git!PushAnswer, Git!Happen
    <3> QED
      BY <3>1, <3>2
  <2> QED
    BY <2>1, <2>2
<1>4. /\ GitShape /\ remote \in [Git!Refs -> 0..Len(commits)] /\ track \in [Git!Refs -> 0..Len(commits)]
      /\ remote[Git!Detached] = 0 /\ track[Git!Detached] = 0
  BY DEF GitInv, GitShape
<1> QED
  BY <1>1, <1>2, <1>3, <1>4, TaskTypes, RemoteMoves

LEMMA EditKept ==
  ASSUME GitInv, NEW f \in GitFiles, Git!Edit(f) PROVE GitInv'
<1> DEFINE n == edits + 1
<1>1. /\ edits' = n /\ work' = [work EXCEPT ![f] = n] /\ touched' = touched \cup {f} /\ mine' = [mine EXCEPT ![f] = n]
      /\ UNCHANGED <<commits, heads, cur, remote, track, origin, repo, task, promised, gitMishaps>>
  BY DEF Git!Edit
<1>2. GitShape /\ GitTold /\ GitKept
  BY DEF GitInv
<1>3. n \in Nat /\ work \in GitTrees /\ mine \in GitTrees
  BY <1>2 DEF GitShape
<1> HIDE DEF n
<1>4. /\ work' \in GitTrees /\ mine' \in GitTrees
      /\ \A g \in GitFiles : g # f => work'[g] = work[g] /\ mine'[g] = mine[g]
      /\ work'[f] = n /\ mine'[f] = n
  BY <1>1, <1>3 DEF GitTrees
<1>5. GitShape'
  BY <1>1, <1>2, <1>3, <1>4 DEF GitShape
<1>6. GitTold'
  BY <1>1, <1>2, ToldRests
<1>7. GitKept'
  <2>1. "detached" \notin gitMishaps' => \A g \in GitFiles : Kept(g)'
    <3> SUFFICES ASSUME "detached" \notin gitMishaps', NEW g \in GitFiles PROVE Kept(g)'
      OBVIOUS
    <3>1. CASE g = f
      BY <1>4, <3>1 DEF Kept
    <3>2. CASE g # f
      <4>1. mine'[g] = mine[g] /\ work'[g] = work[g]
        BY <1>4, <3>2
      <4>2. Kept(g)
        <5> HIDE DEF Kept
        <5> QED
          BY <1>1, <1>2 DEF GitKept
      <4> QED
        BY <1>1, <4>1, <4>2 DEF Kept, TreeIn
    <3> QED
      BY <3>1, <3>2
  <2>2. \A c : TreeIn(commits', c) = TreeIn(commits, c)
    BY <1>1
  <2>3. "pull" \notin gitMishaps' =>
          /\ \A g \in GitFiles : work'[g] # TreeIn(commits', heads'[cur'])[g] => g \in touched'
          /\ \A c \in 1..Len(commits') : commits'[c].by = "user" =>
               \A g \in GitFiles : commits'[c].t[g] # TreeIn(commits', commits'[c].p)[g] => g \in commits'[c].of
    BY <1>1, <1>2, <1>4, <2>2 DEF GitKept
  <2> QED
    BY <2>1, <2>3 DEF GitKept
<1> QED
  BY <1>5, <1>6, <1>7 DEF GitInv

LEMMA OthersKeep ==
  ASSUME GitInv, NEW f \in GitFiles, Git!OthersPush(f) PROVE GitInv'
<1> DEFINE n == Len(commits) + 1
<1>1. /\ edits' = edits + 1 /\ remote' = [remote EXCEPT ![main] = n]
      /\ UNCHANGED <<heads, cur, work, touched, mine, track, origin, repo, task, promised, gitMishaps>>
  BY DEF Git!OthersPush
<1>2. GitShape /\ GitTold /\ GitKept
  BY DEF GitInv
<1>3. /\ main \in Git!Refs /\ main # Git!Detached /\ remote[main] \in 0..Len(commits) /\ Len(commits) \in Nat /\ edits' \in Nat
  BY <1>1, <1>2, GitNames DEF GitShape, Rooted
<1>4. PICK x \in GitCommits : commits' = Append(commits, x) /\ x.p = remote[main] /\ x.by = "others"
  <2> DEFINE y == [p |-> remote[main], t |-> [Git!TreeOf(remote[main]) EXCEPT ![f] = edits + 1],
                   by |-> "others", of |-> {f}]
  <2>1. Git!TreeOf(remote[main]) \in GitTrees
    BY <1>2, <1>3, TreeTypes, GitNames
  <2>2. edits + 1 \in Nat
    BY <1>1, <1>3
  <2>3. [Git!TreeOf(remote[main]) EXCEPT ![f] = edits + 1] \in GitTrees /\ remote[main] \in Nat
    BY <1>3, <2>1, <2>2 DEF GitTrees
  <2>4. y \in GitCommits /\ y.p = remote[main] /\ y.by = "others"
    BY <2>3 DEF GitCommits
  <2>5. commits' = Append(commits, y)
    BY DEF Git!OthersPush
  <2> QED
    BY <2>4, <2>5
<1>5. /\ Len(commits') = n /\ commits' \in Seq(GitCommits) /\ Rooted(commits') /\ commits'[n] = x
      /\ \A i \in 1..Len(commits) : commits'[i] = commits[i]
      /\ \A c \in 0..Len(commits) : Past(commits', c) = Past(commits, c) /\ TreeIn(commits', c) = TreeIn(commits, c)
      /\ Past(commits', n) = {n} \cup Past(commits, remote[main])
  <2>1. Added(x, commits')
    BY <1>2, <1>3, <1>4, CommitAdds
  <2> QED
    BY <1>4, <2>1 DEF Added
<1>6. n \in 1..n /\ n # 0 /\ \A c \in 0..Len(commits) : c \in 0..n
  BY <1>3
<1>7. \A c \in 1..n : c = n \/ c \in 1..Len(commits)
  BY <1>3
<1> HIDE DEF n
<1>8. /\ remote' \in [Git!Refs -> 0..n] /\ \A b \in Git!Refs : remote'[b] = IF b = main THEN n ELSE remote[b]
  <2>1. remote \in [Git!Refs -> 0..Len(commits)]
    BY <1>2 DEF GitShape
  <2>2. remote \in [Git!Refs -> 0..n] /\ n \in 0..n
    BY <1>6, <2>1
  <2> QED
    BY <1>1, <2>2
<1>9. GitShape'
  <2>1. heads \in [Git!Refs -> 0..n] /\ track \in [Git!Refs -> 0..n]
    BY <1>2, <1>6 DEF GitShape
  <2>2. remote'[Git!Detached] = 0
    BY <1>2, <1>3, <1>8, GitNames DEF GitShape
  <2> QED
    BY <1>1, <1>2, <1>3, <1>5, <1>8, <2>1, <2>2 DEF GitShape
<1>10. GitTold'
  <2>1. \A b \in Git!Refs : remote[b] \in 0..Len(commits)
    BY <1>2 DEF GitShape
  <2>2. \A b \in Git!Refs : Past(commits, remote[b]) \subseteq Past(commits', remote'[b])
    BY <1>3, <1>5, <1>8, <2>1
  <2>3. \A b \in Git!Refs : track'[b] \in {0, track[b]} \cup Past(commits', remote'[b])
    BY <1>1
  <2> QED
    BY <1>1, <1>2, <2>2, <2>3, ToldGrows
<1>11. GitKept'
  <2>1. \A b \in GitBranches : heads[b] \in 0..Len(commits) /\ b \in Git!Refs
    BY <1>2, GitNames DEF GitShape
  <2>2. \A c \in 0..Len(commits) : Past(commits, c) \subseteq 0..Len(commits)
    <3>1. \A c \in 0..Len(commits) : Past(commits, c) \subseteq 1..Len(commits)
      BY <1>2, PastWithin DEF GitShape
    <3> QED
      BY <3>1
  <2>3. \A b \in GitBranches : \A c \in Past(commits, heads[b]) :
          c \in Past(commits', heads'[b]) /\ TreeIn(commits', c) = TreeIn(commits, c)
    BY <1>1, <1>5, <2>1, <2>2
  <2>4. \A g : Kept(g) => Kept(g)'
    BY <1>1, <2>3, KeptGrows
  <2>5. "detached" \notin gitMishaps' => \A g \in GitFiles : Kept(g)'
    <3> HIDE DEF Kept
    <3> QED
      BY <1>1, <1>2, <2>4 DEF GitKept
  <2>6. ASSUME "pull" \notin gitMishaps', NEW g \in GitFiles, work'[g] # TreeIn(commits', heads'[cur'])[g]
        PROVE  g \in touched'
    <3>1. heads[cur] \in 0..Len(commits)
      BY <1>2 DEF GitShape
    <3>2. TreeIn(commits', heads'[cur']) = TreeIn(commits, heads[cur])
      BY <1>1, <1>5, <3>1
    <3> QED
      BY <1>1, <1>2, <2>6, <3>2 DEF GitKept
  <2>7. ASSUME "pull" \notin gitMishaps', NEW c \in 1..Len(commits'), commits'[c].by = "user",
               NEW g \in GitFiles, commits'[c].t[g] # TreeIn(commits', commits'[c].p)[g]
        PROVE  g \in commits'[c].of
    <3>1. c \in 1..Len(commits) /\ commits'[c] = commits[c]
      BY <1>4, <1>5, <1>7, <2>7
    <3>2. commits[c].p \in 0..(c - 1)
      BY <1>2, <3>1 DEF GitShape, Rooted
    <3>3. commits[c].p \in 0..Len(commits)
      BY <1>3, <3>1, <3>2
    <3>4. TreeIn(commits', commits[c].p) = TreeIn(commits, commits[c].p)
      BY <1>5, <3>3
    <3> QED
      BY <1>1, <1>2, <2>7, <3>1, <3>4 DEF GitKept
  <2> QED
    BY <2>5, <2>6, <2>7 DEF GitKept
<1> QED
  BY <1>9, <1>10, <1>11 DEF GitInv

\* A safe checkout: what the user wrote last in a file stays, or is in the head
\* that is left.
LEMMA SwitchKeeps ==
  ASSUME GitInv, NEW b \in Git!Refs, Git!Switch(b) PROVE GitInv'
<1> DEFINE new == Git!Target(b)
<1>1. /\ b # cur /\ new # 0 /\ cur' = b /\ heads' = [heads EXCEPT ![b] = new]
      /\ UNCHANGED <<commits, touched, mine, remote, track, origin, repo, edits, task, promised>>
      /\ gitMishaps \subseteq gitMishaps' /\ (b = Git!Detached => "detached" \in gitMishaps')
  BY DEF Git!Switch, Git!Switched, Git!Happen
<1>2. GitShape /\ GitTold /\ GitKept /\ main \in Git!Refs
  BY GitNames DEF GitInv
<1>3. /\ new \in 0..Len(commits) /\ cur \in Git!Refs /\ heads[cur] \in 1..Len(commits) /\ Rooted(commits)
      /\ b # Git!Detached => new = heads[b] \/ heads[b] = 0
  BY <1>2 DEF GitShape, Git!Target, Rooted
<1>4. /\ \A f \in GitFiles : TreeIn(commits, heads[cur])[f] # TreeIn(commits, new)[f] =>
           work[f] \in {TreeIn(commits, heads[cur])[f], TreeIn(commits, new)[f]}
      /\ work' = [f \in GitFiles |-> IF TreeIn(commits, heads[cur])[f] = TreeIn(commits, new)[f] THEN work[f]
                                     ELSE TreeIn(commits, new)[f]]
  BY GitNames DEF Git!Switch, Git!Checkout
<1>5. TreeIn(commits, new) \in GitTrees /\ work \in GitTrees
  BY <1>2, <1>3, TreeTypes DEF GitShape
<1> HIDE DEF new
<1>6. /\ heads' \in [Git!Refs -> 0..Len(commits)] /\ heads'[b] = new
      /\ \A a \in Git!Refs : a # b => heads'[a] = heads[a]
  BY <1>1, <1>2, <1>3 DEF GitShape
<1>7. work' \in GitTrees
  BY <1>4, <1>5 DEF GitTrees
<1>8. GitShape'
  BY <1>1, <1>2, <1>3, <1>6, <1>7 DEF GitShape
<1>9. GitTold'
  BY <1>1, <1>2, ToldRests
<1>10. GitKept'
  <2>1. ASSUME "detached" \notin gitMishaps', NEW f \in GitFiles PROVE Kept(f)'
    <3>1. Kept(f) /\ cur # Git!Detached /\ b # Git!Detached
      <4>1. Kept(f)
        <5> HIDE DEF Kept
        <5> QED
          BY <1>1, <1>2, <2>1 DEF GitKept
      <4> QED
        BY <1>1, <1>2, <2>1, <4>1 DEF GitShape
    <3>2. cur \in GitBranches /\ b \in GitBranches
      BY <1>3, <3>1, GitNames
    <3>3. CASE mine[f] = 0
      BY <1>1, <3>3 DEF Kept
    <3>4. CASE \E a \in GitBranches : \E c \in Past(commits, heads[a]) : TreeIn(commits, c)[f] = mine[f]
      <4>1. PICK a \in GitBranches : \E c \in Past(commits, heads[a]) : TreeIn(commits, c)[f] = mine[f]
        BY <3>4
      <4>2. PICK c \in Past(commits, heads[a]) : TreeIn(commits, c)[f] = mine[f]
        BY <4>1
      <4>3. heads'[a] = heads[a]
        <5>1. CASE a = b
          <6>1. heads[b] # 0
            BY <1>3, <4>2, <5>1, PastIs
          <6> QED
            BY <1>3, <1>6, <3>1, <5>1, <6>1
        <5>2. CASE a # b
          BY <1>6, <5>2, GitNames
        <5> QED
          BY <5>1, <5>2
      <4>4. c \in Past(commits', heads'[a]) /\ TreeIn(commits', c)[f] = mine'[f]
        BY <1>1, <4>2, <4>3
      <4> QED
        BY <4>4 DEF Kept
    <3>5. CASE work[f] = mine[f]
      <4>1. CASE work'[f] = mine[f]
        BY <1>1, <4>1 DEF Kept
      <4>2. CASE work'[f] # mine[f]
        <5>1. TreeIn(commits, heads[cur])[f] = mine[f]
          BY <1>4, <3>5, <4>2
        <5>2. heads[cur] \in Past(commits, heads[cur])
          BY <1>3, PastIs
        <5>3. heads'[cur] = heads[cur]
          BY <1>1, <1>3, <1>6
        <5>4. heads[cur] \in Past(commits', heads'[cur]) /\ TreeIn(commits', heads[cur])[f] = mine'[f]
          BY <1>1, <5>1, <5>2, <5>3
        <5> QED
          BY <3>2, <5>4 DEF Kept
      <4> QED
        BY <4>1, <4>2
    <3> QED
      BY <3>1, <3>3, <3>4, <3>5 DEF Kept
  <2>2. ASSUME "pull" \notin gitMishaps', NEW f \in GitFiles, work'[f] # TreeIn(commits', heads'[cur'])[f]
        PROVE  f \in touched'
    <3>1. TreeIn(commits', heads'[cur']) = TreeIn(commits, new)
      BY <1>1, <1>6
    <3>2. TreeIn(commits, heads[cur])[f] = TreeIn(commits, new)[f] /\ work'[f] = work[f]
      BY <1>4, <2>2, <3>1
    <3> QED
      BY <1>1, <1>2, <2>2, <3>1, <3>2 DEF GitKept
  <2>3. \A c : TreeIn(commits', c) = TreeIn(commits, c)
    BY <1>1
  <2>4. "pull" \notin gitMishaps' => \A c \in 1..Len(commits') : commits'[c].by = "user" =>
          \A f \in GitFiles : commits'[c].t[f] # TreeIn(commits', commits'[c].p)[f] => f \in commits'[c].of
    BY <1>1, <1>2, <2>3 DEF GitKept
  <2> QED
    BY <2>1, <2>2, <2>4 DEF GitKept
<1> QED
  BY <1>8, <1>9, <1>10 DEF GitInv

LEMMA ForwardKeeps ==
  ASSUME GitInv, NEW t \in GitTasks, Git!Forward(t) PROVE GitInv'
<1> DEFINE b == task[t].br
           c == track[b]
<1>1. /\ task[t].pc = "merge" /\ task' = [task EXCEPT ![t] = Git!NoTask]
      /\ UNCHANGED <<commits, work, touched, mine, remote, track, origin, repo, edits, promised>>
      /\ \/ /\ c # 0 /\ heads[b] \in Git!History(c) \ {c}
            /\ heads' = [heads EXCEPT ![b] = c] /\ cur' = b /\ Git!Happen("pull")
         \/ UNCHANGED <<heads, cur, gitMishaps>>
  BY DEF Git!Forward, Git!On, Git!Done
<1>2. GitShape /\ GitTold /\ GitKept
  BY DEF GitInv
<1>3. /\ b \in GitBranches /\ b \in Git!Refs /\ b # Git!Detached /\ c \in 0..Len(commits) /\ Rooted(commits)
  BY <1>1, <1>2, GitNames DEF GitShape
<1> HIDE DEF b, c
<1>4. CASE UNCHANGED <<heads, cur, gitMishaps>>
  <2>1. repo \in {"none", "ours", "others"} /\ (origin => repo # "none")
    BY <1>2 DEF GitShape
  <2> QED
    BY <1>1, <1>2, <1>4, <2>1, TaskTypes, TaskMoves
<1>5. CASE /\ c # 0 /\ heads[b] \in Git!History(c) \ {c}
           /\ heads' = [heads EXCEPT ![b] = c] /\ cur' = b /\ Git!Happen("pull")
  <2>1. gitMishaps \subseteq gitMishaps' /\ "pull" \in gitMishaps'
    BY <1>5 DEF Git!Happen
  <2>2. /\ heads' \in [Git!Refs -> 0..Len(commits)] /\ heads'[b] = c
        /\ \A a \in Git!Refs : a # b => heads'[a] = heads[a]
    BY <1>2, <1>3, <1>5 DEF GitShape
  <2>3. /\ task' \in [GitTasks -> [pc : GitPcs, at : Nat, br : Git!Refs, create : BOOLEAN]]
        /\ \A u \in GitTasks : task'[u] = IF u = t THEN Git!NoTask ELSE task[u]
    BY <1>1, <1>2, TaskTypes DEF GitShape
  <2>4. GitShape'
    <3>1. \A u \in GitTasks : /\ task'[u].pc \in {"fetch", "merge"} => task'[u].br \in GitBranches
                              /\ task'[u].pc = "add" => repo # "none"
      BY <1>2, <2>3, TaskTypes DEF GitShape
    <3> QED
      BY <1>1, <1>2, <1>3, <1>5, <2>2, <2>3, <3>1 DEF GitShape
  <2>5. GitTold'
    <3>1. \A u \in GitTasks : task'[u].pc = "sha" => task'[u] = task[u]
      BY <1>2, <2>3, TaskTypes
    <3> QED
      BY <1>1, <1>2, <2>1, <3>1, ToldRests
  <2>6. GitKept'
    <3>1. Past(commits, heads[b]) \subseteq Past(commits, c)
      BY <1>3, <1>5, HistoryIs, PastOfPast
    <3>2. \A a \in GitBranches : \A d \in Past(commits, heads[a]) :
            d \in Past(commits', heads'[a]) /\ TreeIn(commits', d) = TreeIn(commits, d)
      BY <1>1, <2>2, <3>1, GitNames
    <3>3. \A f : Kept(f) => Kept(f)'
      BY <1>1, <3>2, KeptGrows
    <3>4. "detached" \notin gitMishaps' => \A f \in GitFiles : Kept(f)'
      <4> HIDE DEF Kept
      <4> QED
        BY <1>2, <2>1, <3>3 DEF GitKept
    <3> QED
      BY <2>1, <3>4 DEF GitKept
  <2> QED
    BY <2>4, <2>5, <2>6 DEF GitInv
<1> QED
  BY <1>1, <1>4, <1>5

LEMMA CommitStepKeeps ==
  ASSUME GitInv, NEW t \in GitTasks, Git!SyncCommit(t) \/ Git!PushCommit(t) PROVE GitInv'
<1>1. PICK l \in {"push", "send"} : Git!Go(t, l)
  BY DEF Git!SyncCommit, Git!PushCommit
<1>2. /\ Git!Commit /\ UNCHANGED <<cur, work, mine, remote, track, origin, repo, edits, promised, gitMishaps>>
  BY DEF Git!SyncCommit, Git!PushCommit
<1>3. GitShape
  BY DEF GitInv
<1>4. PICK k : k = [task[t] EXCEPT !.pc = l]
  OBVIOUS
<1>5. /\ k \in [pc : GitPcs, at : Nat, br : Git!Refs, create : BOOLEAN] /\ k.pc = l
      /\ task' = [task EXCEPT ![t] = k]
  <2>1. l \in GitPcs
    BY DEF GitPcs
  <2>2. task' = [task EXCEPT ![t] = k]
    BY <1>1, <1>4 DEF Git!Go
  <2> QED
    BY <1>3, <1>4, <2>1, <2>2, TaskTypes
<1> QED
  BY <1>2, <1>5, CommitKeeps

LEMMA GitStep ==
  ASSUME GitInv, [Git!Next]_gitVars PROVE GitInv'
<1>1. CASE \E f \in GitFiles : Git!Edit(f) \/ Git!OthersPush(f)
  BY <1>1, EditKept, OthersKeep
<1>2. CASE \E b \in Git!Refs : Git!Switch(b)
  BY <1>2, SwitchKeeps
<1>3. CASE \E t \in GitTasks : Git!Task(t)
  <2> PICK t \in GitTasks : Git!Task(t)
    BY <1>3
  <2>1. CASE \/ Git!Sync(t) \/ Git!SyncSkip(t) \/ Git!Pull(t) \/ Git!Fetch(t) \/ Git!GithubPush(t)
             \/ Git!FindRemote(t) \/ Git!CreateRepo(t) \/ Git!AddRemote(t)
    BY <2>1, TaskAloneKeeps
  <2>2. CASE Git!SyncCommit(t) \/ Git!PushCommit(t)
    BY <2>2, CommitStepKeeps
  <2>3. CASE Git!SyncPush(t) \/ Git!PushSend(t)
    BY <2>3, PushKeeps
  <2>4. CASE Git!SyncStatus(t) \/ Git!PushAnswer(t)
    BY <2>4, AnswerKeeps
  <2>5. CASE Git!Forward(t)
    BY <2>5, ForwardKeeps
  <2> QED
    BY <2>1, <2>2, <2>3, <2>4, <2>5 DEF Git!Task
<1>4. CASE UNCHANGED gitVars
  <2>1. UNCHANGED <<commits, heads, cur, work, touched, mine, remote, track, origin, repo, edits, task, promised, gitMishaps>>
    BY <1>4 DEF gitVars
  <2>2. GitShape'
    BY <2>1 DEF GitInv, GitShape
  <2>3. GitTold'
    BY <2>1, ToldRests DEF GitInv
  <2>4. GitKept'
    BY <2>1, KeptRests DEF GitInv
  <2> QED
    BY <2>2, <2>3, <2>4 DEF GitInv
<1> QED
  BY <1>1, <1>2, <1>3, <1>4 DEF Git!Next

\* The invariant of the repositories: what is known or told of the remote is in
\* its history, and what the user wrote last in a file is in the tree or in the
\* history of a branch.
THEOREM GitInvariant == Git!Spec => []GitInv
<1> HIDE DEF GitInv
<1>1. GitInv /\ [Git!Next]_Git!vars => GitInv'
  <2>1. Git!vars = gitVars
    BY DEF Git!vars, gitVars
  <2> QED
    BY <2>1, GitStep DEF Git!vars, gitVars
<1> QED
  BY <1>1, GitStarts, PTL DEF Git!Spec

\* The same of the run, of which the repositories are a part.
LEMMA GitOfWork == WorkSpec => []GitInv
<1> HIDE DEF GitInv
<1>1. WorkInit => Git!Init
  BY DEF WorkInit
<1>2. [WorkNext]_all => [Git!Next]_gitVars
  BY DEF WorkNext, all
<1>3. GitInv /\ [Git!Next]_gitVars => GitInv'
  BY GitStep
<1> QED
  BY <1>1, <1>2, <1>3, GitStarts, PTL DEF WorkSpec

\* What a sync or a push has told to be on the remote is in the history of its
\* branch, with others' pushes between (projects/syncer.rs,
\* mcp/tools/discovery.rs), unless the host declined the branch or HEAD moved
\* before the answer; for any files, branches, tasks, calls and edits.
THEOREM PushedStaysThere == WorkSpec => []PushedIsThere
<1> HIDE DEF GitInv
<1>1. GitInv => PushedIsThere
  BY GitFollows DEF PushedIsThere
<1> QED
  BY <1>1, GitOfWork, PTL

\* What the user wrote last in a file is in the tree or in a commit of a branch,
\* until what is switched to is no branch; and what is committed in the user's
\* name is what the user edited, until a pull moves the branch under the tree
\* (infrastructure/git.rs).
THEOREM EditsStayKept == WorkSpec => []EditsAreKept
<1> HIDE DEF GitInv
<1>1. GitInv => EditsAreKept
  BY GitFollows DEF EditsAreKept
<1> QED
  BY <1>1, GitOfWork, PTL

-----------------------------------------------------------------------------
(* The working trees (WorkTrees) *)

TreeFile == [ino : -1..Calls, by : SUBSET (Roots \cup (1..Calls))]
WorkTree == [Names -> TreeFile]
ToolCall == [op : {"none", "write", "snapshot", "rollback", "fork"},
             pc : {"idle", "create", "fill", "rename", "copy", "copy on", "add", "stop", "remove", "start"},
             p : Projects \cup {None}, id : Paths \cup {None}, f : Names, w : 0..Calls, ino : 0..Calls]
Record == [id : Snaps, p : Projects]
OwnRecords(rows, p) == {i \in DOMAIN rows : rows[i].p = p}

\* The places a call of each tool may be at, and what it then carries.
CallFits(k) ==
  \/ k = Idle
  \/ /\ k.p \in Projects
     /\ \/ /\ k.op = "write" /\ k.pc \in {"create", "fill", "rename"} /\ k.f \in Files
           /\ k.w > 0 /\ (k.pc = "fill" => k.ino > 0)
        \/ k.op = "snapshot" /\ k.pc \in {"copy", "copy on", "add"} /\ k.id \in Snaps
        \/ k.op = "rollback" /\ k.pc \in {"stop", "remove", "copy", "copy on", "start"} /\ k.id \in Snaps
        \/ k.op = "fork" /\ k.pc \in {"copy", "copy on", "add"} /\ k.id \in Forks

TreeShape ==
  /\ tree \in [Paths -> WorkTree]
  /\ store \subseteq Projects /\ server \subseteq store
  /\ records \in Seq(Record)
  /\ \A p \in Projects : Cardinality(OwnRecords(records, p)) <= Cap
  /\ call \in [Callers -> ToolCall] /\ \A c \in Callers : CallFits(call[c])
  /\ used \in [calls : 0..Calls, ids : SUBSET Paths]
  /\ store \subseteq Roots \cup used.ids /\ \A c \in Callers : call[c].id \in used.ids \cup {None}

\* What a call that makes a snapshot has yet to write, nobody else has.
SnapFits(c) ==
  /\ call[c].pc = "copy" => tree[call[c].id] = NoTree
  /\ call[c].pc = "copy on" => tree[call[c].id]["css"] = NoFile
  /\ \A i \in DOMAIN records : records[i].id # call[c].id
  /\ \A d \in Callers \ {c} : call[d].op \in {"snapshot", "rollback"} => call[d].id # call[c].id

\* A snapshot's tree is written once, by the call that makes it; the record and
\* whoever rolls back to it come after.
SnapsAreNew ==
  /\ \A s \in Snaps \ used.ids : tree[s] = NoTree
  /\ \A i \in DOMAIN records : records[i].id \in used.ids
  /\ \A c \in Callers : call[c].op = "snapshot" => SnapFits(c)

\* Of two writes in one project there is never more than one at a time; so what
\* one fills is empty, and a file has the bytes of one write.
OneWrites ==
  Without({"stem"}) =>
    /\ \A q \in Paths, n \in Names : \A x, y \in tree[q][n].by : x = y
    /\ \A c \in Callers : call[c].op = "write" =>
         /\ \A d \in Callers \ {c} : call[d].op = "write" => call[d].p # call[c].p
         /\ call[c].pc = "fill" =>
              \A n \in Names : tree[call[c].p][n].ino = call[c].ino => tree[call[c].p][n].by = {}

\* A rollback has its project to itself, whose server is down until it starts
\* it again; a fork has its id to itself until the store has it.
TreesApart ==
  Without({"swap", "milli"}) =>
    \A c \in Callers :
      /\ call[c].pc # "idle" => call[c].p \in store
      /\ call[c].op = "rollback" =>
           /\ \A d \in Callers \ {c} : call[d].p # call[c].p
           /\ call[c].pc # "stop" => call[c].p \notin server
      /\ call[c].op = "fork" =>
           /\ call[c].id \notin store
           /\ \A d \in Callers \ {c} : call[d].op = "fork" => call[d].id # call[c].id

\* A copy of a whole tree is whole when it is done.
CopiesWhole(c) ==
  /\ call[c].pc = "copy on" => tree[Target(c)]["html"] # NoFile
  /\ call[c].pc = "add" => Whole(tree[call[c].id])

\* Some snapshot is whole; or there has been none to roll back to, and nothing
\* has broken a tree.
KeptWhole ==
  Without({"swap", "milli"}) =>
    \/ \E s \in Snaps : Whole(tree[s])
    \/ /\ \A p \in store : Whole(tree[p])
       /\ records = <<>>
       /\ \A c \in Callers : call[c].op # "rollback" /\ CopiesWhole(c)

\* While nothing fails a tree is broken only between the removal and the copy
\* of a rollback, and what is recorded is whole.
GoodTrees ==
  Without({"swap", "disk", "crash", "milli"}) =>
    /\ \A p \in store : Whole(tree[p]) \/
         \E c \in Callers : call[c].op = "rollback" /\ call[c].p = p /\ call[c].pc \in {"copy", "copy on"}
    /\ \A i \in DOMAIN records : Whole(tree[records[i].id])
    /\ \A c \in Callers : CopiesWhole(c) /\ (call[c].op = "rollback" => Whole(tree[call[c].id]))

TreesInv == TreeShape /\ SnapsAreNew /\ OneWrites /\ TreesApart /\ KeptWhole /\ GoodTrees

LEMMA OwnOfAppend ==
  ASSUME NEW rows \in Seq(Record), NEW r \in Record, NEW q \in Projects
  PROVE  OwnRecords(Append(rows, r), q)
           = OwnRecords(rows, q) \cup (IF r.p = q THEN {Len(rows) + 1} ELSE {})
BY DEF OwnRecords, Record

LEMMA OwnAreFinite ==
  ASSUME NEW rows \in Seq(Record), NEW q \in Projects
  PROVE  IsFiniteSet(OwnRecords(rows, q)) /\ OwnRecords(rows, q) \subseteq 1..Len(rows)
<1>1. IsFiniteSet(1..Len(rows))
  BY FS_Interval
<1>2. OwnRecords(rows, q) \subseteq 1..Len(rows)
  BY DEF OwnRecords
<1> QED
  BY <1>1, <1>2, FS_Subset

\* Without the one at k, what is left of a project's records are its others.
LEMMA OwnOfRest ==
  ASSUME NEW rows \in Seq(Record), NEW k \in 1..Len(rows), NEW q \in Projects,
         NEW rest, rest = [i \in 1..(Len(rows) - 1) |-> rows[IF i < k THEN i ELSE i + 1]]
  PROVE  Cardinality(OwnRecords(rest, q)) <= Cardinality(OwnRecords(rows, q) \ {k})
<1> DEFINE S == OwnRecords(rest, q)
           T == OwnRecords(rows, q) \ {k}
           f == [i \in S |-> IF i < k THEN i ELSE i + 1]
<1>1. S \subseteq 1..(Len(rows) - 1)
  BY DEF OwnRecords
<1>2. \A i \in S : f[i] \in T
  <2> TAKE i \in S
  <2>1. i \in 1..(Len(rows) - 1) /\ rest[i].p = q
    BY DEF OwnRecords
  <2> QED
    BY <2>1 DEF OwnRecords
<1>3. f \in [S -> T]
  BY <1>2
<1>4. \A i, j \in S : f[i] = f[j] => i = j
  BY <1>1
<1>5. f \in Injection(S, T)
  BY <1>3, <1>4 DEF Injection, IsInjective
<1>6. IsFiniteSet(T)
  BY OwnAreFinite, FS_RemoveElement
<1> HIDE DEF f, S, T
<1>7. Cardinality(S) <= Cardinality(T)
  BY <1>5, <1>6, FS_Injection
<1> QED
  BY <1>7 DEF S, T

\* A new record is added, and no more than Cap of a project are kept.
RecordsFit(kept, rows, r) ==
  /\ kept \in Seq(Record)
  /\ \A i \in DOMAIN kept : kept[i] = r \/ \E j \in DOMAIN rows : kept[i] = rows[j]
  /\ \A q \in Projects : Cardinality(OwnRecords(kept, q)) <= Cap

LEMMA EvictKeeps ==
  ASSUME TreesAssumption, NEW rows \in Seq(Record), NEW r \in Record,
         \A q \in Projects : Cardinality(OwnRecords(rows, q)) <= Cap
  PROVE  RecordsFit(Evict(Append(rows, r), r.p), rows, r)
<1> SUFFICES ASSUME NEW kept, kept = Evict(Append(rows, r), r.p)
             PROVE  RecordsFit(kept, rows, r)
  OBVIOUS
<1> USE DEF RecordsFit
<1> DEFINE ext == Append(rows, r)
           p == r.p
<1>1. /\ ext \in Seq(Record) /\ Len(ext) = Len(rows) + 1 /\ p \in Projects
      /\ \A i \in 1..Len(ext) : ext[i] = IF i = Len(ext) THEN r ELSE rows[i]
  BY DEF Record
<1>2. \A q \in Projects : OwnRecords(ext, q) = OwnRecords(rows, q) \cup (IF p = q THEN {Len(rows) + 1} ELSE {})
  BY OwnOfAppend
<1>3. \A q \in Projects \ {p} : OwnRecords(ext, q) = OwnRecords(rows, q)
  BY <1>2
<1>4. OwnRecords(ext, p) = OwnRecords(rows, p) \cup {Len(rows) + 1}
  BY <1>1, <1>2
<1>5. Cardinality(OwnRecords(ext, p)) <= Cap + 1 /\ Cardinality(OwnRecords(ext, p)) \in Nat
  <2>1. IsFiniteSet(OwnRecords(rows, p)) /\ IsFiniteSet(OwnRecords(ext, p))
    BY <1>1, OwnAreFinite
  <2>2. Cardinality(OwnRecords(rows, p)) \in Nat /\ Cardinality(OwnRecords(ext, p)) \in Nat
    BY <2>1, FS_CardinalityType
  <2>3. Cardinality(OwnRecords(ext, p)) <= Cardinality(OwnRecords(rows, p)) + 1
    BY <1>4, <2>1, <2>2, FS_AddElement
  <2>4. Cap \in Nat
    BY DEF TreesAssumption
  <2>5. Cardinality(OwnRecords(rows, p)) <= Cap
    BY <1>1
  <2> QED
    BY <2>2, <2>3, <2>4, <2>5
<1> HIDE DEF ext, p
<1>6. CASE Cardinality(OwnRecords(ext, p)) > Cap
  <2> DEFINE own == {i \in DOMAIN ext : ext[i].p = p}
             oldest == CHOOSE i \in own : \A j \in own : i <= j
  <2>1. own = OwnRecords(ext, p)
    BY DEF OwnRecords
  <2>11. own \in SUBSET (1..Len(ext))
    BY <1>1
  <2> HIDE DEF own
  <2>2. own # {}
    <3>1. Cardinality({}) = 0
      BY FS_EmptySet
    <3>2. Cap \in Nat
      BY DEF TreesAssumption
    <3>3. SUFFICES ASSUME own = {} PROVE FALSE
      OBVIOUS
    <3>4. OwnRecords(ext, p) = {}
      BY <2>1, <3>3
    <3> QED
      BY <1>6, <3>1, <3>2, <3>4
  <2>3. own \in SUBSET (0..Len(ext)) /\ Len(ext) \in Nat
    BY <1>1, <2>11
  <2>4. \E i \in own : \A j \in own : i <= j
    BY <2>2, <2>3, LeastUpTo
  <2>5. oldest \in own
    BY <2>4
  <2>6. oldest \in 1..Len(ext)
    BY <2>5, <2>11
  <2> HIDE DEF oldest
  <2>7. kept = [i \in 1..(Len(ext) - 1) |-> ext[IF i < oldest THEN i ELSE i + 1]]
    BY <1>6, <2>1 DEF Evict, ext, p, oldest, own
  <2>8. kept \in Seq(Record)
    <3>1. Len(ext) - 1 \in Nat
      BY <1>1
    <3>2. \A i \in 1..(Len(ext) - 1) : ext[IF i < oldest THEN i ELSE i + 1] \in Record
      BY <1>1, <2>6
    <3> QED
      BY <2>7, <3>1, <3>2
  <2>9. \A i \in DOMAIN kept : kept[i] = r \/ \E j \in DOMAIN rows : kept[i] = rows[j]
    <3> TAKE i \in DOMAIN kept
    <3>1. PICK j \in 1..Len(ext) : kept[i] = ext[j]
      BY <1>1, <2>6, <2>7
    <3> QED
      BY <1>1, <3>1
  <2>10. ASSUME NEW q \in Projects
         PROVE  Cardinality(OwnRecords(kept, q)) <= Cap
    <3>1. Cardinality(OwnRecords(kept, q)) <= Cardinality(OwnRecords(ext, q) \ {oldest})
      BY <1>1, <2>6, <2>7, OwnOfRest
    <3>2. IsFiniteSet(OwnRecords(ext, q)) /\ IsFiniteSet(OwnRecords(kept, q))
      BY <1>1, <2>8, OwnAreFinite
    <3>3. /\ Cardinality(OwnRecords(ext, q)) \in Nat /\ Cardinality(OwnRecords(kept, q)) \in Nat
          /\ IsFiniteSet(OwnRecords(ext, q) \ {oldest})
          /\ Cardinality(OwnRecords(ext, q) \ {oldest})
               = IF oldest \in OwnRecords(ext, q) THEN Cardinality(OwnRecords(ext, q)) - 1
                                                  ELSE Cardinality(OwnRecords(ext, q))
      BY <3>2, FS_CardinalityType, FS_RemoveElement
    <3>4. Cap \in Nat
      BY DEF TreesAssumption
    <3>5. CASE q = p
      BY <1>5, <2>1, <2>5, <3>1, <3>3, <3>4, <3>5
    <3>6. CASE q # p
      <4>1. Cardinality(OwnRecords(ext, q)) <= Cap
        BY <1>3, <3>6
      <4> QED
        BY <3>1, <3>3, <3>4, <4>1
    <3> QED
      BY <3>5, <3>6
  <2> QED
    BY <2>8, <2>9, <2>10
<1>7. CASE ~(Cardinality(OwnRecords(ext, p)) > Cap)
  <2>1. kept = ext
    BY <1>7 DEF Evict, OwnRecords, ext, p
  <2>2. Cardinality(OwnRecords(ext, p)) <= Cap
    BY <1>5, <1>7 DEF TreesAssumption
  <2> QED
    BY <1>1, <1>3, <2>1, <2>2
<1> QED
  BY <1>6, <1>7

LEMMA DiskTypes ==
  ASSUME TreesAssumption
  PROVE  /\ Calls \in Nat /\ NoFile \in TreeFile /\ NoTree \in WorkTree
         /\ Files \subseteq Names /\ Projects \subseteq Paths /\ Snaps \subseteq Paths
         /\ Projects \cap Snaps = {} /\ None \notin Paths /\ Roots \cap Forks = {}
         /\ Roots \subseteq Projects /\ Forks \subseteq Projects
         /\ \A f \in TreeFile : Copied(f) \in TreeFile /\ (Copied(f) = NoFile <=> f = NoFile)
         /\ \A f \in TreeFile : Copied(f).by = f.by /\ Copied(f).ino < 1
<1>1. Calls \in Nat /\ NoFile \in TreeFile
  BY DEF TreesAssumption, NoFile, TreeFile
<1>2. NoTree \in WorkTree
  BY <1>1 DEF NoTree, WorkTree
<1>3. \A f \in TreeFile : Copied(f) \in TreeFile /\ (Copied(f) = NoFile <=> f = NoFile)
                          /\ Copied(f).by = f.by /\ Copied(f).ino < 1
  BY <1>1 DEF Copied, NoFile, TreeFile
<1>4. /\ Files \subseteq Names /\ Projects \subseteq Paths /\ Snaps \subseteq Paths
      /\ Projects \cap Snaps = {} /\ None \notin Paths /\ Roots \cap Forks = {}
      /\ Roots \subseteq Projects /\ Forks \subseteq Projects
  BY DEF TreesAssumption, Files, Names, Projects, Paths
<1> QED
  BY <1>1, <1>2, <1>3, <1>4

LEMMA PutFacts ==
  ASSUME TreesAssumption, NEW t \in WorkTree, NEW ino \in 1..Calls, NEW by \in SUBSET (Roots \cup (1..Calls))
  PROVE  /\ Put(t, ino, by) \in WorkTree
         /\ \A n \in Names : Put(t, ino, by)[n] = IF t[n].ino = ino THEN [ino |-> ino, by |-> by] ELSE t[n]
         /\ \A n \in Names : t[n] # NoFile => Put(t, ino, by)[n] # NoFile
<1>1. Calls \in Nat
  BY DiskTypes
<1>2. [ino |-> ino, by |-> by] \in TreeFile /\ [ino |-> ino, by |-> by] # NoFile
  BY <1>1 DEF TreeFile, NoFile
<1> QED
  BY <1>2 DEF Put, WorkTree

\* What a step of a write does: it keeps to its project, and takes no file away.
WriteStep(c) ==
  LET p == call[c].p IN
  /\ call[c].op = "write" /\ p \in Projects
  /\ tree' \in [Paths -> WorkTree]
  /\ \A q \in Paths \ {p} : tree'[q] = tree[q]
  /\ \A f \in Files : tree[p][f] # NoFile => tree'[p][f] # NoFile
  /\ call' \in [Callers -> ToolCall] /\ CallFits(call'[c])
  /\ \A d \in Callers \ {c} : call'[d] = call[d]
  /\ call'[c] = Idle
     \/ (call'[c].op = "write" /\ call'[c].p = p /\ call'[c].id = call[c].id)
  /\ UNCHANGED <<store, records, server, used, mishaps>>

LEMMA CallAt ==
  ASSUME TreesAssumption, TreeShape, NEW c \in Callers
  PROVE  /\ call[c].pc = "idle" <=> call[c] = Idle
         /\ call[c].pc # "idle" => call[c].p \in Projects
         /\ call[c].op = "write" <=> call[c].pc \in {"create", "fill", "rename"}
         /\ call[c].op = "none" <=> call[c] = Idle
         /\ call[c].pc \in {"stop", "remove", "start"} => call[c].op = "rollback"
         /\ call[c].pc = "add" => call[c].op \in {"snapshot", "fork"}
         /\ call[c].pc \in {"copy", "copy on"} => call[c].op \in {"snapshot", "rollback", "fork"}
         /\ call[c].op \in {"snapshot", "rollback"} => call[c].id \in Snaps
         /\ call[c].op = "fork" => call[c].id \in Forks
         /\ call[c].op = "write" => call[c].f \in Files /\ call[c].w \in 1..Calls
         /\ call[c].pc = "fill" => call[c].ino \in 1..Calls
         /\ call[c] \in ToolCall
         /\ call[c] = Idle => call[c].p = None
<1>1. CallFits(call[c]) /\ call[c] \in ToolCall
  BY DEF TreeShape
<1>2. CASE call[c] = Idle
  BY <1>1, <1>2, DiskTypes DEF Idle
<1>3. CASE call[c] # Idle
  <2>1. /\ call[c].p \in Projects
        /\ \/ /\ call[c].op = "write" /\ call[c].pc \in {"create", "fill", "rename"} /\ call[c].f \in Files
              /\ call[c].w > 0 /\ (call[c].pc = "fill" => call[c].ino > 0)
           \/ /\ call[c].op = "snapshot" /\ call[c].pc \in {"copy", "copy on", "add"} /\ call[c].id \in Snaps
           \/ /\ call[c].op = "rollback" /\ call[c].pc \in {"stop", "remove", "copy", "copy on", "start"}
              /\ call[c].id \in Snaps
           \/ call[c].op = "fork" /\ call[c].pc \in {"copy", "copy on", "add"} /\ call[c].id \in Forks
    BY <1>1, <1>3 DEF CallFits
  <2>2. /\ call[c].op = "write" => call[c].w \in 1..Calls
        /\ call[c].pc = "fill" => call[c].ino \in 1..Calls
    <3>1. call[c].w \in 0..Calls /\ call[c].ino \in 0..Calls /\ Calls \in Nat
      BY <1>1, DiskTypes DEF ToolCall
    <3>2. call[c].op = "write" => call[c].w > 0
      BY <2>1
    <3>3. call[c].pc = "fill" => call[c].ino > 0
      BY <2>1
    <3> QED
      BY <3>1, <3>2, <3>3
  <2> QED
    BY <1>1, <1>3, <2>1, <2>2
<1> QED
  BY <1>2, <1>3

LEMMA CallGoes ==
  ASSUME TreesAssumption, TreeShape, NEW c \in Callers,
         NEW label \in {"create", "fill", "rename", "copy", "copy on", "add", "stop", "remove", "start"},
         Go(c, label)
  PROVE  /\ call' \in [Callers -> ToolCall] /\ \A d \in Callers \ {c} : call'[d] = call[d]
         /\ call'[c].pc = label /\ call'[c].op = call[c].op /\ call'[c].p = call[c].p
         /\ call'[c].id = call[c].id /\ call'[c].f = call[c].f /\ call'[c].w = call[c].w
         /\ call'[c].ino = call[c].ino
<1>1. call \in [Callers -> ToolCall] /\ call[c] \in ToolCall
  BY DEF TreeShape
<1>2. PICK k : k = call[c]
  OBVIOUS
<1>3. call' = [call EXCEPT ![c] = [k EXCEPT !.pc = label]]
  BY <1>1, <1>2 DEF Go
<1> QED
  BY <1>1, <1>2, <1>3 DEF ToolCall

LEMMA CallEnds ==
  ASSUME TreesAssumption, TreeShape, NEW c \in Callers, Back(c)
  PROVE  /\ call' \in [Callers -> ToolCall] /\ \A d \in Callers \ {c} : call'[d] = call[d]
         /\ call'[c] = Idle /\ CallFits(call'[c])
<1>1. Idle \in ToolCall
  BY DiskTypes DEF Idle, ToolCall, Names
<1> QED
  BY <1>1 DEF Back, TreeShape, CallFits

LEMMA CreateEffect ==
  ASSUME TreesAssumption, TreeShape, NEW c \in Callers, CreateTemp(c)
  PROVE  /\ WriteStep(c) /\ call'[c].pc = "fill"
         /\ \A n \in Names : tree'[call[c].p][n].by \subseteq tree[call[c].p][n].by
         /\ \A n \in Names : tree'[call[c].p][n].ino = call'[c].ino => tree'[call[c].p][n].by = {}
<1> DEFINE p == call[c].p
           t == tree[p]
           ino == IF t["tmp"].ino > 0 THEN t["tmp"].ino ELSE call[c].w
           u == [t EXCEPT !["tmp"] = [ino |-> ino, by |-> {}]]
<1>1. /\ call[c].pc = "create" /\ call[c].op = "write" /\ p \in Projects /\ p \in Paths
      /\ call[c].f \in Files /\ call[c].w \in 1..Calls /\ call[c] \in ToolCall
  BY CallAt, DiskTypes DEF CreateTemp, At
<1>2. /\ tree' = [tree EXCEPT ![p] = Put(u, ino, {})]
      /\ call' = [call EXCEPT ![c].pc = "fill", ![c].ino = ino]
      /\ UNCHANGED <<store, records, server, used, mishaps>>
  BY DEF CreateTemp
<1>3. t \in WorkTree /\ tree \in [Paths -> WorkTree] /\ call \in [Callers -> ToolCall]
  BY <1>1 DEF TreeShape
<1>4. ino \in 1..Calls /\ Calls \in Nat
  BY <1>1, <1>3, DiskTypes DEF WorkTree, TreeFile, Names
<1> HIDE DEF ino
<1>5. [ino |-> ino, by |-> {}] \in TreeFile
  BY <1>4 DEF TreeFile
<1>6. u \in WorkTree /\ \A n \in Names : u[n] = IF n = "tmp" THEN [ino |-> ino, by |-> {}] ELSE t[n]
  BY <1>3, <1>5 DEF WorkTree
<1> HIDE DEF u
<1>7. /\ Put(u, ino, {}) \in WorkTree
      /\ \A n \in Names : Put(u, ino, {})[n] = IF u[n].ino = ino THEN [ino |-> ino, by |-> {}] ELSE u[n]
      /\ \A n \in Names : u[n] # NoFile => Put(u, ino, {})[n] # NoFile
  <2>1. PICK none \in SUBSET (Roots \cup (1..Calls)) : none = {}
    OBVIOUS
  <2>2. /\ Put(u, ino, none) \in WorkTree
        /\ \A n \in Names : Put(u, ino, none)[n] = IF u[n].ino = ino THEN [ino |-> ino, by |-> none] ELSE u[n]
        /\ \A n \in Names : u[n] # NoFile => Put(u, ino, none)[n] # NoFile
    BY <1>4, <1>6, PutFacts
  <2> QED
    BY <2>1, <2>2
<1>8. /\ tree' \in [Paths -> WorkTree] /\ tree'[p] = Put(u, ino, {})
      /\ \A q \in Paths \ {p} : tree'[q] = tree[q]
  BY <1>1, <1>2, <1>3, <1>7
<1>9. \A f \in Files : t[f] # NoFile => tree'[p][f] # NoFile
  BY <1>6, <1>7, <1>8 DEF Files, Names
<1>10. /\ call' \in [Callers -> ToolCall] /\ \A d \in Callers \ {c} : call'[d] = call[d]
       /\ call'[c].op = call[c].op /\ call'[c].p = p /\ call'[c].pc = "fill"
       /\ call'[c].f = call[c].f /\ call'[c].w = call[c].w /\ call'[c].id = call[c].id
       /\ call'[c].ino = ino
  <2>1. PICK k : k = call[c]
    OBVIOUS
  <2>2. call' = [call EXCEPT ![c] = [k EXCEPT !.pc = "fill", !.ino = ino]]
    BY <1>2, <1>3, <2>1
  <2>3. ino \in 0..Calls
    BY <1>4
  <2> QED
    BY <1>1, <1>3, <2>1, <2>2, <2>3 DEF ToolCall
<1>11. /\ call'[c].op = "write" /\ call'[c].p = p /\ call'[c].pc = "fill" /\ call'[c].ino = ino
       /\ call'[c].f \in Files /\ call'[c].w > 0
  BY <1>1, <1>10, <1>4
<1>12. CallFits(call'[c])
  BY <1>1, <1>4, <1>11 DEF CallFits
<1>13. \A n \in Names : tree'[p][n].by \subseteq t[n].by /\ (tree'[p][n].ino = ino => tree'[p][n].by = {})
  BY <1>6, <1>7, <1>8
<1> QED
  BY <1>1, <1>2, <1>8, <1>9, <1>10, <1>11, <1>12, <1>13 DEF WriteStep

LEMMA FillEffect ==
  ASSUME TreesAssumption, TreeShape, NEW c \in Callers, FillTemp(c)
  PROVE  /\ WriteStep(c) /\ call[c].pc = "fill" /\ call'[c].pc # "fill"
         /\ (\A n \in Names : tree[call[c].p][n].ino = call[c].ino => tree[call[c].p][n].by = {})
              => \A n \in Names : tree'[call[c].p][n].by = IF tree[call[c].p][n].ino = call[c].ino
                                                           THEN {call[c].w} ELSE tree[call[c].p][n].by
<1> DEFINE p == call[c].p
           t == tree[p]
           ino == call[c].ino
           now == UNION {t[n].by : n \in {m \in Names : t[m].ino = ino}}
<1>1. /\ call[c].pc = "fill" /\ call[c].op = "write" /\ p \in Projects /\ p \in Paths
      /\ call[c].f \in Files /\ call[c].w \in 1..Calls /\ call[c] \in ToolCall /\ ino \in 1..Calls
      /\ Calls \in Nat
  BY CallAt, DiskTypes DEF FillTemp, At
<1>2. /\ tree' = [tree EXCEPT ![p] = Put(t, ino, now \cup {call[c].w})]
      /\ call' = [call EXCEPT ![c].pc = "rename"]
      /\ UNCHANGED <<store, records, server, used, mishaps>>
  BY DEF FillTemp, Go
<1>3. t \in WorkTree /\ tree \in [Paths -> WorkTree] /\ call \in [Callers -> ToolCall]
  BY <1>1 DEF TreeShape
<1>4. now \cup {call[c].w} \in SUBSET (Roots \cup (1..Calls))
  BY <1>1, <1>3 DEF WorkTree, TreeFile
<1>5. (\A n \in Names : t[n].ino = ino => t[n].by = {}) => now \cup {call[c].w} = {call[c].w}
  OBVIOUS
<1> DEFINE by == now \cup {call[c].w}
<1>6. by \in SUBSET (Roots \cup (1..Calls)) /\ tree' = [tree EXCEPT ![p] = Put(t, ino, by)]
  BY <1>2, <1>4
<1>7. (\A n \in Names : t[n].ino = ino => t[n].by = {}) => by = {call[c].w}
  BY <1>5
<1> HIDE DEF by
<1>8. /\ Put(t, ino, by) \in WorkTree
      /\ \A n \in Names : Put(t, ino, by)[n] = IF t[n].ino = ino THEN [ino |-> ino, by |-> by] ELSE t[n]
      /\ \A n \in Names : t[n] # NoFile => Put(t, ino, by)[n] # NoFile
  BY <1>1, <1>3, <1>6, PutFacts
<1>9. /\ tree' \in [Paths -> WorkTree] /\ tree'[p] = Put(t, ino, by)
      /\ \A q \in Paths \ {p} : tree'[q] = tree[q]
  BY <1>1, <1>3, <1>6, <1>8
<1>10. \A f \in Files : t[f] # NoFile => tree'[p][f] # NoFile
  BY <1>8, <1>9 DEF Files, Names
<1>11. /\ call' \in [Callers -> ToolCall] /\ \A d \in Callers \ {c} : call'[d] = call[d]
       /\ call'[c].op = call[c].op /\ call'[c].p = p /\ call'[c].pc = "rename"
       /\ call'[c].f = call[c].f /\ call'[c].w = call[c].w /\ call'[c].id = call[c].id
  BY CallGoes DEF FillTemp
<1>12. /\ call'[c].op = "write" /\ call'[c].p = p /\ call'[c].pc = "rename"
       /\ call'[c].f \in Files /\ call'[c].w > 0
  BY <1>1, <1>11
<1>13. CallFits(call'[c])
  BY <1>1, <1>12 DEF CallFits
<1>14. (\A n \in Names : t[n].ino = ino => t[n].by = {})
         => \A n \in Names : tree'[p][n].by = IF t[n].ino = ino THEN {call[c].w} ELSE t[n].by
  <2>1. \A n \in Names : tree'[p][n].by = IF t[n].ino = ino THEN by ELSE t[n].by
    BY <1>8, <1>9
  <2> QED
    BY <1>7, <2>1
<1> QED
  BY <1>1, <1>2, <1>9, <1>10, <1>11, <1>12, <1>13, <1>14 DEF WriteStep

LEMMA RenameEffect ==
  ASSUME TreesAssumption, TreeShape, NEW c \in Callers, RenameTemp(c)
  PROVE  /\ WriteStep(c) /\ call'[c] = Idle
         /\ \A n \in Names : tree'[call[c].p][n] = NoFile
              \/ \E m \in Names : tree'[call[c].p][n] = tree[call[c].p][m]
<1> DEFINE p == call[c].p
           t == tree[p]
<1>1. /\ call[c].op = "write" /\ p \in Projects /\ p \in Paths /\ call[c].f \in Files
      /\ CallFits(Idle) /\ NoFile \in TreeFile
  BY CallAt, DiskTypes DEF RenameTemp, At, CallFits
<1>2. t \in WorkTree /\ tree \in [Paths -> WorkTree] /\ call \in [Callers -> ToolCall]
  BY <1>1 DEF TreeShape
<1>3. UNCHANGED <<store, records, server, used, mishaps>>
  BY DEF RenameTemp
<1>4. /\ call' \in [Callers -> ToolCall] /\ \A d \in Callers \ {c} : call'[d] = call[d]
      /\ call'[c] = Idle
  BY CallEnds DEF RenameTemp
<1>5. /\ tree' \in [Paths -> WorkTree] /\ \A q \in Paths \ {p} : tree'[q] = tree[q]
      /\ \A f \in Files : t[f] # NoFile => tree'[p][f] # NoFile
      /\ \A n \in Names : tree'[p][n] = NoFile \/ \E m \in Names : tree'[p][n] = t[m]
  <2>1. CASE t["tmp"] = NoFile
    BY <1>1, <1>2, <2>1 DEF RenameTemp
  <2>2. CASE t["tmp"] # NoFile
    <3> DEFINE u == [[t EXCEPT ![call[c].f] = t["tmp"]] EXCEPT !["tmp"] = NoFile]
    <3>1. /\ u \in WorkTree
          /\ \A n \in Names : u[n] = IF n = "tmp" THEN NoFile ELSE IF n = call[c].f THEN t["tmp"] ELSE t[n]
      BY <1>1, <1>2 DEF WorkTree, Names, Files
    <3>2. tree' = [tree EXCEPT ![p] = u]
      BY <1>1, <1>2, <2>2 DEF RenameTemp, WorkTree
    <3> HIDE DEF u
    <3>3. tree'[p] = u /\ tree' \in [Paths -> WorkTree] /\ \A q \in Paths \ {p} : tree'[q] = tree[q]
      BY <1>1, <1>2, <3>1, <3>2
    <3>4. "tmp" \in Names
      BY DEF Names
    <3> QED
      BY <2>2, <3>1, <3>3, <3>4 DEF Files, Names
  <2> QED
    BY <2>1, <2>2
<1> QED
  BY <1>1, <1>3, <1>4, <1>5 DEF WriteStep

LEMMA BeginEffect ==
  ASSUME TreesAssumption, TreeShape, NEW c \in Callers,
         NEW op \in {"write", "snapshot", "rollback", "fork"}, NEW pc \in {"create", "copy", "stop"},
         NEW p \in Projects, NEW id \in Paths \cup {None}, NEW f \in Names,
         Begin(c, op, pc, p, id, f)
  PROVE  /\ call[c] = Idle
         /\ call' \in [Callers -> ToolCall] /\ \A d \in Callers \ {c} : call'[d] = call[d]
         /\ call'[c].op = op /\ call'[c].pc = pc /\ call'[c].p = p /\ call'[c].id = id /\ call'[c].f = f
         /\ op = "write" => call'[c].w > 0
         /\ used' \in [calls : 0..Calls, ids : SUBSET Paths]
         /\ used'.ids = used.ids \cup ({id} \ {None})
<1>1. call[c] = Idle
  BY CallAt DEF Begin, At
<1>2. /\ Calls \in Nat /\ used \in [calls : 0..Calls, ids : SUBSET Paths]
      /\ call \in [Callers -> ToolCall]
  BY DiskTypes DEF TreeShape
<1>3. used' = [calls |-> used.calls + 1, ids |-> used.ids \cup ({id} \ {None})] /\ used.calls < Calls
  BY DEF Begin
<1>4. used.calls + 1 \in 0..Calls /\ used.calls + 1 > 0 /\ used.calls \in 0..Calls
  BY <1>2, <1>3
<1>5. used' \in [calls : 0..Calls, ids : SUBSET Paths]
  BY <1>2, <1>3, <1>4
<1>6. PICK w \in 0..Calls : w = (IF op = "write" THEN used.calls + 1 ELSE 0) /\ (op = "write" => w > 0)
  BY <1>2, <1>4
<1>7. call' = [call EXCEPT ![c] = [op |-> op, pc |-> pc, p |-> p, id |-> id, f |-> f, ino |-> 0, w |-> w]]
  BY <1>6 DEF Begin
<1>8. [op |-> op, pc |-> pc, p |-> p, id |-> id, f |-> f, ino |-> 0, w |-> w] \in ToolCall
  <2>1. 0 \in 0..Calls /\ w \in 0..Calls
    BY <1>2, <1>6
  <2> QED
    BY <2>1 DEF ToolCall
<1> QED
  BY <1>1, <1>2, <1>3, <1>5, <1>6, <1>7, <1>8

LEMMA CopyPlaces ==
  ASSUME TreesAssumption, TreeShape, NEW c \in Callers, call[c].pc \in {"copy", "copy on"}
  PROVE  /\ Source(c) \in Paths /\ Target(c) \in Paths /\ Source(c) # None
         /\ call[c].op \in {"snapshot", "rollback", "fork"} /\ call[c].p \in Projects
         /\ call[c].op = "rollback" => /\ Source(c) = call[c].id /\ Target(c) = call[c].p
                                       /\ call[c].id \in Snaps
         /\ call[c].op # "rollback" => Source(c) = call[c].p /\ Target(c) = call[c].id
         /\ call[c].op = "snapshot" => call[c].id \in Snaps
         /\ call[c].op = "fork" => call[c].id \in Forks
         /\ call[c].pc # "idle"
BY CallAt, DiskTypes DEF Source, Target

\* The tree that a copy begins has the first file only.
LEMMA BeginCopyEffect ==
  ASSUME TreesAssumption, TreeShape, NEW c \in Callers, BeginCopy(c)
  PROVE  /\ call[c].pc = "copy"
         /\ UNCHANGED <<store, records, server, used>> /\ mishaps \subseteq mishaps'
         /\ call' \in [Callers -> ToolCall] /\ \A d \in Callers \ {c} : call'[d] = call[d]
         /\ CallFits(call'[c])
         /\ \/ tree[Source(c)] = NoTree /\ tree' = tree /\ call'[c] = Idle
            \/ /\ tree' \in [Paths -> WorkTree]
               /\ \A q \in Paths \ {Target(c)} : tree'[q] = tree[q]
               /\ tree'[Target(c)]["html"] = Copied(tree[Source(c)]["html"])
               /\ tree'[Target(c)]["css"] = NoFile /\ tree'[Target(c)]["tmp"] = NoFile
               /\ \/ call'[c] = Idle /\ "disk" \in mishaps'
                  \/ /\ call'[c].pc = "copy on" /\ call'[c].op = call[c].op /\ call'[c].p = call[c].p
                     /\ call'[c].id = call[c].id
<1>1. /\ call[c].pc = "copy" /\ Source(c) \in Paths /\ Target(c) \in Paths
      /\ call[c].op \in {"snapshot", "rollback", "fork"} /\ call[c].p \in Projects
      /\ call[c].op \in {"snapshot", "rollback"} => call[c].id \in Snaps
      /\ call[c].op = "fork" => call[c].id \in Forks
  BY CopyPlaces DEF BeginCopy, At
<1>2. tree \in [Paths -> WorkTree] /\ UNCHANGED <<store, records, server, used>>
  BY DEF TreeShape, BeginCopy
<1>3. CASE tree[Source(c)] = NoTree
  BY <1>1, <1>2, <1>3, CallEnds DEF BeginCopy
<1>4. CASE tree[Source(c)] # NoTree
  <2> DEFINE u == [NoTree EXCEPT !["html"] = Copied(tree[Source(c)]["html"])]
  <2>1. tree[Source(c)]["html"] \in TreeFile
    BY <1>1, <1>2 DEF WorkTree, Names, Files
  <2>2. u \in WorkTree /\ u["html"] = Copied(tree[Source(c)]["html"]) /\ u["css"] = NoFile /\ u["tmp"] = NoFile
    BY <2>1, DiskTypes DEF WorkTree, NoTree, Names, Files
  <2>3. tree' = [tree EXCEPT ![Target(c)] = u]
    BY <1>4 DEF BeginCopy
  <2> HIDE DEF u
  <2>4. /\ tree' \in [Paths -> WorkTree] /\ tree'[Target(c)] = u
        /\ \A q \in Paths \ {Target(c)} : tree'[q] = tree[q]
    BY <1>1, <1>2, <2>2, <2>3
  <2>5. CASE Go(c, "copy on") /\ Fine
    <3>1. /\ call' \in [Callers -> ToolCall] /\ \A d \in Callers \ {c} : call'[d] = call[d]
          /\ call'[c].pc = "copy on" /\ call'[c].op = call[c].op /\ call'[c].p = call[c].p
          /\ call'[c].id = call[c].id
      BY <2>5, CallGoes
    <3>2. CallFits(call'[c])
      BY <1>1, <3>1 DEF CallFits
    <3> QED
      BY <1>1, <1>2, <2>2, <2>4, <2>5, <3>1, <3>2 DEF Fine
  <2>6. CASE Back(c) /\ Happen({"disk"})
    BY <1>1, <1>2, <2>2, <2>4, <2>6, CallEnds DEF Happen
  <2> QED
    BY <1>4, <2>5, <2>6 DEF BeginCopy
<1> QED
  BY <1>3, <1>4

LEMMA EndCopyEffect ==
  ASSUME TreesAssumption, TreeShape, NEW c \in Callers, EndCopy(c)
  PROVE  /\ call[c].pc = "copy on"
         /\ UNCHANGED <<store, records, server, used, mishaps>>
         /\ call' \in [Callers -> ToolCall] /\ \A d \in Callers \ {c} : call'[d] = call[d]
         /\ CallFits(call'[c]) /\ call'[c].op = call[c].op /\ call'[c].p = call[c].p
         /\ call'[c].id = call[c].id
         /\ call'[c].pc = IF call[c].op = "rollback" THEN "start" ELSE "add"
         /\ tree' \in [Paths -> WorkTree]
         /\ \A q \in Paths \ {Target(c)} : tree'[q] = tree[q]
         /\ tree'[Target(c)]["html"] = tree[Target(c)]["html"]
         /\ tree'[Target(c)]["css"] = Copied(tree[Source(c)]["css"])
         /\ tree'[Target(c)]["tmp"] = Copied(tree[Source(c)]["tmp"])
<1>1. /\ call[c].pc = "copy on" /\ Source(c) \in Paths /\ Target(c) \in Paths
      /\ call[c].op \in {"snapshot", "rollback", "fork"} /\ call[c].p \in Projects
      /\ call[c].op \in {"snapshot", "rollback"} => call[c].id \in Snaps
      /\ call[c].op = "fork" => call[c].id \in Forks
  BY CopyPlaces DEF EndCopy, At
<1>2. tree \in [Paths -> WorkTree] /\ UNCHANGED <<store, records, server, used, mishaps>>
  BY DEF TreeShape, EndCopy
<1> DEFINE css == Copied(tree[Source(c)]["css"])
           tmp == Copied(tree[Source(c)]["tmp"])
           u == [[tree[Target(c)] EXCEPT !["css"] = css] EXCEPT !["tmp"] = tmp]
<1>3. css \in TreeFile /\ tmp \in TreeFile
  <2>1. tree[Source(c)]["css"] \in TreeFile /\ tree[Source(c)]["tmp"] \in TreeFile
    BY <1>1, <1>2 DEF WorkTree, Names, Files
  <2> QED
    BY <2>1, DiskTypes
<1>4. tree' = [tree EXCEPT ![Target(c)]["css"] = css, ![Target(c)]["tmp"] = tmp]
  BY DEF EndCopy
<1> HIDE DEF css, tmp
<1>5. u \in WorkTree /\ u["html"] = tree[Target(c)]["html"] /\ u["css"] = css /\ u["tmp"] = tmp
  BY <1>1, <1>2, <1>3 DEF WorkTree, Names, Files
<1>6. tree' = [tree EXCEPT ![Target(c)] = u]
  BY <1>1, <1>2, <1>4
<1> HIDE DEF u
<1>7. /\ tree' \in [Paths -> WorkTree] /\ tree'[Target(c)] = u
      /\ \A q \in Paths \ {Target(c)} : tree'[q] = tree[q]
  BY <1>1, <1>2, <1>5, <1>6
<1>8. PICK label \in {"start", "add"} : label = IF call[c].op = "rollback" THEN "start" ELSE "add"
  OBVIOUS
<1>9. Go(c, label)
  BY <1>8 DEF EndCopy
<1>10. /\ call' \in [Callers -> ToolCall] /\ \A d \in Callers \ {c} : call'[d] = call[d]
       /\ call'[c].pc = label /\ call'[c].op = call[c].op /\ call'[c].p = call[c].p
       /\ call'[c].id = call[c].id
  BY <1>9, CallGoes
<1>11. CallFits(call'[c])
  BY <1>1, <1>8, <1>10 DEF CallFits
<1> QED
  BY <1>1, <1>2, <1>5, <1>7, <1>8, <1>10, <1>11 DEF css, tmp

\* What an operation on the store does: the call ends, or goes on.
CallMoves(c) ==
  /\ call[c].pc # "idle"
  /\ call' \in [Callers -> ToolCall] /\ CallFits(call'[c])
  /\ \A d \in Callers \ {c} : call'[d] = call[d]
  /\ call'[c] = Idle \/ (call'[c].op = call[c].op /\ call'[c].p = call[c].p /\ call'[c].id = call[c].id)
  /\ used' = used /\ mishaps \subseteq mishaps'

LEMMA AddRecordEffect ==
  ASSUME TreesAssumption, TreeShape, NEW c \in Callers, AddRecord(c)
  PROVE  /\ CallMoves(c) /\ call[c].op = "snapshot" /\ call[c].pc = "add" /\ call'[c] = Idle
         /\ UNCHANGED <<tree, store, server, mishaps>>
         /\ records' \in Seq(Record)
         /\ \A i \in DOMAIN records' : \/ records'[i].id = call[c].id
                                       \/ \E j \in DOMAIN records : records'[i] = records[j]
         /\ \A q \in Projects : Cardinality(OwnRecords(records', q)) <= Cap
<1> DEFINE r == [id |-> call[c].id, p |-> call[c].p]
<1>1. /\ call[c].pc = "add" /\ call[c].op = "snapshot" /\ call[c].id \in Snaps /\ call[c].p \in Projects
  BY CallAt DEF AddRecord, At
<1>2. r \in Record /\ r.p = call[c].p /\ r.id = call[c].id
  BY <1>1 DEF Record
<1>3. records' = Evict(Append(records, r), r.p)
  BY DEF AddRecord
<1> HIDE DEF r
<1>4. records \in Seq(Record) /\ \A q \in Projects : Cardinality(OwnRecords(records, q)) <= Cap
  BY DEF TreeShape
<1>5. PICK kept : kept = records'
  OBVIOUS
<1>6. /\ kept \in Seq(Record)
      /\ \A i \in DOMAIN kept : kept[i] = r \/ \E j \in DOMAIN records : kept[i] = records[j]
      /\ \A q \in Projects : Cardinality(OwnRecords(kept, q)) <= Cap
  <2>1. kept = Evict(Append(records, r), r.p)
    BY <1>3, <1>5
  <2>2. RecordsFit(Evict(Append(records, r), r.p), records, r)
    BY <1>2, <1>4, EvictKeeps
  <2> QED
    BY <2>1, <2>2 DEF RecordsFit
<1>7. UNCHANGED <<tree, store, server, used, mishaps>>
  BY DEF AddRecord
<1>8. CallMoves(c) /\ call'[c] = Idle
  BY <1>1, <1>7, CallEnds DEF CallMoves, AddRecord
<1> QED
  BY <1>1, <1>2, <1>5, <1>6, <1>7, <1>8

LEMMA StopServerEffect ==
  ASSUME TreesAssumption, TreeShape, NEW c \in Callers, StopServer(c)
  PROVE  /\ CallMoves(c) /\ call[c].op = "rollback" /\ call'[c].op = "rollback" /\ call'[c].pc = "remove"
         /\ call'[c].p = call[c].p /\ call'[c].id = call[c].id
         /\ server' = server \ {call[c].p} /\ UNCHANGED <<tree, store, records, mishaps>>
<1>1. call[c].pc = "stop" /\ call[c].op = "rollback" /\ call[c].id \in Snaps /\ call[c].p \in Projects
  BY CallAt DEF StopServer, At
<1>2. /\ call' \in [Callers -> ToolCall] /\ \A d \in Callers \ {c} : call'[d] = call[d]
      /\ call'[c].pc = "remove" /\ call'[c].op = call[c].op /\ call'[c].p = call[c].p
      /\ call'[c].id = call[c].id
  BY CallGoes DEF StopServer
<1>3. CallFits(call'[c])
  BY <1>1, <1>2 DEF CallFits
<1> QED
  BY <1>1, <1>2, <1>3 DEF CallMoves, StopServer

LEMMA RemoveTreeEffect ==
  ASSUME TreesAssumption, TreeShape, NEW c \in Callers, RemoveTree(c)
  PROVE  /\ CallMoves(c) /\ call[c].op = "rollback" /\ call[c].pc = "remove" /\ call[c].p \in Projects
         /\ tree' \in [Paths -> WorkTree] /\ tree'[call[c].p] = NoTree
         /\ \A q \in Paths \ {call[c].p} : tree'[q] = tree[q]
         /\ UNCHANGED <<store, records, server>>
         /\ \/ call'[c] = Idle /\ "disk" \in mishaps'
            \/ call'[c].pc = "copy" /\ call'[c].op = "rollback"
<1>1. call[c].pc = "remove" /\ call[c].op = "rollback" /\ call[c].id \in Snaps /\ call[c].p \in Projects
  BY CallAt DEF RemoveTree, At
<1>2. /\ tree' \in [Paths -> WorkTree] /\ tree'[call[c].p] = NoTree
      /\ \A q \in Paths \ {call[c].p} : tree'[q] = tree[q]
  BY <1>1, DiskTypes DEF RemoveTree, TreeShape
<1>3. UNCHANGED <<store, records, server, used>>
  BY DEF RemoveTree
<1>4. CASE Go(c, "copy") /\ Fine
  <2>1. /\ call' \in [Callers -> ToolCall] /\ \A d \in Callers \ {c} : call'[d] = call[d]
        /\ call'[c].pc = "copy" /\ call'[c].op = call[c].op /\ call'[c].p = call[c].p
        /\ call'[c].id = call[c].id
    BY <1>4, CallGoes
  <2>2. CallFits(call'[c])
    BY <1>1, <2>1 DEF CallFits
  <2> QED
    BY <1>1, <1>2, <1>3, <1>4, <2>1, <2>2 DEF CallMoves, Fine
<1>5. CASE Back(c) /\ Happen({"disk"})
  BY <1>1, <1>2, <1>3, <1>5, CallEnds DEF CallMoves, Happen
<1> QED
  BY <1>4, <1>5 DEF RemoveTree

LEMMA StartServerEffect ==
  ASSUME TreesAssumption, TreeShape, NEW c \in Callers, StartServer(c)
  PROVE  /\ CallMoves(c) /\ call[c].op = "rollback" /\ call[c].pc = "start" /\ call'[c] = Idle
         /\ server \subseteq server' /\ server' \subseteq store /\ server' \subseteq server \cup {call[c].p}
         /\ UNCHANGED <<tree, store, records, mishaps>>
BY CallEnds, CallAt DEF StartServer, At, CallMoves, TreeShape

LEMMA AddProjectEffect ==
  ASSUME TreesAssumption, TreeShape, NEW c \in Callers, AddProject(c)
  PROVE  /\ CallMoves(c) /\ call[c].op = "fork" /\ call[c].pc = "add" /\ call'[c] = Idle
         /\ call[c].id \in Forks
         /\ store' = store \cup {call[c].id} /\ server' \subseteq server \cup {call[c].id}
         /\ UNCHANGED <<tree, records, mishaps>>
BY CallEnds, CallAt DEF AddProject, At, CallMoves, TreeShape

\* What the begin of a call does.
BeginStep(c, op, pc, p, id) ==
  /\ call[c] = Idle /\ p \in store /\ p \in Projects
  /\ call' \in [Callers -> ToolCall] /\ CallFits(call'[c])
  /\ \A d \in Callers \ {c} : call'[d] = call[d]
  /\ call'[c].op = op /\ call'[c].pc = pc /\ call'[c].p = p /\ call'[c].id = id
  /\ used' \in [calls : 0..Calls, ids : SUBSET Paths] /\ used'.ids = used.ids \cup ({id} \ {None})
  /\ UNCHANGED <<tree, store, records, server>>
  /\ mishaps \subseteq mishaps' /\ Clash(p, op) \subseteq mishaps'

LEMMA BeginWriteEffect ==
  ASSUME TreesAssumption, TreeShape, NEW c \in Callers, BeginWrite(c)
  PROVE  \E p \in store : BeginStep(c, "write", "create", p, None)
<1>1. PICK p \in store, f \in Files : Begin(c, "write", "create", p, None, f) /\ Happen(Clash(p, "write"))
  BY DEF BeginWrite
<1>2. p \in Projects /\ f \in Names
  BY DiskTypes DEF TreeShape
<1>3. /\ call[c] = Idle
      /\ call' \in [Callers -> ToolCall] /\ \A d \in Callers \ {c} : call'[d] = call[d]
      /\ call'[c].op = "write" /\ call'[c].pc = "create" /\ call'[c].p = p /\ call'[c].id = None
      /\ call'[c].f = f /\ call'[c].w > 0
      /\ used' \in [calls : 0..Calls, ids : SUBSET Paths]
      /\ used'.ids = used.ids \cup ({None} \ {None})
  BY <1>1, <1>2, BeginEffect
<1>4. CallFits(call'[c])
  BY <1>2, <1>3 DEF CallFits
<1>5. BeginStep(c, "write", "create", p, None)
  BY <1>1, <1>2, <1>3, <1>4 DEF BeginStep, BeginWrite, Happen
<1> QED
  BY <1>5

LEMMA BeginSnapshotEffect ==
  ASSUME TreesAssumption, TreeShape, NEW c \in Callers, BeginSnapshot(c)
  PROVE  \E p \in store, s \in Snaps \ used.ids : BeginStep(c, "snapshot", "copy", p, s)
<1>1. PICK p \in store, s \in Snaps \ used.ids :
        Begin(c, "snapshot", "copy", p, s, "tmp") /\ Happen(Clash(p, "snapshot"))
  BY DEF BeginSnapshot
<1>2. p \in Projects /\ "tmp" \in Names /\ s \in Paths
  BY DiskTypes DEF TreeShape, Names
<1>3. /\ call[c] = Idle
      /\ call' \in [Callers -> ToolCall] /\ \A d \in Callers \ {c} : call'[d] = call[d]
      /\ call'[c].op = "snapshot" /\ call'[c].pc = "copy" /\ call'[c].p = p /\ call'[c].id = s
      /\ used' \in [calls : 0..Calls, ids : SUBSET Paths]
      /\ used'.ids = used.ids \cup ({s} \ {None})
  BY <1>1, <1>2, BeginEffect
<1>4. CallFits(call'[c])
  BY <1>2, <1>3 DEF CallFits
<1>5. BeginStep(c, "snapshot", "copy", p, s)
  BY <1>1, <1>2, <1>3, <1>4 DEF BeginStep, BeginSnapshot, Happen
<1> QED
  BY <1>5

LEMMA BeginRollbackEffect ==
  ASSUME TreesAssumption, TreeShape, NEW c \in Callers, BeginRollback(c)
  PROVE  \E i \in DOMAIN records : /\ BeginStep(c, "rollback", "stop", records[i].p, records[i].id)
                                   /\ records[i] \in Record
<1>1. PICK i \in DOMAIN records :
        /\ Begin(c, "rollback", "stop", records[i].p, records[i].id, "tmp")
        /\ records[i].p \in store /\ Happen(Clash(records[i].p, "rollback"))
  BY DEF BeginRollback
<1>2. records[i] \in Record
  BY DEF TreeShape
<1>3. PICK p \in Projects, s \in Snaps : p = records[i].p /\ s = records[i].id
  BY <1>2 DEF Record
<1>4. p \in store /\ "tmp" \in Names /\ s \in Paths
  BY <1>1, <1>3, DiskTypes DEF Names
<1>5. /\ call[c] = Idle
      /\ call' \in [Callers -> ToolCall] /\ \A d \in Callers \ {c} : call'[d] = call[d]
      /\ call'[c].op = "rollback" /\ call'[c].pc = "stop" /\ call'[c].p = p /\ call'[c].id = s
      /\ used' \in [calls : 0..Calls, ids : SUBSET Paths]
      /\ used'.ids = used.ids \cup ({s} \ {None})
  BY <1>1, <1>3, <1>4, BeginEffect
<1>6. CallFits(call'[c])
  BY <1>4, <1>5 DEF CallFits
<1>7. BeginStep(c, "rollback", "stop", p, s)
  BY <1>1, <1>3, <1>4, <1>5, <1>6 DEF BeginStep, BeginRollback, Happen
<1> QED
  BY <1>2, <1>3, <1>7

LEMMA BeginForkEffect ==
  ASSUME TreesAssumption, TreeShape, NEW c \in Callers, BeginFork(c)
  PROVE  \E p \in store, id \in Forks :
           BeginStep(c, "fork", "copy", p, id) /\ (id \in used.ids => "milli" \in mishaps')
<1>1. PICK p \in store \cap server, id \in Forks :
        /\ Begin(c, "fork", "copy", p, id, "tmp")
        /\ Happen(Clash(p, "fork") \cup (IF id \in used.ids THEN {"milli"} ELSE {}))
  BY DEF BeginFork
<1>2. p \in Projects /\ "tmp" \in Names /\ id \in Paths
  BY DiskTypes DEF TreeShape, Names
<1>3. /\ call[c] = Idle
      /\ call' \in [Callers -> ToolCall] /\ \A d \in Callers \ {c} : call'[d] = call[d]
      /\ call'[c].op = "fork" /\ call'[c].pc = "copy" /\ call'[c].p = p /\ call'[c].id = id
      /\ used' \in [calls : 0..Calls, ids : SUBSET Paths]
      /\ used'.ids = used.ids \cup ({id} \ {None})
  BY <1>1, <1>2, BeginEffect
<1>4. CallFits(call'[c])
  BY <1>2, <1>3 DEF CallFits
<1>5. BeginStep(c, "fork", "copy", p, id)
  BY <1>1, <1>2, <1>3, <1>4 DEF BeginStep, BeginFork, Happen
<1>6. id \in used.ids => "milli" \in mishaps'
  BY <1>1 DEF Happen
<1> QED
  BY <1>5, <1>6

-----------------------------------------------------------------------------
(* The parts of the invariant, step by step. *)

LEMMA ShapeRests ==
  ASSUME TreesAssumption, TreeShape, NEW c \in Callers, CallMoves(c),
         tree' \in [Paths -> WorkTree], store' = store, server' \subseteq store, records' = records
  PROVE  TreeShape'
<1>1. \A d \in Callers : CallFits(call'[d]) /\ call'[d].id \in used.ids \cup {None}
  BY DEF CallMoves, TreeShape, Idle
<1> QED
  BY <1>1 DEF TreeShape, CallMoves

LEMMA WriteMoves ==
  ASSUME TreesAssumption, TreeShape, NEW c \in Callers, WriteStep(c)
  PROVE  CallMoves(c)
BY CallAt DEF WriteStep, CallMoves, Idle

LEMMA BeginShapes ==
  ASSUME TreesAssumption, TreeShape, NEW c \in Callers, NEW op, NEW pc, NEW p, NEW id \in Paths \cup {None},
         BeginStep(c, op, pc, p, id)
  PROVE  TreeShape'
<1>1. \A d \in Callers : CallFits(call'[d]) /\ call'[d].id \in used'.ids \cup {None}
  BY DEF BeginStep, TreeShape
<1>2. store' \subseteq Roots \cup used'.ids
  BY DEF BeginStep, TreeShape
<1> QED
  BY <1>1, <1>2 DEF TreeShape, BeginStep

LEMMA AddRecordShapes ==
  ASSUME TreesAssumption, TreeShape, NEW c \in Callers, AddRecord(c)
  PROVE  TreeShape'
<1>1. /\ CallMoves(c) /\ UNCHANGED <<tree, store, server, mishaps>> /\ records' \in Seq(Record)
      /\ \A q \in Projects : Cardinality(OwnRecords(records', q)) <= Cap
  BY AddRecordEffect
<1>2. \A d \in Callers : CallFits(call'[d]) /\ call'[d].id \in used.ids \cup {None}
  BY <1>1 DEF CallMoves, TreeShape, Idle
<1> QED
  BY <1>1, <1>2 DEF TreeShape, CallMoves

LEMMA AddProjectShapes ==
  ASSUME TreesAssumption, TreeShape, NEW c \in Callers, AddProject(c)
  PROVE  TreeShape'
<1>1. /\ CallMoves(c) /\ UNCHANGED <<tree, records, mishaps>> /\ call[c].id \in Forks
      /\ store' = store \cup {call[c].id} /\ server' \subseteq server \cup {call[c].id}
  BY AddProjectEffect
<1>2. \A d \in Callers : CallFits(call'[d]) /\ call'[d].id \in used.ids \cup {None}
  BY <1>1 DEF CallMoves, TreeShape, Idle
<1>3. call[c].id \in used.ids /\ call[c].id \in Projects
  BY <1>1, DiskTypes DEF TreeShape
<1> QED
  BY <1>1, <1>2, <1>3 DEF TreeShape, CallMoves

LEMMA ProjectShapes ==
  ASSUME TreesAssumption, TreeShape, NEW p \in Projects, Start(p) \/ RemoveProject(p)
  PROVE  TreeShape'
<1>1. CASE Start(p)
  BY <1>1 DEF Start, TreeShape
<1>2. CASE RemoveProject(p)
  <2>1. tree' \in [Paths -> WorkTree]
    BY <1>2, DiskTypes DEF RemoveProject, TreeShape
  <2> QED
    BY <1>2, <2>1 DEF RemoveProject, TreeShape
<1> QED
  BY <1>1, <1>2

LEMMA CrashShapes ==
  ASSUME TreesAssumption, TreeShape, Crash
  PROVE  TreeShape'
<1>1. Idle \in ToolCall /\ CallFits(Idle) /\ Idle.id = None
  BY DiskTypes DEF Idle, ToolCall, Names, CallFits
<1>2. call' \in [Callers -> ToolCall] /\ \A c \in Callers : CallFits(call'[c]) /\ call'[c].id = None
  BY <1>1 DEF Crash
<1> QED
  BY <1>2 DEF Crash, TreeShape

LEMMA SnapsRest ==
  ASSUME TreesAssumption, TreeShape, SnapsAreNew, NEW c \in Callers, CallMoves(c), call[c].op # "snapshot",
         \A s \in Snaps : tree'[s] = tree[s], records' = records
  PROVE  SnapsAreNew'
<1>1. /\ \A d \in Callers : call'[d] = Idle \/ (call'[d].op = call[d].op /\ call'[d].id = call[d].id)
      /\ \A d \in Callers \ {c} : call'[d] = call[d]
      /\ Idle.op = "none"
  BY DEF CallMoves, Idle
<1>2. \A d \in Callers : call'[d].op \in {"snapshot", "rollback"} =>
        call[d].op \in {"snapshot", "rollback"} /\ call'[d].id = call[d].id
  BY <1>1
<1>3. used' = used
  BY DEF CallMoves
<1>4. (\A s \in Snaps \ used.ids : tree[s] = NoTree)' /\ (\A i \in DOMAIN records : records[i].id \in used.ids)'
  BY <1>3 DEF SnapsAreNew
<1>5. ASSUME NEW d \in Callers, call'[d].op = "snapshot"
      PROVE  SnapFits(d)'
  <2>1. call'[d] = call[d] /\ call[d].op = "snapshot"
    BY <1>1, <1>5
  <2>2. call[d].id \in Snaps /\ SnapFits(d)
    BY <2>1, CallAt DEF SnapsAreNew
  <2> QED
    BY <1>2, <2>1, <2>2 DEF SnapFits
<1> QED
  BY <1>4, <1>5 DEF SnapsAreNew

LEMMA SnapsBegin ==
  ASSUME TreesAssumption, TreeShape, SnapsAreNew, NEW c \in Callers,
         NEW op, NEW pc \in {"create", "copy", "stop"}, NEW p, NEW id \in Paths \cup {None},
         BeginStep(c, op, pc, p, id),
         \/ op \in {"write", "fork"}
         \/ op = "snapshot" /\ id \in Snaps \ used.ids
         \/ op = "rollback" /\ \E i \in DOMAIN records : id = records[i].id
  PROVE  SnapsAreNew'
<1>1. /\ call'[c].op = op /\ call'[c].id = id /\ call'[c].pc = pc
      /\ \A d \in Callers \ {c} : call'[d] = call[d]
      /\ used'.ids = used.ids \cup ({id} \ {None}) /\ tree' = tree /\ records' = records
  BY DEF BeginStep
<1>2. \A d \in Callers : call[d].id \in used.ids \cup {None} /\ (call[d].op = "snapshot" => call[d].id \in Snaps)
  BY CallAt DEF TreeShape
<1>3. None \notin Snaps
  BY DiskTypes
<1>4. (\A s \in Snaps \ used.ids : tree[s] = NoTree)' /\ (\A i \in DOMAIN records : records[i].id \in used.ids)'
  BY <1>1 DEF SnapsAreNew
<1>5. ASSUME NEW d \in Callers \ {c}, call[d].op = "snapshot", op \in {"snapshot", "rollback"}
      PROVE  call[d].id # id
  <2>1. call[d].id \in used.ids
    BY <1>2, <1>3, <1>5
  <2>2. \A i \in DOMAIN records : records[i].id # call[d].id
    BY <1>5 DEF SnapsAreNew, SnapFits
  <2> QED
    BY <1>5, <2>1, <2>2
<1>6. ASSUME NEW d \in Callers \ {c}, call'[d].op = "snapshot"
      PROVE  SnapFits(d)'
  <2>1. call'[d] = call[d] /\ call[d].op = "snapshot"
    BY <1>1, <1>6
  <2>2. SnapFits(d)
    BY <2>1 DEF SnapsAreNew
  <2> QED
    BY <1>1, <1>5, <2>1, <2>2 DEF SnapFits
<1>7. ASSUME op = "snapshot"
      PROVE  SnapFits(c)'
  <2>1. id \in Snaps \ used.ids
    BY <1>7
  <2>2. tree[id] = NoTree /\ \A i \in DOMAIN records : records[i].id # id
    BY <2>1 DEF SnapsAreNew
  <2>3. \A d \in Callers \ {c} : call[d].op \in {"snapshot", "rollback"} => call[d].id # id
    BY <1>2, <1>3, <2>1
  <2> QED
    BY <1>1, <2>2, <2>3 DEF SnapFits
<1> QED
  BY <1>1, <1>4, <1>6, <1>7 DEF SnapsAreNew

\* A step of the copy of a snapshot.
LEMMA SnapsCopied ==
  ASSUME TreesAssumption, TreeShape, SnapsAreNew, NEW c \in Callers, call[c].op = "snapshot",
         UNCHANGED <<records, used>>,
         \A d \in Callers \ {c} : call'[d] = call[d],
         \A q \in Paths \ {call[c].id} : tree'[q] = tree[q],
         \/ call'[c] = Idle
         \/ /\ call'[c].op = call[c].op /\ call'[c].id = call[c].id
            /\ \/ call'[c].pc = "add"
               \/ call'[c].pc = "copy on" /\ tree'[call[c].id]["css"] = NoFile
  PROVE  SnapsAreNew'
<1>1. call[c].id \in used.ids /\ call[c].id \in Snaps /\ Snaps \subseteq Paths /\ Idle.op = "none"
  BY CallAt, DiskTypes DEF TreeShape, Idle
<1>2. (\A s \in Snaps \ used.ids : tree[s] = NoTree)' /\ (\A i \in DOMAIN records : records[i].id \in used.ids)'
  BY <1>1 DEF SnapsAreNew
<1>3. SnapFits(c)
  BY DEF SnapsAreNew
<1>4. \A d \in Callers : call'[d].op \in {"snapshot", "rollback"} =>
        call[d].op \in {"snapshot", "rollback"} /\ call'[d].id = call[d].id
  BY <1>1
<1>5. ASSUME NEW d \in Callers \ {c}, call'[d].op = "snapshot"
      PROVE  SnapFits(d)'
  <2>1. call'[d] = call[d] /\ call[d].op = "snapshot" /\ SnapFits(d)
    BY <1>5 DEF SnapsAreNew
  <2>2. call[d].id \in Snaps /\ call[d].id # call[c].id
    BY <1>3, <2>1, CallAt DEF SnapFits
  <2>3. tree'[call[d].id] = tree[call[d].id]
    BY <1>1, <2>2
  <2> QED
    BY <1>4, <2>1, <2>3 DEF SnapFits
<1>6. ASSUME call'[c].op = "snapshot"
      PROVE  SnapFits(c)'
  <2>1. call'[c].id = call[c].id /\ call'[c].pc # "copy"
    BY <1>1, <1>6
  <2>2. call'[c].pc = "copy on" => tree'[call[c].id]["css"] = NoFile
    BY <1>1, <1>6
  <2> QED
    BY <1>3, <1>4, <2>1, <2>2 DEF SnapFits
<1> QED
  BY <1>2, <1>5, <1>6 DEF SnapsAreNew

LEMMA SnapsBeginCopy ==
  ASSUME TreesAssumption, TreeShape, SnapsAreNew, NEW c \in Callers, BeginCopy(c)
  PROVE  SnapsAreNew'
<1>1. /\ call[c].pc = "copy" /\ UNCHANGED <<records, used>>
      /\ \A d \in Callers \ {c} : call'[d] = call[d]
      /\ \A q \in Paths \ {Target(c)} : tree'[q] = tree[q]
      /\ \/ call'[c] = Idle
         \/ /\ call'[c].pc = "copy on" /\ call'[c].op = call[c].op /\ call'[c].id = call[c].id
            /\ tree'[Target(c)]["css"] = NoFile
  BY BeginCopyEffect
<1>2. CASE call[c].op # "snapshot"
  <2>1. CallMoves(c)
    BY <1>1, BeginCopyEffect DEF CallMoves
  <2>2. Target(c) \in Projects
    BY <1>1, <1>2, CopyPlaces, DiskTypes
  <2>3. \A s \in Snaps : tree'[s] = tree[s]
    BY <1>1, <2>2, DiskTypes
  <2> QED
    BY <1>1, <1>2, <2>1, <2>3, SnapsRest
<1>3. CASE call[c].op = "snapshot"
  <2>1. Target(c) = call[c].id
    BY <1>3 DEF Target
  <2> QED
    BY <1>1, <1>3, <2>1, SnapsCopied
<1> QED
  BY <1>2, <1>3

LEMMA SnapsEndCopy ==
  ASSUME TreesAssumption, TreeShape, SnapsAreNew, NEW c \in Callers, EndCopy(c)
  PROVE  SnapsAreNew'
<1>1. /\ call[c].pc = "copy on" /\ UNCHANGED <<store, records, server, used, mishaps>>
      /\ call' \in [Callers -> ToolCall] /\ CallFits(call'[c])
      /\ \A d \in Callers \ {c} : call'[d] = call[d]
      /\ \A q \in Paths \ {Target(c)} : tree'[q] = tree[q]
      /\ call'[c].op = call[c].op /\ call'[c].id = call[c].id /\ call'[c].p = call[c].p
      /\ call'[c].pc = IF call[c].op = "rollback" THEN "start" ELSE "add"
  BY EndCopyEffect
<1>2. CASE call[c].op # "snapshot"
  <2>1. CallMoves(c)
    BY <1>1 DEF CallMoves
  <2>2. Target(c) \in Projects
    BY <1>1, <1>2, CopyPlaces, DiskTypes
  <2>3. \A s \in Snaps : tree'[s] = tree[s]
    BY <1>1, <2>2, DiskTypes
  <2> QED
    BY <1>1, <1>2, <2>1, <2>3, SnapsRest
<1>3. CASE call[c].op = "snapshot"
  <2>1. Target(c) = call[c].id
    BY <1>3 DEF Target
  <2> QED
    BY <1>1, <1>3, <2>1, SnapsCopied
<1> QED
  BY <1>2, <1>3

LEMMA SnapsAddRecord ==
  ASSUME TreesAssumption, TreeShape, SnapsAreNew, NEW c \in Callers, AddRecord(c)
  PROVE  SnapsAreNew'
<1>1. /\ CallMoves(c) /\ call[c].op = "snapshot" /\ call'[c] = Idle /\ tree' = tree /\ used' = used
      /\ \A i \in DOMAIN records' : \/ records'[i].id = call[c].id
                                    \/ \E j \in DOMAIN records : records'[i] = records[j]
  BY AddRecordEffect DEF CallMoves
<1>2. \A d \in Callers \ {c} : call'[d] = call[d]
  BY <1>1 DEF CallMoves
<1>3. call[c].id \in used.ids /\ Idle.op = "none"
  BY <1>1, CallAt, DiskTypes DEF TreeShape, Idle
<1>4. ASSUME NEW i \in DOMAIN records'
      PROVE  records'[i].id = call[c].id \/ \E j \in DOMAIN records : records'[i].id = records[j].id
  BY <1>1
<1>5. \A i \in DOMAIN records' : records'[i].id \in used.ids
  BY <1>3, <1>4 DEF SnapsAreNew
<1>6. ASSUME NEW d \in Callers \ {c}, call'[d].op = "snapshot"
      PROVE  SnapFits(d)'
  <2>1. call'[d] = call[d] /\ call[d].op = "snapshot" /\ SnapFits(d)
    BY <1>2, <1>6 DEF SnapsAreNew
  <2>2. call[c].id # call[d].id /\ \A j \in DOMAIN records : records[j].id # call[d].id
    BY <1>1, <2>1 DEF SnapFits
  <2>3. \A i \in DOMAIN records' : records'[i].id # call[d].id
    BY <1>4, <2>2
  <2>4. \A e \in Callers \ {d} : call'[e].op \in {"snapshot", "rollback"} => call'[e].id # call[d].id
    BY <1>1, <1>2, <1>3, <2>1 DEF SnapFits
  <2> QED
    BY <1>1, <2>1, <2>3, <2>4 DEF SnapFits
<1>7. \A s \in Snaps \ used'.ids : tree'[s] = NoTree
  BY <1>1 DEF SnapsAreNew
<1> QED
  BY <1>1, <1>3, <1>5, <1>6, <1>7 DEF SnapsAreNew

LEMMA SnapsProject ==
  ASSUME TreesAssumption, TreeShape, SnapsAreNew, NEW p \in Projects, Start(p) \/ RemoveProject(p)
  PROVE  SnapsAreNew'
<1>1. UNCHANGED <<records, call, used>> /\ \A s \in Snaps : tree'[s] = tree[s]
  BY DiskTypes DEF Start, RemoveProject, TreeShape
<1>2. \A c \in Callers : call[c].op = "snapshot" => call[c].id \in Snaps
  BY CallAt
<1> QED
  BY <1>1, <1>2 DEF SnapsAreNew, SnapFits

LEMMA SnapsCrash ==
  ASSUME SnapsAreNew, Crash
  PROVE  SnapsAreNew'
BY DEF Crash, SnapsAreNew, Idle

-----------------------------------------------------------------------------
\* A step of a tool other than write_file leaves the files, or copies them.
CopiesOnly ==
  \A q \in Paths, n \in Names :
    \/ tree'[q][n] = tree[q][n]
    \/ /\ tree'[q][n].ino < 1
       /\ tree'[q][n].by = {} \/ \E r \in Paths, m \in Names : tree'[q][n].by = tree[r][m].by

LEMMA OneRests ==
  ASSUME TreesAssumption, TreeShape, OneWrites, CopiesOnly, mishaps \subseteq mishaps',
         \A d \in Callers : call'[d].op = "write" => call'[d] = call[d]
  PROVE  OneWrites'
<1> SUFFICES ASSUME Without({"stem"})' PROVE OneWrites'
  BY DEF OneWrites
<1>1. Without({"stem"})
  BY DEF Without
<1>2. \A q \in Paths, n \in Names : \A x, y \in tree'[q][n].by : x = y
  BY <1>1 DEF OneWrites, CopiesOnly
<1>3. \A c \in Callers, d \in Callers : call'[c].op = "write" /\ call'[d].op = "write" /\ d # c => call'[d].p # call'[c].p
  BY <1>1 DEF OneWrites
<1>4. ASSUME NEW c \in Callers, call'[c].op = "write", call'[c].pc = "fill",
             NEW n \in Names, tree'[call'[c].p][n].ino = call'[c].ino
      PROVE  tree'[call'[c].p][n].by = {}
  <2>1. call'[c] = call[c] /\ call[c].op = "write" /\ call[c].pc = "fill"
    BY <1>4
  <2>2. call[c].p \in Paths /\ call[c].ino \in 1..Calls /\ Calls \in Nat
    BY <2>1, CallAt, DiskTypes
  <2>3. tree'[call[c].p][n].ino = call[c].ino
    BY <1>4, <2>1
  <2>4. ~(tree'[call[c].p][n].ino < 1)
    BY <2>2, <2>3
  <2>5. tree'[call[c].p][n] = tree[call[c].p][n]
    BY <2>2, <2>4 DEF CopiesOnly
  <2> QED
    BY <1>1, <2>1, <2>3, <2>5 DEF OneWrites
<1> QED
  BY <1>2, <1>3, <1>4 DEF OneWrites

\* The same for a step of one call.
LEMMA OneStays ==
  ASSUME TreesAssumption, TreeShape, OneWrites, CopiesOnly, NEW c \in Callers, CallMoves(c),
         call[c].op # "write"
  PROVE  OneWrites'
<1>1. mishaps \subseteq mishaps' /\ \A d \in Callers : call'[d].op = "write" => call'[d] = call[d]
  BY DEF CallMoves, Idle
<1> QED
  BY <1>1, OneRests

LEMMA OneBegins ==
  ASSUME TreesAssumption, TreeShape, OneWrites, NEW c \in Callers,
         NEW op, NEW pc, NEW p, NEW id, BeginStep(c, op, pc, p, id), pc # "fill"
  PROVE  OneWrites'
<1> SUFFICES ASSUME Without({"stem"})' PROVE OneWrites'
  BY DEF OneWrites
<1>1. /\ call'[c].op = op /\ call'[c].p = p /\ call'[c].pc = pc /\ tree' = tree
      /\ \A d \in Callers \ {c} : call'[d] = call[d]
  BY DEF BeginStep
<1>2. Without({"stem"}) /\ (op = "write" => \A d \in Callers : call[d].op = "write" => call[d].p # p)
  BY DEF Without, BeginStep, Clash, InProject
<1> QED
  BY <1>1, <1>2 DEF OneWrites

LEMMA OneWriteStep ==
  ASSUME TreesAssumption, TreeShape, OneWrites, NEW c \in Callers,
         CreateTemp(c) \/ FillTemp(c) \/ RenameTemp(c)
  PROVE  OneWrites'
<1> SUFFICES ASSUME Without({"stem"})' PROVE OneWrites'
  BY DEF OneWrites
<1>1. WriteStep(c)
  BY CreateEffect, FillEffect, RenameEffect
<1>2. PICK p \in Projects : p = call[c].p
  BY <1>1 DEF WriteStep
<1>3. /\ Without({"stem"}) /\ p \in Paths /\ call[c].op = "write"
      /\ \A q \in Paths \ {p} : tree'[q] = tree[q]
      /\ \A d \in Callers \ {c} : call'[d] = call[d]
      /\ call'[c] = Idle \/ (call'[c].op = "write" /\ call'[c].p = p)
  BY <1>1, <1>2, DiskTypes DEF WriteStep, Without
<1>4. \A d \in Callers \ {c} : call[d].op = "write" => call[d].p # p /\ call[d].p \in Paths
  BY <1>2, <1>3, CallAt, DiskTypes DEF OneWrites
<1>5. \A n \in Names : \A x, y \in tree[p][n].by : x = y
  BY <1>3 DEF OneWrites
<1>6. /\ \A n \in Names : \A x, y \in tree'[p][n].by : x = y
      /\ call'[c].pc = "fill" => \A n \in Names : tree'[p][n].ino = call'[c].ino => tree'[p][n].by = {}
  <2>1. CASE CreateTemp(c)
    <3>1. /\ \A n \in Names : tree'[p][n].by \subseteq tree[p][n].by
          /\ \A n \in Names : tree'[p][n].ino = call'[c].ino => tree'[p][n].by = {}
      BY <1>2, <2>1, CreateEffect
    <3> QED
      BY <1>5, <3>1
  <2>2. CASE FillTemp(c)
    <3>1. call[c].pc = "fill" /\ call'[c].pc # "fill"
      BY <2>2, FillEffect
    <3>2. \A n \in Names : tree[p][n].ino = call[c].ino => tree[p][n].by = {}
      BY <1>2, <1>3, <3>1 DEF OneWrites
    <3>3. \A n \in Names : tree'[p][n].by = IF tree[p][n].ino = call[c].ino THEN {call[c].w} ELSE tree[p][n].by
      BY <1>2, <2>2, <3>2, FillEffect
    <3> QED
      BY <1>5, <3>1, <3>3
  <2>3. CASE RenameTemp(c)
    <3>1. /\ call'[c] = Idle
          /\ \A n \in Names : tree'[p][n] = NoFile \/ \E m \in Names : tree'[p][n] = tree[p][m]
      BY <1>2, <2>3, RenameEffect
    <3> QED
      BY <1>5, <3>1 DEF NoFile, Idle
  <2> QED
    BY <2>1, <2>2, <2>3
<1>7. \A q \in Paths, n \in Names : \A x, y \in tree'[q][n].by : x = y
  BY <1>3, <1>6 DEF OneWrites
<1>8. ASSUME NEW d \in Callers, call'[d].op = "write"
      PROVE  /\ \A e \in Callers \ {d} : call'[e].op = "write" => call'[e].p # call'[d].p
             /\ call'[d].pc = "fill" =>
                  \A n \in Names : tree'[call'[d].p][n].ino = call'[d].ino => tree'[call'[d].p][n].by = {}
  <2>1. CASE d = c
    BY <1>3, <1>4, <1>6, <1>8, <2>1 DEF Idle
  <2>2. CASE d # c
    <3>1. call'[d] = call[d] /\ call[d].p # p /\ call[d].p \in Paths
      BY <1>3, <1>4, <1>8, <2>2
    <3>2. tree'[call[d].p] = tree[call[d].p]
      BY <1>3, <3>1
    <3>3. \A e \in Callers \ {d} : call'[e].op = "write" => call'[e].p # call[d].p
      BY <1>3, <1>8, <3>1 DEF OneWrites, Idle
    <3> QED
      BY <1>3, <1>8, <3>1, <3>2, <3>3 DEF OneWrites
  <2> QED
    BY <2>1, <2>2
<1> QED
  BY <1>7, <1>8 DEF OneWrites

LEMMA CopiesCopy ==
  ASSUME TreesAssumption, TreeShape, NEW c \in Callers, BeginCopy(c) \/ EndCopy(c)
  PROVE  CopiesOnly
<1> DEFINE From(n) == tree[Source(c)][n]
<1>1. /\ Source(c) \in Paths /\ Target(c) \in Paths /\ tree \in [Paths -> WorkTree]
  BY BeginCopyEffect, EndCopyEffect, CopyPlaces DEF TreeShape
<1>2. \A n \in Names : Copied(From(n)).ino < 1 /\ Copied(From(n)).by = From(n).by
  <2>1. \A n \in Names : From(n) \in TreeFile
    BY <1>1 DEF WorkTree
  <2> QED
    BY <2>1, DiskTypes
<1>3. NoFile.ino < 1 /\ NoFile.by = {}
  BY DEF NoFile
<1>4. CASE BeginCopy(c)
  <2>1. CASE tree' = tree
    BY <2>1 DEF CopiesOnly
  <2>2. CASE tree' # tree
    <3>1. /\ \A q \in Paths \ {Target(c)} : tree'[q] = tree[q]
          /\ tree'[Target(c)]["html"] = Copied(From("html"))
          /\ tree'[Target(c)]["css"] = NoFile /\ tree'[Target(c)]["tmp"] = NoFile
      BY <1>4, <2>2, BeginCopyEffect
    <3> QED
      BY <1>1, <1>2, <1>3, <3>1 DEF CopiesOnly, Names, Files
  <2> QED
    BY <2>1, <2>2
<1>5. CASE EndCopy(c)
  <2>1. /\ \A q \in Paths \ {Target(c)} : tree'[q] = tree[q]
        /\ tree'[Target(c)]["html"] = tree[Target(c)]["html"]
        /\ tree'[Target(c)]["css"] = Copied(From("css"))
        /\ tree'[Target(c)]["tmp"] = Copied(From("tmp"))
    BY <1>5, EndCopyEffect
  <2> QED
    BY <1>1, <1>2, <1>3, <2>1 DEF CopiesOnly, Names, Files
<1> QED
  BY <1>4, <1>5

-----------------------------------------------------------------------------
LEMMA ApartRests ==
  ASSUME TreesAssumption, TreeShape, TreesApart, NEW c \in Callers, CallMoves(c),
         store' = store, server' \subseteq server,
         call'[c].op = "rollback" /\ call'[c].pc # "stop" => call[c].p \notin server'
  PROVE  TreesApart'
<1> SUFFICES ASSUME Without({"swap", "milli"})' PROVE TreesApart'
  BY DEF TreesApart
<1>1. /\ \A d \in Callers : call'[d] = Idle \/ (call'[d].op = call[d].op /\ call'[d].id = call[d].id
                                               /\ call'[d].p = call[d].p)
      /\ \A d \in Callers \ {c} : call'[d] = call[d]
      /\ Without({"swap", "milli"}) /\ used' = used /\ call[c].pc # "idle"
  BY DEF CallMoves, Without
<1>2. Idle.op = "none" /\ Idle.pc = "idle" /\ Idle.p = None /\ None \notin Projects
  BY DiskTypes DEF Idle, Paths
<1>3. \A d \in Callers : call[d].op # "none" => call[d].p \in store /\ call[d].p \in Projects
  BY <1>1, CallAt DEF TreesApart
<1>4. ASSUME NEW d \in Callers
      PROVE  call'[d].pc # "idle" => call'[d].p \in store'
  BY <1>1, <1>2, <1>3 DEF TreesApart
<1>5. ASSUME NEW d \in Callers, call'[d].op = "rollback"
      PROVE  /\ \A e \in Callers \ {d} : call'[e].p # call'[d].p
             /\ call'[d].pc # "stop" => call'[d].p \notin server'
  <2>1. call[d].op = "rollback" /\ call'[d].p = call[d].p /\ call[d].p \in Projects
    BY <1>1, <1>2, <1>3, <1>5
  <2>2. \A e \in Callers \ {d} : call[e].p # call[d].p
    BY <1>1, <2>1 DEF TreesApart
  <2>3. \A e \in Callers \ {d} : call'[e].p # call[d].p
    BY <1>1, <1>2, <2>1, <2>2
  <2>4. d # c /\ call'[d].pc # "stop" => call[d].p \notin server
    BY <1>1, <2>1 DEF TreesApart
  <2> QED
    BY <1>5, <2>1, <2>3, <2>4
<1>6. ASSUME NEW d \in Callers, call'[d].op = "fork"
      PROVE  /\ call'[d].id \notin store'
             /\ \A e \in Callers \ {d} : call'[e].op = "fork" => call'[e].id # call'[d].id
  BY <1>1, <1>2, <1>6 DEF TreesApart
<1> QED
  BY <1>4, <1>5, <1>6 DEF TreesApart

LEMMA ApartBegins ==
  ASSUME TreesAssumption, TreeShape, TreesApart, NEW c \in Callers,
         NEW op \in {"write", "snapshot", "rollback", "fork"}, NEW pc \in {"create", "copy", "stop"},
         NEW p, NEW id, BeginStep(c, op, pc, p, id),
         op = "rollback" => pc = "stop",
         op = "fork" => id \in Forks /\ (id \in used.ids => "milli" \in mishaps')
  PROVE  TreesApart'
<1> SUFFICES ASSUME Without({"swap", "milli"})' PROVE TreesApart'
  BY DEF TreesApart
<1>1. /\ call'[c].op = op /\ call'[c].id = id /\ call'[c].pc = pc /\ call'[c].p = p /\ p \in store
      /\ p \in Projects
      /\ \A d \in Callers \ {c} : call'[d] = call[d]
      /\ UNCHANGED <<store, server>> /\ call[c] = Idle
      /\ Without({"swap", "milli"}) /\ "swap" \notin Clash(p, op)
  BY DEF BeginStep, Without
<1>2. /\ \A d \in Callers \ {c} : call[d].p = p => op # "rollback" /\ call[d].op # "rollback"
  BY <1>1 DEF Clash, InProject
<1>3. ASSUME op = "fork"
      PROVE  /\ id \notin store /\ \A d \in Callers \ {c} : call[d].op = "fork" => call[d].id # id
  <2>1. id \notin used.ids /\ id \in Forks
    BY <1>3 DEF Without
  <2>2. id \notin store
    BY <2>1, DiskTypes DEF TreeShape
  <2>3. \A d \in Callers : call[d].id \in used.ids \cup {None} /\ id # None
    BY <2>1, DiskTypes DEF TreeShape
  <2> QED
    BY <2>1, <2>2, <2>3
<1>4. ASSUME NEW d \in Callers
      PROVE  call'[d].pc # "idle" => call'[d].p \in store'
  BY <1>1 DEF TreesApart
<1>5. ASSUME NEW d \in Callers, call'[d].op = "rollback"
      PROVE  /\ \A e \in Callers \ {d} : call'[e].p # call'[d].p
             /\ call'[d].pc # "stop" => call'[d].p \notin server'
  <2>1. CASE d = c
    BY <1>1, <1>2, <1>5, <2>1
  <2>2. CASE d # c
    BY <1>1, <1>2, <1>5, <2>2 DEF TreesApart
  <2> QED
    BY <2>1, <2>2
<1>6. ASSUME NEW d \in Callers, call'[d].op = "fork"
      PROVE  /\ call'[d].id \notin store'
             /\ \A e \in Callers \ {d} : call'[e].op = "fork" => call'[e].id # call'[d].id
  BY <1>1, <1>3, <1>6 DEF TreesApart
<1> QED
  BY <1>4, <1>5, <1>6 DEF TreesApart

LEMMA ApartStarts ==
  ASSUME TreesAssumption, TreeShape, TreesApart, NEW c \in Callers, StartServer(c)
  PROVE  TreesApart'
<1> SUFFICES ASSUME Without({"swap", "milli"})' PROVE TreesApart'
  BY DEF TreesApart
<1>1. /\ CallMoves(c) /\ call[c].op = "rollback" /\ call'[c] = Idle
      /\ server' \subseteq server \cup {call[c].p} /\ UNCHANGED <<store, mishaps>>
  BY StartServerEffect
<1>2. /\ \A d \in Callers \ {c} : call'[d] = call[d] /\ call[d].p # call[c].p
      /\ Without({"swap", "milli"})
  BY <1>1 DEF CallMoves, Without, TreesApart
<1>3. Idle.op = "none" /\ Idle.pc = "idle" /\ Idle.p = None /\ None \notin Projects
  BY DiskTypes DEF Idle, Paths
<1>4. ASSUME NEW d \in Callers, call'[d].op = "rollback"
      PROVE  /\ \A e \in Callers \ {d} : call'[e].p # call'[d].p
             /\ call'[d].pc # "stop" => call'[d].p \notin server'
  <2>1. d # c /\ call'[d] = call[d] /\ call[d].p # call[c].p /\ call[d].p \in Projects
    BY <1>1, <1>2, <1>3, <1>4, CallAt
  <2>2. /\ \A e \in Callers \ {d} : call[e].p # call[d].p
        /\ call[d].pc # "stop" => call[d].p \notin server
    BY <1>2, <1>4, <2>1 DEF TreesApart
  <2> QED
    BY <1>1, <1>2, <1>3, <2>1, <2>2
<1>5. ASSUME NEW d \in Callers
      PROVE  /\ call'[d].pc # "idle" => call'[d].p \in store'
             /\ call'[d].op = "fork" =>
                  /\ call'[d].id \notin store'
                  /\ \A e \in Callers \ {d} : call'[e].op = "fork" => call'[e].id # call'[d].id
  BY <1>1, <1>2, <1>3 DEF TreesApart
<1> QED
  BY <1>4, <1>5 DEF TreesApart

LEMMA ApartAdds ==
  ASSUME TreesAssumption, TreeShape, TreesApart, NEW c \in Callers, AddProject(c)
  PROVE  TreesApart'
<1> SUFFICES ASSUME Without({"swap", "milli"})' PROVE TreesApart'
  BY DEF TreesApart
<1>1. /\ CallMoves(c) /\ call[c].op = "fork" /\ call'[c] = Idle
      /\ store' = store \cup {call[c].id} /\ server' \subseteq server \cup {call[c].id}
      /\ UNCHANGED mishaps
  BY AddProjectEffect
<1>2. /\ \A d \in Callers \ {c} : call'[d] = call[d]
      /\ Without({"swap", "milli"}) /\ call[c].id \notin store
  BY <1>1 DEF CallMoves, Without, TreesApart
<1>3. Idle.op = "none" /\ Idle.pc = "idle" /\ Idle.p = None /\ None \notin Projects
  BY DiskTypes DEF Idle, Paths
<1>4. ASSUME NEW d \in Callers, call'[d].op = "rollback"
      PROVE  /\ \A e \in Callers \ {d} : call'[e].p # call'[d].p
             /\ call'[d].pc # "stop" => call'[d].p \notin server'
  <2>1. d # c /\ call'[d] = call[d] /\ call[d].p \in Projects /\ call[d].pc # "idle"
    BY <1>1, <1>2, <1>3, <1>4, CallAt DEF Idle
  <2>2. /\ \A e \in Callers \ {d} : call[e].p # call[d].p
        /\ call[d].pc # "stop" => call[d].p \notin server
        /\ call[d].p \in store
    BY <1>2, <1>4, <2>1 DEF TreesApart
  <2>3. call[d].p # call[c].id
    BY <1>2, <2>2
  <2> QED
    BY <1>1, <1>2, <1>3, <2>1, <2>2, <2>3
<1>5. ASSUME NEW d \in Callers
      PROVE  /\ call'[d].pc # "idle" => call'[d].p \in store'
             /\ call'[d].op = "fork" =>
                  /\ call'[d].id \notin store'
                  /\ \A e \in Callers \ {d} : call'[e].op = "fork" => call'[e].id # call'[d].id
  BY <1>1, <1>2, <1>3 DEF TreesApart
<1> QED
  BY <1>4, <1>5 DEF TreesApart

LEMMA ApartProject ==
  ASSUME TreesAssumption, TreeShape, TreesApart, NEW p \in Projects, Start(p) \/ RemoveProject(p)
  PROVE  TreesApart'
<1> SUFFICES ASSUME Without({"swap", "milli"})' PROVE TreesApart'
  BY DEF TreesApart
<1>1. CASE Start(p)
  <2>1. UNCHANGED <<store, call>> /\ server' = server \cup {p} /\ Without({"swap", "milli"})
        /\ "swap" \notin Clash(p, "start")
    BY <1>1 DEF Start, Happen, Without
  <2>2. \A d \in Callers : call[d].op = "rollback" => call[d].p # p
    BY <2>1 DEF Clash, InProject
  <2> QED
    BY <2>1, <2>2 DEF TreesApart
<1>2. CASE RemoveProject(p)
  <2>1. UNCHANGED call /\ store' = store \ {p} /\ server' = server \ {p} /\ Without({"swap", "milli"})
        /\ InProject(p) = {}
    BY <1>2 DEF RemoveProject, Happen, Without
  <2>2. \A d \in Callers : call[d].p # p
    BY <2>1 DEF InProject
  <2> QED
    BY <2>1, <2>2 DEF TreesApart
<1> QED
  BY <1>1, <1>2

LEMMA ApartCrash ==
  ASSUME TreesAssumption, Crash
  PROVE  TreesApart'
<1>1. \A c \in Callers : call'[c] = Idle
  BY DEF Crash
<1> QED
  BY <1>1 DEF TreesApart, Idle

\* A rollback that has stopped its project's server goes on.
LEMMA ApartGoesOn ==
  ASSUME TreesAssumption, TreeShape, TreesApart, NEW c \in Callers, CallMoves(c),
         call[c].pc # "stop", UNCHANGED <<store, server>>
  PROVE  TreesApart'
<1> SUFFICES ASSUME Without({"swap", "milli"})' PROVE TreesApart'
  BY DEF TreesApart
<1>1. Without({"swap", "milli"}) /\ Idle.op = "none"
  BY DEF CallMoves, Without, Idle
<1>2. call'[c].op = "rollback" => call[c].p \notin server'
  BY <1>1 DEF TreesApart, CallMoves
<1> QED
  BY <1>2, ApartRests

LEMMA ApartStep ==
  ASSUME TreesAssumption, TreeShape, TreesApart, NEW c \in Callers, Step(c)
  PROVE  TreesApart'
<1>1. CASE CreateTemp(c) \/ FillTemp(c) \/ RenameTemp(c)
  <2>1. WriteStep(c)
    BY <1>1, CreateEffect, FillEffect, RenameEffect
  <2>2. CallMoves(c) /\ UNCHANGED <<store, server>> /\ call[c].pc # "stop"
    BY <1>1, <2>1, WriteMoves DEF WriteStep, CreateTemp, FillTemp, RenameTemp, At
  <2> QED
    BY <2>2, ApartGoesOn
<1>2. CASE BeginCopy(c)
  <2>1. CallMoves(c) /\ UNCHANGED <<store, server>> /\ call[c].pc # "stop"
    BY <1>2, BeginCopyEffect DEF CallMoves
  <2> QED
    BY <2>1, ApartGoesOn
<1>3. CASE EndCopy(c)
  <2>1. CallMoves(c) /\ UNCHANGED <<store, server>> /\ call[c].pc # "stop"
    BY <1>3, EndCopyEffect DEF CallMoves
  <2> QED
    BY <2>1, ApartGoesOn
<1>4. CASE AddRecord(c)
  <2>1. CallMoves(c) /\ UNCHANGED <<store, server>> /\ call[c].pc # "stop"
    BY <1>4, AddRecordEffect
  <2> QED
    BY <2>1, ApartGoesOn
<1>5. CASE StopServer(c)
  <2>1. CallMoves(c) /\ store' = store /\ server' \subseteq server /\ call[c].p \notin server'
    BY <1>5, StopServerEffect
  <2> QED
    BY <2>1, ApartRests
<1>6. CASE RemoveTree(c)
  <2>1. CallMoves(c) /\ UNCHANGED <<store, server>> /\ call[c].pc # "stop"
    BY <1>6, RemoveTreeEffect
  <2> QED
    BY <2>1, ApartGoesOn
<1>7. CASE StartServer(c) \/ AddProject(c)
  BY <1>7, ApartStarts, ApartAdds
<1> QED
  BY <1>1, <1>2, <1>3, <1>4, <1>5, <1>6, <1>7 DEF Step

-----------------------------------------------------------------------------
Copying == {"snapshot", "rollback", "fork"}

LEMMA RecordIds ==
  ASSUME TreeShape
  PROVE  \A i \in DOMAIN records : records[i].id \in Snaps
<1>1. \A i \in DOMAIN records : records[i] \in Record
  BY DEF TreeShape
<1> QED
  BY <1>1 DEF Record

\* Nobody else writes to, reads or has recorded what a call copies to.
LEMMA TargetsApart ==
  ASSUME TreesAssumption, TreeShape, SnapsAreNew, TreesApart, Without({"swap", "milli"}),
         NEW c \in Callers, call[c].op \in Copying
  PROVE  /\ Target(c) \in Paths
         /\ \A d \in Callers \ {c} : call[d].op \in Copying => Target(d) # Target(c) /\ call[d].id # Target(c)
         /\ \A i \in DOMAIN records : records[i].id # Target(c) /\ records[i].id \in Snaps
         /\ call[c].op # "rollback" => Target(c) \notin store
         /\ call[c].op = "rollback" => /\ call[c].id \in Snaps /\ call[c].id # Target(c)
                                       /\ Target(c) = call[c].p /\ call[c].p \in store
<1>1. \A d \in Callers : call[d].op \in Copying =>
        /\ call[d].p \in store /\ call[d].p \in Projects
        /\ call[d].op \in {"snapshot", "rollback"} => call[d].id \in Snaps
        /\ call[d].op = "fork" => call[d].id \in Projects /\ call[d].id \notin store
  BY CallAt, DiskTypes DEF TreesApart, Copying, Idle
<1>2. \A i \in DOMAIN records : records[i].id \in Snaps
  BY RecordIds
<1>3. Projects \cap Snaps = {} /\ Projects \subseteq Paths /\ Snaps \subseteq Paths /\ store \subseteq Projects
  BY DiskTypes DEF TreeShape
<1>4. CASE call[c].op = "snapshot"
  <2>1. Target(c) = call[c].id /\ Target(c) \in Snaps
    BY <1>1, <1>4 DEF Target, Copying
  <2>2. SnapFits(c)
    BY <1>4 DEF SnapsAreNew
  <2>3. ASSUME NEW d \in Callers \ {c}, call[d].op \in Copying
        PROVE  Target(d) # Target(c) /\ call[d].id # Target(c)
    BY <1>1, <1>3, <2>1, <2>2, <2>3 DEF SnapFits, Target, Copying
  <2> QED
    BY <1>2, <1>3, <1>4, <2>1, <2>2, <2>3 DEF SnapFits
<1>5. CASE call[c].op = "rollback"
  <2>1. Target(c) = call[c].p /\ Target(c) \in store /\ call[c].id \in Snaps
    BY <1>1, <1>5 DEF Target, Copying
  <2>2. ASSUME NEW d \in Callers \ {c}, call[d].op \in Copying
        PROVE  Target(d) # Target(c) /\ call[d].id # Target(c)
    <3>1. call[d].p # call[c].p
      BY <1>5 DEF TreesApart
    <3> QED
      BY <1>1, <1>3, <2>1, <2>2, <3>1 DEF Target, Copying
  <2> QED
    BY <1>2, <1>3, <1>5, <2>1, <2>2
<1>6. CASE call[c].op = "fork"
  <2>1. Target(c) = call[c].id /\ Target(c) \in Projects /\ Target(c) \notin store
    BY <1>1, <1>6 DEF Target, Copying
  <2>2. ASSUME NEW d \in Callers \ {c}, call[d].op \in Copying
        PROVE  Target(d) # Target(c) /\ call[d].id # Target(c)
    <3>1. call[d].op = "fork" => call[d].id # call[c].id
      BY <1>6 DEF TreesApart
    <3> QED
      BY <1>1, <1>3, <2>1, <2>2, <3>1 DEF Target, Copying
  <2> QED
    BY <1>2, <1>3, <1>6, <2>1, <2>2
<1> QED
  BY <1>4, <1>5, <1>6 DEF Copying

\* The step takes no file out of the tree at q.
KeepsFiles(q) == \A f \in Files : tree[q][f] # NoFile => tree'[q][f] # NoFile

LEMMA KeepsWhole ==
  ASSUME NEW q, KeepsFiles(q), Whole(tree[q])
  PROVE  Whole(tree'[q])
BY DEF KeepsFiles, Whole

\* A step of one call, which takes files away where it copies to at most.
Confined(c) == \A q \in Paths : KeepsFiles(q) \/ (call[c].op \in Copying /\ q = Target(c))

LEMMA OthersCopies ==
  ASSUME TreesAssumption, TreeShape, SnapsAreNew, TreesApart, Without({"swap", "milli"}),
         NEW c \in Callers, Confined(c), NEW d \in Callers \ {c}, call'[d] = call[d], CopiesWhole(d)
  PROVE  CopiesWhole(d)'
<1>1. Target(d)' = Target(d)
  BY DEF Target
<1>2. CASE call[d].op \in Copying
  <2>1. Target(d) \in Paths /\ call[d].id \in Paths
    BY <1>2, CallAt, DiskTypes, TargetsApart DEF Copying
  <2>2. KeepsFiles(Target(d)) /\ KeepsFiles(call[d].id)
    BY <1>2, <2>1, TargetsApart DEF Confined
  <2>3. call[d].pc = "copy on" => tree'[Target(d)]["html"] # NoFile
    BY <2>2 DEF CopiesWhole, KeepsFiles, Files
  <2>4. call[d].pc = "add" => Whole(tree'[call[d].id])
    BY <2>2, KeepsWhole DEF CopiesWhole
  <2> QED
    BY <1>1, <2>3, <2>4 DEF CopiesWhole
<1>3. CASE call[d].op \notin Copying
  <2>1. call[d].pc \notin {"copy on", "add"}
    BY <1>3, CallAt DEF Copying
  <2> QED
    BY <2>1 DEF CopiesWhole
<1> QED
  BY <1>2, <1>3

\* The source of a copy is whole.
LEMMA GoodSource ==
  ASSUME TreesAssumption, TreeShape, TreesApart, GoodTrees,
         Without({"swap", "disk", "crash", "milli"}),
         NEW c \in Callers, call[c].pc \in {"copy", "copy on"}
  PROVE  Whole(tree[Source(c)])
<1>1. call[c].op \in Copying /\ call[c].pc # "idle" /\ Without({"swap", "milli"})
  BY CopyPlaces DEF Copying, Without
<1>2. CASE call[c].op = "rollback"
  BY <1>2 DEF GoodTrees, Source
<1>3. CASE call[c].op # "rollback"
  <2>1. Source(c) = call[c].p /\ call[c].p \in store
    BY <1>1, <1>3 DEF Source, TreesApart
  <2>2. \A d \in Callers : call[d].op = "rollback" => call[d].p # call[c].p
    BY <1>1, <1>3 DEF TreesApart
  <2> QED
    BY <2>1, <2>2 DEF GoodTrees
<1> QED
  BY <1>2, <1>3

\* What is copied from a whole tree is whole in the end.
LEMMA CopyIsWhole ==
  ASSUME TreesAssumption, TreeShape, NEW c \in Callers, BeginCopy(c) \/ EndCopy(c), Whole(tree[Source(c)]),
         CopiesWhole(c)
  PROVE  /\ CopiesWhole(c)' /\ Confined(c) /\ CallMoves(c) /\ UNCHANGED <<store, records, server>>
         /\ call[c].op \in Copying
         /\ EndCopy(c) => Whole(tree'[Target(c)])
         /\ BeginCopy(c) => call'[c].pc = "copy on" \/ "disk" \in mishaps'
<1>1. /\ Source(c) \in Paths /\ tree \in [Paths -> WorkTree] /\ call[c].op \in Copying
      /\ call[c].pc \in {"copy", "copy on"}
      /\ call[c].op # "rollback" => Target(c) = call[c].id
  BY BeginCopyEffect, EndCopyEffect, CopyPlaces DEF TreeShape, Copying
<1>2. \A n \in Files : Copied(tree[Source(c)][n]) # NoFile
  <2>1. \A n \in Files : tree[Source(c)][n] # NoFile
    BY DEF Whole
  <2>2. \A n \in Names : tree[Source(c)][n] \in TreeFile
    BY <1>1 DEF WorkTree
  <2> QED
    BY <2>1, <2>2, DiskTypes
<1>3. tree[Source(c)] # NoTree
  BY DEF Whole, NoTree, Files, Names
<1>4. CASE BeginCopy(c)
  <2>1. /\ UNCHANGED <<store, records, server, used>> /\ mishaps \subseteq mishaps'
        /\ call' \in [Callers -> ToolCall] /\ \A d \in Callers \ {c} : call'[d] = call[d]
        /\ CallFits(call'[c]) /\ call[c].pc = "copy"
        /\ \A q \in Paths \ {Target(c)} : tree'[q] = tree[q]
        /\ tree'[Target(c)]["html"] = Copied(tree[Source(c)]["html"])
        /\ \/ call'[c] = Idle /\ "disk" \in mishaps'
           \/ /\ call'[c].pc = "copy on" /\ call'[c].op = call[c].op /\ call'[c].p = call[c].p
              /\ call'[c].id = call[c].id
    BY <1>3, <1>4, BeginCopyEffect
  <2>2. CallMoves(c)
    BY <2>1 DEF CallMoves
  <2>3. Confined(c)
    BY <1>1, <2>1 DEF Confined, KeepsFiles
  <2>4. CopiesWhole(c)'
    <3>1. tree'[Target(c)]["html"] # NoFile
      BY <1>2, <2>1 DEF Files
    <3>2. call'[c] # Idle => Target(c)' = Target(c)
      BY <2>1 DEF Target
    <3>3. CASE call'[c] = Idle
      <4>1. call'[c].pc = "idle"
        BY <3>3 DEF Idle
      <4> QED
        BY <4>1 DEF CopiesWhole
    <3>4. CASE call'[c] # Idle
      BY <2>1, <3>1, <3>2, <3>4 DEF CopiesWhole
    <3> QED
      BY <3>3, <3>4
  <2> QED
    BY <1>1, <1>4, <2>1, <2>2, <2>3, <2>4 DEF EndCopy, At
<1>5. CASE EndCopy(c)
  <2>1. /\ UNCHANGED <<store, records, server, used, mishaps>>
        /\ call' \in [Callers -> ToolCall] /\ \A d \in Callers \ {c} : call'[d] = call[d]
        /\ CallFits(call'[c]) /\ call'[c].op = call[c].op /\ call'[c].p = call[c].p
        /\ call'[c].id = call[c].id /\ call[c].pc = "copy on"
        /\ call'[c].pc = IF call[c].op = "rollback" THEN "start" ELSE "add"
        /\ \A q \in Paths \ {Target(c)} : tree'[q] = tree[q]
        /\ tree'[Target(c)]["html"] = tree[Target(c)]["html"]
        /\ tree'[Target(c)]["css"] = Copied(tree[Source(c)]["css"])
    BY <1>5, EndCopyEffect
  <2>2. CallMoves(c)
    BY <2>1 DEF CallMoves
  <2>3. Confined(c)
    BY <1>1, <2>1 DEF Confined, KeepsFiles
  <2>4. Whole(tree'[Target(c)])
    BY <1>2, <2>1 DEF CopiesWhole, Whole, Files
  <2>5. CopiesWhole(c)'
    BY <1>1, <2>1, <2>4 DEF CopiesWhole
  <2> QED
    BY <1>1, <1>5, <2>1, <2>2, <2>3, <2>4, <2>5 DEF BeginCopy, At
<1> QED
  BY <1>4, <1>5

LEMMA GoodRests ==
  ASSUME TreesAssumption, TreeShape, SnapsAreNew, TreesApart, GoodTrees,
         Without({"swap", "disk", "crash", "milli"})',
         NEW c \in Callers, CallMoves(c), Confined(c), CopiesWhole(c)',
         \A p \in store' : p \in store \/ Whole(tree'[p]),
         \A i \in DOMAIN records' : (\E j \in DOMAIN records : records'[i] = records[j])
                                    \/ Whole(tree'[records'[i].id]),
         call[c].op = "rollback" => \/ Whole(tree'[call[c].p])
                                    \/ call'[c].op = "rollback" /\ call'[c].pc \in {"copy", "copy on"}
  PROVE  GoodTrees'
<1>1. /\ Without({"swap", "disk", "crash", "milli"}) /\ Without({"swap", "milli"})
      /\ \A d \in Callers \ {c} : call'[d] = call[d]
      /\ call'[c] = Idle \/ (call'[c].op = call[c].op /\ call'[c].p = call[c].p /\ call'[c].id = call[c].id)
      /\ Idle.op = "none"
  BY DEF Without, CallMoves, Idle
<1>2. ASSUME NEW p \in store'
      PROVE  Whole(tree'[p]) \/
               \E d \in Callers : call'[d].op = "rollback" /\ call'[d].p = p /\ call'[d].pc \in {"copy", "copy on"}
  <2>1. CASE p \notin store
    BY <1>2, <2>1
  <2>2. CASE p \in store /\ Whole(tree[p])
    <3>1. CASE KeepsFiles(p)
      BY <2>2, <3>1, KeepsWhole
    <3>2. CASE ~KeepsFiles(p)
      <4>1. p \in Paths
        BY <2>2, DiskTypes DEF TreeShape
      <4>2. call[c].op \in Copying /\ p = Target(c)
        BY <3>2, <4>1 DEF Confined
      <4>3. call[c].op = "rollback" /\ call[c].p = p
        BY <1>1, <2>2, <4>2, TargetsApart
      <4> QED
        BY <1>1, <4>3
    <3> QED
      BY <3>1, <3>2
  <2>3. CASE p \in store /\ ~Whole(tree[p])
    <3>1. PICK d \in Callers : call[d].op = "rollback" /\ call[d].p = p /\ call[d].pc \in {"copy", "copy on"}
      BY <1>1, <2>3 DEF GoodTrees
    <3> QED
      BY <1>1, <3>1
  <2> QED
    BY <2>1, <2>2, <2>3
<1>3. ASSUME NEW i \in DOMAIN records'
      PROVE  Whole(tree'[records'[i].id])
  <2>1. CASE \E j \in DOMAIN records : records'[i] = records[j]
    <3>1. PICK j \in DOMAIN records : records'[i] = records[j]
      BY <2>1
    <3>2. Whole(tree[records[j].id]) /\ records[j].id \in Paths
      BY <1>1, RecordIds, DiskTypes DEF GoodTrees
    <3>3. KeepsFiles(records[j].id)
      BY <1>1, <3>2, TargetsApart DEF Confined
    <3> QED
      BY <3>1, <3>2, <3>3, KeepsWhole
  <2> QED
    BY <2>1, <1>3
<1>4. ASSUME NEW d \in Callers, call'[d].op = "rollback"
      PROVE  Whole(tree'[call'[d].id])
  <2>5. call[d].op = "rollback" /\ call'[d].id = call[d].id
    BY <1>1, <1>4
  <2>1. call[d].op = "rollback" /\ call'[d].id = call[d].id /\ Whole(tree[call[d].id])
    BY <1>1, <2>5 DEF GoodTrees
  <2>2. call[d].id \in Paths
    BY <2>1, CallAt, DiskTypes
  <2>3. call[c].op \in Copying => call[d].id # Target(c)
    BY <1>1, <2>1, TargetsApart DEF Copying
  <2>4. KeepsFiles(call[d].id)
    BY <2>2, <2>3 DEF Confined
  <2> QED
    BY <2>1, <2>4, KeepsWhole
<1>5. ASSUME NEW d \in Callers
      PROVE  CopiesWhole(d)'
  BY <1>1, OthersCopies DEF GoodTrees
<1> QED
  BY <1>2, <1>3, <1>4, <1>5 DEF GoodTrees

LEMMA NotCopying ==
  ASSUME NEW c \in Callers, call'[c].pc \notin {"copy on", "add"}
  PROVE  CopiesWhole(c)'
BY DEF CopiesWhole

LEMMA UnchangedKeeps ==
  ASSUME NEW c \in Callers, tree' = tree
  PROVE  Confined(c) /\ \A s \in Snaps : Whole(tree[s]) => Whole(tree'[s])
BY DEF Confined, KeepsFiles

LEMMA GoodBegins ==
  ASSUME TreesAssumption, TreeShape, GoodTrees, NEW c \in Callers,
         NEW op \in {"write", "snapshot", "rollback", "fork"}, NEW pc \in {"create", "copy", "stop"},
         NEW p, NEW id, BeginStep(c, op, pc, p, id),
         op = "rollback" => \E i \in DOMAIN records : id = records[i].id
  PROVE  GoodTrees'
<1> SUFFICES ASSUME Without({"swap", "disk", "crash", "milli"})' PROVE GoodTrees'
  BY DEF GoodTrees
<1>1. /\ Without({"swap", "disk", "crash", "milli"}) /\ UNCHANGED <<tree, store, records>>
      /\ \A d \in Callers \ {c} : call'[d] = call[d]
      /\ call'[c].op = op /\ call'[c].pc = pc /\ call'[c].id = id
      /\ call[c].op = "none"
  BY DEF BeginStep, Without, Idle
<1>2. \A q \in store : Whole(tree[q]) \/
        \E d \in Callers : call'[d].op = "rollback" /\ call'[d].p = q /\ call'[d].pc \in {"copy", "copy on"}
  <2> SUFFICES ASSUME NEW q \in store, ~Whole(tree[q])
               PROVE  \E d \in Callers : /\ call'[d].op = "rollback" /\ call'[d].p = q
                                        /\ call'[d].pc \in {"copy", "copy on"}
    OBVIOUS
  <2>1. PICK d \in Callers : call[d].op = "rollback" /\ call[d].p = q /\ call[d].pc \in {"copy", "copy on"}
    BY <1>1 DEF GoodTrees
  <2> QED
    BY <1>1, <2>1
<1>3. ASSUME NEW d \in Callers
      PROVE  CopiesWhole(d)'
  <2>1. CASE d = c
    BY <1>1, <2>1, NotCopying
  <2>2. CASE d # c
    <3>1. CopiesWhole(d) /\ call'[d] = call[d]
      BY <1>1, <2>2 DEF GoodTrees
    <3> QED
      BY <1>1, <3>1 DEF CopiesWhole, Target
  <2> QED
    BY <2>1, <2>2
<1>4. ASSUME NEW d \in Callers, call'[d].op = "rollback"
      PROVE  Whole(tree[call'[d].id])
  <2>1. CASE d = c
    <3>1. \E i \in DOMAIN records : id = records[i].id
      BY <1>1, <1>4, <2>1
    <3> QED
      BY <1>1, <2>1, <3>1 DEF GoodTrees
  <2>2. CASE d # c
    BY <1>1, <1>4, <2>2 DEF GoodTrees
  <2> QED
    BY <2>1, <2>2
<1>5. \A i \in DOMAIN records : Whole(tree[records[i].id])
  BY <1>1 DEF GoodTrees
<1> QED
  BY <1>1, <1>2, <1>3, <1>4, <1>5 DEF GoodTrees

LEMMA KeptBegins ==
  ASSUME TreesAssumption, TreeShape, KeptWhole, NEW c \in Callers,
         NEW op \in {"write", "snapshot", "rollback", "fork"}, NEW pc \in {"create", "copy", "stop"},
         NEW p, NEW id, BeginStep(c, op, pc, p, id),
         op = "rollback" => \E i \in DOMAIN records : id = records[i].id
  PROVE  KeptWhole'
<1> SUFFICES ASSUME Without({"swap", "milli"})' PROVE KeptWhole'
  BY DEF KeptWhole
<1>1. /\ Without({"swap", "milli"}) /\ UNCHANGED <<tree, store, records>>
      /\ \A d \in Callers \ {c} : call'[d] = call[d]
      /\ call'[c].op = op /\ call'[c].pc = pc /\ call'[c].id = id
  BY DEF BeginStep, Without
<1>2. CASE \E s \in Snaps : Whole(tree[s])
  BY <1>1, <1>2 DEF KeptWhole
<1>3. CASE /\ \A q \in store : Whole(tree[q])
           /\ records = <<>>
           /\ \A d \in Callers : call[d].op # "rollback" /\ CopiesWhole(d)
  <2>1. op # "rollback"
    BY <1>3
  <2>2. ASSUME NEW d \in Callers
        PROVE  call'[d].op # "rollback" /\ CopiesWhole(d)'
    <3>1. CASE d = c
      BY <1>1, <2>1, <3>1, NotCopying
    <3>2. CASE d # c
      BY <1>1, <1>3, <3>2 DEF CopiesWhole, Target
    <3> QED
      BY <3>1, <3>2
  <2> QED
    BY <1>1, <1>3, <2>2 DEF KeptWhole
<1> QED
  BY <1>1, <1>2, <1>3 DEF KeptWhole

LEMMA KeptTreeRests ==
  ASSUME TreesAssumption, TreeShape, SnapsAreNew, TreesApart, KeptWhole, Without({"swap", "milli"})',
         NEW c \in Callers, CallMoves(c),
         \A s \in Snaps : Whole(tree[s]) => Whole(tree'[s]),
         /\ \A p \in store : Whole(tree[p])
         /\ call[c].op # "rollback" /\ CopiesWhole(c)
         => \/ \E s \in Snaps : Whole(tree'[s])
            \/ /\ Confined(c) /\ CopiesWhole(c)' /\ records' = records
               /\ \A p \in store' : p \in store \/ Whole(tree'[p])
  PROVE  KeptWhole'
<1>1. /\ Without({"swap", "milli"})
      /\ \A d \in Callers \ {c} : call'[d] = call[d]
      /\ call'[c] = Idle \/ call'[c].op = call[c].op
      /\ Idle.op = "none"
  BY DEF Without, CallMoves, Idle
<1>2. CASE \E s \in Snaps : Whole(tree'[s])
  BY <1>2 DEF KeptWhole
<1>3. CASE ~ \E s \in Snaps : Whole(tree'[s])
  <2>1. /\ \A p \in store : Whole(tree[p])
        /\ records = <<>>
        /\ \A d \in Callers : call[d].op # "rollback" /\ CopiesWhole(d)
    BY <1>1, <1>3 DEF KeptWhole
  <2>2. /\ Confined(c) /\ CopiesWhole(c)' /\ records' = records
        /\ \A p \in store' : p \in store \/ Whole(tree'[p])
    BY <1>3, <2>1
  <2>3. ASSUME NEW p \in store'
        PROVE  Whole(tree'[p])
    <3>1. CASE p \in store
      <4>1. p \in Paths /\ Whole(tree[p])
        BY <2>1, <3>1, DiskTypes DEF TreeShape
      <4>2. KeepsFiles(p)
        BY <1>1, <2>1, <2>2, <3>1, <4>1, TargetsApart DEF Confined
      <4> QED
        BY <4>1, <4>2, KeepsWhole
    <3> QED
      BY <2>2, <2>3, <3>1
  <2>4. ASSUME NEW d \in Callers
        PROVE  call'[d].op # "rollback" /\ CopiesWhole(d)'
    <3>1. call'[d].op # "rollback"
      BY <1>1, <2>1
    <3>2. CASE d # c
      BY <1>1, <2>1, <2>2, <3>2, OthersCopies
    <3> QED
      BY <2>2, <3>1, <3>2
  <2> QED
    BY <2>1, <2>2, <2>3, <2>4 DEF KeptWhole
<1> QED
  BY <1>2, <1>3

\* No step takes a file out of a snapshot that is whole.
LEMMA SnapsStayWhole ==
  ASSUME TreesAssumption, TreeShape, SnapsAreNew, NEW c \in Callers, BeginCopy(c) \/ EndCopy(c),
         NEW s \in Snaps, Whole(tree[s])
  PROVE  Whole(tree'[s])
<1>1. /\ call[c].pc \in {"copy", "copy on"} /\ \A q \in Paths \ {Target(c)} : tree'[q] = tree[q] \/ tree' = tree
      /\ BeginCopy(c) => call[c].pc = "copy"
      /\ EndCopy(c) => call[c].pc = "copy on"
  BY BeginCopyEffect, EndCopyEffect
<1>2. s \in Paths /\ s \notin Projects
  BY DiskTypes
<1>3. CASE s # Target(c)
  BY <1>1, <1>2, <1>3
<1>4. CASE s = Target(c)
  <2>1. call[c].op = "snapshot" /\ s = call[c].id
    BY <1>1, <1>2, <1>4, CopyPlaces, DiskTypes
  <2>2. SnapFits(c)
    BY <2>1 DEF SnapsAreNew
  <2>3. tree[s]["css"] = NoFile
    <3>1. NoTree["css"] = NoFile
      BY DEF NoTree, Names, Files
    <3> QED
      BY <1>1, <2>1, <2>2, <3>1 DEF SnapFits
  <2> QED
    BY <2>3 DEF Whole, Files
<1> QED
  BY <1>3, <1>4

LEMMA WriteKeeps ==
  ASSUME TreesAssumption, TreeShape, NEW c \in Callers, WriteStep(c)
  PROVE  /\ CallMoves(c) /\ Confined(c) /\ CopiesWhole(c)' /\ call[c].op = "write"
         /\ UNCHANGED <<store, records, server, mishaps>>
         /\ \A s \in Snaps : Whole(tree[s]) => Whole(tree'[s])
<1>1. call[c].op = "write" /\ UNCHANGED <<store, records, server, mishaps>> /\ CallMoves(c)
  BY WriteMoves DEF WriteStep
<1>2. \A q \in Paths : KeepsFiles(q)
  BY DEF WriteStep, KeepsFiles
<1>3. CopiesWhole(c)'
  <2>1. call'[c].pc \notin {"copy on", "add"}
    <3>1. CASE call'[c] = Idle
      BY <3>1 DEF Idle
    <3>2. CASE call'[c].op = "write"
      <4>1. CallFits(call'[c])
        BY DEF WriteStep
      <4>2. call'[c] # Idle
        BY <3>2 DEF Idle
      <4>3. call'[c].pc \in {"create", "fill", "rename"}
        BY <3>2, <4>1, <4>2 DEF CallFits
      <4> QED
        BY <4>3
    <3> QED
      BY <3>1, <3>2 DEF WriteStep
  <2> QED
    BY <2>1, NotCopying
<1>4. \A s \in Snaps : Whole(tree[s]) => Whole(tree'[s])
  BY <1>2, KeepsWhole, DiskTypes
<1> QED
  BY <1>1, <1>2, <1>3, <1>4 DEF Confined

\* A rollback that has not begun to remove, or has done, leaves a whole tree.
LEMMA GoodRolledBack ==
  ASSUME TreesApart, GoodTrees, Without({"swap", "disk", "crash", "milli"}),
         NEW c \in Callers, call[c].op = "rollback", call[c].pc \notin {"idle", "copy", "copy on"}
  PROVE  Whole(tree[call[c].p])
<1>1. Without({"swap", "milli"})
  BY DEF Without
<1>2. call[c].p \in store /\ \A d \in Callers \ {c} : call[d].p # call[c].p
  BY <1>1 DEF TreesApart
<1>3. SUFFICES ASSUME ~Whole(tree[call[c].p]) PROVE FALSE
  OBVIOUS
<1>4. PICK d \in Callers : call[d].op = "rollback" /\ call[d].p = call[c].p /\ call[d].pc \in {"copy", "copy on"}
  BY <1>2, <1>3 DEF GoodTrees
<1> QED
  BY <1>2, <1>4

LEMMA GoodStep ==
  ASSUME TreesAssumption, TreeShape, SnapsAreNew, TreesApart, GoodTrees, NEW c \in Callers, Step(c)
  PROVE  GoodTrees'
<1> SUFFICES ASSUME Without({"swap", "disk", "crash", "milli"})' PROVE GoodTrees'
  BY DEF GoodTrees
<1>1. CASE CreateTemp(c) \/ FillTemp(c) \/ RenameTemp(c)
  <2>1. WriteStep(c)
    BY <1>1, CreateEffect, FillEffect, RenameEffect
  <2>2. /\ CallMoves(c) /\ Confined(c) /\ CopiesWhole(c)' /\ call[c].op = "write"
        /\ UNCHANGED <<store, records, server, mishaps>>
    BY <2>1, WriteKeeps
  <2> QED
    BY <2>2, GoodRests
<1>2. CASE BeginCopy(c) \/ EndCopy(c)
  <2>1. call[c].pc \in {"copy", "copy on"} /\ mishaps \subseteq mishaps'
    BY <1>2, BeginCopyEffect, EndCopyEffect
  <2>2. Without({"swap", "disk", "crash", "milli"}) /\ "disk" \notin mishaps'
    BY <2>1 DEF Without
  <2>3. Whole(tree[Source(c)]) /\ CopiesWhole(c)
    BY <2>1, <2>2, GoodSource DEF GoodTrees
  <2>4. /\ CopiesWhole(c)' /\ Confined(c) /\ CallMoves(c) /\ UNCHANGED <<store, records, server>>
        /\ EndCopy(c) => Whole(tree'[Target(c)])
        /\ BeginCopy(c) => call'[c].pc = "copy on"
    BY <1>2, <2>2, <2>3, CopyIsWhole
  <2>5. call[c].op = "rollback" => \/ Whole(tree'[call[c].p])
                                   \/ call'[c].op = "rollback" /\ call'[c].pc \in {"copy", "copy on"}
    <3>1. CASE EndCopy(c)
      BY <2>4, <3>1 DEF Target
    <3>2. CASE BeginCopy(c)
      <4>3. Idle.pc = "idle"
        BY DEF Idle
      <4>1. call'[c] # Idle
        BY <2>4, <3>2, <4>3
      <4>2. call'[c].op = call[c].op
        BY <2>4, <4>1 DEF CallMoves
      <4> QED
        BY <2>4, <3>2, <4>2
    <3> QED
      BY <1>2, <3>1, <3>2
  <2> QED
    BY <2>4, <2>5, GoodRests
<1>3. CASE AddRecord(c)
  <2>1. /\ CallMoves(c) /\ call[c].op = "snapshot" /\ call[c].pc = "add" /\ call'[c] = Idle
        /\ UNCHANGED <<tree, store, server, mishaps>>
        /\ \A i \in DOMAIN records' : \/ records'[i].id = call[c].id
                                      \/ \E j \in DOMAIN records : records'[i] = records[j]
    BY <1>3, AddRecordEffect
  <2>2. Whole(tree[call[c].id])
    BY <2>1 DEF GoodTrees, CopiesWhole, Without
  <2>3. CopiesWhole(c)'
    <3>1. call'[c].pc = "idle"
      BY <2>1 DEF Idle
    <3> QED
      BY <3>1, NotCopying
  <2>4. Confined(c)
    BY <2>1, UnchangedKeeps
  <2> QED
    BY <2>1, <2>2, <2>3, <2>4, GoodRests
<1>4. CASE StopServer(c) \/ StartServer(c)
  <2>1. /\ CallMoves(c) /\ call[c].op = "rollback" /\ call[c].pc \in {"stop", "start"}
        /\ UNCHANGED <<tree, store, records, mishaps>> /\ call'[c].pc \in {"remove", "idle"}
    BY <1>4, StopServerEffect, StartServerEffect DEF StopServer, At, Idle
  <2>2. Whole(tree[call[c].p])
    BY <2>1, GoodRolledBack DEF Without
  <2>3. CopiesWhole(c)'
    BY <2>1, NotCopying
  <2>4. Confined(c)
    BY <2>1, UnchangedKeeps
  <2> QED
    BY <2>1, <2>2, <2>3, <2>4, GoodRests
<1>5. CASE RemoveTree(c)
  <2>1. /\ CallMoves(c) /\ call[c].op = "rollback" /\ UNCHANGED <<store, records, server>>
        /\ \A q \in Paths \ {call[c].p} : tree'[q] = tree[q]
        /\ call'[c].pc = "copy" /\ call'[c].op = "rollback"
    BY <1>5, RemoveTreeEffect DEF Without
  <2>2. CopiesWhole(c)'
    BY <2>1, NotCopying
  <2>3. Confined(c)
    BY <2>1 DEF Confined, KeepsFiles, Copying, Target
  <2> QED
    BY <2>1, <2>2, <2>3, GoodRests
<1>6. CASE AddProject(c)
  <2>1. /\ CallMoves(c) /\ call[c].op = "fork" /\ call[c].pc = "add" /\ call'[c] = Idle
        /\ store' = store \cup {call[c].id} /\ UNCHANGED <<tree, records, mishaps>>
    BY <1>6, AddProjectEffect
  <2>2. Whole(tree[call[c].id])
    BY <2>1 DEF GoodTrees, CopiesWhole, Without
  <2>3. CopiesWhole(c)'
    <3>1. call'[c].pc = "idle"
      BY <2>1 DEF Idle
    <3> QED
      BY <3>1, NotCopying
  <2>4. Confined(c)
    BY <2>1, UnchangedKeeps
  <2> QED
    BY <2>1, <2>2, <2>3, <2>4, GoodRests
<1> QED
  BY <1>1, <1>2, <1>3, <1>4, <1>5, <1>6 DEF Step

LEMMA KeptStep ==
  ASSUME TreesAssumption, TreeShape, SnapsAreNew, TreesApart, KeptWhole, NEW c \in Callers, Step(c)
  PROVE  KeptWhole'
<1> SUFFICES ASSUME Without({"swap", "milli"})' PROVE KeptWhole'
  BY DEF KeptWhole
<1>1. CASE CreateTemp(c) \/ FillTemp(c) \/ RenameTemp(c)
  <2>1. WriteStep(c)
    BY <1>1, CreateEffect, FillEffect, RenameEffect
  <2>2. /\ CallMoves(c) /\ Confined(c) /\ CopiesWhole(c)' /\ call[c].op = "write"
        /\ UNCHANGED <<store, records, server, mishaps>>
        /\ \A s \in Snaps : Whole(tree[s]) => Whole(tree'[s])
    BY <2>1, WriteKeeps
  <2> QED
    BY <2>2, KeptTreeRests
<1>2. CASE BeginCopy(c) \/ EndCopy(c)
  <2>1. /\ call[c].pc \in {"copy", "copy on"} /\ mishaps \subseteq mishaps' /\ CallMoves(c)
        /\ UNCHANGED <<store, records>>
    BY <1>2, BeginCopyEffect, EndCopyEffect DEF CallMoves
  <2>2. Without({"swap", "milli"})
    BY <2>1 DEF Without
  <2>3. \A s \in Snaps : Whole(tree[s]) => Whole(tree'[s])
    BY <1>2, SnapsStayWhole
  <2>4. ASSUME \A p \in store : Whole(tree[p]), call[c].op # "rollback", CopiesWhole(c)
        PROVE  Confined(c) /\ CopiesWhole(c)'
    <3>1. Source(c) = call[c].p /\ call[c].p \in store
      BY <2>1, <2>2, <2>4 DEF Source, TreesApart
    <3> QED
      BY <1>2, <2>4, <3>1, CopyIsWhole
  <2> QED
    BY <2>1, <2>3, <2>4, KeptTreeRests
<1>3. CASE AddRecord(c)
  <2>1. /\ CallMoves(c) /\ call[c].op = "snapshot" /\ call[c].pc = "add"
        /\ UNCHANGED <<tree, store, server, mishaps>>
    BY <1>3, AddRecordEffect
  <2>2. CopiesWhole(c) => \E s \in Snaps : Whole(tree'[s])
    BY <2>1, CallAt DEF CopiesWhole
  <2>3. \A s \in Snaps : Whole(tree[s]) => Whole(tree'[s])
    BY <2>1
  <2> QED
    BY <2>1, <2>2, <2>3, KeptTreeRests
<1>4. CASE StopServer(c) \/ StartServer(c) \/ RemoveTree(c)
  <2>1. CallMoves(c) /\ call[c].op = "rollback"
    BY <1>4, StopServerEffect, StartServerEffect, RemoveTreeEffect
  <2>2. \A s \in Snaps : tree'[s] = tree[s]
    BY <1>4, StopServerEffect, StartServerEffect, RemoveTreeEffect, DiskTypes
  <2>3. \A s \in Snaps : Whole(tree[s]) => Whole(tree'[s])
    BY <2>2
  <2> QED
    BY <2>1, <2>3, KeptTreeRests
<1>5. CASE AddProject(c)
  <2>1. /\ CallMoves(c) /\ call[c].op = "fork" /\ call[c].pc = "add" /\ call'[c] = Idle
        /\ store' = store \cup {call[c].id} /\ UNCHANGED <<tree, records, mishaps>>
    BY <1>5, AddProjectEffect
  <2>2. CopiesWhole(c) => Whole(tree[call[c].id])
    BY <2>1 DEF CopiesWhole
  <2>3. CopiesWhole(c)'
    <3>1. call'[c].pc = "idle"
      BY <2>1 DEF Idle
    <3> QED
      BY <3>1, NotCopying
  <2>4. Confined(c) /\ \A s \in Snaps : Whole(tree[s]) => Whole(tree'[s])
    BY <2>1, UnchangedKeeps
  <2> QED
    BY <2>1, <2>2, <2>3, <2>4, KeptTreeRests
<1> QED
  BY <1>1, <1>2, <1>3, <1>4, <1>5 DEF Step

LEMMA WholeProject ==
  ASSUME TreesAssumption, TreeShape, SnapsAreNew, TreesApart, GoodTrees, KeptWhole,
         NEW p \in Projects, Start(p) \/ RemoveProject(p)
  PROVE  GoodTrees' /\ KeptWhole'
<1>1. CASE Start(p)
  <2>1. UNCHANGED <<tree, store, records, call>> /\ mishaps \subseteq mishaps'
    BY <1>1 DEF Start, Happen
  <2>2. \A d \in Callers : CopiesWhole(d) => CopiesWhole(d)'
    BY <2>1 DEF CopiesWhole, Target
  <2>3. GoodTrees'
    BY <2>1, <2>2 DEF GoodTrees, Without
  <2>4. KeptWhole'
    BY <2>1, <2>2 DEF KeptWhole, Without
  <2> QED
    BY <2>3, <2>4
<1>2. CASE RemoveProject(p)
  <2> SUFFICES ASSUME Without({"swap", "milli"})' PROVE GoodTrees' /\ KeptWhole'
    BY DEF GoodTrees, KeptWhole, Without
  <2>1. /\ UNCHANGED <<records, call>> /\ store' = store \ {p} /\ mishaps \subseteq mishaps'
        /\ p \in store /\ Without({"swap", "milli"}) /\ InProject(p) = {}
        /\ \A q \in Paths \ {p} : tree'[q] = tree[q]
    BY <1>2 DEF RemoveProject, Happen, Without, TreeShape
  <2>2. \A d \in Callers : call[d].p # p
    BY <2>1 DEF InProject
  <2>3. ASSUME NEW d \in Callers, call[d].op \in Copying
        PROVE  Target(d) \in Paths \ {p} /\ call[d].id \in Paths \ {p}
    <3>1. call[d].op \in {"snapshot", "rollback"} => call[d].id \in Snaps
      BY CallAt
    <3>2. call[d].op = "fork" => call[d].id \in Forks /\ call[d].id \notin store
      BY <2>1, CallAt DEF TreesApart
    <3>3. call[d].p \in Projects
      BY <2>3, CallAt DEF Copying, Idle
    <3> QED
      BY <2>1, <2>2, <2>3, <3>1, <3>2, <3>3, DiskTypes DEF Target, Copying
  <2>4. ASSUME NEW d \in Callers, CopiesWhole(d)
        PROVE  CopiesWhole(d)'
    <3>1. CASE call[d].op \in Copying
      BY <2>1, <2>3, <2>4, <3>1 DEF CopiesWhole, Target
    <3>2. CASE call[d].op \notin Copying
      <4>1. call'[d].pc \notin {"copy on", "add"}
        BY <2>1, <3>2, CallAt DEF Copying
      <4> QED
        BY <4>1, NotCopying
    <3> QED
      BY <3>1, <3>2
  <2>5. \A q \in store' : q \in store /\ tree'[q] = tree[q]
    BY <2>1, DiskTypes DEF TreeShape
  <2>6. \A s \in Snaps : tree'[s] = tree[s]
    BY <2>1, DiskTypes
  <2>7. GoodTrees'
    <3> SUFFICES ASSUME Without({"swap", "disk", "crash", "milli"})' PROVE GoodTrees'
      BY DEF GoodTrees
    <3>1. Without({"swap", "disk", "crash", "milli"})
      BY <2>1 DEF Without
    <3>2. \A q \in store' : Whole(tree'[q]) \/
            \E c \in Callers : call[c].op = "rollback" /\ call[c].p = q /\ call[c].pc \in {"copy", "copy on"}
      BY <2>5, <3>1 DEF GoodTrees
    <3>3. \A i \in DOMAIN records : Whole(tree'[records[i].id])
      BY <2>6, <3>1, RecordIds DEF GoodTrees
    <3>4. \A d \in Callers : CopiesWhole(d)'
      BY <2>4, <3>1 DEF GoodTrees
    <3>5. \A d \in Callers : call[d].op = "rollback" => Whole(tree'[call[d].id])
      BY <2>6, <3>1, CallAt DEF GoodTrees
    <3> QED
      BY <2>1, <3>2, <3>3, <3>4, <3>5 DEF GoodTrees
  <2>8. KeptWhole'
    <3>1. CASE \E s \in Snaps : Whole(tree[s])
      BY <2>6, <3>1 DEF KeptWhole
    <3>2. CASE /\ \A q \in store : Whole(tree[q])
               /\ records = <<>>
               /\ \A c \in Callers : call[c].op # "rollback" /\ CopiesWhole(c)
      <4>1. \A c \in Callers : call'[c].op # "rollback" /\ CopiesWhole(c)'
        BY <2>1, <2>4, <3>2
      <4>2. (\A q \in store : Whole(tree[q]))'
        BY <2>5, <3>2
      <4> QED
        BY <2>1, <3>2, <4>1, <4>2 DEF KeptWhole
    <3> QED
      BY <2>1, <3>1, <3>2 DEF KeptWhole
  <2> QED
    BY <2>7, <2>8
<1> QED
  BY <1>1, <1>2

LEMMA WholeCrash ==
  ASSUME TreesAssumption, KeptWhole, Crash
  PROVE  GoodTrees' /\ KeptWhole'
<1>1. /\ "crash" \in mishaps' /\ mishaps \subseteq mishaps' /\ UNCHANGED <<tree, store, records>>
      /\ \A c \in Callers : call'[c] = Idle
  BY DEF Crash, Happen
<1>2. \A c \in Callers : call'[c].op = "none" /\ call'[c].pc = "idle"
  BY <1>1 DEF Idle
<1>3. \A c \in Callers : CopiesWhole(c)'
  BY <1>2, NotCopying
<1>4. KeptWhole'
  BY <1>1, <1>2, <1>3 DEF KeptWhole, Without
<1> QED
  BY <1>1, <1>4 DEF GoodTrees, Without

LEMMA TreesStart ==
  ASSUME TreesAssumption, Init
  PROVE  TreesInv
<1>1. /\ store = Roots /\ records = <<>> /\ server = {} /\ mishaps = {}
      /\ used = [calls |-> 0, ids |-> {}] /\ \A c \in Callers : call[c] = Idle
  BY DEF Init
<1> DEFINE first(q) == IF q \in Roots THEN [n \in Names |-> IF n = "tmp" THEN NoFile ELSE [ino |-> 0, by |-> {q}]]
                       ELSE NoTree
<1>2. tree = [q \in Paths |-> first(q)]
  BY DEF Init
<1>3. \A q \in Roots : [ino |-> 0, by |-> {q}] \in TreeFile /\ [ino |-> 0, by |-> {q}] # NoFile
  BY DiskTypes DEF TreeFile, NoFile
<1>4. \A q \in Paths : first(q) \in WorkTree
  BY <1>3, DiskTypes DEF WorkTree
<1>5. \A q \in Paths, n \in Names : \A x, y \in first(q)[n].by : x = y
  BY DEF NoTree, NoFile
<1>6. \A q \in Roots : Whole(first(q))
  BY <1>3, DiskTypes DEF Whole, Files, Names
<1> HIDE DEF first
<1>7. tree \in [Paths -> WorkTree]
  BY <1>2, <1>4
<1>8. Idle \in ToolCall /\ CallFits(Idle) /\ Idle.op = "none" /\ Idle.pc = "idle" /\ Idle.id = None
  BY DiskTypes DEF Idle, ToolCall, CallFits, Names
<1>9. records \in Seq(Record) /\ DOMAIN records = {}
  BY <1>1
<1>10. \A p \in Projects : Cardinality(OwnRecords(records, p)) <= Cap
  <2>1. \A p \in Projects : OwnRecords(records, p) = {}
    BY <1>9 DEF OwnRecords
  <2>2. Cap \in Nat /\ Cardinality({}) = 0
    BY FS_EmptySet DEF TreesAssumption
  <2>3. Cap >= 0
    BY <2>2
  <2> QED
    BY <2>1, <2>2, <2>3
<1>11. TreeShape
  <2>1. call \in [Callers -> ToolCall]
    BY <1>8 DEF Init
  <2>2. used \in [calls : 0..Calls, ids : SUBSET Paths]
    BY <1>1, DiskTypes
  <2> QED
    BY <1>1, <1>7, <1>8, <1>9, <1>10, <2>1, <2>2, DiskTypes DEF TreeShape
<1>12. SnapsAreNew
  <2>1. \A s \in Snaps : tree[s] = NoTree
    <3>1. \A s \in Snaps : s \in Paths /\ s \notin Roots
      BY DiskTypes
    <3> QED
      BY <1>2, <3>1 DEF first
  <2> QED
    BY <1>1, <1>8, <1>9, <2>1 DEF SnapsAreNew
<1>13. OneWrites
  BY <1>1, <1>2, <1>5, <1>8 DEF OneWrites
<1>14. TreesApart
  BY <1>1, <1>8 DEF TreesApart
<1>15. \A p \in store : Whole(tree[p])
  BY <1>1, <1>2, <1>6, DiskTypes
<1>16. \A c \in Callers : CopiesWhole(c) /\ call[c].op = "none"
  BY <1>1, <1>8 DEF CopiesWhole
<1>17. KeptWhole
  BY <1>1, <1>15, <1>16 DEF KeptWhole
<1>18. GoodTrees
  BY <1>1, <1>9, <1>15, <1>16 DEF GoodTrees
<1> QED
  BY <1>11, <1>12, <1>13, <1>14, <1>17, <1>18 DEF TreesInv

LEMMA BeginKeepsTrees ==
  ASSUME TreesAssumption, TreesInv, NEW c \in Callers,
         BeginWrite(c) \/ BeginSnapshot(c) \/ BeginRollback(c) \/ BeginFork(c)
  PROVE  TreesInv'
<1> USE DEF TreesInv
<1>1. CASE BeginWrite(c)
  <2>1. PICK p \in store : BeginStep(c, "write", "create", p, None)
    BY <1>1, BeginWriteEffect
  <2>2. TreeShape' /\ SnapsAreNew' /\ OneWrites' /\ TreesApart'
    BY <2>1, BeginShapes, SnapsBegin, OneBegins, ApartBegins
  <2>3. KeptWhole' /\ GoodTrees'
    BY <2>1, KeptBegins, GoodBegins
  <2> QED
    BY <2>2, <2>3
<1>2. CASE BeginSnapshot(c)
  <2>1. PICK p \in store, s \in Snaps \ used.ids : BeginStep(c, "snapshot", "copy", p, s)
    BY <1>2, BeginSnapshotEffect
  <2>2. s \in Paths \cup {None}
    BY DiskTypes
  <2>3. TreeShape' /\ SnapsAreNew' /\ OneWrites' /\ TreesApart'
    BY <2>1, <2>2, BeginShapes, SnapsBegin, OneBegins, ApartBegins
  <2>4. KeptWhole' /\ GoodTrees'
    BY <2>1, KeptBegins, GoodBegins
  <2> QED
    BY <2>3, <2>4
<1>3. CASE BeginRollback(c)
  <2>1. PICK i \in DOMAIN records : BeginStep(c, "rollback", "stop", records[i].p, records[i].id)
    BY <1>3, BeginRollbackEffect
  <2>2. records[i].id \in Paths \cup {None}
    BY RecordIds, DiskTypes
  <2>3. PICK p, s : p = records[i].p /\ s = records[i].id
    OBVIOUS
  <2>4. TreeShape' /\ SnapsAreNew' /\ OneWrites' /\ TreesApart'
    BY <2>1, <2>2, <2>3, BeginShapes, SnapsBegin, OneBegins, ApartBegins
  <2>5. KeptWhole' /\ GoodTrees'
    BY <2>1, <2>3, KeptBegins, GoodBegins
  <2> QED
    BY <2>4, <2>5
<1>4. CASE BeginFork(c)
  <2>1. PICK p \in store, id \in Forks :
          BeginStep(c, "fork", "copy", p, id) /\ (id \in used.ids => "milli" \in mishaps')
    BY <1>4, BeginForkEffect
  <2>2. id \in Paths \cup {None}
    BY DiskTypes
  <2>3. TreeShape' /\ SnapsAreNew' /\ OneWrites' /\ TreesApart'
    BY <2>1, <2>2, BeginShapes, SnapsBegin, OneBegins, ApartBegins
  <2>4. KeptWhole' /\ GoodTrees'
    BY <2>1, KeptBegins, GoodBegins
  <2> QED
    BY <2>3, <2>4
<1> QED
  BY <1>1, <1>2, <1>3, <1>4

LEMMA StepKeepsTrees ==
  ASSUME TreesAssumption, TreesInv, NEW c \in Callers, Step(c)
  PROVE  TreesInv'
<1> USE DEF TreesInv
<1>1. TreesApart' /\ KeptWhole' /\ GoodTrees'
  BY ApartStep, KeptStep, GoodStep
<1>2. CASE CreateTemp(c) \/ FillTemp(c) \/ RenameTemp(c)
  <2>1. WriteStep(c)
    BY <1>2, CreateEffect, FillEffect, RenameEffect
  <2>2. /\ CallMoves(c) /\ call[c].op # "snapshot" /\ tree' \in [Paths -> WorkTree]
        /\ UNCHANGED <<store, records, server>> /\ \A s \in Snaps : tree'[s] = tree[s]
    BY <2>1, WriteMoves, DiskTypes DEF WriteStep
  <2>3. server' \subseteq store
    BY <2>2 DEF TreeShape
  <2>4. TreeShape' /\ SnapsAreNew'
    BY <2>2, <2>3, ShapeRests, SnapsRest
  <2> QED
    BY <1>1, <1>2, <2>4, OneWriteStep
<1>3. CASE BeginCopy(c) \/ EndCopy(c)
  <2>1. /\ CallMoves(c) /\ tree' \in [Paths -> WorkTree] /\ UNCHANGED <<store, records, server>>
        /\ call[c].pc \in {"copy", "copy on"}
    BY <1>3, BeginCopyEffect, EndCopyEffect DEF CallMoves, TreeShape
  <2>2. server' \subseteq store
    BY <2>1 DEF TreeShape
  <2>3. TreeShape' /\ SnapsAreNew'
    BY <1>3, <2>1, <2>2, ShapeRests, SnapsBeginCopy, SnapsEndCopy
  <2>4. OneWrites'
    <3>1. call[c].op # "write"
      BY <2>1, CallAt
    <3> QED
      BY <1>3, <2>1, <3>1, CopiesCopy, OneStays
  <2> QED
    BY <1>1, <2>3, <2>4
<1>4. CASE AddRecord(c)
  <2>1. CallMoves(c) /\ tree' = tree /\ call[c].op # "write"
    BY <1>4, AddRecordEffect
  <2>2. OneWrites'
    BY <2>1, OneStays DEF CopiesOnly
  <2> QED
    BY <1>1, <1>4, <2>2, AddRecordShapes, SnapsAddRecord
<1>5. CASE StopServer(c) \/ StartServer(c) \/ RemoveTree(c)
  <2>1. /\ CallMoves(c) /\ tree' \in [Paths -> WorkTree] /\ UNCHANGED <<store, records>>
        /\ server' \subseteq store /\ call[c].op = "rollback"
    BY <1>5, StopServerEffect, StartServerEffect, RemoveTreeEffect DEF TreeShape
  <2>2. \A s \in Snaps : tree'[s] = tree[s]
    BY <1>5, StopServerEffect, StartServerEffect, RemoveTreeEffect, DiskTypes
  <2>3. TreeShape' /\ SnapsAreNew'
    BY <2>1, <2>2, ShapeRests, SnapsRest
  <2>4. CopiesOnly
    <3>1. CASE tree' = tree
      BY <3>1 DEF CopiesOnly
    <3>2. CASE RemoveTree(c)
      <4>1. tree'[call[c].p] = NoTree /\ \A q \in Paths \ {call[c].p} : tree'[q] = tree[q]
        BY <3>2, RemoveTreeEffect
      <4>2. \A n \in Names : NoTree[n].ino < 1 /\ NoTree[n].by = {}
        BY DEF NoTree, NoFile
      <4> QED
        BY <4>1, <4>2 DEF CopiesOnly
    <3> QED
      BY <1>5, <3>1, <3>2, StopServerEffect, StartServerEffect
  <2>5. OneWrites'
    BY <2>1, <2>4, OneStays
  <2> QED
    BY <1>1, <2>3, <2>5
<1>6. CASE AddProject(c)
  <2>1. CallMoves(c) /\ UNCHANGED <<tree, records>> /\ call[c].op = "fork"
    BY <1>6, AddProjectEffect
  <2>2. OneWrites' /\ SnapsAreNew'
    BY <2>1, OneStays, SnapsRest DEF CopiesOnly
  <2> QED
    BY <1>1, <1>6, <2>2, AddProjectShapes
<1> QED
  BY <1>2, <1>3, <1>4, <1>5, <1>6 DEF Step

LEMMA AroundKeepsTrees ==
  ASSUME TreesAssumption, TreesInv, (\E p \in Projects : Start(p) \/ RemoveProject(p)) \/ Crash
  PROVE  TreesInv'
<1> USE DEF TreesInv
<1>1. ASSUME NEW p \in Projects, Start(p) \/ RemoveProject(p)
      PROVE  TreesInv'
  <2>1. call' = call /\ mishaps \subseteq mishaps'
    BY <1>1 DEF Start, RemoveProject, Happen
  <2>2. CopiesOnly
    <3>1. CASE Start(p)
      BY <3>1 DEF Start, CopiesOnly
    <3>2. CASE RemoveProject(p)
      <4>1. tree'[p] = NoTree /\ \A q \in Paths \ {p} : tree'[q] = tree[q]
        BY <3>2, DiskTypes DEF RemoveProject, TreeShape
      <4>2. \A n \in Names : NoTree[n].ino < 1 /\ NoTree[n].by = {}
        BY DEF NoTree, NoFile
      <4> QED
        BY <4>1, <4>2 DEF CopiesOnly
    <3> QED
      BY <1>1, <3>1, <3>2
  <2>3. OneWrites'
    BY <2>1, <2>2, OneRests
  <2> QED
    BY <1>1, <2>3, ProjectShapes, SnapsProject, ApartProject, WholeProject
<1>2. CASE Crash
  <2>1. /\ tree' = tree /\ mishaps \subseteq mishaps' /\ \A d \in Callers : call'[d].op # "write"
    BY <1>2 DEF Crash, Happen, Idle
  <2>2. OneWrites'
    BY <2>1, OneRests DEF CopiesOnly
  <2> QED
    BY <1>2, <2>2, CrashShapes, SnapsCrash, ApartCrash, WholeCrash
<1> QED
  BY <1>1, <1>2

LEMMA TreesStep == TreesAssumption /\ TreesInv /\ [Next]_vars => TreesInv'
<1> SUFFICES ASSUME TreesAssumption, TreesInv, [Next]_vars PROVE TreesInv'
  OBVIOUS
<1>1. CASE UNCHANGED vars
  <2>1. /\ TreeShape => TreeShape'
        /\ SnapsAreNew => SnapsAreNew'
        /\ OneWrites => OneWrites'
        /\ TreesApart => TreesApart'
    BY <1>1 DEF vars, TreeShape, SnapsAreNew, SnapFits, OneWrites, TreesApart, Without
  <2>2. \A c \in Callers : CopiesWhole(c) => CopiesWhole(c)'
    BY <1>1 DEF vars, CopiesWhole, Target
  <2>3. KeptWhole => KeptWhole'
    BY <1>1, <2>2 DEF vars, KeptWhole, Without
  <2>4. GoodTrees => GoodTrees'
    BY <1>1, <2>2 DEF vars, GoodTrees, Without
  <2> QED
    BY <2>1, <2>3, <2>4 DEF TreesInv
<1>2. ASSUME NEW c \in Callers, BeginWrite(c) \/ BeginSnapshot(c) \/ BeginRollback(c) \/ BeginFork(c)
      PROVE  TreesInv'
  BY <1>2, BeginKeepsTrees
<1>3. ASSUME NEW c \in Callers, Step(c)
      PROVE  TreesInv'
  BY <1>3, StepKeepsTrees
<1>4. CASE (\E p \in Projects : Start(p) \/ RemoveProject(p)) \/ Crash
  BY <1>4, AroundKeepsTrees
<1> QED
  BY <1>1, <1>2, <1>3, <1>4 DEF Next

LEMMA TreesFollow ==
  ASSUME TreesAssumption, TreesInv
  PROVE  TreesAreWhole
<1> USE DEF TreesInv
<1>1. TypeOK
  BY DEF TypeOK, TreeShape, WorkTree, TreeFile, OwnRecords
<1>2. FileIsOneWrite
  <2> SUFFICES ASSUME Without({"stem"}), NEW q \in Paths, NEW f \in Files
               PROVE  Cardinality(tree[q][f].by) <= 1
    BY DEF FileIsOneWrite
  <2>1. \A x, y \in tree[q][f].by : x = y
    BY DiskTypes DEF OneWrites
  <2>2. CASE tree[q][f].by = {}
    BY <2>2, FS_EmptySet
  <2>3. CASE tree[q][f].by # {}
    <3>1. PICK x : tree[q][f].by = {x}
      BY <2>1, <2>3
    <3>2. Cardinality({x}) = 1
      BY FS_Singleton
    <3> QED
      BY <3>1, <3>2
  <2> QED
    BY <2>2, <2>3
<1>3. RecordIsWhole
  BY DEF RecordIsWhole, GoodTrees
<1>4. LostTreeIsKept
  BY DEF LostTreeIsKept, KeptWhole
<1>5. ServesWholeTree
  <2> SUFFICES ASSUME Without({"swap", "disk", "crash", "milli"}), NEW p \in server
               PROVE  Whole(tree[p])
    BY DEF ServesWholeTree
  <2>1. p \in store /\ Without({"swap", "milli"})
    BY DEF TreeShape, Without
  <2>2. \A d \in Callers : call[d].op = "rollback" /\ call[d].pc # "stop" => call[d].p # p
    BY <2>1 DEF TreesApart
  <2> QED
    BY <2>1, <2>2 DEF GoodTrees
<1> QED
  BY <1>1, <1>2, <1>3, <1>4, <1>5 DEF TreesAreWhole

\* The invariant of the working trees: who has a project, a fork's id or a
\* snapshot to itself, what each place of a call relies on, and where a tree may
\* be broken.
THEOREM TreesInvariant == Spec => []TreesInv
<1> HIDE DEF TreesInv
<1>1. Init => TreesInv
  BY TreesStart, TreesAssumption
<1>2. TreesInv /\ [Next]_vars => TreesInv'
  BY TreesStep, TreesAssumption
<1> QED
  BY <1>1, <1>2, PTL DEF Spec

\* The same of the run, of which the trees are a part.
LEMMA TreesOfWork == WorkSpec => []TreesInv
<1> HIDE DEF TreesInv
<1>1. WorkInit => Init
  BY DEF WorkInit
<1>2. [WorkNext]_all => [Next]_vars
  BY DEF WorkNext, all
<1>3. Init => TreesInv
  BY TreesStart, TreesAssumption
<1>4. TreesInv /\ [Next]_vars => TreesInv'
  BY TreesStep, TreesAssumption
<1> QED
  BY <1>1, <1>2, <1>3, <1>4, PTL DEF WorkSpec

\* What the tools write, keep and serve is whole (mcp/tools/discovery.rs): a file
\* holds one write, a recorded snapshot and a served tree are whole, and a tree
\* that a rollback or the end of the launcher broke is whole in a snapshot, but
\* for the mishaps each part names; for any projects, snapshots, calls and cap.
THEOREM TreesKeptWhole == WorkSpec => []TreesStayWhole
<1> HIDE DEF TreesInv
<1>1. TreesInv => TreesStayWhole
  BY TreesFollow, TreesAssumption DEF TreesStayWhole
<1> QED
  BY <1>1, TreesOfWork, PTL

=============================================================================
