------------------------------ MODULE Keychain ------------------------------
(***************************************************************************)
(* The secrets of a session (src/src/tauri/src/infrastructure/keychain.rs): *)
(* the keyring of the system, and a cache before it so that each key is    *)
(* read from the system once and the user is asked once.                   *)
(*                                                                         *)
(* store and delete write the keyring first, without the lock of the       *)
(* cache, and then the cache; get holds the lock from its look at the      *)
(* cache to the entry it makes, across the read of the keyring.  The steps *)
(* are those accesses.  A deletion is the writing of None: a key that is   *)
(* not there and one that is known to be absent answer the same.           *)
(***************************************************************************)
EXTENDS FiniteSets

CONSTANTS Keys, Secrets,
          Callers,  \* threads that use the keychain
          Mishaps,  \* what may go wrong, see MishapNames
          None

\* overlap: a key is written while another call writes it.  refuse: the
\* keyring fails, as it does when the user denies access.  crash: the launcher
\* dies and is started again.
MishapNames == {"overlap", "refuse", "crash"}

\* What the constants are.
KeychainAssumption ==
  None \notin Secrets \cup Callers /\ Mishaps \subseteq MishapNames

VARIABLES keyring, \* what the system keeps
          cache,   \* OsKeychain::cache: the entries, each a set of one value or of none
          holder,  \* who holds the lock of the cache across a read
          call,    \* the calls under way
          mishaps  \* ghost: what has gone wrong so far

vars == <<keyring, cache, holder, call, mishaps>>

Values == Secrets \cup {None}
Unread == {}
Steps == {"idle", "set", "insert", "fill"}
CallStates == [pc : Steps, key : Keys, value : Values]

Init ==
  /\ keyring \in [Keys -> Values]
  /\ cache = [k \in Keys |-> Unread]
  /\ holder = None
  /\ call \in [Callers -> {c \in CallStates : c.pc = "idle"}]
  /\ mishaps = {}

At(c, label) == call[c].pc = label
Go(c, label) == call' = [call EXCEPT ![c].pc = label]
Writes(c, k) == call[c].key = k /\ call[c].pc \in {"set", "insert"}

Mishap(kind) == kind \in Mishaps /\ mishaps' = mishaps \cup {kind}
Fine == UNCHANGED mishaps

-----------------------------------------------------------------------------
(* store and delete *)

BeginWrite(c, k, v) ==
  /\ At(c, "idle")
  /\ call' = [call EXCEPT ![c] = [pc |-> "set", key |-> k, value |-> v]]
  /\ IF \E d \in Callers : Writes(d, k) THEN Mishap("overlap") ELSE Fine
  /\ UNCHANGED <<keyring, cache, holder>>

Store(c) == \E k \in Keys, v \in Secrets : BeginWrite(c, k, v)
Delete(c) == \E k \in Keys : BeginWrite(c, k, None)

\* A keyring that fails ends the call, and the cache is left as it is.
SetPassword(c) ==
  /\ At(c, "set")
  /\ \/ /\ keyring' = [keyring EXCEPT ![call[c].key] = call[c].value]
        /\ Go(c, "insert") /\ Fine
     \/ UNCHANGED keyring /\ Go(c, "idle") /\ Mishap("refuse")
  /\ UNCHANGED <<cache, holder>>

\* Mutant: the entry is dropped for the next read to make, whoever is reading.
DropEntry(c) ==
  /\ At(c, "insert")
  /\ cache' = [cache EXCEPT ![call[c].key] = Unread]
  /\ Go(c, "idle")
  /\ UNCHANGED <<keyring, holder, mishaps>>

InsertCache(c) ==
  /\ At(c, "insert") /\ holder = None
  /\ cache' = [cache EXCEPT ![call[c].key] = {call[c].value}]
  /\ Go(c, "idle")
  /\ UNCHANGED <<keyring, holder, mishaps>>

-----------------------------------------------------------------------------
(* get *)

\* What is in the cache is answered at once, and changes nothing.
ReadKeyring(c, k) ==
  /\ At(c, "idle") /\ holder = None /\ cache[k] = Unread
  /\ \/ /\ holder' = c
        /\ call' = [call EXCEPT ![c] = [pc |-> "fill", key |-> k, value |-> keyring[k]]]
        /\ Fine
     \/ UNCHANGED <<holder, call>> /\ Mishap("refuse")
  /\ UNCHANGED <<keyring, cache>>

FillCache(c) ==
  /\ At(c, "fill")
  /\ cache' = [cache EXCEPT ![call[c].key] = {call[c].value}]
  /\ holder' = None
  /\ Go(c, "idle")
  /\ UNCHANGED <<keyring, mishaps>>

-----------------------------------------------------------------------------
\* The cache goes with the launcher, and so do the calls.
Restart ==
  /\ Mishap("crash")
  /\ cache' = [k \in Keys |-> Unread] /\ holder' = None
  /\ call' = [c \in Callers |-> [call[c] EXCEPT !.pc = "idle"]]
  /\ UNCHANGED keyring

Next ==
  \/ \E c \in Callers : \/ Store(c) \/ Delete(c) \/ SetPassword(c) \/ InsertCache(c)
                        \/ FillCache(c) \/ \E k \in Keys : ReadKeyring(c, k)
  \/ Restart

Spec == Init /\ [][Next]_vars

-----------------------------------------------------------------------------
(* Properties *)

TypeOK ==
  /\ keyring \in [Keys -> Values]
  /\ cache \in [Keys -> {Unread} \cup {{v} : v \in Values}]
  /\ holder \in Callers \cup {None}
  /\ call \in [Callers -> CallStates]
  /\ mishaps \subseteq Mishaps

\* What a get of `k` answers: the entry, or the one that is being made, or
\* else what the system keeps.
Answer(k) ==
  IF cache[k] # Unread THEN CHOOSE v \in Values : v \in cache[k]
  ELSE IF holder # None /\ call[holder].key = k THEN call[holder].value
  ELSE keyring[k]

OnlyWritesChange ==
  \A k \in Keys : Answer(k)' # Answer(k) /\ "overlap" \notin mishaps =>
    \E c \in Callers : Writes(c, k) /\ Answer(k)' = call[c].value

\* A key is one register, whichever of the two it is read from: its value
\* changes only into one that a call under way writes, also across a restart,
\* where a write that had only reached the keyring takes effect at last.  Two
\* writes at once may leave the older value in the cache and the newer one in
\* the keyring, and the older one is answered until the next start.
KeyIsARegister == [][OnlyWritesChange]_vars

\* Refuted with "overlap": what is answered while nobody writes is what the
\* next launch will answer.
RestartAnswersTheSame ==
  \A k \in Keys : (\A c \in Callers : ~Writes(c, k)) => Answer(k) = keyring[k]
=============================================================================
