---------------------------- MODULE StoresProofs ----------------------------
(***************************************************************************)
(* Of the stores: the keychain, the state file and the registry.           *)
(*                                                                         *)
(* A key of the keychain is one register, for any number of keys, values   *)
(* and callers.  What a step changes of the answer of a key is read off    *)
(* the step; the inductive invariant says what a restart, which forgets    *)
(* the cache, may bring to light: nothing but a write that is under way.   *)
(*                                                                         *)
(* A document that was saved survives, and one that survived is what a     *)
(* start loads, for any number of versions, inodes and mishaps.            *)
(*                                                                         *)
(* Registry keeps its promises for every set of slugs, versions, builds    *)
(* and readers, and any number of publish runs.  None of the promises is   *)
(* inductive alone.  `latest` is safe because a request only reaches the   *)
(* flip after its archive was seen (NetSafe), a download because the       *)
(* reader got its version from a safe pointer or from a head of its own    *)
(* (ReaderSafe), and all of it because no step removes a stored object     *)
(* (ArtifactsStay).                                                        *)
(***************************************************************************)
EXTENDS StoresMC, TLAPS

\* The lock is held by the call that is between its read and its entry, and
\* the entry is not made by anybody else meanwhile.
LockHeld ==
  /\ \A c \in Callers : Key!At(c, "fill") <=> holder = c
  /\ holder # None => cache[call[holder].key] = Key!Unread

\* Without the mishap no two calls write a key.
Alone ==
  "overlap" \notin slips =>
    \A c, d \in Callers : \A k \in KeyNames : Key!Writes(c, k) /\ Key!Writes(d, k) => c = d

\* What is answered and what the system keeps differ only by a write that has
\* reached one and not yet the other.
Inserting(c, k) == Key!At(c, "insert") /\ call[c].key = k
Written ==
  "overlap" \notin slips => \A c \in Callers : Key!At(c, "insert") => keyring[call[c].key] = call[c].value
SameButForAWrite ==
  "overlap" \notin slips =>
    \A k \in KeyNames : Key!Answer(k) = keyring[k] \/ \E c \in Callers : Inserting(c, k)

KeyInv == Key!TypeOK /\ LockHeld /\ Alone /\ Written /\ SameButForAWrite

-----------------------------------------------------------------------------
\* What a key answers, case by case.
LEMMA AnswerOfCache ==
  ASSUME NEW k \in KeyNames, NEW v \in Key!Values, cache[k] = {v}
  PROVE  Key!Answer(k) = v
  BY DEF Key!Answer, Key!Unread

LEMMA AnswerOfHolder ==
  ASSUME NEW k \in KeyNames, cache[k] = Key!Unread
  PROVE  Key!Answer(k) = IF holder # None /\ call[holder].key = k THEN call[holder].value ELSE keyring[k]
  BY DEF Key!Answer

\* The same of the next state.
LEMMA NextAnswerOfCache ==
  ASSUME NEW k \in KeyNames, NEW v \in Key!Values, cache'[k] = {v}
  PROVE  Key!Answer(k)' = v
  BY DEF Key!Answer, Key!Unread

LEMMA NextAnswerOfHolder ==
  ASSUME NEW k \in KeyNames, cache'[k] = Key!Unread
  PROVE  Key!Answer(k)' = IF holder' # None /\ call'[holder'].key = k THEN call'[holder'].value ELSE keyring'[k]
  BY DEF Key!Answer

\* A key whose cache, keyring and reader stay as they are answers the same.
LEMMA AnswerStays ==
  ASSUME NEW k \in KeyNames, cache'[k] = cache[k], keyring'[k] = keyring[k], UNCHANGED holder,
         holder # None => call'[holder] = call[holder]
  PROVE  Key!Answer(k)' = Key!Answer(k)
  BY DEF Key!Answer

LEMMA InitKeyInv ==
  ASSUME Key!Init
  PROVE  KeyInv
<1>1. Key!TypeOK
  BY DEF Key!Init, Key!TypeOK, Key!Unread, Key!CallStates, Key!Values
<1>2. \A c \in Callers : call[c].pc = "idle"
  BY DEF Key!Init
<1>3. LockHeld /\ Alone /\ Written
  BY <1>2, StoresAssumption DEF Key!Init, LockHeld, Alone, Written, Key!At, Key!Writes,
     Key!KeychainAssumption
<1>4. SameButForAWrite
  BY AnswerOfHolder DEF Key!Init, SameButForAWrite
<1>5. QED
  BY <1>1, <1>3, <1>4 DEF KeyInv

-----------------------------------------------------------------------------
\* A write that begins changes no answer, and is alone with its key or is
\* reported.
LEMMA BeginWriteStep ==
  ASSUME KeyInv, NEW c \in Callers, NEW k \in KeyNames, NEW v \in Key!Values, Key!BeginWrite(c, k, v)
  PROVE  KeyInv' /\ \A q \in KeyNames : Key!Answer(q)' = Key!Answer(q)
<1>1. UNCHANGED <<keyring, cache, holder>> /\ holder # c /\ call[c].pc = "idle"
  BY DEF Key!BeginWrite, KeyInv, LockHeld, Key!At
<1>2. call' \in [Callers -> Key!CallStates] /\ call'[c] = [pc |-> "set", key |-> k, value |-> v]
      /\ \A d \in Callers \ {c} : call'[d] = call[d]
  BY DEF Key!BeginWrite, KeyInv, Key!TypeOK, Key!CallStates, Key!Steps
<1>3. slips' \subseteq KeyMishaps /\ slips \subseteq slips'
      /\ ("overlap" \in slips' \/ ~\E d \in Callers : Key!Writes(d, k))
  BY DEF Key!BeginWrite, Key!Mishap, Key!Fine, KeyInv, Key!TypeOK
<1>4. Key!TypeOK' /\ LockHeld'
  BY <1>1, <1>2, <1>3, StoresAssumption DEF KeyInv, Key!TypeOK, LockHeld, Key!At,
     Key!KeychainAssumption
<1>5. Alone' /\ Written'
  BY <1>1, <1>2, <1>3 DEF KeyInv, Alone, Written, Key!Writes, Key!At
<1>6. ASSUME NEW q \in KeyNames PROVE Key!Answer(q)' = Key!Answer(q)
  <2>1. holder # None => call'[holder] = call[holder]
    BY <1>1, <1>2 DEF KeyInv, Key!TypeOK
  <2>2. QED
    BY <1>1, <2>1, AnswerStays
<1>7. SameButForAWrite'
  <2>1. \A d \in Callers, q \in KeyNames : Inserting(d, q) => Inserting(d, q)'
    BY <1>1, <1>2 DEF Inserting, Key!At
  <2>2. QED
    BY <1>1, <1>3, <1>6, <2>1 DEF KeyInv, SameButForAWrite
<1>8. QED
  BY <1>4, <1>5, <1>6, <1>7 DEF KeyInv

\* The keyring is written: the key answers what it did, or what is written.
LEMMA SetPasswordStep ==
  ASSUME KeyInv, NEW c \in Callers, Key!SetPassword(c)
  PROVE  KeyInv' /\ \A q \in KeyNames : Key!Answer(q)' # Key!Answer(q) => Key!Writes(c, q) /\ Key!Answer(q)' = call[c].value
<1>1. call[c] \in Key!CallStates /\ call[c].pc = "set" /\ holder # c /\ UNCHANGED <<cache, holder>>
  BY DEF Key!SetPassword, KeyInv, Key!TypeOK, LockHeld, Key!At
<1>2. PICK next \in {"insert", "idle"} : call' = [call EXCEPT ![c].pc = next]
  BY DEF Key!SetPassword, Key!Go
<1>3. call' \in [Callers -> Key!CallStates] /\ call'[c] = [call[c] EXCEPT !.pc = next]
      /\ \A d \in Callers \ {c} : call'[d] = call[d]
  BY <1>1, <1>2 DEF KeyInv, Key!TypeOK, Key!CallStates, Key!Steps
<1>4. keyring' \in [KeyNames -> Key!Values] /\ slips' \subseteq KeyMishaps /\ slips \subseteq slips'
  BY <1>1 DEF Key!SetPassword, KeyInv, Key!TypeOK, Key!CallStates, Key!Mishap, Key!Fine
<1>5. Key!TypeOK' /\ LockHeld' /\ Alone'
  <2>1. Key!TypeOK'
    BY <1>1, <1>3, <1>4 DEF KeyInv, Key!TypeOK
  <2>2. LockHeld'
    BY <1>1, <1>3, StoresAssumption DEF KeyInv, LockHeld, Key!At, Key!TypeOK, Key!CallStates,
       Key!KeychainAssumption
  <2>3. \A d \in Callers, q \in KeyNames : Key!Writes(d, q)' => Key!Writes(d, q)
    BY <1>1, <1>3 DEF Key!Writes, Key!CallStates
  <2>4. QED
    BY <1>4, <2>1, <2>2, <2>3 DEF KeyInv, Alone
<1>6. holder # None => call'[holder] = call[holder]
  BY <1>1, <1>3 DEF KeyInv, Key!TypeOK
<1>7. ASSUME NEW q \in KeyNames, q # call[c].key
      PROVE  keyring'[q] = keyring[q] /\ Key!Answer(q)' = Key!Answer(q)
  <2>1. keyring'[q] = keyring[q]
    BY <1>7, <1>1 DEF Key!SetPassword, KeyInv, Key!TypeOK
  <2>2. QED
    BY <1>1, <1>6, <2>1, AnswerStays
<1>8. CASE UNCHANGED keyring /\ next = "idle"
  <2>0. Written'
    BY <1>1, <1>3, <1>4, <1>8 DEF KeyInv, Written, Key!At, Key!CallStates
  <2>1. \A q \in KeyNames : Key!Answer(q)' = Key!Answer(q)
    BY <1>1, <1>6, <1>8, AnswerStays
  <2>2. \A d \in Callers, q \in KeyNames : Inserting(d, q) => Inserting(d, q)'
    BY <1>1, <1>3, <1>8 DEF Inserting, Key!At
  <2>3. SameButForAWrite'
    BY <1>4, <1>8, <2>1, <2>2 DEF KeyInv, SameButForAWrite
  <2>4. QED
    BY <1>5, <2>0, <2>1, <2>3 DEF KeyInv
<1>9. CASE keyring' = [keyring EXCEPT ![call[c].key] = call[c].value] /\ next = "insert"
  <2>0. PICK k \in KeyNames, v \in Key!Values : call[c].key = k /\ call[c].value = v
    BY <1>1 DEF Key!CallStates
  <2>1. keyring'[k] = v
    BY <1>9, <2>0 DEF KeyInv, Key!TypeOK
  <2>2. Inserting(c, k)'
    BY <1>3, <1>1, <1>9, <2>0, <2>1 DEF Inserting, Key!At, Key!CallStates
  <2>3. ASSUME Key!Answer(k)' # Key!Answer(k) PROVE Key!Answer(k)' = v
    <3>1. CASE cache[k] = Key!Unread
      BY <1>1, <1>6, <2>1, <2>3, <3>1, AnswerOfHolder, NextAnswerOfHolder
    <3>2. CASE cache[k] # Key!Unread
      <4>1. PICK w \in Key!Values : cache[k] = {w}
        BY <2>1, <3>2 DEF KeyInv, Key!TypeOK
      <4>2. QED
        BY <1>1, <2>1, <2>3, <4>1, AnswerOfCache, NextAnswerOfCache
    <3>3. QED
      BY <3>1, <3>2
  <2>4. \A q \in KeyNames : Key!Answer(q)' # Key!Answer(q) => Key!Writes(c, q) /\ Key!Answer(q)' = call[c].value
    BY <1>1, <1>7, <2>0, <2>3 DEF Key!Writes
  <2>5. SameButForAWrite'
    <3>1. SUFFICES ASSUME "overlap" \notin slips', NEW q \in KeyNames
                   PROVE  Key!Answer(q)' = keyring'[q] \/ \E d \in Callers : Inserting(d, q)'
      BY DEF SameButForAWrite
    <3>2. CASE q = k
      BY <2>2, <3>2
    <3>3. CASE q # k
      <4>1. Key!Answer(q)' = Key!Answer(q) /\ keyring'[q] = keyring[q]
        BY <1>7, <2>0, <3>3
      <4>2. \A d \in Callers : Inserting(d, q) => Inserting(d, q)'
        BY <1>1, <1>3, <4>1 DEF Inserting, Key!At
      <4>3. QED
        BY <1>4, <3>1, <4>1, <4>2 DEF KeyInv, SameButForAWrite
    <3>4. QED
      BY <3>2, <3>3
  <2>6. Written'
    <3>1. SUFFICES ASSUME "overlap" \notin slips', NEW d \in Callers, Key!At(d, "insert")'
                   PROVE  keyring'[call'[d].key] = call'[d].value
      BY DEF Written
    <3>2. CASE d = c
      BY <1>1, <1>3, <2>0, <2>1, <3>2 DEF Key!CallStates
    <3>3. CASE d # c
      <4>1. Key!At(d, "insert") /\ call'[d] = call[d] /\ call[d] \in Key!CallStates
        BY <1>3, <3>1, <3>3 DEF Key!At, KeyInv, Key!TypeOK
      <4>2. call[d].key # k
        BY <1>1, <1>4, <2>0, <3>1, <3>3, <4>1 DEF KeyInv, Alone, Key!Writes, Key!At
      <4>3. QED
        BY <1>4, <1>7, <2>0, <3>1, <4>1, <4>2 DEF KeyInv, Written, Key!CallStates
    <3>4. QED
      BY <3>2, <3>3
  <2>7. QED
    BY <1>5, <2>4, <2>5, <2>6 DEF KeyInv
<1>10. (UNCHANGED keyring /\ next = "idle")
         \/ (keyring' = [keyring EXCEPT ![call[c].key] = call[c].value] /\ next = "insert")
  <2>1. call'[c].pc = next
    BY <1>3, <1>1 DEF Key!CallStates
  <2>2. QED
    BY <2>1, <1>1 DEF Key!SetPassword, Key!Go, KeyInv, Key!TypeOK, Key!CallStates
<1>11. QED
  BY <1>8, <1>9, <1>10

\* The entry is written: the key answers what is written.
LEMMA InsertCacheStep ==
  ASSUME KeyInv, NEW c \in Callers, Key!InsertCache(c)
  PROVE  KeyInv' /\ \A q \in KeyNames : Key!Answer(q)' # Key!Answer(q) => Key!Writes(c, q) /\ Key!Answer(q)' = call[c].value
<1>1. call[c] \in Key!CallStates /\ call[c].pc = "insert" /\ holder = None
      /\ UNCHANGED <<keyring, holder, slips>>
  BY DEF Key!InsertCache, KeyInv, Key!TypeOK, Key!At
<1>2. PICK k \in KeyNames, v \in Key!Values : call[c].key = k /\ call[c].value = v
  BY <1>1 DEF Key!CallStates
<1>3. /\ call' \in [Callers -> Key!CallStates] /\ call'[c] = [call[c] EXCEPT !.pc = "idle"]
      /\ \A d \in Callers \ {c} : call'[d] = call[d]
      /\ cache' \in [KeyNames -> {Key!Unread} \cup {{w} : w \in Key!Values}] /\ cache'[k] = {v}
      /\ \A q \in KeyNames \ {k} : cache'[q] = cache[q]
  BY <1>1, <1>2 DEF Key!InsertCache, Key!Go, KeyInv, Key!TypeOK, Key!CallStates, Key!Steps
<1>4. Key!TypeOK' /\ LockHeld' /\ Alone'
  <2>1. Key!TypeOK'
    BY <1>1, <1>3 DEF KeyInv, Key!TypeOK
  <2>2. LockHeld'
    BY <1>1, <1>3, StoresAssumption DEF KeyInv, LockHeld, Key!At, Key!TypeOK, Key!CallStates,
       Key!KeychainAssumption
  <2>3. \A d \in Callers, q \in KeyNames : Key!Writes(d, q)' => Key!Writes(d, q)
    BY <1>1, <1>3 DEF Key!Writes, Key!CallStates
  <2>4. QED
    BY <1>1, <2>1, <2>2, <2>3 DEF KeyInv, Alone
<1>5. Key!Answer(k)' = v
  BY <1>3, NextAnswerOfCache
<1>6. \A q \in KeyNames \ {k} : Key!Answer(q)' = Key!Answer(q)
  BY <1>1, <1>3, AnswerStays
<1>7. Written' /\ SameButForAWrite'
  <2>1. Written'
    BY <1>1, <1>3 DEF KeyInv, Written, Key!At, Key!CallStates
  <2>2. SUFFICES ASSUME "overlap" \notin slips, NEW q \in KeyNames
                 PROVE  Key!Answer(q)' = keyring[q] \/ \E d \in Callers : Inserting(d, q)'
    BY <1>1, <2>1 DEF SameButForAWrite
  <2>3. CASE q = k
    BY <1>1, <1>2, <1>5, <2>2, <2>3 DEF KeyInv, Written, Key!At
  <2>4. CASE q # k
    <3>1. PICK d \in Callers : Key!Answer(q) = keyring[q] \/ Inserting(d, q)
      BY <2>2 DEF KeyInv, SameButForAWrite
    <3>2. d # c \/ ~Inserting(d, q)
      BY <1>2, <2>4 DEF Inserting
    <3>3. QED
      BY <1>1, <1>3, <1>6, <2>4, <3>1, <3>2 DEF Inserting, Key!At
  <2>5. QED
    BY <2>3, <2>4
<1>8. QED
  BY <1>1, <1>2, <1>4, <1>5, <1>6, <1>7 DEF KeyInv, Key!Writes

\* A read takes the lock, or fails, and changes no answer.
LEMMA ReadKeyringStep ==
  ASSUME KeyInv, NEW c \in Callers, NEW k \in KeyNames, Key!ReadKeyring(c, k)
  PROVE  KeyInv' /\ \A q \in KeyNames : Key!Answer(q)' = Key!Answer(q)
<1>1. call[c].pc = "idle" /\ holder = None /\ cache[k] = Key!Unread /\ UNCHANGED <<keyring, cache>>
      /\ slips' \subseteq KeyMishaps /\ slips \subseteq slips'
  BY DEF Key!ReadKeyring, Key!At, Key!Mishap, Key!Fine, KeyInv, Key!TypeOK
<1>2. CASE UNCHANGED <<holder, call>>
  <2>1. \A q \in KeyNames : Key!Answer(q)' = Key!Answer(q)
    BY <1>1, <1>2 DEF Key!Answer
  <2>2. QED
    BY <1>1, <1>2, <2>1 DEF KeyInv, Key!TypeOK, LockHeld, Alone, Written, SameButForAWrite,
       Inserting, Key!Writes, Key!At
<1>3. CASE /\ holder' = c
           /\ call' = [call EXCEPT ![c] = [pc |-> "fill", key |-> k, value |-> keyring[k]]]
  <2>1. /\ call' \in [Callers -> Key!CallStates] /\ call'[c] = [pc |-> "fill", key |-> k, value |-> keyring[k]]
        /\ \A d \in Callers \ {c} : call'[d] = call[d]
    BY <1>3 DEF KeyInv, Key!TypeOK, Key!CallStates, Key!Steps
  <2>2. Key!TypeOK'
    BY <1>1, <1>3, <2>1 DEF KeyInv, Key!TypeOK
  <2>3. LockHeld'
    BY <1>1, <1>3, <2>1, StoresAssumption DEF KeyInv, LockHeld, Key!At, Key!KeychainAssumption
  <2>4. \A d \in Callers, q \in KeyNames : (Key!Writes(d, q)' <=> Key!Writes(d, q)) /\ (Inserting(d, q)' <=> Inserting(d, q))
    BY <1>1, <2>1 DEF Key!Writes, Inserting, Key!At
  <2>5. Alone' /\ Written'
    BY <1>1, <2>1, <2>4 DEF KeyInv, Alone, Written, Key!At
  <2>6. ASSUME NEW q \in KeyNames PROVE Key!Answer(q)' = Key!Answer(q)
    <3>1. CASE cache[q] = Key!Unread
      BY <1>1, <1>3, <2>1, <3>1, AnswerOfHolder, NextAnswerOfHolder,
         StoresAssumption DEF Key!KeychainAssumption
    <3>2. CASE cache[q] # Key!Unread
      <4>1. PICK w \in Key!Values : cache[q] = {w}
        BY <3>2 DEF KeyInv, Key!TypeOK
      <4>2. QED
        BY <1>1, <4>1, AnswerOfCache, NextAnswerOfCache
    <3>3. QED
      BY <3>1, <3>2
  <2>7. SameButForAWrite'
    BY <1>1, <2>4, <2>6 DEF KeyInv, SameButForAWrite
  <2>8. QED
    BY <2>2, <2>3, <2>5, <2>6, <2>7 DEF KeyInv
<1>4. QED
  BY <1>2, <1>3 DEF Key!ReadKeyring

\* What was read becomes the entry, and nobody has made another one since.
LEMMA FillCacheStep ==
  ASSUME KeyInv, NEW c \in Callers, Key!FillCache(c)
  PROVE  KeyInv' /\ \A q \in KeyNames : Key!Answer(q)' = Key!Answer(q)
<1>1. /\ call[c] \in Key!CallStates /\ call[c].pc = "fill" /\ holder = c /\ holder' = None
      /\ cache[call[c].key] = Key!Unread /\ UNCHANGED <<keyring, slips>>
  BY StoresAssumption DEF Key!FillCache, KeyInv, Key!TypeOK, LockHeld, Key!At,
     Key!KeychainAssumption
<1>2. PICK k \in KeyNames, v \in Key!Values : call[c].key = k /\ call[c].value = v
  BY <1>1 DEF Key!CallStates
<1>3. /\ call' \in [Callers -> Key!CallStates] /\ call'[c] = [call[c] EXCEPT !.pc = "idle"]
      /\ \A d \in Callers \ {c} : call'[d] = call[d]
      /\ cache' \in [KeyNames -> {Key!Unread} \cup {{w} : w \in Key!Values}] /\ cache'[k] = {v}
      /\ \A q \in KeyNames \ {k} : cache'[q] = cache[q]
  BY <1>1, <1>2 DEF Key!FillCache, Key!Go, KeyInv, Key!TypeOK, Key!CallStates, Key!Steps
<1>4. Key!TypeOK'
  BY <1>1, <1>3 DEF KeyInv, Key!TypeOK
<1>5. LockHeld'
  BY <1>1, <1>3, StoresAssumption DEF KeyInv, LockHeld, Key!At, Key!TypeOK, Key!CallStates,
     Key!KeychainAssumption
<1>6. \A d \in Callers, q \in KeyNames : (Key!Writes(d, q)' <=> Key!Writes(d, q)) /\ (Inserting(d, q)' <=> Inserting(d, q))
  BY <1>1, <1>3 DEF Key!Writes, Inserting, Key!At, Key!CallStates
<1>7. Alone' /\ Written'
  BY <1>1, <1>3, <1>6 DEF KeyInv, Alone, Written, Key!At, Key!CallStates
<1>8. ASSUME NEW q \in KeyNames PROVE Key!Answer(q)' = Key!Answer(q)
  <2>1. CASE q = k
    BY <1>1, <1>2, <1>3, <2>1, AnswerOfHolder, NextAnswerOfCache,
       StoresAssumption DEF Key!KeychainAssumption
  <2>2. CASE q # k /\ cache[q] = Key!Unread
    BY <1>1, <1>2, <1>3, <2>2, AnswerOfHolder, NextAnswerOfHolder
  <2>3. CASE q # k /\ cache[q] # Key!Unread
    <3>1. PICK w \in Key!Values : cache[q] = {w}
      BY <2>3 DEF KeyInv, Key!TypeOK
    <3>2. QED
      BY <1>3, <2>3, <3>1, AnswerOfCache, NextAnswerOfCache
  <2>4. QED
    BY <2>1, <2>2, <2>3
<1>9. SameButForAWrite'
  BY <1>1, <1>6, <1>8 DEF KeyInv, SameButForAWrite
<1>10. QED
  BY <1>4, <1>5, <1>7, <1>8, <1>9 DEF KeyInv

\* A restart forgets the cache: the keys answer what the system keeps, which
\* is what they answered, or what a call that dies had just written there.
LEMMA KeyRestartStep ==
  ASSUME KeyInv, Key!Restart
  PROVE  /\ KeyInv'
         /\ \A q \in KeyNames : Key!Answer(q)' # Key!Answer(q) /\ "overlap" \notin slips =>
              \E c \in Callers : Key!Writes(c, q) /\ Key!Answer(q)' = call[c].value
<1>1. /\ \A q \in KeyNames : cache'[q] = Key!Unread
      /\ cache' \in [KeyNames -> {Key!Unread} \cup {{w} : w \in Key!Values}]
      /\ holder' = None /\ UNCHANGED keyring
      /\ slips' \subseteq KeyMishaps /\ slips \subseteq slips'
  BY DEF Key!Restart, Key!Mishap, KeyInv, Key!TypeOK
<1>2. call' \in [Callers -> Key!CallStates] /\ \A c \in Callers : call'[c].pc = "idle"
  BY DEF Key!Restart, KeyInv, Key!TypeOK, Key!CallStates, Key!Steps
<1>3. \A q \in KeyNames : Key!Answer(q)' = keyring[q]
  BY <1>1, NextAnswerOfHolder
<1>4. KeyInv'
  BY <1>1, <1>2, <1>3, StoresAssumption
     DEF KeyInv, Key!TypeOK, LockHeld, Alone, Written, SameButForAWrite, Key!At, Key!Writes,
        Key!KeychainAssumption
<1>5. QED
  BY <1>3, <1>4 DEF KeyInv, SameButForAWrite, Written, Inserting, Key!Writes, Key!At

-----------------------------------------------------------------------------
LEMMA StepKeyInv ==
  ASSUME KeyInv, Key!Next
  PROVE  KeyInv' /\ Key!OnlyWritesChange
<1>1. ASSUME NEW c \in Callers, Key!Store(c) \/ Key!Delete(c)
      PROVE  KeyInv' /\ Key!OnlyWritesChange
  <2>1. PICK k \in KeyNames, v \in Key!Values : Key!BeginWrite(c, k, v)
    BY <1>1 DEF Key!Store, Key!Delete, Key!Values
  <2>2. QED
    BY <2>1, BeginWriteStep DEF Key!OnlyWritesChange
<1>2. ASSUME NEW c \in Callers, Key!SetPassword(c)
      PROVE  KeyInv' /\ Key!OnlyWritesChange
  BY <1>2, SetPasswordStep DEF Key!OnlyWritesChange
<1>3. ASSUME NEW c \in Callers, Key!InsertCache(c)
      PROVE  KeyInv' /\ Key!OnlyWritesChange
  BY <1>3, InsertCacheStep DEF Key!OnlyWritesChange
<1>4. ASSUME NEW c \in Callers, Key!FillCache(c)
      PROVE  KeyInv' /\ Key!OnlyWritesChange
  BY <1>4, FillCacheStep DEF Key!OnlyWritesChange
<1>5. ASSUME NEW c \in Callers, NEW k \in KeyNames, Key!ReadKeyring(c, k)
      PROVE  KeyInv' /\ Key!OnlyWritesChange
  BY <1>5, ReadKeyringStep DEF Key!OnlyWritesChange
<1>6. CASE Key!Restart
  BY <1>6, KeyRestartStep DEF Key!OnlyWritesChange
<1>7. QED
  BY <1>1, <1>2, <1>3, <1>4, <1>5, <1>6 DEF Key!Next

LEMMA StutterKeyInv == KeyInv /\ UNCHANGED Key!vars => KeyInv'
  BY DEF Key!vars, KeyInv, Key!TypeOK, LockHeld, Alone, Written, SameButForAWrite, Key!Answer,
     Inserting, Key!Writes, Key!At

\* The inductive invariant holds in every behaviour of the keychain.
THEOREM KeychainInvariant == Key!Spec => []KeyInv
<1>1. KeyInv /\ [Key!Next]_(Key!vars) => KeyInv'
  BY StepKeyInv, StutterKeyInv
<1>2. QED
  BY InitKeyInv, <1>1, PTL DEF Key!Spec

\* Whatever reads, writes, failures and restarts come in between, what a key
\* answers changes only by a write that is under way (OsKeychain).
THEOREM KeyStaysARegister == Key!Spec => Key!KeyIsARegister
<1>1. KeyInv /\ [Key!Next]_(Key!vars) => [Key!OnlyWritesChange]_(Key!vars)
  BY StepKeyInv
<1>2. QED
  BY KeychainInvariant, <1>1, PTL DEF Key!Spec, Key!KeyIsARegister

\* With nobody writing and no two writes ever at once, a restart answers what
\* was answered before it: the cache and the keyring agree.
THEOREM CacheAgreesWhenQuiet ==
  Key!Spec => []("overlap" \notin slips => Key!RestartAnswersTheSame)
<1>1. KeyInv => ("overlap" \notin slips => Key!RestartAnswersTheSame)
  BY DEF KeyInv, SameButForAWrite, Key!RestartAnswersTheSame, Inserting, Key!Writes, Key!At
<1>2. QED
  BY <1>1, KeychainInvariant, PTL

\* And of the stores, of which the keychain is a part.
THEOREM StoresKeepKeys == StoresSpec => KeyIsARegister
<1>1. StoresInit => (part = "keychain" => KeyInv)
  BY InitKeyInv DEF StoresInit
<1>2. (part = "keychain" => KeyInv) /\ [StoresNext]_all => (part = "keychain" => KeyInv)'
  BY StepKeyInv, StutterKeyInv DEF StoresNext, all, keyVars, Key!vars
<1>3. (part = "keychain" => KeyInv) /\ [StoresNext]_all
        => [part = "keychain" => Key!TypeOK' /\ Key!OnlyWritesChange]_keyVars
  <2>1. SUFFICES ASSUME part = "keychain", KeyInv, StoresNext, ~UNCHANGED keyVars
                 PROVE  Key!TypeOK' /\ Key!OnlyWritesChange
    BY DEF all
  <2>2. Key!Next
    BY <2>1 DEF StoresNext
  <2>3. QED
    BY <2>1, <2>2, StepKeyInv DEF KeyInv
<1>4. QED
  BY <1>1, <1>2, <1>3, PTL DEF StoresSpec, KeyIsARegister

-----------------------------------------------------------------------------
(***************************************************************************)
(* The state file.  What a save owes to what was there before it holds of  *)
(* one save at a time, so the invariant has a part that ends with the      *)
(* first overlap of two, and within that a part, memory against document,  *)
(* that ends with the first mishap.  The files are in order whatever       *)
(* happens.                                                                *)
(***************************************************************************)

Active(s) == pc[s] # "idle"

\* A file that is being written is open, the three names are of different
\* files, and nothing is under way while the launcher is down.
FilesInOrder ==
  /\ \A s \in Sections : fd[s] # None <=> pc[s] = "write"
  /\ \A m, n \in File!Names : dir[m] = dir[n] /\ dir[m] # None => m = n
  /\ ~up => \A s \in Sections : ~Active(s)

\* Of a save that has no other beside it, where it is.
OneSave ==
  /\ \A s, t \in Sections : Active(s) /\ Active(t) => s = t
  /\ \A s \in Sections :
       /\ pc[s] = "parse" => dir["primary"] # None
       /\ pc[s] = "write" => fd[s] = dir["tmp"] /\ data[fd[s]] = Empty
       /\ pc[s] \in {"rotate", "install"} => dir["tmp"] # None /\ data[dir["tmp"]] \in File!Docs
       /\ pc[s] = "install" => dir["primary"] = None

\* The primary is the document last saved, or was lost with the power; without
\* it the backup is, if the power has not failed.
LastSaved ==
  /\ dir["primary"] # None =>
       \/ committed # None /\ data[dir["primary"]] = committed
       \/ ~up /\ "power" \in mishaps /\ dir["primary"] \notin synced
  /\ committed # None /\ dir["primary"] = None /\ "power" \notin mishaps =>
       dir["backup"] # None /\ data[dir["backup"]] = committed

\* As long as nothing goes wrong, memory and document differ by the save that
\* is under way.
Merging ==
  /\ up
  /\ \A s \in Sections : ~Active(s) => mem[s] = IF committed = None THEN 0 ELSE committed[s]
  /\ committed # None /\ (\A s \in Sections : pc[s] # "install") => dir["primary"] # None
  /\ \A s \in Sections :
       /\ pc[s] \in {"open", "write"} => obj[s] = mem
       /\ pc[s] \in {"rotate", "install"} => data[dir["tmp"]] = mem

FileInv ==
  /\ File!TypeOK /\ FilesInOrder
  /\ "overlap" \notin mishaps => OneSave /\ LastSaved
  /\ mishaps = {} => Merging

-----------------------------------------------------------------------------
\* No document is one of the marks of an empty, a garbled or a missing file.
LEMMA DocsAreDocs ==
  \A d \in File!Docs : d \notin {None, Empty, Garbage}
  BY StoresAssumption DEF File!StateFileAssumption, File!Docs

LEMMA NoneIsNoInode == None \notin Inodes
  BY StoresAssumption DEF File!StateFileAssumption

\* A file that keeps a name keeps what it holds.
LEMMA FreeKeeps ==
  ASSUME NEW contents \in [Inodes -> File!Docs \cup File!Unparsable], File!Free(contents),
         dir' \in [File!Names -> Inodes \cup {None}], synced \subseteq Inodes
  PROVE  /\ data' \in [Inodes -> File!Docs \cup File!Unparsable]
         /\ synced' \subseteq synced
         /\ \A n \in File!Names : dir'[n] # None => data'[dir'[n]] = contents[dir'[n]]
  BY DEF File!Free, File!Unparsable

LEMMA InitFileInv ==
  ASSUME File!Init
  PROVE  FileInv
  BY StoresAssumption DEF File!Init, FileInv, File!TypeOK, FilesInOrder, OneSave, LastSaved,
     Merging, Active,
     File!StateFileAssumption, File!Docs, File!Default, File!Unparsable, File!Names,
     File!MishapNames

LEMMA StartSaveStep ==
  ASSUME FileInv, NEW s \in Sections, File!StartSave(s)
  PROVE  FileInv'
<1>1. /\ UNCHANGED <<dir, data, synced, up, obj, fd, committed>>
      /\ up /\ pc[s] = "idle" /\ mem[s] < MaxVersion
      /\ mem' = [mem EXCEPT ![s] = @ + 1] /\ pc' = [pc EXCEPT ![s] = "exists"]
      /\ \/ (\A t \in Sections : ~Active(t)) /\ mishaps' = mishaps
         \/ mishaps' = mishaps \cup {"overlap"} /\ "overlap" \in FileMishaps
  BY DEF File!StartSave, File!Idle, File!Goto, File!MayGoWrong, File!Note, Active
<1>2. File!TypeOK'
  <2>1. mem' \in File!Docs
    BY <1>1, StoresAssumption DEF FileInv, File!TypeOK, File!Docs, File!StateFileAssumption
  <2>2. pc' \in [Sections -> {"idle", "exists", "parse", "open", "write", "rotate", "install"}]
    BY <1>1 DEF FileInv, File!TypeOK
  <2>3. mishaps' \subseteq File!MishapNames
    BY <1>1 DEF FileInv, File!TypeOK, File!MishapNames
  <2>4. QED
    BY <1>1, <2>1, <2>2, <2>3 DEF FileInv, File!TypeOK
<1>3. FilesInOrder'
  BY <1>1 DEF FileInv, File!TypeOK, FilesInOrder, Active
<1>4. "overlap" \notin mishaps' => OneSave' /\ LastSaved'
  BY <1>1 DEF FileInv, File!TypeOK, OneSave, LastSaved, Active
<1>5. mishaps' = {} => Merging'
  BY <1>1 DEF FileInv, File!TypeOK, File!Docs, Merging, Active
<1>6. QED
  BY <1>2, <1>3, <1>4, <1>5 DEF FileInv

\* The section put into the document that was read.
LEMMA MergeStep ==
  ASSUME FileInv, NEW s \in Sections, NEW doc \in File!Docs, pc[s] \in {"exists", "parse"}, File!Merge(s, doc),
         UNCHANGED <<up, mem, fd, committed, mishaps>>,
         dir' \in [File!Names -> Inodes \cup {None}],
         data' \in [Inodes -> File!Docs \cup File!Unparsable], synced' \subseteq Inodes,
         \A m, n \in File!Names : dir'[m] = dir'[n] /\ dir'[m] # None => m = n,
         "overlap" \notin mishaps => UNCHANGED <<dir, data, synced>>,
         mishaps = {} => doc = IF committed = None THEN File!Default ELSE committed
  PROVE  FileInv'
<1>1. pc' = [pc EXCEPT ![s] = "open"] /\ obj' = [obj EXCEPT ![s] = [doc EXCEPT ![s] = mem[s]]]
  BY DEF File!Merge, File!Goto
<1>2. File!TypeOK'
  BY <1>1 DEF FileInv, File!TypeOK, File!Docs
<1>3. FilesInOrder'
  BY <1>1 DEF FileInv, File!TypeOK, FilesInOrder, Active
<1>4. "overlap" \notin mishaps' => OneSave' /\ LastSaved'
  BY <1>1 DEF FileInv, File!TypeOK, OneSave, LastSaved, Active
<1>5. ASSUME mishaps' = {}
      PROVE  Merging'
  <2>1. \A t \in Sections \ {s} : ~Active(t)
    BY <1>5 DEF FileInv, OneSave, Active
  <2>2. [doc EXCEPT ![s] = mem[s]] = mem
    BY <2>1, <1>5 DEF FileInv, File!TypeOK, File!Docs, Merging, File!Default
  <2>3. QED
    BY <1>1, <2>1, <2>2, <1>5 DEF FileInv, File!TypeOK, Merging, Active
<1>6. QED
  BY <1>2, <1>3, <1>4, <1>5 DEF FileInv

LEMMA CheckExistsStep ==
  ASSUME FileInv, NEW s \in Sections, File!CheckExists(s)
  PROVE  FileInv'
<1>1. pc[s] = "exists" /\ UNCHANGED <<dir, data, synced, up, mem, fd, committed, mishaps>>
  BY DEF File!CheckExists
<1>2. CASE dir["primary"] = None /\ File!Merge(s, File!Default)
  <2>1. mishaps = {} => committed = None
    BY <1>1, <1>2 DEF FileInv, OneSave, Merging, Active
  <2>2. File!Default \in File!Docs
    BY StoresAssumption DEF File!Default, File!Docs, File!StateFileAssumption
  <2>3. QED
    BY <1>1, <1>2, <2>1, <2>2, MergeStep DEF FileInv, File!TypeOK, FilesInOrder
<1>3. CASE dir["primary"] # None /\ pc' = [pc EXCEPT ![s] = "parse"] /\ obj' = obj
  <2>1. File!TypeOK'
    BY <1>1, <1>3 DEF FileInv, File!TypeOK
  <2>2. FilesInOrder'
    BY <1>1, <1>3 DEF FileInv, File!TypeOK, FilesInOrder, Active
  <2>3. "overlap" \notin mishaps' => OneSave' /\ LastSaved'
    BY <1>1, <1>3 DEF FileInv, File!TypeOK, OneSave, LastSaved, Active
  <2>4. mishaps' = {} => Merging'
    BY <1>1, <1>3 DEF FileInv, File!TypeOK, OneSave, Merging, Active
  <2>5. QED
    BY <2>1, <2>2, <2>3, <2>4 DEF FileInv
<1>4. QED
  BY <1>2, <1>3 DEF File!CheckExists, File!Goto

\* What a load makes of the files: they stay in order, and a primary that
\* parses is left alone.
LEMMA ParseKeeps ==
  ASSUME File!TypeOK, FilesInOrder, NEW doc \in File!Docs, File!Parse(doc)
  PROVE  /\ dir' \in [File!Names -> Inodes \cup {None}]
         /\ data' \in [Inodes -> File!Docs \cup File!Unparsable] /\ synced' \subseteq Inodes
         /\ \A m, n \in File!Names : dir'[m] = dir'[n] /\ dir'[m] # None => m = n
         /\ dir'["tmp"] = dir["tmp"]
         /\ \/ /\ UNCHANGED <<dir, data, synced>> /\ dir["primary"] # None
               /\ data[dir["primary"]] = doc
            \/ /\ ~File!IsDoc(dir["primary"]) /\ dir'["primary"] # None
               /\ dir["backup"] # None /\ data[dir["backup"]] = doc
               /\ data'[dir'["primary"]] = doc
               /\ dir["primary"] # None => dir' = dir
            \/ ~File!IsDoc(dir["primary"]) /\ ~File!IsDoc(dir["backup"]) /\ dir'["primary"] = None
<1>1. CASE File!IsDoc(dir["primary"]) /\ doc = data[dir["primary"]] /\ UNCHANGED <<dir, data, synced>>
  BY <1>1 DEF File!TypeOK, FilesInOrder, File!IsDoc
<1>2. ASSUME ~File!IsDoc(dir["primary"]), File!IsDoc(dir["backup"]), doc = data[dir["backup"]], NEW copy \in Inodes,
             IF dir["primary"] # None THEN copy = dir["primary"] ELSE File!Fresh(copy),
             data' = [data EXCEPT ![copy] = doc], dir' = [dir EXCEPT !["primary"] = copy],
             synced' = synced \ {copy}
      PROVE  /\ dir' \in [File!Names -> Inodes \cup {None}]
             /\ data' \in [Inodes -> File!Docs \cup File!Unparsable] /\ synced' \subseteq Inodes
             /\ \A m, n \in File!Names : dir'[m] = dir'[n] /\ dir'[m] # None => m = n
             /\ dir'["tmp"] = dir["tmp"] /\ dir'["primary"] # None
             /\ dir["backup"] # None /\ data'[dir'["primary"]] = doc
             /\ dir["primary"] # None => dir' = dir
  <2>1. \A n \in File!Names : n # "primary" => dir[n] # copy
    BY <1>2 DEF File!Fresh, File!Unused, FilesInOrder, File!TypeOK, File!Names
  <2>2. QED
    BY <1>2, <2>1, NoneIsNoInode DEF File!TypeOK, FilesInOrder, File!IsDoc, File!Names
<1>3. CASE ~File!IsDoc(dir["primary"]) /\ ~File!IsDoc(dir["backup"])
           /\ dir' = [dir EXCEPT !["primary"] = None, !["backup"] = None] /\ UNCHANGED <<data, synced>>
  BY <1>3 DEF File!TypeOK, FilesInOrder, File!Names
<1>4. QED
  BY <1>1, <1>2, <1>3 DEF File!Parse, File!Recover

LEMMA ReadDocumentStep ==
  ASSUME FileInv, NEW s \in Sections, File!ReadDocument(s)
  PROVE  FileInv'
<1>1. pc[s] = "parse" /\ UNCHANGED <<up, mem, fd, committed, mishaps>>
  BY DEF File!ReadDocument
<1>2. PICK doc \in File!Docs : File!Parse(doc) /\ File!Merge(s, doc)
  BY DEF File!ReadDocument
<1>3. "overlap" \notin mishaps => File!IsDoc(dir["primary"]) /\ data[dir["primary"]] = committed
  BY <1>1, DocsAreDocs DEF FileInv, OneSave, LastSaved, FilesInOrder, File!TypeOK, File!IsDoc,
     File!Unparsable, Active
<1>4. "overlap" \notin mishaps => UNCHANGED <<dir, data, synced>> /\ doc = committed
  BY <1>2, <1>3 DEF File!Parse
<1>5. mishaps = {} => doc = IF committed = None THEN File!Default ELSE committed
  BY <1>4, DocsAreDocs
<1>6. QED
  BY <1>1, <1>2, <1>4, <1>5, ParseKeeps, MergeStep DEF FileInv

LEMMA OpenTmpStep ==
  ASSUME FileInv, NEW s \in Sections, File!OpenTmp(s)
  PROVE  FileInv'
<1>1. PICK i \in Inodes :
         /\ IF dir["tmp"] # None THEN i = dir["tmp"] ELSE File!Fresh(i)
         /\ dir' = [dir EXCEPT !["tmp"] = i] /\ data' = [data EXCEPT ![i] = Empty]
         /\ synced' = synced \ {i} /\ fd' = [fd EXCEPT ![s] = i]
  BY DEF File!OpenTmp
<1>2. pc[s] = "open" /\ pc' = [pc EXCEPT ![s] = "write"] /\ UNCHANGED <<up, mem, obj, committed, mishaps>>
  BY DEF File!OpenTmp, File!Goto
<1>3. \A n \in File!Names : n # "tmp" => dir[n] # i /\ dir'[n] = dir[n]
  BY <1>1 DEF FileInv, File!TypeOK, FilesInOrder, File!Fresh, File!Unused, File!Names
<1>4. dir'["tmp"] = i /\ i # None
  BY <1>1, NoneIsNoInode DEF FileInv, File!TypeOK, File!Names
<1>5. File!TypeOK'
  BY <1>1, <1>2 DEF FileInv, File!TypeOK, File!Unparsable
<1>6. FilesInOrder'
  BY <1>1, <1>2, <1>3, <1>4 DEF FileInv, File!TypeOK, FilesInOrder, Active
<1>7. ASSUME "overlap" \notin mishaps'
      PROVE  OneSave' /\ LastSaved'
  <2>1. OneSave'
    BY <1>1, <1>2, <1>3, <1>4, <1>7 DEF FileInv, File!TypeOK, OneSave, Active
  <2>2. "primary" \in File!Names /\ "backup" \in File!Names
    BY DEF File!Names
  <2>3. \A n \in {"primary", "backup"} : dir[n] # None => data'[dir'[n]] = data[dir[n]]
    BY <1>1, <1>3, <2>2 DEF FileInv, File!TypeOK
  <2>4. LastSaved'
    BY <1>1, <1>2, <1>3, <1>7, <2>2, <2>3 DEF FileInv, File!TypeOK, LastSaved
  <2>5. QED
    BY <2>1, <2>4
<1>8. mishaps' = {} => Merging'
  BY <1>1, <1>2, <1>3 DEF FileInv, File!TypeOK, OneSave, Merging, Active, File!Names
<1>9. QED
  BY <1>5, <1>6, <1>7, <1>8 DEF FileInv

LEMMA WriteTmpStep ==
  ASSUME FileInv, NEW s \in Sections, File!WriteTmp(s)
  PROVE  FileInv'
<1>1. PICK content \in {obj[s], Garbage} :
         /\ data' = [data EXCEPT ![fd[s]] = content]
         /\ data[fd[s]] = Empty => content = obj[s]
  BY DEF File!WriteTmp
<1>2. /\ pc[s] = "write" /\ pc' = [pc EXCEPT ![s] = "rotate"]
      /\ fd' = [fd EXCEPT ![s] = None] /\ synced' = synced \ {fd[s]}
      /\ obj' = [obj EXCEPT ![s] = File!Default] /\ UNCHANGED <<dir, up, mem, committed, mishaps>>
  BY DEF File!WriteTmp, File!Goto
<1>3. File!Default \in File!Docs /\ fd[s] \in Inodes
  BY <1>2, StoresAssumption
     DEF File!Default, File!Docs, File!StateFileAssumption, FileInv, FilesInOrder, File!TypeOK
<1>4. File!TypeOK'
  <2>1. data' \in [Inodes -> File!Docs \cup File!Unparsable]
    BY <1>1 DEF FileInv, File!TypeOK, File!Unparsable
  <2>2. QED
    BY <1>2, <1>3, <2>1 DEF FileInv, File!TypeOK
<1>5. FilesInOrder'
  BY <1>2, NoneIsNoInode DEF FileInv, File!TypeOK, FilesInOrder, Active
<1>6. ASSUME "overlap" \notin mishaps'
      PROVE  OneSave' /\ LastSaved'
  <2>1. fd[s] = dir["tmp"] /\ content = obj[s] /\ obj[s] \in File!Docs
    BY <1>1, <1>2, <1>6 DEF FileInv, OneSave, File!TypeOK
  <2>2. \A n \in {"primary", "backup"} : dir[n] # None => dir[n] \in Inodes /\ data'[dir[n]] = data[dir[n]]
    BY <1>1, <1>3, <2>1 DEF FileInv, File!TypeOK, FilesInOrder, File!Names
  <2>3. data'[dir["tmp"]] = obj[s] /\ dir["tmp"] # None
    BY <1>1, <1>3, <2>1, NoneIsNoInode DEF FileInv, File!TypeOK
  <2>4. OneSave'
    BY <1>2, <1>6, <2>1, <2>3 DEF FileInv, File!TypeOK, OneSave, Active
  <2>5. LastSaved'
    BY <1>2, <1>6, <2>2 DEF FileInv, LastSaved
  <2>6. QED
    BY <2>4, <2>5
<1>7. ASSUME mishaps' = {}
      PROVE  Merging'
  <2>1. fd[s] = dir["tmp"] /\ content = obj[s] /\ obj[s] = mem
    BY <1>1, <1>2, <1>7 DEF FileInv, OneSave, Merging
  <2>2. data'[dir["tmp"]] = mem
    BY <1>1, <1>3, <2>1 DEF FileInv, File!TypeOK
  <2>3. QED
    BY <1>2, <1>7, <2>2 DEF FileInv, File!TypeOK, OneSave, Merging, Active
<1>8. QED
  BY <1>4, <1>5, <1>6, <1>7 DEF FileInv

LEMMA FailWriteStep ==
  ASSUME FileInv, NEW s \in Sections, File!FailWrite(s)
  PROVE  FileInv'
<1>1. /\ pc[s] = "write" /\ pc' = [pc EXCEPT ![s] = "idle"]
      /\ data' = [data EXCEPT ![fd[s]] = Garbage] /\ fd' = [fd EXCEPT ![s] = None]
      /\ obj' = [obj EXCEPT ![s] = File!Default] /\ mishaps' = mishaps \cup {"write"}
      /\ UNCHANGED <<dir, synced, up, mem, committed>>
  BY DEF File!FailWrite, File!Goto, File!Note
<1>2. File!Default \in File!Docs /\ fd[s] \in Inodes
  BY <1>1, StoresAssumption
     DEF File!Default, File!Docs, File!StateFileAssumption, FileInv, FilesInOrder, File!TypeOK
<1>3. File!TypeOK'
  <2>1. data' \in [Inodes -> File!Docs \cup File!Unparsable] /\ mishaps' \subseteq File!MishapNames
    BY <1>1 DEF FileInv, File!TypeOK, File!Unparsable, File!MishapNames
  <2>2. QED
    BY <1>1, <1>2, <2>1 DEF FileInv, File!TypeOK
<1>4. FilesInOrder'
  BY <1>1, NoneIsNoInode DEF FileInv, File!TypeOK, FilesInOrder, Active
<1>5. ASSUME "overlap" \notin mishaps'
      PROVE  OneSave' /\ LastSaved'
  <2>1. \A n \in {"primary", "backup"} : dir[n] # None => dir[n] \in Inodes /\ data'[dir[n]] = data[dir[n]]
    BY <1>1, <1>2, <1>5 DEF FileInv, File!TypeOK, FilesInOrder, OneSave, File!Names
  <2>2. OneSave'
    BY <1>1, <1>5 DEF FileInv, File!TypeOK, OneSave, Active
  <2>3. LastSaved'
    BY <1>1, <1>5, <2>1 DEF FileInv, LastSaved
  <2>4. QED
    BY <2>2, <2>3
<1>6. QED
  BY <1>1, <1>3, <1>4, <1>5 DEF FileInv

LEMMA RotateStep ==
  ASSUME FileInv, NEW s \in Sections, File!Rotate(s)
  PROVE  FileInv'
<1>1. /\ pc[s] = "rotate" /\ pc' = [pc EXCEPT ![s] = "install"]
      /\ dir' = IF dir["primary"] = None THEN dir
                ELSE [dir EXCEPT !["backup"] = dir["primary"], !["primary"] = None]
      /\ UNCHANGED <<up, mem, obj, fd, committed, mishaps>> /\ File!Free(data)
  BY DEF File!Rotate, File!Goto
<1>2. dir' \in [File!Names -> Inodes \cup {None}] /\ dir'["tmp"] = dir["tmp"] /\ dir'["primary"] = None
      /\ dir'["backup"] = IF dir["primary"] = None THEN dir["backup"] ELSE dir["primary"]
  BY <1>1 DEF FileInv, File!TypeOK, File!Names
<1>3. /\ data' \in [Inodes -> File!Docs \cup File!Unparsable] /\ synced' \subseteq synced
      /\ \A n \in File!Names : dir'[n] # None => data'[dir'[n]] = data[dir'[n]]
  BY <1>1, <1>2, FreeKeeps DEF FileInv, File!TypeOK
<1>4. File!TypeOK'
  BY <1>1, <1>2, <1>3 DEF FileInv, File!TypeOK
<1>5. FilesInOrder'
  BY <1>1, <1>2 DEF FileInv, File!TypeOK, FilesInOrder, Active, File!Names
<1>6. ASSUME "overlap" \notin mishaps'
      PROVE  OneSave' /\ LastSaved'
  <2>1. OneSave'
    BY <1>1, <1>2, <1>3, <1>6 DEF FileInv, File!TypeOK, OneSave, Active, File!Names
  <2>2. LastSaved'
    BY <1>1, <1>2, <1>3, <1>6 DEF FileInv, FilesInOrder, File!TypeOK, LastSaved, Active, File!Names
  <2>3. QED
    BY <2>1, <2>2
<1>7. mishaps' = {} => Merging'
  BY <1>1, <1>2, <1>3 DEF FileInv, File!TypeOK, OneSave, Merging, Active, File!Names
<1>8. QED
  BY <1>4, <1>5, <1>6, <1>7 DEF FileInv

LEMMA InstallStep ==
  ASSUME FileInv, NEW s \in Sections, File!Install(s)
  PROVE  FileInv'
<1>1. /\ pc[s] = "install" /\ pc' = [pc EXCEPT ![s] = "idle"]
      /\ dir' = IF dir["tmp"] = None THEN dir ELSE [dir EXCEPT !["primary"] = dir["tmp"], !["tmp"] = None]
      /\ committed' = IF File!Holds("tmp") = None THEN committed ELSE File!Holds("tmp")
      /\ UNCHANGED <<up, mem, obj, fd, mishaps>> /\ File!Free(data)
  BY DEF File!Install, File!Goto
<1>2. dir' \in [File!Names -> Inodes \cup {None}] /\ dir'["tmp"] = None /\ dir'["backup"] = dir["backup"]
      /\ dir'["primary"] = IF dir["tmp"] = None THEN dir["primary"] ELSE dir["tmp"]
  BY <1>1 DEF FileInv, File!TypeOK, File!Names
<1>3. /\ data' \in [Inodes -> File!Docs \cup File!Unparsable] /\ synced' \subseteq synced
      /\ \A n \in File!Names : dir'[n] # None => data'[dir'[n]] = data[dir'[n]]
  BY <1>1, <1>2, FreeKeeps DEF FileInv, File!TypeOK
<1>4. File!TypeOK'
  <2>1. committed' \in File!Docs \cup {None}
    BY <1>1 DEF FileInv, File!TypeOK, File!Holds, File!IsDoc, File!Names
  <2>2. QED
    BY <1>1, <1>2, <1>3, <2>1 DEF FileInv, File!TypeOK
<1>5. FilesInOrder'
  BY <1>1, <1>2 DEF FileInv, File!TypeOK, FilesInOrder, Active, File!Names
<1>6. ASSUME "overlap" \notin mishaps'
      PROVE  /\ OneSave' /\ LastSaved'
             /\ dir["tmp"] # None /\ committed' = data[dir["tmp"]] /\ committed' \in File!Docs
             /\ dir'["primary"] # None
  <2>1. dir["tmp"] # None /\ committed' = data[dir["tmp"]] /\ committed' \in File!Docs
    BY <1>1, <1>6, DocsAreDocs DEF FileInv, OneSave, File!Holds, File!IsDoc, File!Unparsable
  <2>2. OneSave'
    BY <1>1, <1>2, <1>6 DEF FileInv, File!TypeOK, OneSave, Active, File!Names
  <2>3. dir'["primary"] # None /\ data'[dir'["primary"]] = committed'
    BY <1>2, <1>3, <2>1 DEF File!Names
  <2>4. LastSaved'
    BY <2>1, <2>3, DocsAreDocs DEF LastSaved
  <2>5. QED
    BY <2>1, <2>2, <2>3, <2>4
<1>7. ASSUME mishaps' = {}
      PROVE  Merging'
  <2>1. committed' = mem /\ committed' # None
    BY <1>1, <1>6, <1>7, DocsAreDocs DEF FileInv, Merging
  <2>2. \A t \in Sections : ~Active(t)'
    BY <1>1, <1>7 DEF FileInv, File!TypeOK, OneSave, Active
  <2>3. QED
    BY <1>1, <1>6, <1>7, <2>1, <2>2 DEF FileInv, Merging, Active
<1>8. QED
  BY <1>4, <1>5, <1>6, <1>7 DEF FileInv

-----------------------------------------------------------------------------
(* The process and the machine *)

\* Whatever had begun is gone, and the files are as they are but for what the
\* power loses.
LEMMA StopStep ==
  ASSUME FileInv, File!Stop, UNCHANGED <<dir, synced, committed>>,
         NEW kind \in File!MishapNames \ {"overlap"}, mishaps' = mishaps \cup {kind},
         data' \in [Inodes -> File!Docs \cup File!Unparsable],
         kind # "power" => data' = data, up,
         \A i \in synced : data'[i] = data[i]
  PROVE  FileInv'
<1>1. ~up' /\ (\A s \in Sections : pc'[s] = "idle" /\ fd'[s] = None)
  BY DEF File!Stop
<1>2. File!TypeOK'
  <2>1. File!Default \in File!Docs
    BY StoresAssumption DEF File!Docs, File!Default, File!StateFileAssumption
  <2>2. up' \in BOOLEAN /\ mem' \in File!Docs /\ obj' \in [Sections -> File!Docs]
        /\ fd' \in [Sections -> Inodes \cup {None}]
    BY <2>1 DEF File!Stop
  <2>3. pc' \in [Sections -> {"idle", "exists", "parse", "open", "write", "rotate", "install"}]
    BY DEF File!Stop
  <2>4. mishaps' \subseteq File!MishapNames
    BY DEF FileInv, File!TypeOK
  <2>5. QED
    BY <2>2, <2>3, <2>4 DEF FileInv, File!TypeOK
<1>3. FilesInOrder'
  BY <1>1 DEF FileInv, FilesInOrder, Active
<1>4. "overlap" \notin mishaps' => OneSave'
  BY <1>1 DEF OneSave, Active
<1>5. ASSUME "overlap" \notin mishaps'
      PROVE  LastSaved'
  <2>1. LastSaved
    BY <1>5 DEF FileInv
  <2>2. CASE kind = "power"
    BY <2>1, <2>2, <1>1 DEF LastSaved, FileInv, File!TypeOK
  <2>3. CASE kind # "power"
    BY <2>1, <2>3, <1>1 DEF LastSaved
  <2>4. QED
    BY <2>2, <2>3
<1>6. QED
  BY <1>2, <1>3, <1>4, <1>5 DEF FileInv

LEMMA PowerLossStep ==
  ASSUME FileInv, File!PowerLoss
  PROVE  FileInv'
<1>1. PICK lost \in SUBSET {i \in Inodes \ synced : \E n \in File!Names : dir[n] = i} :
        data' = [i \in Inodes |-> IF i \in lost THEN Empty ELSE data[i]]
  BY DEF File!PowerLoss
<1>2. data' \in [Inodes -> File!Docs \cup File!Unparsable]
  BY <1>1 DEF FileInv, File!TypeOK, File!Unparsable
<1>3. \A i \in synced : data'[i] = data[i]
  BY <1>1 DEF FileInv, File!TypeOK
<1>4. QED
  BY <1>2, <1>3, StopStep DEF File!PowerLoss, File!Note, File!MishapNames

LEMMA CrashStep ==
  ASSUME FileInv, File!Crash
  PROVE  FileInv'
  BY StopStep DEF File!Crash, File!Note, File!MishapNames, FileInv, File!TypeOK

LEMMA WriteBackStep ==
  ASSUME FileInv, NEW i \in Inodes, File!WriteBack(i)
  PROVE  FileInv'
<1>1. up /\ synced' = synced \cup {i}
      /\ UNCHANGED <<dir, data, up, mem, pc, obj, fd, committed, mishaps>>
  BY DEF File!WriteBack
<1>2. File!TypeOK'
  BY <1>1 DEF FileInv, File!TypeOK
<1>3. FilesInOrder' /\ ("overlap" \notin mishaps' => OneSave' /\ LastSaved') /\ (mishaps' = {} => Merging')
  BY <1>1 DEF FileInv, FilesInOrder, OneSave, LastSaved, Merging, Active
<1>4. QED
  BY <1>2, <1>3 DEF FileInv

\* What a start loads, as the property states it.
LoadsWhatIsThere ==
  ~up /\ up' /\ dir["primary"] # None =>
    /\ dir["primary"] \in synced /\ "overlap" \notin mishaps => mem' = committed
    /\ File!Holds("primary") = None /\ File!Holds("backup") # None
         => mem' = File!Holds("backup") /\ File!Holds("primary")' = mem'

LEMMA FileRestartStep ==
  ASSUME FileInv, File!Restart
  PROVE  FileInv' /\ LoadsWhatIsThere
<1>1. ~up /\ up' /\ UNCHANGED <<pc, obj, fd, mishaps>> /\ \A s \in Sections : pc[s] = "idle"
  BY DEF File!Restart, FileInv, FilesInOrder, Active
<1>2. mishaps # {}
  BY <1>1 DEF FileInv, Merging
<1>3. PICK doc \in File!Docs :
        /\ mem' = doc
        /\ \/ dir["primary"] = None /\ UNCHANGED <<dir, data, synced, committed>>
           \/ /\ dir["primary"] # None /\ File!Parse(doc)
              /\ committed' = IF dir'["primary"] = None THEN None ELSE doc
  BY DEF File!Restart
<1>4. CASE dir["primary"] = None /\ UNCHANGED <<dir, data, synced, committed>>
  <2>1. File!TypeOK' /\ FilesInOrder'
    BY <1>1, <1>3, <1>4 DEF FileInv, File!TypeOK, FilesInOrder, Active
  <2>2. "overlap" \notin mishaps' => OneSave' /\ LastSaved'
    BY <1>1, <1>4 DEF FileInv, OneSave, LastSaved, Active
  <2>3. QED
    BY <1>1, <1>2, <1>4, <2>1, <2>2 DEF FileInv, LoadsWhatIsThere
<1>5. CASE /\ dir["primary"] # None /\ File!Parse(doc)
           /\ committed' = IF dir'["primary"] = None THEN None ELSE doc
  <2>1. File!TypeOK' /\ FilesInOrder'
    BY <1>1, <1>3, <1>5, ParseKeeps DEF FileInv, File!TypeOK, FilesInOrder, Active
  <2>2. dir'["primary"] # None => data'[dir'["primary"]] = doc /\ committed' = doc /\ doc # None
    BY <1>5, ParseKeeps, DocsAreDocs DEF FileInv
  <2>3. LastSaved'
    BY <1>5, <2>2 DEF LastSaved
  <2>4. OneSave'
    BY <1>1 DEF OneSave, Active
  <2>5. ASSUME dir["primary"] \in synced, "overlap" \notin mishaps
        PROVE  mem' = committed
    <3>1. data[dir["primary"]] = committed /\ committed \in File!Docs
      BY <1>5, <2>5 DEF FileInv, LastSaved, File!TypeOK
    <3>2. File!IsDoc(dir["primary"])
      BY <1>5, <3>1, DocsAreDocs DEF File!IsDoc, File!Unparsable
    <3>3. QED
      BY <1>3, <1>5, <3>1, <3>2 DEF File!Parse
  <2>6. ASSUME File!Holds("primary") = None, File!Holds("backup") # None
        PROVE  mem' = File!Holds("backup") /\ File!Holds("primary")' = mem'
    <3>1. ~File!IsDoc(dir["primary"]) /\ File!IsDoc(dir["backup"])
      BY <2>6, DocsAreDocs DEF File!Holds, File!IsDoc, FileInv, File!TypeOK, File!Unparsable,
         File!Names
    <3>2. dir'["primary"] # None /\ doc = data[dir["backup"]] /\ data'[dir'["primary"]] = doc
      BY <1>5, <3>1, ParseKeeps, DocsAreDocs DEF FileInv, File!IsDoc, File!Unparsable
    <3>3. QED
      BY <1>3, <3>1, <3>2, DocsAreDocs DEF File!Holds, File!IsDoc, File!Unparsable
  <2>7. QED
    BY <1>1, <1>2, <2>1, <2>3, <2>4, <2>5, <2>6 DEF FileInv, LoadsWhatIsThere
<1>6. QED
  BY <1>3, <1>4, <1>5

-----------------------------------------------------------------------------
LEMMA StepFileInv ==
  ASSUME FileInv, File!Next
  PROVE  FileInv' /\ LoadsWhatIsThere
<1>1. ASSUME NEW s \in Sections, File!Save(s)
      PROVE  FileInv' /\ up' = up
  <2>1. FileInv'
    BY <1>1, StartSaveStep, CheckExistsStep, ReadDocumentStep, OpenTmpStep, WriteTmpStep,
       FailWriteStep,
       RotateStep, InstallStep DEF File!Save
  <2>2. up' = up
    BY <1>1 DEF File!Save, File!StartSave, File!CheckExists, File!ReadDocument, File!OpenTmp,
       File!WriteTmp,
       File!FailWrite, File!Rotate, File!Install
  <2>3. QED
    BY <2>1, <2>2
<1>2. ASSUME NEW i \in Inodes, File!WriteBack(i)
      PROVE  FileInv' /\ up' = up
  BY <1>2, WriteBackStep DEF File!WriteBack
<1>3. CASE File!Crash
  BY <1>3, CrashStep DEF File!Crash, File!Stop, LoadsWhatIsThere
<1>4. CASE File!PowerLoss
  BY <1>4, PowerLossStep DEF File!PowerLoss, File!Stop, LoadsWhatIsThere
<1>5. CASE File!Restart
  BY <1>5, FileRestartStep
<1>6. QED
  BY <1>1, <1>2, <1>3, <1>4, <1>5 DEF File!Next, LoadsWhatIsThere

LEMMA StutterFileInv == FileInv /\ UNCHANGED File!vars => FileInv'
  BY DEF File!vars, FileInv, File!TypeOK, FilesInOrder, OneSave, LastSaved, Merging, Active

\* What the invariant says of the files is what the property asks.
LEMMA FileInvSuffices ==
  ASSUME FileInv
  PROVE  File!DocumentSurvives
<1>1. File!CommittedSurvives
  <2>1. SUFFICES ASSUME committed # None, "power" \notin mishaps, "overlap" \notin mishaps
                 PROVE  \/ File!Holds("primary") = committed
                        \/ dir["primary"] = None /\ File!Holds("backup") = committed
    BY DEF File!CommittedSurvives
  <2>2. QED
    BY <2>1, DocsAreDocs DEF FileInv, LastSaved, File!TypeOK, File!Holds, File!IsDoc,
       File!Unparsable
<1>2. File!SeparateSavesMerge
  <2>1. SUFFICES ASSUME mishaps = {}, committed # None, \A s \in Sections : pc[s] = "idle"
                 PROVE  File!Holds("primary") = mem
    BY DEF File!SeparateSavesMerge, File!Idle
  <2>2. dir["primary"] # None /\ data[dir["primary"]] = committed /\ committed \in File!Docs
    BY <2>1 DEF FileInv, Merging, LastSaved, File!TypeOK
  <2>3. mem = committed
    BY <2>1, <2>2 DEF FileInv, Merging, Active, File!TypeOK, File!Docs
  <2>4. QED
    BY <2>2, <2>3, DocsAreDocs DEF File!Holds, File!IsDoc, File!Unparsable
<1>3. QED
  BY <1>1, <1>2 DEF FileInv, File!DocumentSurvives

\* A document that was saved survives failed saves and the end of the process at
\* any step, and saves that do not overlap keep each other's section, for any
\* number of stores, files and saves (AtomicJsonFile::save, load).
THEOREM StoresKeepDocuments == StoresSpec => []DocumentSurvives
<1>1. StoresInit => (part = "file" => FileInv)
  BY InitFileInv DEF StoresInit
<1>2. (part = "file" => FileInv) /\ [StoresNext]_all => (part = "file" => FileInv)'
  BY StepFileInv, StutterFileInv DEF StoresNext, all, fileVars, File!vars
<1>3. (part = "file" => FileInv) => DocumentSurvives
  BY FileInvSuffices DEF DocumentSurvives
<1>4. QED
  BY <1>1, <1>2, <1>3, PTL DEF StoresSpec

\* The next start loads what had reached the disk, and a primary that was lost
\* is replaced by the backup (AtomicJsonFile::load, recover_from_corruption).
THEOREM StoresLoadWhatIsThere == StoresSpec => SurvivingFileIsLoaded
<1>1. StoresInit => (part = "file" => FileInv)
  BY InitFileInv DEF StoresInit
<1>2. (part = "file" => FileInv) /\ [StoresNext]_all => (part = "file" => FileInv)'
  BY StepFileInv, StutterFileInv DEF StoresNext, all, fileVars, File!vars
<1>3. (part = "file" => FileInv) /\ [StoresNext]_all => [LoadsWhatIsThere]_(File!vars)
  BY StepFileInv DEF StoresNext, all, fileVars, File!vars
<1>4. QED
  BY <1>1, <1>2, <1>3, PTL DEF StoresSpec, SurvivingFileIsLoaded, File!SurvivingFileIsLoaded,
     LoadsWhatIsThere

-----------------------------------------------------------------------------
(* The registry *)

\* A request carries what the handlers before it made sure of: from the upload
\* on the manifest is stored, at the flip the archive is too.
NetSafe == \A m \in net :
  /\ m.kind # "create" => manifest[KeyOf(m.build)] # None
  /\ m.kind = "flip" => blob[KeyOf(m.build)] # None

ReaderKey(r) == <<reader[r].slug, reader[r].ver>>

\* What each point of a read request has established.
ReaderSafe == \A r \in Readers :
  /\ reader[r].pc = "pointer" => reader[r].slug \in Slugs
  /\ reader[r].pc \in {"manifest", "listManifest", "answered", "exactManifest", "exactHead"}
       => ReaderKey(r) \in Keys
  /\ reader[r].pc \in {"manifest", "listManifest", "answered"} => HasArtifact(ReaderKey(r))
  /\ reader[r].pc = "exactHead" => manifest[ReaderKey(r)] # None
  /\ reader[r].pc = "downloaded" => reader[r].got # None
  /\ \A entry \in reader[r].listed : HasArtifact(entry[1])

IInv == TypeOK /\ NetSafe /\ LatestHasArtifact /\ PublishedIsInstallable /\ ReaderSafe

-----------------------------------------------------------------------------
LEMMA KeyOfType == \A b \in Builds : KeyOf(b) \in Keys
  BY BuildsAssumption DEF KeyOf, Keys

\* A reply changes the waiting publisher and the requests, to typed values.
LEMMA ReplyType ==
  ASSUME TypeOK, NEW m \in net, NEW stage,
         NEW done \in {"put", "complete", "published", "failed"},
         NEW next, next \subseteq Requests, Reply(m, stage, done, next)
  PROVE  /\ cli' \in [Builds -> {"idle", "create", "put", "complete", "published", "failed"}]
         /\ net' \subseteq Requests
         /\ net' \subseteq net \cup next
         /\ \A b \in Builds : cli'[b] = "published" => cli[b] = "published" \/ (b = m.build /\ done = "published")
  BY DEF TypeOK, Reply, Awaits, Requests

\* What a read route may do to the state of its own request.
LEMMA SetReaderType ==
  ASSUME TypeOK, NEW r \in Readers, NEW next \in ReaderStates, SetReader(r, next)
  PROVE  TypeOK' /\ reader'[r] = next /\ \A q \in Readers \ {r} : reader'[q] = reader[q]
  BY DEF TypeOK, SetReader

LEMMA IdleReaderType == IdleReader \in ReaderStates
  BY DEF IdleReader, ReaderStates

\* No step of anybody removes a stored manifest or archive.
LEMMA ArtifactsStay ==
  ASSUME TypeOK, [Next]_vars
  PROVE  \A k \in Keys : /\ manifest[k] # None => manifest'[k] # None
                         /\ blob[k] # None => blob'[k] # None
<1>1. CASE Publish
  BY <1>1 DEF Publish, StartPublish, FailPublish, PostComplete
<1>2. CASE Serve
  <2>1. PICK m \in net : HandleCreate(m) \/ HandlePut(m) \/ HandleComplete(m) \/ FlipLatest(m) \/ LoseRequest(m)
    BY <1>2 DEF Serve
  <2>2. m.build \in Builds
    BY DEF TypeOK, Requests
  <2>3. CASE HandleCreate(m)
    BY <2>2, <2>3, BuildsAssumption DEF HandleCreate, TypeOK
  <2>4. CASE HandlePut(m)
    BY <2>2, <2>4, BuildsAssumption DEF HandlePut, TypeOK
  <2>5. CASE HandleComplete(m) \/ FlipLatest(m) \/ LoseRequest(m)
    BY <2>5 DEF HandleComplete, FlipLatest, LoseRequest
  <2>6. QED
    BY <2>1, <2>3, <2>4, <2>5
<1>3. CASE Read
  BY <1>3 DEF Read, SetReader, StartLatest, StartExact, StartList, GetLatestPointer, GetLatestManifest,
              GetExactManifest, GetExactHead, Download, ListPointer, ListManifest, FinishList
<1>4. CASE UNCHANGED vars
  BY <1>4 DEF vars
<1>5. QED
  BY <1>1, <1>2, <1>3, <1>4 DEF Next

-----------------------------------------------------------------------------
\* The publisher's own steps send create requests, and complete requests for
\* versions whose manifest is stored.
LEMMA PublishStep ==
  ASSUME IInv, Publish
  PROVE  IInv'
<1>1. PICK b \in Builds : StartPublish(b) \/ FailPublish(b) \/ PostComplete(b)
  BY DEF Publish
<1>2. UNCHANGED <<manifest, blob, latest, reader>>
  BY <1>1 DEF StartPublish, FailPublish, PostComplete
<1>3. TypeOK' /\ NetSafe'
  <2>1. CASE StartPublish(b)
    BY <2>1, <1>2 DEF IInv, TypeOK, NetSafe, StartPublish, Requests
  <2>2. CASE FailPublish(b)
    BY <2>2, <1>2 DEF IInv, TypeOK, NetSafe, FailPublish
  <2>3. CASE PostComplete(b)
    BY <2>3, <1>2 DEF IInv, TypeOK, NetSafe, PostComplete, Requests
  <2>4. QED
    BY <1>1, <2>1, <2>2, <2>3
<1>4. LatestHasArtifact' /\ ReaderSafe'
  BY <1>2 DEF IInv, LatestHasArtifact, ReaderSafe, HasArtifact, ReaderKey
<1>5. PublishedIsInstallable'
  BY <1>1, <1>2 DEF IInv, TypeOK, PublishedIsInstallable, HasArtifact,
                    StartPublish, FailPublish, PostComplete
<1>6. QED
  BY <1>3, <1>4, <1>5 DEF IInv

\* A served request hands on to the next one only what it made sure of, and
\* the pointer is written from a request that saw the archive.
LEMMA ServeStep ==
  ASSUME IInv, Serve
  PROVE  IInv'
<1>1. PICK m \in net : HandleCreate(m) \/ HandlePut(m) \/ HandleComplete(m) \/ FlipLatest(m) \/ LoseRequest(m)
  BY DEF Serve
<1>2. /\ m \in Requests /\ m.build \in Builds /\ KeyOf(m.build) \in Keys
      /\ SlugOf[m.build] \in Slugs /\ VersionOf[m.build] \in Versions
      /\ None \notin Builds /\ None \notin Versions
  BY KeyOfType, BuildsAssumption DEF IInv, TypeOK, Requests
<1>3. UNCHANGED reader
  BY <1>1 DEF HandleCreate, HandlePut, HandleComplete, FlipLatest, LoseRequest
<1>4. \A k \in Keys : /\ manifest[k] # None => manifest'[k] # None
                      /\ blob[k] # None => blob'[k] # None
  BY ArtifactsStay DEF IInv, Next
<1>5. ASSUME NEW k \in Keys, HasArtifact(k)
      PROVE  HasArtifact(k)'
  BY <1>4, <1>5 DEF HasArtifact
<1>6. \A kind \in {"put", "complete", "flip"} : [m EXCEPT !.kind = kind] = [kind |-> kind, build |-> m.build, run |-> m.run]
  BY <1>2 DEF Requests
<1>7. TypeOK' /\ NetSafe'
  <2>1. CASE HandleCreate(m)
    <3> DEFINE next == {[kind |-> "put", build |-> m.build, run |-> m.run]}
    <3>1. Reply(m, "create", "put", next) /\ manifest' = [manifest EXCEPT ![KeyOf(m.build)] = m.build]
          /\ UNCHANGED <<blob, latest, attempt, reader>>
      BY <2>1, <1>6 DEF HandleCreate
    <3>2. next \subseteq Requests
      BY <1>2 DEF Requests
    <3>3. cli' \in [Builds -> {"idle", "create", "put", "complete", "published", "failed"}]
          /\ net' \subseteq Requests /\ net' \subseteq net \cup next
      BY <3>1, <3>2, ReplyType DEF IInv
    <3>4. TypeOK'
      BY <3>1, <3>3, <1>2 DEF IInv, TypeOK
    <3>5. manifest'[KeyOf(m.build)] # None
      BY <3>1, <1>2 DEF IInv, TypeOK
    <3>6. NetSafe'
      <4>1. SUFFICES ASSUME NEW x \in net'
                     PROVE  /\ x.kind # "create" => manifest'[KeyOf(x.build)] # None
                            /\ x.kind = "flip" => blob'[KeyOf(x.build)] # None
        BY DEF NetSafe, KeyOf
      <4>2. CASE x \in net
        <5>1. KeyOf(x.build) \in Keys
          BY <4>2, KeyOfType DEF IInv, TypeOK, Requests
        <5>2. QED
          BY <4>2, <5>1, <1>4 DEF IInv, NetSafe
      <4>3. CASE x \in next
        BY <4>3, <3>5
      <4>4. QED
        BY <3>3, <4>2, <4>3
    <3>7. QED
      BY <3>4, <3>6
  <2>2. CASE HandlePut(m)
    <3> DEFINE next == {[kind |-> "complete", build |-> m.build, run |-> m.run]}
    <3>1. Reply(m, "put", "complete", next) /\ blob' = [blob EXCEPT ![KeyOf(m.build)] = m.build]
          /\ m.kind = "put" /\ UNCHANGED <<manifest, latest, attempt, reader>>
      BY <2>2, <1>6 DEF HandlePut
    <3>2. next \subseteq Requests
      BY <1>2 DEF Requests
    <3>3. cli' \in [Builds -> {"idle", "create", "put", "complete", "published", "failed"}]
          /\ net' \subseteq Requests /\ net' \subseteq net \cup next
      BY <3>1, <3>2, ReplyType DEF IInv
    <3>4. TypeOK'
      BY <3>1, <3>3, <1>2 DEF IInv, TypeOK
    <3>5. NetSafe'
      BY <3>1, <3>3, <1>4, KeyOfType DEF IInv, NetSafe, TypeOK, Requests, KeyOf
    <3>6. QED
      BY <3>4, <3>5
  <2>3. CASE HandleComplete(m)
    <3> DEFINE next == {[kind |-> "flip", build |-> m.build, run |-> m.run]}
    <3>1. m.kind = "complete" /\ UNCHANGED <<manifest, blob, latest, attempt, reader>>
      BY <2>3 DEF HandleComplete
    <3>2. CASE blob[KeyOf(m.build)] = None /\ Reply(m, "complete", "failed", {})
      <4>1. cli' \in [Builds -> {"idle", "create", "put", "complete", "published", "failed"}]
            /\ net' \subseteq Requests /\ net' \subseteq net
        BY <3>2 DEF IInv, TypeOK, Reply
      <4>2. QED
        BY <4>1, <3>1 DEF IInv, TypeOK, NetSafe
    <3>3. CASE blob[KeyOf(m.build)] # None /\ net' = (net \ {m}) \cup next /\ UNCHANGED cli
      BY <3>1, <3>3, <1>2 DEF IInv, TypeOK, NetSafe, Requests
    <3>4. QED
      BY <2>3, <3>2, <3>3, <1>6 DEF HandleComplete
  <2>4. CASE FlipLatest(m)
    <3>1. Reply(m, "complete", "published", {}) /\ UNCHANGED <<manifest, blob, attempt, reader>>
          /\ latest' = [latest EXCEPT ![SlugOf[m.build]] = VersionOf[m.build]]
      BY <2>4 DEF FlipLatest
    <3>2. cli' \in [Builds -> {"idle", "create", "put", "complete", "published", "failed"}]
          /\ net' \subseteq Requests /\ net' \subseteq net
      BY <3>1 DEF IInv, TypeOK, Reply
    <3>3. QED
      BY <3>1, <3>2, <1>2 DEF IInv, TypeOK, NetSafe
  <2>5. CASE LoseRequest(m)
    BY <2>5 DEF LoseRequest, IInv, TypeOK, NetSafe
  <2>6. QED
    BY <1>1, <2>1, <2>2, <2>3, <2>4, <2>5
<1>8. /\ \A s \in Slugs : latest[s] # None => latest'[s] # None
      /\ LatestHasArtifact'
  <2>1. CASE FlipLatest(m)
    <3>1. HasArtifact(KeyOf(m.build)) /\ KeyOf(m.build) = <<SlugOf[m.build], VersionOf[m.build]>>
      BY <2>1 DEF FlipLatest, IInv, NetSafe, HasArtifact, KeyOf
    <3>2. latest' = [latest EXCEPT ![SlugOf[m.build]] = VersionOf[m.build]] /\ UNCHANGED <<manifest, blob>>
      BY <2>1 DEF FlipLatest
    <3>3. QED
      BY <3>1, <3>2, <1>2 DEF IInv, TypeOK, LatestHasArtifact, HasArtifact
  <2>2. CASE ~FlipLatest(m)
    <3>1. UNCHANGED latest
      BY <1>1, <2>2 DEF HandleCreate, HandlePut, HandleComplete, LoseRequest
    <3>2. ASSUME NEW s \in Slugs, latest[s] # None PROVE <<s, latest[s]>> \in Keys
      BY <3>2 DEF IInv, TypeOK, Keys
    <3>3. QED
      BY <3>1, <3>2, <1>5 DEF IInv, LatestHasArtifact
  <2>3. QED
    BY <2>1, <2>2
<1>9. PublishedIsInstallable'
  <2>1. SUFFICES ASSUME NEW b \in Builds, cli'[b] = "published"
                 PROVE  latest'[SlugOf[b]] # None /\ HasArtifact(KeyOf(b))'
    BY DEF PublishedIsInstallable
  <2>2. CASE cli[b] = "published"
    BY <2>2, <1>5, <1>8, KeyOfType, BuildsAssumption DEF IInv, PublishedIsInstallable
  <2>3. CASE cli[b] # "published"
    <3>1. FlipLatest(m) /\ b = m.build
      BY <1>1, <2>1, <2>3 DEF HandleCreate, HandlePut, HandleComplete, FlipLatest, LoseRequest, Reply, IInv, TypeOK
    <3>2. HasArtifact(KeyOf(b)) /\ latest'[SlugOf[b]] = VersionOf[b]
      BY <3>1, <1>2 DEF FlipLatest, IInv, NetSafe, HasArtifact, TypeOK
    <3>3. QED
      BY <3>1, <3>2, <1>2, <1>5
  <2>4. QED
    BY <2>2, <2>3
<1>10. ReaderSafe'
  <2>1. SUFFICES ASSUME NEW r \in Readers
                 PROVE  /\ reader[r].pc = "pointer" => reader[r].slug \in Slugs
                        /\ reader[r].pc \in {"manifest", "listManifest", "answered", "exactManifest", "exactHead"}
                             => ReaderKey(r) \in Keys
                        /\ reader[r].pc \in {"manifest", "listManifest", "answered"} => HasArtifact(ReaderKey(r))'
                        /\ reader[r].pc = "exactHead" => manifest'[ReaderKey(r)] # None
                        /\ reader[r].pc = "downloaded" => reader[r].got # None
                        /\ \A entry \in reader[r].listed : HasArtifact(entry[1])'
    BY <1>3 DEF ReaderSafe, ReaderKey, HasArtifact
  <2>2. reader[r] \in ReaderStates
    BY DEF IInv, TypeOK
  <2>3. ASSUME NEW entry \in reader[r].listed
        PROVE  HasArtifact(entry[1])'
    <3>1. entry[1] \in Keys
      BY <2>2 DEF ReaderStates
    <3>2. QED
      BY <3>1, <1>5 DEF IInv, ReaderSafe
  <2>4. QED
    BY <1>3, <1>4, <1>5, <2>3 DEF IInv, ReaderSafe, ReaderKey, HasArtifact
<1>11. QED
  BY <1>7, <1>8, <1>9, <1>10 DEF IInv

-----------------------------------------------------------------------------
\* What a read request may become.
ReaderOk(x) ==
  /\ x.pc = "pointer" => x.slug \in Slugs
  /\ x.pc \in {"manifest", "listManifest", "answered", "exactManifest", "exactHead"} => <<x.slug, x.ver>> \in Keys
  /\ x.pc \in {"manifest", "listManifest", "answered"} => HasArtifact(<<x.slug, x.ver>>)
  /\ x.pc = "exactHead" => manifest[<<x.slug, x.ver>>] # None
  /\ x.pc = "downloaded" => x.got # None
  /\ \A entry \in x.listed : HasArtifact(entry[1])

\* A step that takes one read request to such a state preserves everything.
LEMMA SetReaderSafe ==
  ASSUME IInv, NEW r \in Readers, NEW next \in ReaderStates, ReaderOk(next), SetReader(r, next)
  PROVE  IInv'
<1>1. TypeOK' /\ reader'[r] = next /\ \A q \in Readers \ {r} : reader'[q] = reader[q]
  BY SetReaderType DEF IInv
<1>2. UNCHANGED <<manifest, blob, latest, cli, attempt, net>>
  BY DEF SetReader
<1>3. NetSafe' /\ LatestHasArtifact' /\ PublishedIsInstallable'
  BY <1>2 DEF IInv, NetSafe, LatestHasArtifact, PublishedIsInstallable, HasArtifact
<1>4. ReaderSafe'
  BY <1>1, <1>2 DEF IInv, ReaderSafe, ReaderOk, ReaderKey, HasArtifact
<1>5. QED
  BY <1>1, <1>3, <1>4 DEF IInv

LEMMA IdleReaderOk == IdleReader \in ReaderStates /\ ReaderOk(IdleReader)
  BY IdleReaderType DEF IdleReader, ReaderOk

\* A read request learns a version from a safe pointer or from its URL, and
\* never keeps it after a failed lookup.
LEMMA ReadStep ==
  ASSUME IInv, Read
  PROVE  IInv'
<1>1. PICK r \in Readers :
        \/ \E s \in Slugs : StartLatest(r, s) \/ \E v \in Versions : StartExact(r, s, v)
        \/ StartList(r)
        \/ GetLatestPointer(r) \/ GetLatestManifest(r)
        \/ GetExactManifest(r) \/ GetExactHead(r)
        \/ Download(r)
        \/ ListPointer(r) \/ ListManifest(r) \/ FinishList(r)
  BY DEF Read
<1> DEFINE x == reader[r]
           k == <<x.slug, x.ver>>
<1>2. x \in ReaderStates /\ ReaderOk(x)
  BY DEF IInv, TypeOK, ReaderSafe, ReaderOk, ReaderKey
<1>3. None \notin Versions /\ None \notin Builds /\ None \notin Slugs
  BY BuildsAssumption
<1>4. \A s \in Slugs : \A v \in ReadJson(latest[s]) :
        v \in Versions \cup {None} /\ (v # None => HasArtifact(<<s, v>>))
  BY DEF IInv, TypeOK, LatestHasArtifact, ReadJson
<1>5. \A key \in Keys : \A b \in ReadJson(manifest[key]) :
        b \in Builds \cup {None} /\ (b # None => manifest[key] # None)
  BY DEF IInv, TypeOK, ReadJson
<1>6. CASE \E s \in Slugs : StartLatest(r, s)
  <2>1. PICK s \in Slugs : StartLatest(r, s)
    BY <1>6
  <2> DEFINE next == [IdleReader EXCEPT !.pc = "pointer", !.slug = s]
  <2>2. next \in ReaderStates /\ ReaderOk(next)
    BY DEF ReaderStates, ReaderOk, IdleReader
  <2>3. QED
    BY <2>1, <2>2, SetReaderSafe DEF StartLatest
<1>7. CASE \E s \in Slugs, v \in Versions : StartExact(r, s, v)
  <2>1. PICK s \in Slugs, v \in Versions : StartExact(r, s, v)
    BY <1>7
  <2> DEFINE next == [IdleReader EXCEPT !.pc = "exactManifest", !.slug = s, !.ver = v]
  <2>2. next \in ReaderStates /\ ReaderOk(next)
    BY DEF ReaderStates, ReaderOk, IdleReader, Keys
  <2>3. QED
    BY <2>1, <2>2, SetReaderSafe DEF StartExact
<1>8. CASE StartList(r)
  <2> DEFINE next == [IdleReader EXCEPT !.pc = "list",
                        !.todo = {s \in Slugs : \E v \in Versions : manifest[<<s, v>>] # None}]
  <2>1. next \in ReaderStates /\ ReaderOk(next)
    BY DEF ReaderStates, ReaderOk, IdleReader
  <2>2. QED
    BY <1>8, <2>1, SetReaderSafe DEF StartList
<1>9. CASE GetLatestPointer(r)
  <2>1. PICK v \in ReadJson(latest[x.slug]) :
          SetReader(r, IF v = None THEN IdleReader ELSE [x EXCEPT !.pc = "manifest", !.ver = v])
    BY <1>9 DEF GetLatestPointer
  <2>2. x.slug \in Slugs /\ v \in Versions \cup {None} /\ (v # None => HasArtifact(<<x.slug, v>>))
    BY <1>2, <1>4, <1>9 DEF GetLatestPointer, ReaderOk
  <2> DEFINE next == [x EXCEPT !.pc = "manifest", !.ver = v]
  <2>3. v # None => next \in ReaderStates /\ ReaderOk(next)
    BY <1>2, <2>2 DEF ReaderStates, ReaderOk, Keys
  <2>4. QED
    BY <2>1, <2>3, IdleReaderOk, SetReaderSafe
<1>10. CASE GetLatestManifest(r) \/ GetExactManifest(r)
  <2>1. k \in Keys
    BY <1>2, <1>10 DEF GetLatestManifest, GetExactManifest, ReaderOk
  <2>2. PICK label \in {"answered", "exactHead"}, b \in ReadJson(manifest[k]) :
          /\ SetReader(r, IF b = None THEN IdleReader ELSE [x EXCEPT !.pc = label, !.man = b])
          /\ label = "answered" => HasArtifact(k)
    BY <1>2, <1>10 DEF GetLatestManifest, GetExactManifest, ReaderOk
  <2>3. b \in Builds \cup {None} /\ (b # None => manifest[k] # None)
    BY <1>5, <2>1
  <2> DEFINE next == [x EXCEPT !.pc = label, !.man = b]
  <2>4. b # None => next \in ReaderStates /\ ReaderOk(next)
    BY <1>2, <2>1, <2>2, <2>3 DEF ReaderStates, ReaderOk
  <2>5. QED
    BY <2>2, <2>4, IdleReaderOk, SetReaderSafe
<1>11. CASE GetExactHead(r)
  <2> DEFINE next == [x EXCEPT !.pc = "answered"]
  <2>1. SetReader(r, IF blob[k] = None THEN IdleReader ELSE next) /\ x.pc = "exactHead"
    BY <1>11 DEF GetExactHead
  <2>2. blob[k] # None => next \in ReaderStates /\ ReaderOk(next)
    BY <1>2, <2>1 DEF ReaderStates, ReaderOk, HasArtifact
  <2>3. QED
    BY <2>1, <2>2, IdleReaderOk, SetReaderSafe
<1>12. CASE Download(r)
  <2> DEFINE next == [x EXCEPT !.pc = "downloaded", !.got = blob[k]]
  <2>1. SetReader(r, next) /\ x.pc = "answered"
    BY <1>12 DEF Download
  <2>2. k \in Keys /\ blob[k] \in Builds /\ blob[k] # None
    BY <1>2, <2>1 DEF ReaderOk, HasArtifact, IInv, TypeOK
  <2>3. next \in ReaderStates /\ ReaderOk(next)
    BY <1>2, <2>2 DEF ReaderStates, ReaderOk
  <2>4. QED
    BY <2>1, <2>3, SetReaderSafe
<1>13. CASE ListPointer(r)
  <2>0. PICK s \in x.todo : \E v \in ReadJson(latest[s]) :
          SetReader(r, [x EXCEPT !.todo = @ \ {s}, !.slug = s, !.ver = v,
                                 !.pc = IF v = None THEN "list" ELSE "listManifest"])
    BY <1>13 DEF ListPointer
  <2>1. PICK v \in ReadJson(latest[s]) :
          SetReader(r, [x EXCEPT !.todo = @ \ {s}, !.slug = s, !.ver = v,
                                 !.pc = IF v = None THEN "list" ELSE "listManifest"])
    BY <2>0
  <2> DEFINE next == [x EXCEPT !.todo = @ \ {s}, !.slug = s, !.ver = v,
                               !.pc = IF v = None THEN "list" ELSE "listManifest"]
  <2>2. s \in Slugs /\ v \in Versions \cup {None} /\ (v # None => HasArtifact(<<s, v>>))
    BY <1>2, <1>4, <2>1 DEF ReaderStates
  <2>3. next \in ReaderStates /\ ReaderOk(next)
    BY <1>2, <2>2 DEF ReaderStates, ReaderOk, Keys
  <2>4. QED
    BY <2>1, <2>3, SetReaderSafe
<1>14. CASE ListManifest(r)
  <2>1. k \in Keys /\ HasArtifact(k)
    BY <1>2, <1>14 DEF ListManifest, ReaderOk
  <2>2. PICK b \in ReadJson(manifest[k]) :
          SetReader(r, [x EXCEPT !.pc = "list", !.listed = IF b = None THEN @ ELSE @ \cup {<<k, b>>}])
    BY <1>14 DEF ListManifest
  <2> DEFINE next == [x EXCEPT !.pc = "list", !.listed = IF b = None THEN @ ELSE @ \cup {<<k, b>>}]
  <2>3. b # None => <<k, b>> \in Keys \X Builds
    BY <1>5, <2>1, <2>2
  <2>4. next \in ReaderStates /\ ReaderOk(next)
    <3>1. next \in ReaderStates
      BY <1>2, <2>3 DEF ReaderStates
    <3>2. \A entry \in next.listed : entry \in x.listed \/ entry = <<k, b>>
      BY <1>2 DEF ReaderStates
    <3>3. \A entry \in next.listed : HasArtifact(entry[1])
      BY <1>2, <2>1, <3>2 DEF ReaderOk
    <3>4. next.pc = "list"
      BY <1>2 DEF ReaderStates
    <3>5. QED
      BY <3>1, <3>3, <3>4 DEF ReaderOk
  <2>5. QED
    BY <2>2, <2>4, SetReaderSafe
<1>15. CASE FinishList(r)
  <2> DEFINE next == [x EXCEPT !.pc = "listed"]
  <2>1. SetReader(r, next)
    BY <1>15 DEF FinishList
  <2>2. next \in ReaderStates /\ ReaderOk(next)
    BY <1>2 DEF ReaderStates, ReaderOk
  <2>3. QED
    BY <2>1, <2>2, SetReaderSafe
<1>16. QED
  BY <1>1, <1>6, <1>7, <1>8, <1>9, <1>10, <1>11, <1>12, <1>13, <1>14, <1>15

LEMMA InitIInv == Init => IInv
  BY DEF Init, IInv, TypeOK, NetSafe, LatestHasArtifact, PublishedIsInstallable, ReaderSafe,
         ReaderKey, IdleReader, ReaderStates

LEMMA StepIInv == IInv /\ [Next]_vars => IInv'
<1>1. CASE UNCHANGED vars
  BY <1>1 DEF vars, IInv, TypeOK, NetSafe, LatestHasArtifact, PublishedIsInstallable, ReaderSafe,
              ReaderKey, HasArtifact
<1>2. QED
  BY <1>1, PublishStep, ServeStep, ReadStep DEF Next

-----------------------------------------------------------------------------
\* The inductive invariant holds in every behaviour of the registry.
THEOREM RegistryInvariant == Spec => []IInv
<1>1. Init => IInv
  BY InitIInv
<1>2. IInv /\ [Next]_vars => IInv'
  BY StepIInv
<1>3. QED
  BY <1>1, <1>2, PTL DEF Spec

\* Whatever publishes interleave or fail, `latest` names a version that has
\* both its manifest and its archive (handleCompleteVersion).
THEOREM LatestAlwaysHasArtifact == Spec => []LatestHasArtifact
<1>1. IInv => LatestHasArtifact
  BY DEF IInv
<1>2. QED
  BY <1>1, RegistryInvariant, PTL

\* A publish that reported success left an app that resolves and can be fetched.
THEOREM PublishedAlwaysInstallable == Spec => []PublishedIsInstallable
<1>1. IInv => PublishedIsInstallable
  BY DEF IInv
<1>2. QED
  BY <1>1, RegistryInvariant, PTL

\* No download URL handed out by a read route ever answers 404.
THEOREM DownloadsAlwaysSucceed == Spec => []DownloadSucceeds
<1>1. IInv => DownloadSucceeds
  BY DEF IInv, ReaderSafe, DownloadSucceeds
<1>2. QED
  BY <1>1, RegistryInvariant, PTL

-----------------------------------------------------------------------------
(* What is stored under a slug and a version was packed under them, and what a
   reader holds was stored under what it asks for. *)

\* `b` was packed under the key `k`.
PackedAs(b, k) == b \in Builds /\ KeyOf(b) = k

StoredAsNamed == \A k \in Keys :
  /\ manifest[k] # None => PackedAs(manifest[k], k)
  /\ blob[k] # None => PackedAs(blob[k], k)

HeldAsNamed == \A r \in Readers :
  /\ reader[r].pc \in {"exactHead", "answered", "downloaded"} => PackedAs(reader[r].man, ReaderKey(r))
  /\ reader[r].pc = "downloaded" => PackedAs(reader[r].got, ReaderKey(r))

Named == StoredAsNamed /\ HeldAsNamed

\* Only an upload stores anything, and it does so under the key of its build.
LEMMA StoredStep ==
  ASSUME IInv, StoredAsNamed, [Next]_vars
  PROVE  StoredAsNamed'
<1>1. CASE Publish
  BY <1>1 DEF Publish, StartPublish, FailPublish, PostComplete, StoredAsNamed, PackedAs
<1>2. CASE Serve
  <2>1. PICK m \in net : HandleCreate(m) \/ HandlePut(m) \/ HandleComplete(m) \/ FlipLatest(m) \/ LoseRequest(m)
    BY <1>2 DEF Serve
  <2>2. PackedAs(m.build, KeyOf(m.build)) /\ KeyOf(m.build) \in Keys
    BY KeyOfType DEF IInv, TypeOK, Requests, PackedAs
  <2>3. CASE HandleCreate(m)
    BY <2>2, <2>3 DEF HandleCreate, StoredAsNamed, IInv, TypeOK
  <2>4. CASE HandlePut(m)
    BY <2>2, <2>4 DEF HandlePut, StoredAsNamed, IInv, TypeOK
  <2>5. CASE HandleComplete(m) \/ FlipLatest(m) \/ LoseRequest(m)
    BY <2>5 DEF HandleComplete, FlipLatest, LoseRequest, StoredAsNamed
  <2>6. QED
    BY <2>1, <2>3, <2>4, <2>5
<1>3. CASE Read
  BY <1>3 DEF Read, SetReader, StartLatest, StartExact, StartList, GetLatestPointer, GetLatestManifest,
              GetExactManifest, GetExactHead, Download, ListPointer, ListManifest, FinishList, StoredAsNamed
<1>4. CASE UNCHANGED vars
  BY <1>4 DEF vars, StoredAsNamed
<1>5. QED
  BY <1>1, <1>2, <1>3, <1>4 DEF Next

\* What a read request may hold once it has become `x`.
HoldsAsNamed(x) ==
  /\ x.pc \in {"exactHead", "answered", "downloaded"} => PackedAs(x.man, <<x.slug, x.ver>>)
  /\ x.pc = "downloaded" => PackedAs(x.got, <<x.slug, x.ver>>)

LEMMA SetReaderNamed ==
  ASSUME IInv, HeldAsNamed, NEW r \in Readers, NEW next, HoldsAsNamed(next), SetReader(r, next)
  PROVE  HeldAsNamed'
<1>1. reader'[r] = next /\ \A q \in Readers \ {r} : reader'[q] = reader[q]
  BY DEF SetReader, IInv, TypeOK
<1>2. QED
  BY <1>1 DEF HeldAsNamed, HoldsAsNamed, ReaderKey, PackedAs

\* A reader takes a manifest and an archive from the key it has resolved, and
\* keeps that key until it is done.
LEMMA HeldStep ==
  ASSUME IInv, Named, [Next]_vars
  PROVE  HeldAsNamed'
<1>1. CASE UNCHANGED reader
  BY <1>1 DEF Named, HeldAsNamed, ReaderKey, PackedAs
<1>2. CASE Read
  <2>1. PICK r \in Readers :
          \/ \E s \in Slugs : StartLatest(r, s) \/ \E v \in Versions : StartExact(r, s, v)
          \/ StartList(r)
          \/ GetLatestPointer(r) \/ GetLatestManifest(r)
          \/ GetExactManifest(r) \/ GetExactHead(r)
          \/ Download(r)
          \/ ListPointer(r) \/ ListManifest(r) \/ FinishList(r)
    BY <1>2 DEF Read
  <2> DEFINE x == reader[r]
             k == <<x.slug, x.ver>>
  <2>2. x \in ReaderStates /\ HoldsAsNamed(x) /\ ReaderOk(x) /\ HeldAsNamed
    BY DEF IInv, TypeOK, Named, HeldAsNamed, HoldsAsNamed, ReaderKey, ReaderSafe, ReaderOk
  <2>3. HoldsAsNamed(IdleReader)
    BY DEF HoldsAsNamed, IdleReader
  <2>5. CASE \E s \in Slugs : StartLatest(r, s)
    <3>1. PICK s \in Slugs : SetReader(r, [IdleReader EXCEPT !.pc = "pointer", !.slug = s])
      BY <2>5 DEF StartLatest
    <3>2. HoldsAsNamed([IdleReader EXCEPT !.pc = "pointer", !.slug = s])
      BY DEF HoldsAsNamed, IdleReader
    <3>3. QED
      BY <2>2, <3>1, <3>2, SetReaderNamed
  <2>6. CASE \E s \in Slugs, v \in Versions : StartExact(r, s, v)
    <3>1. PICK s \in Slugs, v \in Versions :
            SetReader(r, [IdleReader EXCEPT !.pc = "exactManifest", !.slug = s, !.ver = v])
      BY <2>6 DEF StartExact
    <3>2. HoldsAsNamed([IdleReader EXCEPT !.pc = "exactManifest", !.slug = s, !.ver = v])
      BY DEF HoldsAsNamed, IdleReader
    <3>3. QED
      BY <2>2, <3>1, <3>2, SetReaderNamed
  <2>7. CASE StartList(r)
    <3> DEFINE next == [IdleReader EXCEPT !.pc = "list",
                          !.todo = {s \in Slugs : \E v \in Versions : manifest[<<s, v>>] # None}]
    <3>1. HoldsAsNamed(next)
      BY DEF HoldsAsNamed, IdleReader
    <3>2. QED
      BY <2>2, <2>7, <3>1, SetReaderNamed DEF StartList
  <2>8. CASE GetLatestPointer(r)
    <3>1. PICK v \in ReadJson(latest[x.slug]) :
            SetReader(r, IF v = None THEN IdleReader ELSE [x EXCEPT !.pc = "manifest", !.ver = v])
      BY <2>8 DEF GetLatestPointer
    <3>2. HoldsAsNamed([x EXCEPT !.pc = "manifest", !.ver = v])
      BY <2>2 DEF HoldsAsNamed, ReaderStates
    <3>3. QED
      BY <2>2, <2>3, <3>1, <3>2, SetReaderNamed
  <2>9. CASE GetLatestManifest(r) \/ GetExactManifest(r)
    <3>1. PICK label \in {"answered", "exactHead"}, b \in ReadJson(manifest[k]) :
            SetReader(r, IF b = None THEN IdleReader ELSE [x EXCEPT !.pc = label, !.man = b])
      BY <2>9 DEF GetLatestManifest, GetExactManifest
    <3>2. k \in Keys
      BY <2>2, <2>9 DEF GetLatestManifest, GetExactManifest, ReaderOk
    <3>3. b # None => PackedAs(b, k)
      BY <3>1, <3>2 DEF ReadJson, Named, StoredAsNamed
    <3>4. b # None => HoldsAsNamed([x EXCEPT !.pc = label, !.man = b])
      BY <2>2, <3>1, <3>3 DEF HoldsAsNamed, ReaderStates
    <3>5. QED
      BY <2>2, <2>3, <3>1, <3>4, SetReaderNamed
  <2>10. CASE GetExactHead(r)
    <3>1. SetReader(r, IF blob[k] = None THEN IdleReader ELSE [x EXCEPT !.pc = "answered"]) /\ x.pc = "exactHead"
      BY <2>10 DEF GetExactHead
    <3>2. HoldsAsNamed([x EXCEPT !.pc = "answered"])
      BY <2>2, <3>1 DEF HoldsAsNamed, ReaderStates
    <3>3. QED
      BY <2>2, <2>3, <3>1, <3>2, SetReaderNamed
  <2>11. CASE Download(r)
    <3>1. SetReader(r, [x EXCEPT !.pc = "downloaded", !.got = blob[k]]) /\ x.pc = "answered"
      BY <2>11 DEF Download
    <3>2. k \in Keys /\ blob[k] # None
      BY <2>2, <3>1 DEF ReaderOk, HasArtifact
    <3>3. HoldsAsNamed([x EXCEPT !.pc = "downloaded", !.got = blob[k]])
      BY <2>2, <3>1, <3>2 DEF HoldsAsNamed, ReaderStates, Named, StoredAsNamed
    <3>4. QED
      BY <2>2, <3>1, <3>3, SetReaderNamed
  <2>12. CASE ListPointer(r)
    <3>0. PICK s \in x.todo : \E v \in ReadJson(latest[s]) :
            SetReader(r, [x EXCEPT !.todo = @ \ {s}, !.slug = s, !.ver = v,
                                   !.pc = IF v = None THEN "list" ELSE "listManifest"])
      BY <2>12 DEF ListPointer
    <3>1. PICK v \in ReadJson(latest[s]) :
            SetReader(r, [x EXCEPT !.todo = @ \ {s}, !.slug = s, !.ver = v,
                                   !.pc = IF v = None THEN "list" ELSE "listManifest"])
      BY <3>0
    <3>2. HoldsAsNamed([x EXCEPT !.todo = @ \ {s}, !.slug = s, !.ver = v,
                                 !.pc = IF v = None THEN "list" ELSE "listManifest"])
      BY <2>2 DEF HoldsAsNamed, ReaderStates
    <3>3. QED
      BY <2>2, <3>1, <3>2, SetReaderNamed
  <2>13. CASE ListManifest(r)
    <3>1. PICK b \in ReadJson(manifest[k]) :
            SetReader(r, [x EXCEPT !.pc = "list", !.listed = IF b = None THEN @ ELSE @ \cup {<<k, b>>}])
      BY <2>13 DEF ListManifest
    <3>2. HoldsAsNamed([x EXCEPT !.pc = "list", !.listed = IF b = None THEN @ ELSE @ \cup {<<k, b>>}])
      BY <2>2 DEF HoldsAsNamed, ReaderStates
    <3>3. QED
      BY <2>2, <3>1, <3>2, SetReaderNamed
  <2>14. CASE FinishList(r)
    <3>1. HoldsAsNamed([x EXCEPT !.pc = "listed"])
      BY <2>2 DEF HoldsAsNamed, ReaderStates
    <3>2. QED
      BY <2>2, <2>14, <3>1, SetReaderNamed DEF FinishList
  <2>15. QED
    BY <2>1, <2>5, <2>6, <2>7, <2>8, <2>9, <2>10, <2>11, <2>12, <2>13, <2>14
<1>3. Read \/ UNCHANGED reader
  BY DEF Next, vars, Publish, StartPublish, FailPublish, PostComplete, Serve, HandleCreate, HandlePut,
         HandleComplete, FlipLatest, LoseRequest
<1>4. QED
  BY <1>1, <1>2, <1>3

\* Whatever else is published between the pointer, the manifest and the
\* archive, the archive a launcher gets is there, and is the one the manifest
\* describes when its version was packed once.
THEOREM DownloadsAreRight == Spec => []DownloadIsRight
<1>1. Init => Named
  BY DEF Init, Named, StoredAsNamed, HeldAsNamed, IdleReader
<1>2. IInv /\ Named /\ [Next]_vars => Named'
  BY StoredStep, HeldStep DEF Named
<1>3. IInv => DownloadSucceeds
  BY DEF IInv, ReaderSafe, DownloadSucceeds
<1>4. Named => DownloadMatchesManifest
  <2>1. SUFFICES ASSUME Named, NEW r \in Readers, reader[r].pc = "downloaded",
                        \A b, c \in Builds : KeyOf(b) = ReaderKey(r) /\ KeyOf(c) = ReaderKey(r) => b = c
                 PROVE  reader[r].man = reader[r].got
    BY DEF DownloadMatchesManifest, ReaderKey
  <2>2. PackedAs(reader[r].man, ReaderKey(r)) /\ PackedAs(reader[r].got, ReaderKey(r))
    BY <2>1 DEF Named, HeldAsNamed
  <2>3. QED
    BY <2>1, <2>2 DEF PackedAs
<1>5. DownloadSucceeds /\ DownloadMatchesManifest => DownloadIsRight
  BY DEF DownloadIsRight
<1>6. QED
  BY <1>1, <1>2, <1>3, <1>4, <1>5, RegistryInvariant, PTL DEF Spec

\* Every app a listing shows can be installed.
THEOREM ListingsAlwaysInstallable == Spec => []ListingIsInstallable
<1>1. IInv => ListingIsInstallable
  BY DEF IInv, ReaderSafe, ListingIsInstallable
<1>2. QED
  BY <1>1, RegistryInvariant, PTL

\* The state keeps its shape.
THEOREM TypeCorrect == Spec => []TypeOK
<1>1. IInv => TypeOK
  BY DEF IInv
<1>2. QED
  BY <1>1, RegistryInvariant, PTL

\* Together: what is published or listed can be installed, and no pointer of
\* the registry dangles (handleCompleteVersion, handleListApps).
THEOREM RegistryStaysWhole == Spec => []RegistryIsWhole
<1>1. TypeOK /\ LatestHasArtifact /\ PublishedIsInstallable /\ ListingIsInstallable => RegistryIsWhole
  BY DEF RegistryIsWhole
<1>2. QED
  BY <1>1, TypeCorrect, LatestAlwaysHasArtifact, PublishedAlwaysInstallable, ListingsAlwaysInstallable, PTL
=============================================================================
