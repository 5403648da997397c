------------------------------- MODULE StoresMC -------------------------------
(***************************************************************************)
(* Small instances, in one run, of three components that share no state:   *)
(* the registry, with one slug and two builds that carry different         *)
(* versions; the state file, with two stores and four inodes, one per name *)
(* and one per open file; and the keychain, with the two keys of a session *)
(* and two callers.  A behaviour is of one of them, and the others rest in *)
(* an initial state.                                                       *)
(***************************************************************************)
EXTENDS Registry, TLC

CONSTANTS s1, v1, v2, b1, b2, Sections, Inodes, MaxVersion,
          FileMishaps, MaxMishaps, Empty, Garbage,
          KeyNames, Secrets, Callers, KeyMishaps

VARIABLES part,
          dir, data, synced, up, mem, pc, obj, fd, committed, mishaps,
          keyring, cache, holder, call, slips

MCSlugOf == b1 :> s1 @@ b2 :> s1
MCVersionOf == b1 :> v1 @@ b2 :> v2
MCAttempts == b1 :> 2 @@ b2 :> 1

File == INSTANCE StateFile WITH Mishaps <- FileMishaps

Key == INSTANCE Keychain WITH Keys <- KeyNames, Mishaps <- KeyMishaps, mishaps <- slips

\* The stores of the state file are only compared.
Symmetric == Permutations(Sections)

ASSUME StoresAssumption == File!StateFileAssumption /\ Key!KeychainAssumption

fileVars == <<dir, data, synced, up, mem, pc, obj, fd, committed, mishaps>>
keyVars == <<keyring, cache, holder, call, slips>>
all == <<part, vars, fileVars, keyVars>>

StoresInit ==
  /\ part \in {"registry", "file", "keychain"}
  /\ Init /\ File!Init /\ Key!Init
  /\ \A c \in Callers : call[c].key = (CHOOSE k \in KeyNames : TRUE) /\ call[c].value = None
  /\ part # "keychain" => \A k \in KeyNames : keyring[k] = None

StoresNext ==
  \/ /\ part = "registry" /\ Next /\ UNCHANGED <<part, fileVars, keyVars>>
  \/ /\ part = "file" /\ File!Next /\ UNCHANGED <<part, vars, keyVars>>
  \/ /\ part = "keychain" /\ Key!Next /\ UNCHANGED <<part, vars, fileVars>>

StoresSpec == StoresInit /\ [][StoresNext]_all

-----------------------------------------------------------------------------
(* The properties of the parts, which state them, of the behaviours of the
   part: the other rests. *)

\* StateFile: a document that was saved survives, and one that survived is what
\* a restart loads.
DocumentSurvives == part = "file" => File!DocumentSurvives
SurvivingFileIsLoaded == File!SurvivingFileIsLoaded

\* Keychain: the cache and the keyring of the system are one register per key.
KeyIsARegister == [][part = "keychain" => Key!TypeOK' /\ Key!OnlyWritesChange]_keyVars
=============================================================================
