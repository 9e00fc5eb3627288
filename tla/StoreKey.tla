------------------------------- MODULE StoreKey -------------------------------
(***************************************************************************)
(* The opening of a store by several processes: each gets the store its     *)
(* identity, its data key from the keychain and its key check, encrypts the *)
(* payloads an early version left in plaintext, and removes what is left of *)
(* them in the file.  Every statement of an opening is a step; any process  *)
(* may end, or fail, between two of them.  A plaintext payload is a row     *)
(* that exists before the behaviour begins; the version at hand writes none. *)
(***************************************************************************)
EXTENDS Naturals, FiniteSets

CONSTANTS Openers,    \* processes
          Keys,       \* what the generator of keys returns, each at most once
          Payloads,
          NoKey, Plain, Absent

StoreKeyAssumption ==
    NoKey \notin Keys /\ Plain \notin Keys /\ Absent \notin Keys /\ Plain # Absent

VARIABLES named, payloads, keyCheck, cleanup, remains, keychain, opener

(* named: local_store_metadata has its row.  payloads: the key that each      *)
(* payload is sealed with, or Plain, or Absent.  keyCheck: the key that       *)
(* key_check is sealed with.  cleanup: plaintext_cleanup_required.  remains:  *)
(* plaintext in free pages or in the log.  opener: what a process has read.   *)

storeVars == <<named, payloads, keyCheck, cleanup, remains, keychain, opener>>
rowVars == <<named, payloads, keyCheck, cleanup, remains>>

Closed == [phase |-> "closed", plain |-> {}, sealed |-> FALSE, check |-> NoKey,
           cleanup |-> FALSE, key |-> NoKey]

Phases == {"closed", "name", "count", "metadata", "load", "create", "reload", "verify",
           "install", "read", "backfill", "compact", "switch", "unmark", "open"}
Readings == [phase : Phases, plain : SUBSET Payloads, sealed : BOOLEAN, check : Keys \cup {NoKey},
             cleanup : BOOLEAN, key : Keys \cup {NoKey}]

StoreKeyTypeOK ==
    /\ named \in BOOLEAN /\ cleanup \in BOOLEAN /\ remains \in BOOLEAN
    /\ payloads \in [Payloads -> Keys \cup {Plain, Absent}]
    /\ keyCheck \in Keys \cup {NoKey} /\ keychain \in Keys \cup {NoKey}
    /\ opener \in [Openers -> Readings]

StoreKeyInit ==
    /\ payloads \in [Payloads -> {Plain, Absent}]
    /\ named = FALSE /\ keyCheck = NoKey /\ cleanup = FALSE /\ remains = FALSE
    /\ keychain = NoKey
    /\ opener = [o \in Openers |-> Closed]

-----------------------------------------------------------------------------
Phase(o, phase) == opener' = [opener EXCEPT ![o].phase = phase]
Fail(o) == opener' = [opener EXCEPT ![o] = Closed]
In(o, phase) == opener[o].phase = phase

Plaintext == {r \in Payloads : payloads[r] = Plain}
Sealed == {r \in Payloads : payloads[r] \in Keys}
InUse == {keyCheck, keychain} \cup {opener[o].key : o \in Openers} \cup
         {payloads[r] : r \in Payloads}

(* ensureStoreID reads the row, and inserts it if there is none.             *)
ReadStoreID(o) ==
    /\ In(o, "closed")
    /\ Phase(o, IF named THEN "count" ELSE "name")
    /\ UNCHANGED <<rowVars, keychain>>

InsertStoreID(o) ==
    /\ In(o, "name")
    /\ IF named THEN Fail(o) ELSE Phase(o, "count")
    /\ named' = TRUE
    /\ UNCHANGED <<payloads, keyCheck, cleanup, remains, keychain>>

(* payloadEncodingCounts; "plain" is only compared with the empty set here.  *)
CountPayloads(o) ==
    /\ In(o, "count")
    /\ opener' = [opener EXCEPT ![o].phase = "metadata", ![o].plain = Plaintext,
                                ![o].sealed = (Sealed # {})]
    /\ UNCHANGED <<rowVars, keychain>>

ReadMetadata(o) ==
    /\ In(o, "metadata")
    /\ opener' = [opener EXCEPT ![o].phase = "load", ![o].check = keyCheck,
                                ![o].cleanup = cleanup]
    /\ UNCHANGED <<rowVars, keychain>>

(* A store that has anything encrypted is never given another key.           *)
LoadKey(o) ==
    /\ In(o, "load")
    /\ IF keychain # NoKey
       THEN opener' = [opener EXCEPT ![o].phase = "verify", ![o].key = keychain]
       ELSE IF opener[o].sealed \/ opener[o].check # NoKey THEN Fail(o)
       ELSE Phase(o, "create")
    /\ UNCHANGED <<rowVars, keychain>>

CreateReplaces(o, key) ==
    /\ keychain' = key
    /\ opener' = [opener EXCEPT ![o].phase = "verify", ![o].key = key]

(* The keychain keeps the item it has (ErrKeyAlreadyExists).                 *)
Create(o, key) ==
    IF keychain = NoKey
    THEN keychain' = key /\ opener' = [opener EXCEPT ![o].phase = "verify", ![o].key = key]
    ELSE UNCHANGED keychain /\ Phase(o, "reload")

CreateKey(o) ==
    /\ In(o, "create")
    /\ \E key \in Keys \ InUse : Create(o, key)
    /\ UNCHANGED rowVars

ReloadKey(o) ==
    /\ In(o, "reload")
    /\ IF keychain = NoKey THEN Fail(o)
       ELSE opener' = [opener EXCEPT ![o].phase = "verify", ![o].key = keychain]
    /\ UNCHANGED <<rowVars, keychain>>

(* Where an opening goes on when its key is the one of the store, as read.   *)
AfterVerify(o) ==
    IF opener[o].plain # {} THEN "read"
    ELSE IF opener[o].check = NoKey THEN "install"
    ELSE IF opener[o].cleanup THEN "compact" ELSE "open"

VerifyKey(o) ==
    /\ In(o, "verify")
    /\ IF opener[o].check \in {NoKey, opener[o].key} /\ ~(opener[o].check = NoKey /\ opener[o].sealed)
       THEN Phase(o, AfterVerify(o)) ELSE Fail(o)
    /\ UNCHANGED <<rowVars, keychain>>

InstallKeyCheck(o) ==
    /\ In(o, "install")
    /\ keyCheck' = opener[o].key
    /\ Phase(o, IF opener[o].cleanup THEN "compact" ELSE "open")
    /\ UNCHANGED <<named, payloads, cleanup, remains, keychain>>

(* backfillPlaintextPayloads reads the payloads outside its transaction.     *)
ReadPlaintext(o) ==
    /\ In(o, "read")
    /\ opener' = [opener EXCEPT ![o].phase = "backfill", ![o].plain = Plaintext]
    /\ UNCHANGED <<rowVars, keychain>>

BackfillUnmarked(o) ==
    /\ payloads' = [r \in Payloads |-> IF r \in opener[o].plain THEN opener[o].key ELSE payloads[r]]
    /\ keyCheck' = opener[o].key /\ UNCHANGED cleanup

(* One transaction: the payloads, the key check and the mark.                *)
BackfillCommits(o) ==
    /\ payloads' = [r \in Payloads |-> IF r \in opener[o].plain THEN opener[o].key ELSE payloads[r]]
    /\ keyCheck' = opener[o].key /\ cleanup' = TRUE

Backfill(o) ==
    /\ In(o, "backfill")
    /\ IF opener[o].plain \subseteq Plaintext
       THEN /\ BackfillCommits(o)
            /\ remains' = (remains \/ opener[o].plain # {})
            /\ Phase(o, "compact")
       ELSE Fail(o) /\ UNCHANGED <<payloads, keyCheck, cleanup, remains>>
    /\ UNCHANGED <<named, keychain>>

Alone(o) == \A q \in Openers \ {o} : In(q, "closed")

(* removePlaintextArtifacts: the log is truncated and the file rewritten.    *)
Compact(o) ==
    /\ In(o, "compact")
    /\ remains' = FALSE /\ Phase(o, "switch")
    /\ UNCHANGED <<named, payloads, keyCheck, cleanup, keychain>>

(* The journal mode changes only under the last connection.                  *)
SwitchJournal(o) ==
    /\ In(o, "switch")
    /\ IF Alone(o) THEN Phase(o, "unmark") ELSE Fail(o)
    /\ UNCHANGED <<rowVars, keychain>>

Unmark(o) ==
    /\ In(o, "unmark")
    /\ cleanup' = FALSE /\ Phase(o, "open")
    /\ UNCHANGED <<named, payloads, keyCheck, remains, keychain>>

-----------------------------------------------------------------------------
(* An open store stores a payload, sealed with the key of its process.       *)
StorePayload(o, r) ==
    /\ In(o, "open") /\ payloads[r] = Absent
    /\ payloads' = [payloads EXCEPT ![r] = opener[o].key]
    /\ UNCHANGED <<named, keyCheck, cleanup, remains, keychain, opener>>

(* The process ends, is interrupted, or meets a busy database.               *)
Ends(o) == ~In(o, "closed") /\ Fail(o) /\ UNCHANGED <<rowVars, keychain>>

(* The user deletes the item of the keychain; no process is just opening.    *)
LoseKey ==
    /\ \A o \in Openers : opener[o].phase \in {"closed", "open"}
    /\ keychain' = NoKey
    /\ UNCHANGED <<rowVars, opener>>

OpeningStep(o) ==
    \/ ReadStoreID(o) \/ InsertStoreID(o) \/ CountPayloads(o) \/ ReadMetadata(o)
    \/ LoadKey(o) \/ CreateKey(o) \/ ReloadKey(o) \/ VerifyKey(o) \/ InstallKeyCheck(o)
    \/ ReadPlaintext(o) \/ Backfill(o) \/ Compact(o) \/ SwitchJournal(o) \/ Unmark(o)

StoreKeyNext ==
    \/ \E o \in Openers : OpeningStep(o) \/ Ends(o) \/ \E r \in Payloads : StorePayload(o, r)
    \/ LoseKey

StoreKeySpec == StoreKeyInit /\ [][StoreKeyNext]_storeVars

-----------------------------------------------------------------------------
(* All that is encrypted in a store opens with one key: that of the key      *)
(* check, of every process that has the store open, and of the keychain      *)
(* unless its item is lost; a lost key is never replaced                     *)
(* (docs/storage/local-storage-lifecycle.md, "Belay never creates a          *)
(* replacement key").                                                        *)
OneKeyOpensStore ==
    /\ \A r \in Sealed : payloads[r] = keyCheck
    /\ \A o \in Openers : In(o, "open") => opener[o].key = keyCheck
    /\ keyCheck # NoKey => keychain \in {keyCheck, NoKey}

(* No process has the store open while plaintext is left in it, whichever    *)
(* process encrypted it and whatever step the removal stopped at             *)
(* (docs/storage/local-storage-lifecycle.md, "Open succeeds only after       *)
(* cleanup is complete").                                                    *)
OpenMeansClean ==
    \A o \in Openers : In(o, "open") => Plaintext = {} /\ ~remains

(* An opening gives the process the one key, and a store without plaintext.   *)
StoreSound == OneKeyOpensStore /\ OpenMeansClean
=============================================================================
