------------------------------ MODULE Setup_proofs ------------------------------
(***************************************************************************)
(* However many processes open a store at once, and whatever step each of  *)
(* them stops at, all that is encrypted opens with one key and an open      *)
(* store holds no plaintext, for any number of keys and payloads.  And      *)
(* however many register with an agent: what the user has there stays, and  *)
(* what they say of it is so.                                              *)
(***************************************************************************)
EXTENDS StoreKey, McpConfig, TLAPS

-----------------------------------------------------------------------------
(* The inductive invariant.  What a process has read outside of a            *)
(* transaction is out of date the moment it is read; these are the facts     *)
(* about the store as it is now that a later reading never undoes.           *)

\* Past the keychain, with the key that the keychain still holds.
Keyed == {"verify", "install", "read", "backfill", "compact", "switch", "unmark"}
\* Between the reading of the metadata and the first transaction.
Looking == {"load", "create", "reload", "verify", "install", "read", "backfill"}
Encrypted == {"compact", "switch", "unmark", "open"}

KeyKept(o) ==
    /\ opener[o].phase \in Keyed => opener[o].key = keychain /\ keychain # NoKey
    /\ opener[o].phase \in Encrypted => opener[o].key = keyCheck /\ keyCheck # NoKey
    /\ opener[o].check # NoKey => opener[o].check = keyCheck
    /\ opener[o].phase \in {"create", "reload"} => opener[o].check = NoKey
    /\ (opener[o].phase \in Looking /\ opener[o].check = NoKey /\ keyCheck # NoKey)
          => keychain = keyCheck

OneKey ==
    /\ \A r \in Payloads : payloads[r] \in Keys => payloads[r] = keyCheck
    /\ keyCheck # NoKey => keychain \in {keyCheck, NoKey}
    /\ \A o \in Openers : KeyKept(o)

CleanKept(o) ==
    /\ (opener[o].phase \in Looking \cup {"metadata"} /\ opener[o].plain = {}) => Plaintext = {}
    /\ opener[o].phase = "install" => opener[o].plain = {}
    /\ opener[o].phase = "backfill" => Plaintext \subseteq opener[o].plain
    /\ opener[o].phase \in Encrypted => Plaintext = {}
    /\ opener[o].phase \in {"switch", "unmark", "open"} => ~remains
    /\ (/\ opener[o].phase \in {"load", "create", "reload", "verify", "install"}
        /\ opener[o].plain = {} /\ ~opener[o].cleanup) => ~remains

CleanStore ==
    /\ remains => cleanup
    /\ \A o \in Openers : CleanKept(o)

StoreInv == StoreKeyTypeOK /\ OneKey /\ CleanStore

-----------------------------------------------------------------------------
(* Typing. *)

(* A process that goes on to another phase, or fails, stays well typed.      *)
LEMMA PhaseTyped ==
    ASSUME StoreKeyTypeOK, NEW o \in Openers, NEW phase \in Phases,
           Phase(o, phase) \/ Fail(o)
    PROVE  opener' \in [Openers -> Readings]
<1>1. opener[o] \in Readings
  BY DEF StoreKeyTypeOK
<1>2. [opener[o] EXCEPT !.phase = phase] \in Readings
  BY <1>1 DEF Readings
<1>3. Closed \in Readings
  BY DEF Readings, Closed, Phases
<1> QED
  BY <1>2, <1>3 DEF StoreKeyTypeOK, Phase, Fail

(* So does one that moves on with a key it has found.                        *)
LEMMA KeyTyped ==
    ASSUME StoreKeyTypeOK, NEW o \in Openers, NEW key \in Keys,
           opener' = [opener EXCEPT ![o].phase = "verify", ![o].key = key]
    PROVE  opener' \in [Openers -> Readings]
<1>1. opener[o] \in Readings
  BY DEF StoreKeyTypeOK
<1>2. [opener[o] EXCEPT !.phase = "verify", !.key = key] \in Readings
  BY <1>1 DEF Readings, Phases
<1> QED
  BY <1>2 DEF StoreKeyTypeOK

LEMMA OpeningTyped ==
    ASSUME StoreKeyAssumption, StoreInv, NEW o \in Openers, OpeningStep(o) \/ Ends(o)
    PROVE  StoreKeyTypeOK'
<1> USE DEF StoreKeyAssumption
<1>0. StoreKeyTypeOK /\ opener[o] \in Readings
  BY DEF StoreInv, StoreKeyTypeOK
<1>1. CASE ReadStoreID(o) \/ InsertStoreID(o)
  BY <1>0, <1>1, PhaseTyped DEF ReadStoreID, InsertStoreID, StoreKeyTypeOK, rowVars, Phases
<1>2. CASE CountPayloads(o)
  <2>1. [opener[o] EXCEPT !.phase = "metadata", !.plain = Plaintext, !.sealed = (Sealed # {})]
          \in Readings
    BY <1>0 DEF Readings, Phases, Plaintext
  <2> QED
    BY <1>0, <1>2, <2>1 DEF CountPayloads, StoreKeyTypeOK, rowVars
<1>3. CASE ReadMetadata(o)
  <2>1. [opener[o] EXCEPT !.phase = "load", !.check = keyCheck, !.cleanup = cleanup] \in Readings
    BY <1>0 DEF Readings, Phases, StoreKeyTypeOK
  <2> QED
    BY <1>0, <1>3, <2>1 DEF ReadMetadata, StoreKeyTypeOK, rowVars
<1>4. CASE LoadKey(o) \/ ReloadKey(o)
  BY <1>0, <1>4, PhaseTyped, KeyTyped DEF LoadKey, ReloadKey, StoreKeyTypeOK, rowVars, Phases
<1>5. CASE CreateKey(o)
  BY <1>0, <1>5, PhaseTyped, KeyTyped DEF CreateKey, Create, StoreKeyTypeOK, rowVars, Phases
<1>6. CASE VerifyKey(o)
  <2>1. AfterVerify(o) \in Phases
    BY DEF AfterVerify, Phases
  <2> QED
    BY <1>0, <1>6, <2>1, PhaseTyped DEF VerifyKey, StoreKeyTypeOK, rowVars
<1>7. CASE InstallKeyCheck(o)
  <2>1. keyCheck' \in Keys \cup {NoKey}
    BY <1>0, <1>7 DEF InstallKeyCheck, Readings
  <2> QED
    BY <1>0, <1>7, <2>1, PhaseTyped DEF InstallKeyCheck, StoreKeyTypeOK, Phases
<1>8. CASE ReadPlaintext(o)
  <2>1. [opener[o] EXCEPT !.phase = "backfill", !.plain = Plaintext] \in Readings
    BY <1>0 DEF Readings, Phases, Plaintext
  <2> QED
    BY <1>0, <1>8, <2>1 DEF ReadPlaintext, StoreKeyTypeOK, rowVars
<1>9. CASE Backfill(o)
  <2>1. opener' \in [Openers -> Readings]
    BY <1>0, <1>9, PhaseTyped DEF Backfill, Phases
  <2>2. opener[o].key \in Keys
    BY <1>0, <1>9 DEF StoreInv, OneKey, KeyKept, Keyed, Backfill, In, Readings, StoreKeyTypeOK
  <2> QED
    BY <1>0, <1>9, <2>1, <2>2 DEF Backfill, BackfillCommits, StoreKeyTypeOK
<1>10. CASE Compact(o) \/ SwitchJournal(o) \/ Unmark(o)
  BY <1>0, <1>10, PhaseTyped DEF Compact, SwitchJournal, Unmark, StoreKeyTypeOK, rowVars, Phases
<1>11. CASE Ends(o)
  BY <1>0, <1>11, PhaseTyped DEF Ends, StoreKeyTypeOK, rowVars, Phases
<1> QED
  BY <1>1, <1>2, <1>3, <1>4, <1>5, <1>6, <1>7, <1>8, <1>9, <1>10, <1>11 DEF OpeningStep

-----------------------------------------------------------------------------
(* What a process counts of the payloads only matters to itself.             *)
LEMMA CountingKeeps ==
    ASSUME StoreKeyAssumption, StoreInv, NEW o \in Openers, CountPayloads(o)
    PROVE  OneKey' /\ CleanStore'
<1> DEFINE plain == Plaintext
           sealed == Sealed # {}
<1>1. plain = {} => Plaintext = {}
  OBVIOUS
<1>2. opener' = [opener EXCEPT ![o].phase = "metadata", ![o].plain = plain, ![o].sealed = sealed]
  BY DEF CountPayloads
<1>3. Plaintext' = Plaintext
  BY DEF CountPayloads, rowVars, Plaintext
<1> HIDE DEF plain, sealed
<1>4. OneKey'
  BY <1>2 DEF StoreInv, StoreKeyTypeOK, Readings, CountPayloads, In, rowVars, OneKey, KeyKept,
              Keyed, Looking, Encrypted
<1>5. CleanStore'
  BY <1>1, <1>2, <1>3 DEF StoreInv, StoreKeyTypeOK, Readings, CountPayloads, In, rowVars,
              CleanStore, CleanKept, Looking, Encrypted
<1> QED
  BY <1>4, <1>5

-----------------------------------------------------------------------------
(* One key. *)

(* Whatever step of an opening is taken, by whichever process: the keychain   *)
(* and the key check only ever get the key that all have, because a process  *)
(* that creates or installs a key has seen neither, and the keychain keeps    *)
(* its item while anyone is opening.                                         *)
LEMMA OpeningKeepsKey ==
    ASSUME StoreKeyAssumption, StoreInv, NEW o \in Openers, OpeningStep(o) \/ Ends(o)
    PROVE  OneKey'
<1> USE DEF StoreKeyAssumption, StoreInv, StoreKeyTypeOK, Readings, In, Phase, Fail, Closed, rowVars,
            OneKey, KeyKept, Keyed, Looking, Encrypted, Sealed, Plaintext
<1>1. CASE ReadStoreID(o)
  BY <1>1 DEF ReadStoreID
<1>2. CASE InsertStoreID(o)
  BY <1>2 DEF InsertStoreID
<1>3. CASE CountPayloads(o)
  BY <1>3, CountingKeeps
<1>4. CASE ReadMetadata(o)
  BY <1>4 DEF ReadMetadata
<1>5. CASE LoadKey(o)
  BY <1>5 DEF LoadKey
<1>6. CASE CreateKey(o)
  BY <1>6 DEF CreateKey, Create, InUse
<1>7. CASE ReloadKey(o)
  BY <1>7 DEF ReloadKey
<1>8. CASE VerifyKey(o)
  BY <1>8 DEF VerifyKey, AfterVerify
<1>9. CASE InstallKeyCheck(o)
  BY <1>9 DEF InstallKeyCheck
<1>10. CASE ReadPlaintext(o)
  BY <1>10 DEF ReadPlaintext
<1>11. CASE Backfill(o)
  BY <1>11 DEF Backfill, BackfillCommits
<1>12. CASE Compact(o)
  BY <1>12 DEF Compact
<1>13. CASE SwitchJournal(o)
  BY <1>13 DEF SwitchJournal
<1>14. CASE Unmark(o)
  BY <1>14 DEF Unmark
<1>15. CASE Ends(o)
  BY <1>15 DEF Ends
<1> QED
  BY <1>1, <1>2, <1>3, <1>4, <1>5, <1>6, <1>7, <1>8, <1>9, <1>10, <1>11, <1>12, <1>13, <1>14, <1>15 DEF OpeningStep

(* No plaintext comes back, and none that was left in the file is forgotten:  *)
(* the mark is only taken away behind a compaction after which no process can *)
(* encrypt anything any more.                                                *)
LEMMA OpeningKeepsClean ==
    ASSUME StoreKeyAssumption, StoreInv, NEW o \in Openers, OpeningStep(o) \/ Ends(o)
    PROVE  CleanStore'
<1> USE DEF StoreKeyAssumption, StoreInv, StoreKeyTypeOK, Readings, In, Phase, Fail, Closed, rowVars,
            OneKey, KeyKept, Keyed, CleanStore, CleanKept, Looking, Encrypted, Sealed, Plaintext
<1>1. CASE ReadStoreID(o)
  BY <1>1 DEF ReadStoreID
<1>2. CASE InsertStoreID(o)
  BY <1>2 DEF InsertStoreID
<1>3. CASE CountPayloads(o)
  BY <1>3, CountingKeeps
<1>4. CASE ReadMetadata(o)
  BY <1>4 DEF ReadMetadata
<1>5. CASE LoadKey(o)
  BY <1>5 DEF LoadKey
<1>6. CASE CreateKey(o)
  BY <1>6 DEF CreateKey, Create, InUse
<1>7. CASE ReloadKey(o)
  BY <1>7 DEF ReloadKey
<1>8. CASE VerifyKey(o)
  BY <1>8 DEF VerifyKey, AfterVerify
<1>9. CASE InstallKeyCheck(o)
  BY <1>9 DEF InstallKeyCheck
<1>10. CASE ReadPlaintext(o)
  BY <1>10 DEF ReadPlaintext
<1>11. CASE Backfill(o)
  BY <1>11 DEF Backfill, BackfillCommits
<1>12. CASE Compact(o)
  BY <1>12 DEF Compact
<1>13. CASE SwitchJournal(o)
  BY <1>13 DEF SwitchJournal
<1>14. CASE Unmark(o)
  BY <1>14 DEF Unmark
<1>15. CASE Ends(o)
  BY <1>15 DEF Ends
<1> QED
  BY <1>1, <1>2, <1>3, <1>4, <1>5, <1>6, <1>7, <1>8, <1>9, <1>10, <1>11, <1>12, <1>13, <1>14, <1>15 DEF OpeningStep

(* What an open store stores is sealed with the one key.                     *)
LEMMA StoringKeeps ==
    ASSUME StoreKeyAssumption, StoreInv, NEW o \in Openers, NEW r \in Payloads, StorePayload(o, r)
    PROVE  StoreInv'
<1> USE DEF StoreKeyAssumption, StoreInv, StorePayload, In
<1>1. opener[o].key = keyCheck /\ keyCheck \in Keys
  BY DEF OneKey, KeyKept, Encrypted, StoreKeyTypeOK
<1>2. StoreKeyTypeOK'
  BY <1>1 DEF StoreKeyTypeOK
<1>3. OneKey'
  BY <1>1 DEF StoreKeyTypeOK, OneKey, KeyKept
<1>4. Plaintext' = Plaintext
  BY <1>1 DEF StoreKeyTypeOK, Plaintext
<1>5. CleanStore'
  BY <1>4 DEF CleanStore, CleanKept
<1> QED
  BY <1>2, <1>3, <1>5

(* The item of the keychain is lost while no process is opening.             *)
LEMMA LosingKeeps ==
    ASSUME StoreKeyAssumption, StoreInv, LoseKey
    PROVE  StoreInv'
<1>1. StoreKeyTypeOK'
  BY DEF StoreInv, StoreKeyTypeOK, LoseKey, rowVars
<1>2. OneKey'
  BY DEF StoreInv, OneKey, KeyKept, Keyed, Looking, LoseKey, rowVars
<1>3. CleanStore'
  BY DEF StoreInv, CleanStore, CleanKept, Plaintext, LoseKey, rowVars
<1> QED
  BY <1>1, <1>2, <1>3 DEF StoreInv

-----------------------------------------------------------------------------
LEMMA StoreInvInitially == ASSUME StoreKeyAssumption, StoreKeyInit PROVE StoreInv
<1>1. StoreKeyTypeOK
  BY DEF StoreKeyInit, StoreKeyTypeOK, Closed, Readings, Phases
<1>2. OneKey
  BY DEF StoreKeyAssumption, StoreKeyInit, OneKey, KeyKept, Closed, Keyed, Looking, Encrypted
<1>3. CleanStore
  BY DEF StoreKeyInit, CleanStore, CleanKept, Closed, Looking, Encrypted
<1> QED
  BY <1>1, <1>2, <1>3 DEF StoreInv

LEMMA StoreInvKept ==
    ASSUME StoreKeyAssumption, StoreInv, [StoreKeyNext]_storeVars
    PROVE  StoreInv'
<1>1. ASSUME NEW o \in Openers, OpeningStep(o) \/ Ends(o) PROVE StoreInv'
  BY <1>1, OpeningTyped, OpeningKeepsKey, OpeningKeepsClean DEF StoreInv
<1>2. ASSUME NEW o \in Openers, NEW r \in Payloads, StorePayload(o, r) PROVE StoreInv'
  BY <1>2, StoringKeeps
<1>3. CASE LoseKey
  BY <1>3, LosingKeeps
<1>4. CASE UNCHANGED storeVars
  BY <1>4 DEF storeVars, StoreInv, StoreKeyTypeOK, OneKey, KeyKept, CleanStore, CleanKept, Plaintext
<1> QED
  BY <1>1, <1>2, <1>3, <1>4 DEF StoreKeyNext

(* Every opening reaches the invariant above and never leaves it.            *)
LEMMA StoreInvariant == ASSUME StoreKeyAssumption PROVE StoreKeySpec => []StoreInv
  BY StoreInvInitially, StoreInvKept, PTL DEF StoreKeySpec

(* The store, the keychain and the processes stay well typed.                *)
THEOREM StoreTyped == ASSUME StoreKeyAssumption PROVE StoreKeySpec => []StoreKeyTypeOK
<1>1. StoreInv => StoreKeyTypeOK
  BY DEF StoreInv
<1> QED
  BY <1>1, StoreInvariant, PTL

(* All that is encrypted opens with one key, which is that of every process   *)
(* that has the store open, and no process has it open while plaintext is    *)
(* left in it (initializeEncryptedPayloads).                                 *)
THEOREM OpenStoresAreSound == ASSUME StoreKeyAssumption PROVE StoreKeySpec => []StoreSound
<1>1. ASSUME StoreInv PROVE StoreSound
  BY <1>1 DEF StoreInv, OneKey, KeyKept, CleanStore, CleanKept, Encrypted, StoreSound,
              OneKeyOpensStore, OpenMeansClean, Sealed, In
<1> QED
  BY <1>1, StoreInvariant, PTL

-----------------------------------------------------------------------------
(* The registration. *)

(* The inductive invariant.  A run that changes anything holds the lock and   *)
(* has read the manifest under it; and unless the user has changed it since,  *)
(* the entry is what the run last saw.                                       *)
Late == {"recheck", "remove", "removed", "add", "added", "rollback", "rolled", "write"}
Changes == {"installed", "updated", "already_installed", "rollback_restored", "removed"}

RunProceeds(p) ==
    LET c == client[p] IN
    /\ c.pc \in Late => c.action # "status"
    /\ c.pc \in {"add", "added", "rollback", "rolled"} => c.action = "install"
    /\ c.pc \in {"load", "status"} => ~c.updating
    /\ c.pc \in {"rollback", "rolled"} => c.updating
    /\ (c.pc \in Late /\ c.updating) => c.known \in Identities
    /\ c.pc = "write" =>
            c.result \in (IF c.action = "install" THEN {"installed", "updated"} ELSE {"removed"})

RunLocks(p) ==
    LET c == client[p] IN
    /\ (c.pc \in Late \cup {"status"} /\ c.action # "status") => lock = p /\ c.known = manifest
    /\ (c.pc = "end" /\ c.result \in Changes) => lock = p

RunSees(p) ==
    LET c == client[p] IN
    p \notin edited =>
        /\ c.pc = "remove" => entry \in Identities
        /\ c.pc \in {"add", "rollback"} => entry = "absent"
        /\ c.pc = "write" => entry = (IF c.action = "install" THEN Identity[p] ELSE "absent")
        /\ c.pc = "end" =>
            /\ c.result \in {"installed", "updated"} => entry = Identity[p] /\ manifest = Identity[p]
            /\ c.result = "already_installed" => entry = Identity[p]
            /\ c.result = "rollback_restored" => entry = manifest
            /\ c.result = "removed" => entry = "absent" /\ manifest \notin Identities

ConfigInv ==
    /\ ConfigTypeOK /\ ~spoiled
    /\ \A p \in Registrars : RunProceeds(p) /\ RunLocks(p) /\ RunSees(p)

(* A step of one run leaves the others what they have: what they know of the  *)
(* entry and the manifest they know under the lock.                          *)
LEMMA OneRunSteps ==
    ASSUME ConfigInv, NEW p \in Registrars, ConfigTypeOK', ~spoiled',
           \A q \in Registrars \ {p} :
                /\ client'[q] = client[q] /\ (q \in edited' <=> q \in edited)
                /\ lock = q => lock' = q /\ entry' = entry /\ manifest' = manifest,
           RunProceeds(p)', RunLocks(p)', RunSees(p)'
    PROVE  ConfigInv'
<1>1. ASSUME NEW q \in Registrars \ {p}
      PROVE  (RunProceeds(q) /\ RunLocks(q) /\ RunSees(q))'
  <2>1. /\ RunProceeds(q) /\ RunLocks(q) /\ RunSees(q)
        /\ client'[q] = client[q] /\ (q \in edited' <=> q \in edited)
        /\ lock = q => lock' = q /\ entry' = entry /\ manifest' = manifest
    BY DEF ConfigInv
  <2>2. RunProceeds(q)' /\ RunLocks(q)'
    BY <2>1 DEF RunProceeds, RunLocks
  <2>3. RunSees(q)'
    BY <2>1 DEF RunSees, RunLocks, Late, Changes, RunProceeds
  <2> QED
    BY <2>2, <2>3
<1> QED
  BY <1>1 DEF ConfigInv

LEMMA ConfigInitially ==
    ASSUME McpConfigAssumption, ConfigInit
    PROVE  ConfigInv
<1>1. Idle \in Clients /\ Idle.pc = "idle"
  BY DEF Idle, Clients, Results, NoManifest
<1>2. ConfigTypeOK /\ ~spoiled
  BY <1>1 DEF ConfigInit, ConfigTypeOK, NoManifest, UserEntries
<1>3. \A p \in Registrars : RunProceeds(p) /\ RunLocks(p) /\ RunSees(p)
  BY <1>1 DEF ConfigInit, RunProceeds, RunLocks, RunSees, Late
<1> QED
  BY <1>2, <1>3 DEF ConfigInv

(* A run goes on, and may have looked at the entry.                          *)
LEMMA RunGoesOn ==
    ASSUME ConfigInv, NEW p \in Registrars, NEW c \in Clients, client' = [client EXCEPT ![p] = c],
           UNCHANGED <<entry, manifest, spoiled>>,
           edited' = edited \/ edited' = edited \ {p},
           lock' = lock \/ (lock \notin Registrars \ {p} /\ lock' \in {p, "free"}),
           RunProceeds(p)', RunLocks(p)', RunSees(p)'
    PROVE  ConfigInv'
<1>1. ConfigTypeOK' /\ ~spoiled'
  BY DEF ConfigInv, ConfigTypeOK
<1>2. \A q \in Registrars \ {p} : client'[q] = client[q] /\ (q \in edited' <=> q \in edited)
  BY DEF ConfigInv, ConfigTypeOK
<1>3. \A q \in Registrars \ {p} : lock = q => lock' = q
  OBVIOUS
<1> QED
  BY <1>1, <1>2, <1>3, OneRunSteps

LEMMA FinishSound ==
    ASSUME ConfigInv, NEW p \in Registrars, NEW result \in Results \ Changes, Finishes(p, result)
    PROVE  /\ client' = [client EXCEPT ![p] = [client[p] EXCEPT !.pc = "end", !.result = result]]
           /\ [client[p] EXCEPT !.pc = "end", !.result = result] \in Clients
           /\ RunProceeds(p)' /\ RunLocks(p)' /\ RunSees(p)'
<1>1. client[p] \in Clients
  BY DEF ConfigInv, ConfigTypeOK
<1>2. client' = [client EXCEPT ![p] = [client[p] EXCEPT !.pc = "end", !.result = result]]
  BY <1>1 DEF Finishes, ConfigInv, ConfigTypeOK
<1>3. client'[p].pc = "end" /\ client'[p].result = result
  BY <1>1, <1>2 DEF Clients, ConfigInv, ConfigTypeOK
<1> QED
  BY <1>1, <1>2, <1>3 DEF Clients, RunProceeds, RunLocks, RunSees, Late, Changes

LEMMA BeginSound ==
    ASSUME McpConfigAssumption, ConfigInv, NEW p \in Registrars, Begin(p)
    PROVE  ConfigInv'
<1>1. PICK action \in {"install", "uninstall", "status"} :
         client' = [client EXCEPT ![p] = [Idle EXCEPT !.pc = "load", !.action = action]]
  BY DEF Begin
<1>2. PICK c : c = [Idle EXCEPT !.pc = "load", !.action = action]
  OBVIOUS
<1>3. c \in Clients /\ c.pc = "load" /\ ~c.updating
  BY <1>2 DEF Idle, Clients, Results, NoManifest
<1>4. client' = [client EXCEPT ![p] = c] /\ client'[p] = c
  BY <1>1, <1>2 DEF ConfigInv, ConfigTypeOK
<1>5. RunProceeds(p)' /\ RunLocks(p)' /\ RunSees(p)'
  BY <1>3, <1>4 DEF RunProceeds, RunLocks, RunSees, Late
<1> QED
  BY <1>3, <1>4, <1>5, RunGoesOn DEF Begin

LEMMA LoadSound ==
    ASSUME McpConfigAssumption, ConfigInv, NEW p \in Registrars, Load(p)
    PROVE  ConfigInv'
<1>1. PICK c : c = [client[p] EXCEPT !.pc = "status", !.known = manifest]
  OBVIOUS
<1>2. /\ c \in Clients /\ c.pc = "status" /\ c.known = manifest /\ c.action = client[p].action
      /\ ~c.updating
  BY <1>1 DEF ConfigInv, ConfigTypeOK, Clients, RunProceeds, Load
<1>3. client' = [client EXCEPT ![p] = c] /\ client'[p] = c
  BY <1>1 DEF Load, ConfigInv, ConfigTypeOK
<1>4. RunProceeds(p)' /\ RunLocks(p)' /\ RunSees(p)'
  BY <1>2, <1>3 DEF Load, RunProceeds, RunLocks, RunSees, Late
<1>5. lock' = lock \/ (lock \notin Registrars \ {p} /\ lock' \in {p, "free"})
  BY DEF Load, McpConfigAssumption
<1> QED
  BY <1>2, <1>3, <1>4, <1>5, RunGoesOn DEF Load

LEMMA GivesUpSound ==
    ASSUME McpConfigAssumption, ConfigInv, NEW p \in Registrars, GivesUp(p)
    PROVE  ConfigInv'
<1>1. "unavailable" \in Results \ Changes
  BY DEF Results, Changes
<1> QED
  BY <1>1, FinishSound, RunGoesOn DEF GivesUp

LEMMA EndSound ==
    ASSUME McpConfigAssumption, ConfigInv, NEW p \in Registrars, End(p)
    PROVE  ConfigInv'
<1>1. PICK c : c = [client[p] EXCEPT !.pc = "idle"]
  OBVIOUS
<1>2. c \in Clients /\ c.pc = "idle"
  BY <1>1 DEF ConfigInv, ConfigTypeOK, Clients
<1>3. client' = [client EXCEPT ![p] = c] /\ client'[p] = c
  BY <1>1 DEF End, ConfigInv, ConfigTypeOK
<1>4. RunProceeds(p)' /\ RunLocks(p)' /\ RunSees(p)'
  BY <1>2, <1>3 DEF RunProceeds, RunLocks, RunSees, Late
<1>5. lock' = lock \/ (lock \notin Registrars \ {p} /\ lock' \in {p, "free"})
  BY DEF End, Release
<1> QED
  BY <1>2, <1>3, <1>4, <1>5, RunGoesOn DEF End

LEMMA KilledSound ==
    ASSUME McpConfigAssumption, ConfigInv, NEW p \in Registrars, Killed(p)
    PROVE  ConfigInv'
<1>1. Idle \in Clients /\ Idle.pc = "idle"
  BY DEF Idle, Clients, Results, NoManifest
<1>2. client' = [client EXCEPT ![p] = Idle] /\ client'[p] = Idle
  BY DEF Killed, ConfigInv, ConfigTypeOK
<1>3. RunProceeds(p)' /\ RunLocks(p)' /\ RunSees(p)'
  BY <1>1, <1>2 DEF RunProceeds, RunLocks, RunSees, Late
<1>4. lock' = lock \/ (lock \notin Registrars \ {p} /\ lock' \in {p, "free"})
  BY DEF Killed, Release
<1> QED
  BY <1>1, <1>2, <1>3, <1>4, RunGoesOn DEF Killed

LEMMA UserEditsSound ==
    ASSUME McpConfigAssumption, ConfigInv, UserEdits
    PROVE  ConfigInv'
<1>1. ConfigTypeOK' /\ ~spoiled' /\ UNCHANGED <<manifest, lock, client>> /\ edited' = Registrars
  BY DEF UserEdits, ConfigInv, ConfigTypeOK
<1> QED
  BY <1>1 DEF ConfigInv, RunProceeds, RunLocks, RunSees

-----------------------------------------------------------------------------
(* The looks at the entry.                                                   *)

LEMMA OwnershipMeans ==
    ASSUME McpConfigAssumption, NEW p \in Registrars, client[p] \in Clients, NEW seen \in Seen
    PROVE  /\ Ownership(p, seen) \in {"none", "unknown", "current", "recognized", "foreign"}
           /\ Ownership(p, seen) = "none" => seen = "absent"
           /\ Ownership(p, seen) = "current" => seen = Identity[p] /\ seen \in Identities
           /\ Ownership(p, seen) = "recognized" => seen = client[p].known /\ seen \in Identities
<1>1. Identity[p] \in Identities
  BY DEF Identities
<1>2. client[p].known \in Identities \cup NoManifest
  BY DEF Clients
<1> QED
  BY <1>1, <1>2 DEF Ownership, Seen, UserEntries, NoManifest, McpConfigAssumption

(* What a look shows is the entry, unless it fails.                          *)
LEMMA LookMeans ==
    ASSUME ConfigInv, NEW p \in Registrars, NEW seen \in Seen, Looks(p, seen)
    PROVE  (seen = entry \/ seen = "unavailable") /\ edited' = edited \ {p}
BY DEF Looks

(* A run that ends without having changed anything.                          *)
LEMMA LookFinishes ==
    ASSUME ConfigInv, NEW p \in Registrars, NEW result \in Results \ Changes, Finishes(p, result),
           UNCHANGED <<entry, manifest, spoiled, lock>>, edited' = edited \ {p}
    PROVE  ConfigInv'
BY FinishSound, RunGoesOn

(* A run that goes on after a look.                                          *)
LEMMA LookGoesOn ==
    ASSUME ConfigInv, NEW p \in Registrars, NEW c \in Clients, client' = [client EXCEPT ![p] = c],
           UNCHANGED <<entry, manifest, spoiled, lock>>, edited' = edited \ {p},
           RunProceeds(p)', RunLocks(p)', RunSees(p)'
    PROVE  ConfigInv'
BY RunGoesOn

LEMMA StatusSound ==
    ASSUME McpConfigAssumption, ConfigInv, NEW p \in Registrars, Status(p)
    PROVE  ConfigInv'
<1>1. client[p] \in Clients /\ client[p].pc = "status" /\ RunProceeds(p) /\ RunLocks(p)
  BY DEF ConfigInv, ConfigTypeOK, Status
<1>2. PICK seen \in Seen :
        /\ Looks(p, seen)
        /\ \/ \E result \in Results \ Changes : Finishes(p, result)
           \/ /\ Finishes(p, "already_installed")
              /\ client[p].action = "install" /\ Ownership(p, seen) = "current"
           \/ GoesOn(p, "add") /\ client[p].action = "install" /\ Ownership(p, seen) = "none"
           \/ /\ client' = [client EXCEPT ![p].pc = "recheck", ![p].updating = TRUE]
              /\ client[p].action = "install" /\ Ownership(p, seen) = "recognized"
           \/ GoesOn(p, "recheck") /\ client[p].action = "uninstall"
  <2>1. PICK seen \in Seen : Looks(p, seen) /\ Status(p)!2!(seen)
    BY DEF Status
  <2>2. Ownership(p, seen) \in {"none", "unknown", "current", "recognized", "foreign"}
    BY <1>1, OwnershipMeans
  <2>3. client[p].action \in {"install", "uninstall", "status"}
    BY <1>1 DEF Clients
  <2> QED
    BY <2>1, <2>2, <2>3 DEF Results, Changes
<1>3. (seen = entry \/ seen = "unavailable") /\ edited' = edited \ {p}
      /\ UNCHANGED <<entry, manifest, spoiled, lock>>
  BY <1>2, LookMeans DEF Status
<1>4. ASSUME NEW result \in Results \ Changes, Finishes(p, result)
      PROVE  ConfigInv'
  BY <1>3, <1>4, LookFinishes
<1>5. CASE /\ Finishes(p, "already_installed")
           /\ client[p].action = "install" /\ Ownership(p, seen) = "current"
  <2>1. PICK c : c = [client[p] EXCEPT !.pc = "end", !.result = "already_installed"]
    OBVIOUS
  <2>2. c \in Clients /\ c.pc = "end" /\ c.result = "already_installed"
    BY <1>1, <2>1 DEF Clients, Results
  <2>3. client' = [client EXCEPT ![p] = c] /\ client'[p] = c
    BY <1>5, <2>1 DEF Finishes, ConfigInv, ConfigTypeOK
  <2>4. entry = Identity[p]
    BY <1>1, <1>3, <1>5, OwnershipMeans DEF McpConfigAssumption
  <2>5. RunProceeds(p)' /\ RunLocks(p)' /\ RunSees(p)'
    BY <1>1, <1>3, <1>5, <2>2, <2>3, <2>4 DEF RunProceeds, RunLocks, RunSees, Late
  <2> QED
    BY <1>3, <2>2, <2>3, <2>5, LookGoesOn
<1>6. CASE GoesOn(p, "add") /\ client[p].action = "install" /\ Ownership(p, seen) = "none"
  <2>1. PICK c : c = [client[p] EXCEPT !.pc = "add"]
    OBVIOUS
  <2>2. c \in Clients /\ c.pc = "add" /\ c.action = "install" /\ c.updating = client[p].updating
        /\ c.known = client[p].known
    BY <1>1, <1>6, <2>1 DEF Clients
  <2>3. client' = [client EXCEPT ![p] = c] /\ client'[p] = c
    BY <1>6, <2>1 DEF GoesOn, ConfigInv, ConfigTypeOK
  <2>4. entry = "absent"
    BY <1>1, <1>3, <1>6, OwnershipMeans
  <2>5. RunProceeds(p)' /\ RunLocks(p)' /\ RunSees(p)'
    BY <1>1, <1>3, <1>6, <2>2, <2>3, <2>4 DEF RunProceeds, RunLocks, RunSees, Late
  <2> QED
    BY <1>3, <2>2, <2>3, <2>5, LookGoesOn
<1>7. CASE /\ client' = [client EXCEPT ![p].pc = "recheck", ![p].updating = TRUE]
           /\ client[p].action = "install" /\ Ownership(p, seen) = "recognized"
  <2>1. PICK c : c = [client[p] EXCEPT !.pc = "recheck", !.updating = TRUE]
    OBVIOUS
  <2>2. c \in Clients /\ c.pc = "recheck" /\ c.action = "install" /\ c.known = client[p].known
    BY <1>1, <1>7, <2>1 DEF Clients
  <2>3. client' = [client EXCEPT ![p] = c] /\ client'[p] = c
    BY <1>7, <2>1 DEF ConfigInv, ConfigTypeOK
  <2>4. c.known \in Identities
    BY <1>1, <1>7, <2>2, OwnershipMeans
  <2>5. RunProceeds(p)' /\ RunLocks(p)' /\ RunSees(p)'
    BY <1>1, <1>3, <1>7, <2>2, <2>3, <2>4 DEF RunProceeds, RunLocks, RunSees, Late, Identities
  <2> QED
    BY <1>3, <2>2, <2>3, <2>5, LookGoesOn
<1>8. CASE GoesOn(p, "recheck") /\ client[p].action = "uninstall"
  <2>1. PICK c : c = [client[p] EXCEPT !.pc = "recheck"]
    OBVIOUS
  <2>2. c \in Clients /\ c.pc = "recheck" /\ c.action = "uninstall" /\ c.known = client[p].known
        /\ ~c.updating
    BY <1>1, <1>8, <2>1 DEF Clients, RunProceeds
  <2>3. client' = [client EXCEPT ![p] = c] /\ client'[p] = c
    BY <1>8, <2>1 DEF GoesOn, ConfigInv, ConfigTypeOK
  <2>4. RunProceeds(p)' /\ RunLocks(p)' /\ RunSees(p)'
    BY <1>1, <1>3, <1>8, <2>2, <2>3 DEF RunProceeds, RunLocks, RunSees, Late
  <2> QED
    BY <1>3, <2>2, <2>3, <2>4, LookGoesOn
<1> QED
  BY <1>2, <1>4, <1>5, <1>6, <1>7, <1>8

LEMMA RecheckSound ==
    ASSUME McpConfigAssumption, ConfigInv, NEW p \in Registrars, Recheck(p)
    PROVE  ConfigInv'
<1>1. client[p] \in Clients /\ client[p].pc = "recheck" /\ RunProceeds(p) /\ RunLocks(p)
  BY DEF ConfigInv, ConfigTypeOK, Recheck
<1>2. PICK seen \in Seen :
        /\ Looks(p, seen)
        /\ \/ Ownership(p, seen) \in {"current", "recognized"} /\ GoesOn(p, "remove")
           \/ Finishes(p, "failed")
  BY DEF Recheck
<1>3. (seen = entry \/ seen = "unavailable") /\ edited' = edited \ {p}
      /\ UNCHANGED <<entry, manifest, spoiled, lock>>
  BY <1>2, LookMeans DEF Recheck
<1>4. CASE Ownership(p, seen) \in {"current", "recognized"} /\ GoesOn(p, "remove")
  <2>1. PICK c : c = [client[p] EXCEPT !.pc = "remove"]
    OBVIOUS
  <2>2. c \in Clients /\ c.pc = "remove" /\ c.action = client[p].action
        /\ c.known = client[p].known /\ c.updating = client[p].updating
    BY <1>1, <2>1 DEF Clients
  <2>3. client' = [client EXCEPT ![p] = c] /\ client'[p] = c
    BY <1>4, <2>1 DEF GoesOn, ConfigInv, ConfigTypeOK
  <2>4. entry \in Identities
    BY <1>1, <1>3, <1>4, OwnershipMeans DEF McpConfigAssumption
  <2>5. RunProceeds(p)' /\ RunLocks(p)' /\ RunSees(p)'
    BY <1>1, <1>3, <2>2, <2>3, <2>4 DEF RunProceeds, RunLocks, RunSees, Late, Identities
  <2> QED
    BY <1>3, <2>2, <2>3, <2>5, LookGoesOn
<1>5. CASE Finishes(p, "failed")
  BY <1>3, <1>5, LookFinishes DEF Results, Changes
<1> QED
  BY <1>2, <1>4, <1>5

-----------------------------------------------------------------------------
(* The commands, and what they turn out to have done.                        *)

(* A command of a run that holds the lock, and has last seen no entry of the  *)
(* user's there.                                                             *)
LEMMA CommandSound ==
    ASSUME McpConfigAssumption, ConfigInv, NEW p \in Registrars, client[p].pc \in Late,
           NEW becomes \in Identities \cup {"absent"}, NEW refused \in BOOLEAN,
           NEW next \in {"removed", "added", "rolled"}, Command(p, becomes, refused, next),
           next # "removed" => client[p].action = "install",
           next = "rolled" => client[p].updating,
           p \notin edited => entry \notin UserEntries
    PROVE  ConfigInv'
<1>1. client[p] \in Clients /\ RunProceeds(p) /\ RunLocks(p)
  BY DEF ConfigInv, ConfigTypeOK
<1>2. PICK applied \in BOOLEAN, exit \in BOOLEAN :
        /\ entry' = IF applied THEN becomes ELSE entry
        /\ spoiled' = (spoiled \/ (applied /\ entry \in UserEntries /\ p \notin edited))
        /\ client' = [client EXCEPT ![p].pc = next, ![p].exit = exit]
  BY DEF Command
<1>3. UNCHANGED <<manifest, lock, edited>>
  BY DEF Command
<1>4. PICK c : c = [client[p] EXCEPT !.pc = next, !.exit = exit]
  OBVIOUS
<1>5. c \in Clients /\ c.pc = next /\ c.action = client[p].action
      /\ c.known = client[p].known /\ c.updating = client[p].updating
  BY <1>1, <1>4 DEF Clients
<1>6. client' = [client EXCEPT ![p] = c] /\ client'[p] = c
  BY <1>2, <1>4 DEF ConfigInv, ConfigTypeOK
<1>7. ConfigTypeOK' /\ ~spoiled'
  BY <1>2, <1>3, <1>5, <1>6 DEF ConfigInv, ConfigTypeOK
<1>8. RunProceeds(p)' /\ RunLocks(p)' /\ RunSees(p)'
  BY <1>1, <1>3, <1>5, <1>6 DEF RunProceeds, RunLocks, RunSees, Late
<1>9. lock = p
  BY <1>1 DEF RunLocks, RunProceeds
<1>10. \A q \in Registrars \ {p} : client'[q] = client[q] /\ lock # q
  BY <1>6, <1>9 DEF ConfigInv, ConfigTypeOK
<1> QED
  BY <1>3, <1>7, <1>8, <1>10, OneRunSteps

LEMMA RemoveSound ==
    ASSUME McpConfigAssumption, ConfigInv, NEW p \in Registrars, Remove(p)
    PROVE  ConfigInv'
<1>1. p \notin edited => entry \notin UserEntries
  BY DEF Remove, ConfigInv, RunSees, McpConfigAssumption
<1> QED
  BY <1>1, CommandSound DEF Remove, Late

LEMMA AddSound ==
    ASSUME McpConfigAssumption, ConfigInv, NEW p \in Registrars, Add(p)
    PROVE  ConfigInv'
<1>1. p \notin edited => entry \notin UserEntries
  BY DEF Add, ConfigInv, RunSees, UserEntries
<1>2. client[p].action = "install" /\ Identity[p] \in Identities
  BY DEF Add, ConfigInv, RunProceeds, Identities
<1>3. PICK refused : refused = (DuplicateAddSafe /\ entry # "absent")
  OBVIOUS
<1>4. refused \in BOOLEAN /\ Command(p, Identity[p], refused, "added")
  BY <1>3 DEF Add, AddEntry
<1> QED
  BY <1>1, <1>2, <1>4, CommandSound DEF Add, Late

LEMMA RollbackSound ==
    ASSUME McpConfigAssumption, ConfigInv, NEW p \in Registrars, Rollback(p)
    PROVE  ConfigInv'
<1>1. p \notin edited => entry \notin UserEntries
  BY DEF Rollback, ConfigInv, RunSees, UserEntries
<1>2. client[p].action = "install" /\ client[p].updating /\ client[p].known \in Identities
  BY DEF Rollback, ConfigInv, RunProceeds, Late
<1>3. PICK refused, known : refused = (DuplicateAddSafe /\ entry # "absent") /\ known = client[p].known
  OBVIOUS
<1>4. refused \in BOOLEAN /\ Command(p, known, refused, "rolled")
  BY <1>3 DEF Rollback, AddEntry
<1> QED
  BY <1>1, <1>2, <1>3, <1>4, CommandSound DEF Rollback, Late

LEMMA VerifyRemovedSound ==
    ASSUME McpConfigAssumption, ConfigInv, NEW p \in Registrars, VerifyRemoved(p)
    PROVE  ConfigInv'
<1>1. client[p] \in Clients /\ client[p].pc = "removed" /\ RunProceeds(p) /\ RunLocks(p)
  BY DEF ConfigInv, ConfigTypeOK, VerifyRemoved
<1>2. PICK seen \in Seen :
        /\ Looks(p, seen)
        /\ \/ Finishes(p, "failed")
           \/ seen = "absent" /\ client[p].action = "install" /\ GoesOn(p, "add")
           \/ /\ seen = "absent" /\ client[p].action # "install"
              /\ client' = [client EXCEPT ![p].pc = "write", ![p].result = "removed"]
  BY DEF VerifyRemoved
<1>3. (seen = entry \/ seen = "unavailable") /\ edited' = edited \ {p}
      /\ UNCHANGED <<entry, manifest, spoiled, lock>>
  BY <1>2, LookMeans DEF VerifyRemoved
<1>4. CASE Finishes(p, "failed")
  BY <1>3, <1>4, LookFinishes DEF Results, Changes
<1>5. CASE seen = "absent" /\ client[p].action = "install" /\ GoesOn(p, "add")
  <2>1. PICK c : c = [client[p] EXCEPT !.pc = "add"]
    OBVIOUS
  <2>2. c \in Clients /\ c.pc = "add" /\ c.action = "install"
        /\ c.known = client[p].known /\ c.updating = client[p].updating
    BY <1>1, <1>5, <2>1 DEF Clients
  <2>3. client' = [client EXCEPT ![p] = c] /\ client'[p] = c
    BY <1>5, <2>1 DEF GoesOn, ConfigInv, ConfigTypeOK
  <2>4. RunProceeds(p)' /\ RunLocks(p)' /\ RunSees(p)'
    BY <1>1, <1>3, <1>5, <2>2, <2>3 DEF RunProceeds, RunLocks, RunSees, Late, Identities
  <2> QED
    BY <1>3, <2>2, <2>3, <2>4, LookGoesOn
<1>6. CASE /\ seen = "absent" /\ client[p].action # "install"
           /\ client' = [client EXCEPT ![p].pc = "write", ![p].result = "removed"]
  <2>1. PICK c : c = [client[p] EXCEPT !.pc = "write", !.result = "removed"]
    OBVIOUS
  <2>2. c \in Clients /\ c.pc = "write" /\ c.action = client[p].action /\ c.result = "removed"
        /\ c.known = client[p].known /\ c.updating = client[p].updating
    BY <1>1, <2>1 DEF Clients, Results
  <2>3. client' = [client EXCEPT ![p] = c] /\ client'[p] = c
    BY <1>6, <2>1 DEF ConfigInv, ConfigTypeOK
  <2>4. RunProceeds(p)' /\ RunLocks(p)' /\ RunSees(p)'
    BY <1>1, <1>3, <1>6, <2>2, <2>3 DEF RunProceeds, RunLocks, RunSees, Late, Identities
  <2> QED
    BY <1>3, <2>2, <2>3, <2>4, LookGoesOn
<1> QED
  BY <1>2, <1>4, <1>5, <1>6

LEMMA VerifyAddedSound ==
    ASSUME McpConfigAssumption, ConfigInv, NEW p \in Registrars, VerifyAdded(p)
    PROVE  ConfigInv'
<1>1. client[p] \in Clients /\ client[p].pc = "added" /\ RunProceeds(p) /\ RunLocks(p)
      /\ client[p].action = "install"
  BY DEF ConfigInv, ConfigTypeOK, VerifyAdded, RunProceeds
<1>2. PICK seen \in Seen :
        /\ Looks(p, seen)
        /\ \/ \E result \in {"installed", "updated"} : seen = Identity[p] /\
                client' = [client EXCEPT ![p].pc = "write", ![p].result = result]
           \/ client[p].updating /\ seen = "absent" /\ GoesOn(p, "rollback")
           \/ \E result \in Results \ Changes : Finishes(p, result)
  BY DEF VerifyAdded, Results, Changes
<1>3. (seen = entry \/ seen = "unavailable") /\ edited' = edited \ {p}
      /\ UNCHANGED <<entry, manifest, spoiled, lock>>
  BY <1>2, LookMeans DEF VerifyAdded
<1>4. ASSUME NEW result \in Results \ Changes, Finishes(p, result)
      PROVE  ConfigInv'
  BY <1>3, <1>4, LookFinishes
<1>5. ASSUME NEW result \in {"installed", "updated"}, seen = Identity[p],
             client' = [client EXCEPT ![p].pc = "write", ![p].result = result]
      PROVE  ConfigInv'
  <2>1. PICK c : c = [client[p] EXCEPT !.pc = "write", !.result = result]
    OBVIOUS
  <2>2. c \in Clients /\ c.pc = "write" /\ c.action = "install" /\ c.result = result
        /\ c.known = client[p].known /\ c.updating = client[p].updating
    BY <1>1, <2>1 DEF Clients, Results
  <2>3. client' = [client EXCEPT ![p] = c] /\ client'[p] = c
    BY <1>5, <2>1 DEF ConfigInv, ConfigTypeOK
  <2>4. entry = Identity[p]
    BY <1>3, <1>5 DEF McpConfigAssumption, Identities
  <2>5. RunProceeds(p)' /\ RunLocks(p)' /\ RunSees(p)'
    BY <1>1, <1>3, <2>2, <2>3, <2>4 DEF RunProceeds, RunLocks, RunSees, Late, Identities
  <2> QED
    BY <1>3, <2>2, <2>3, <2>5, LookGoesOn
<1>6. CASE client[p].updating /\ seen = "absent" /\ GoesOn(p, "rollback")
  <2>1. PICK c : c = [client[p] EXCEPT !.pc = "rollback"]
    OBVIOUS
  <2>2. c \in Clients /\ c.pc = "rollback" /\ c.action = "install"
        /\ c.known = client[p].known /\ c.updating
    BY <1>1, <1>6, <2>1 DEF Clients
  <2>3. client' = [client EXCEPT ![p] = c] /\ client'[p] = c
    BY <1>6, <2>1 DEF GoesOn, ConfigInv, ConfigTypeOK
  <2>4. RunProceeds(p)' /\ RunLocks(p)' /\ RunSees(p)'
    BY <1>1, <1>3, <1>6, <2>2, <2>3 DEF RunProceeds, RunLocks, RunSees, Late, Identities
  <2> QED
    BY <1>3, <2>2, <2>3, <2>4, LookGoesOn
<1> QED
  BY <1>2, <1>4, <1>5, <1>6

LEMMA VerifyRollbackSound ==
    ASSUME McpConfigAssumption, ConfigInv, NEW p \in Registrars, VerifyRollback(p)
    PROVE  ConfigInv'
<1>1. client[p] \in Clients /\ client[p].pc = "rolled" /\ RunProceeds(p) /\ RunLocks(p)
  BY DEF ConfigInv, ConfigTypeOK, VerifyRollback
<1>2. PICK seen \in Seen :
        /\ Looks(p, seen)
        /\ \/ Ownership(p, seen) = "recognized" /\ Finishes(p, "rollback_restored")
           \/ Finishes(p, "rollback_failed")
  BY DEF VerifyRollback
<1>3. (seen = entry \/ seen = "unavailable") /\ edited' = edited \ {p}
      /\ UNCHANGED <<entry, manifest, spoiled, lock>>
  BY <1>2, LookMeans DEF VerifyRollback
<1>4. CASE Ownership(p, seen) = "recognized" /\ Finishes(p, "rollback_restored")
  <2>1. PICK c : c = [client[p] EXCEPT !.pc = "end", !.result = "rollback_restored"]
    OBVIOUS
  <2>2. c \in Clients /\ c.pc = "end" /\ c.result = "rollback_restored"
    BY <1>1, <2>1 DEF Clients, Results
  <2>3. client' = [client EXCEPT ![p] = c] /\ client'[p] = c
    BY <1>4, <2>1 DEF Finishes, ConfigInv, ConfigTypeOK
  <2>4. lock = p /\ client[p].known = manifest
    BY <1>1 DEF RunLocks, RunProceeds, Late
  <2>5. entry = manifest
    BY <1>1, <1>3, <1>4, <2>4, OwnershipMeans DEF McpConfigAssumption
  <2>6. RunProceeds(p)' /\ RunLocks(p)' /\ RunSees(p)'
    BY <1>3, <2>2, <2>3, <2>4, <2>5 DEF RunProceeds, RunLocks, RunSees, Late
  <2> QED
    BY <1>3, <2>2, <2>3, <2>6, LookGoesOn
<1>5. CASE Finishes(p, "rollback_failed")
  BY <1>3, <1>5, LookFinishes DEF Results, Changes
<1> QED
  BY <1>2, <1>4, <1>5

LEMMA WriteManifestSound ==
    ASSUME McpConfigAssumption, ConfigInv, NEW p \in Registrars, WriteManifest(p)
    PROVE  ConfigInv'
<1>1. /\ client[p] \in Clients /\ client[p].pc = "write"
      /\ RunProceeds(p) /\ RunLocks(p) /\ RunSees(p)
  BY DEF ConfigInv, ConfigTypeOK, WriteManifest
<1>2. UNCHANGED <<entry, lock, edited, spoiled>>
  BY DEF WriteManifest
<1>3. lock = p /\ client[p].known = manifest /\ client[p].action # "status"
  BY <1>1 DEF RunLocks, RunProceeds, Late
<1>4. CASE Finishes(p, "manifest_failed") /\ manifest' = manifest
  <2>1. "manifest_failed" \in Results \ Changes
    BY DEF Results, Changes
  <2> QED
    BY <1>2, <1>4, <2>1, FinishSound, RunGoesOn
<1>5. CASE /\ Finishes(p, client[p].result)
           /\ \/ client[p].action = "install" /\ manifest' = Identity[p]
              \/ client[p].action # "install" /\ manifest' \in {"missing", "invalid", "empty"}
  <2>1. PICK c : c = [client[p] EXCEPT !.pc = "end"]
    OBVIOUS
  <2>2. c \in Clients /\ c.pc = "end" /\ c.result = client[p].result
    BY <1>1, <2>1 DEF Clients
  <2>3. client' = [client EXCEPT ![p] = c] /\ client'[p] = c
    BY <1>1, <1>5, <2>1 DEF Finishes, ConfigInv, ConfigTypeOK, Clients
  <2>4. manifest' \in Identities \cup NoManifest
    BY <1>5 DEF Identities, NoManifest
  <2>5. ConfigTypeOK' /\ ~spoiled'
    BY <1>2, <2>2, <2>3, <2>4 DEF ConfigInv, ConfigTypeOK
  <2>6. RunProceeds(p)' /\ RunLocks(p)'
    BY <1>2, <1>3, <2>2, <2>3 DEF RunProceeds, RunLocks, Late
  <2>7. RunSees(p)'
    BY <1>1, <1>2, <1>5, <2>2, <2>3 DEF RunSees, RunProceeds, McpConfigAssumption, NoManifest
  <2>8. \A q \in Registrars \ {p} : client'[q] = client[q] /\ lock # q
    BY <1>3, <2>3 DEF ConfigInv, ConfigTypeOK
  <2> QED
    BY <1>2, <2>5, <2>6, <2>7, <2>8, OneRunSteps
<1>6. \/ Finishes(p, "manifest_failed") /\ manifest' = manifest
      \/ /\ Finishes(p, client[p].result)
         /\ \/ client[p].action = "install" /\ manifest' = Identity[p]
            \/ client[p].action # "install" /\ manifest' \in {"missing", "invalid", "empty"}
  BY <1>3 DEF WriteManifest
<1> QED
  BY <1>4, <1>5, <1>6

-----------------------------------------------------------------------------
LEMMA ConfigStepSound ==
    ASSUME McpConfigAssumption, ConfigInv, [ConfigNext]_configVars
    PROVE  ConfigInv'
<1>1. CASE UserEdits
  BY <1>1, UserEditsSound
<1>2. ASSUME NEW p \in Registrars, ConfigStep(p)
      PROVE  ConfigInv'
  BY <1>2, BeginSound, LoadSound, GivesUpSound, StatusSound, RecheckSound, RemoveSound,
     VerifyRemovedSound, AddSound, VerifyAddedSound, RollbackSound, VerifyRollbackSound,
     WriteManifestSound, EndSound, KilledSound DEF ConfigStep
<1>3. CASE UNCHANGED configVars
  BY <1>3 DEF configVars, ConfigInv, ConfigTypeOK, RunProceeds, RunLocks, RunSees
<1> QED
  BY <1>1, <1>2, <1>3 DEF ConfigNext

(* However many processes register with an agent, a run that changes anything  *)
(* holds the lock and has read the manifest under it, and what it does next    *)
(* rests on the entry it saw last (installMCPConfigTarget,                    *)
(* uninstallMCPConfigTarget, updateRecognizedMCPConfigTarget).                 *)
THEOREM RegistrationInvariant ==
    ASSUME McpConfigAssumption
    PROVE  ConfigSpec => []ConfigInv
<1>1. ConfigInit => ConfigInv
  BY ConfigInitially
<1>2. ConfigInv /\ [ConfigNext]_configVars => ConfigInv'
  BY ConfigStepSound
<1> QED
  BY <1>1, <1>2, PTL DEF ConfigSpec

(* An entry of the user's is neither removed nor replaced, and a run that says *)
(* it installed, updated, restored or removed an entry has done so, unless the *)
(* user changes the entry after its last look (manageMCPConfig).              *)
THEOREM RegistrationIsHonest ==
    ASSUME McpConfigAssumption
    PROVE  ConfigSpec => []RegistrationHonest
<1>1. ConfigInv => RegistrationHonest
  BY DEF ConfigInv, RunSees, RegistrationHonest, UserEntryKept, ReportIsTrue, Says
<1> QED
  BY <1>1, RegistrationInvariant, PTL
=============================================================================
