------------------------------ MODULE McpConfig ------------------------------
(***************************************************************************)
(* The registration of Belay with an agent (internal/localapp/mcp_config.go *)
(* and mcp_config_manifest.go): processes install or uninstall the entry    *)
(* "belay" in the configuration of the agent through the agent's command    *)
(* line, which offers no conditional change.  A file in Belay's home, the   *)
(* manifest, names the identity that was last verified; a lock keeps        *)
(* Belay's own processes apart, and nothing keeps the user's edits apart.   *)
(***************************************************************************)
EXTENDS Naturals

CONSTANTS Registrars,           \* processes
          Identity,             \* the command and arguments that a process registers
          DuplicateAddSafe,     \* the agent refuses to add a name that is taken
          AllowAdd,             \* an unsafe add of an absent entry is allowed
          MaxRuns, MaxEdits, MaxFaults        \* bounds

Identities == {Identity[p] : p \in Registrars}
UserEntries == {"foreign", "odd"}     \* another server, or one that cannot be verified
NoManifest == {"missing", "invalid", "empty"}   \* no file, a bad one, one without this agent

McpConfigAssumption ==
    /\ DuplicateAddSafe \in BOOLEAN /\ AllowAdd \in BOOLEAN /\ "free" \notin Registrars
    /\ Identities \cap (UserEntries \cup NoManifest \cup {"absent", "unavailable"}) = {}

VARIABLES entry, manifest, lock, client, edited, spoiled, budget

(* entry: what the agent's configuration holds.  client: a run of the command *)
(* of each process; "known" is the manifest it has loaded.  edited: the       *)
(* processes since whose last look the user has changed the entry.  spoiled   *)
(* (history): an entry of the user was removed or replaced, though the user   *)
(* had not just changed it.                                                   *)

configVars == <<entry, manifest, lock, client, edited, spoiled, budget>>

Idle == [pc |-> "idle", action |-> "status", known |-> "missing", updating |-> FALSE,
         exit |-> TRUE, result |-> "none"]

Results == {"none", "absent", "owned_current", "owned_recognized", "unknown", "already_installed",
            "foreign_preserved", "unavailable", "installed", "updated", "removed", "failed",
            "rollback_restored", "rollback_failed", "manifest_failed"}

Clients ==
    [pc : {"idle", "load", "status", "recheck", "remove", "removed", "add", "added", "rollback",
           "rolled", "write", "end"},
     action : {"install", "uninstall", "status"}, known : Identities \cup NoManifest,
     updating : BOOLEAN, exit : BOOLEAN, result : Results]

ConfigTypeOK ==
    /\ entry \in Identities \cup UserEntries \cup {"absent"}
    /\ manifest \in Identities \cup NoManifest
    /\ lock \in Registrars \cup {"free"}
    /\ client \in [Registrars -> Clients]
    /\ edited \subseteq Registrars /\ spoiled \in BOOLEAN

ConfigInit ==
    /\ entry \in {"absent", "foreign"} \cup Identities
    /\ manifest \in {"missing", "invalid"} \cup Identities
    /\ lock = "free" /\ edited = {} /\ spoiled = FALSE
    /\ client = [p \in Registrars |-> Idle]
    /\ budget = [runs |-> MaxRuns, edits |-> MaxEdits, troubles |-> MaxFaults]

Spend(kind) == budget[kind] > 0 /\ budget' = [budget EXCEPT ![kind] = @ - 1]
GoesOn(p, pc) == client' = [client EXCEPT ![p].pc = pc]
Finishes(p, result) == client' = [client EXCEPT ![p].pc = "end", ![p].result = result]

-----------------------------------------------------------------------------
(* A run begins. *)

Begin(p) ==
    /\ client[p].pc = "idle" /\ Spend("runs")
    /\ \E action \in {"install", "uninstall", "status"} :
            client' = [client EXCEPT ![p] = [Idle EXCEPT !.pc = "load", !.action = action]]
    /\ UNCHANGED <<entry, manifest, lock, edited, spoiled>>

(* The manifest is loaded again once the lock is held; status takes no lock.  *)
Load(p) ==
    /\ client[p].pc = "load"
    /\ IF client[p].action = "status" THEN UNCHANGED lock ELSE lock = "free" /\ lock' = p
    /\ client' = [client EXCEPT ![p].pc = "status", ![p].known = manifest]
    /\ UNCHANGED <<entry, manifest, edited, spoiled, budget>>

(* The program of the agent is not found, or the lock is not to be had.       *)
GivesUp(p) ==
    /\ client[p].pc = "load"
    /\ Finishes(p, "unavailable")
    /\ UNCHANGED <<entry, manifest, lock, edited, spoiled, budget>>

-----------------------------------------------------------------------------
(* The commands of the agent. *)

(* inspectMCPConfigTarget: a look at the entry, which may not come in time.   *)
Looks(p, seen) ==
    /\ \/ seen = entry /\ UNCHANGED budget
       \/ seen = "unavailable" /\ Spend("troubles")
    /\ edited' = edited \ {p}

Seen == Identities \cup UserEntries \cup {"absent", "unavailable"}

\* Mutant: whatever is found under the name was put there by Belay.
OwnershipByName(p, seen) ==
    CASE seen = "absent" -> "none"
      [] seen \in {"odd", "unavailable"} -> "unknown"
      [] seen = Identity[p] -> "current"
      [] OTHER -> "recognized"

(* classifyMCPOwnership.                                                      *)
Ownership(p, seen) ==
    CASE seen = "absent" -> "none"
      [] seen \in {"odd", "unavailable"} -> "unknown"
      [] seen = Identity[p] -> "current"
      [] OTHER -> IF seen = client[p].known THEN "recognized" ELSE "foreign"

(* A command that changes the entry: it works, or the agent refuses it, or,   *)
(* of its change and its report of success, one or both are missing.          *)
Command(p, becomes, refused, next) ==
    /\ \E applied \in BOOLEAN, exit \in BOOLEAN :
        /\ refused => ~applied /\ ~exit
        /\ IF refused \/ (applied /\ exit) THEN UNCHANGED budget ELSE Spend("troubles")
        /\ entry' = IF applied THEN becomes ELSE entry
        /\ spoiled' = (spoiled \/ (applied /\ entry \in UserEntries /\ p \notin edited))
        /\ client' = [client EXCEPT ![p].pc = next, ![p].exit = exit]
    /\ UNCHANGED <<manifest, lock, edited>>

AddEntry(p, identity, next) ==
    Command(p, identity, DuplicateAddSafe /\ entry # "absent", next)

-----------------------------------------------------------------------------
(* statusMCPConfigTarget, and what install and uninstall make of it. *)

Status(p) ==
    /\ client[p].pc = "status"
    /\ \E seen \in Seen :
        /\ Looks(p, seen)
        /\ LET owned == Ownership(p, seen)
               action == client[p].action
           IN  CASE action = "status" ->
                        Finishes(p, CASE owned = "none" -> "absent"
                                  [] owned = "unknown" -> "unknown"
                                  [] owned = "current" -> "owned_current"
                                  [] owned = "recognized" -> "owned_recognized"
                                  [] owned = "foreign" -> "foreign_preserved")
                 [] action # "status" /\ owned = "unknown" -> Finishes(p, "unknown")
                 [] action # "status" /\ owned = "foreign" -> Finishes(p, "foreign_preserved")
                 [] action = "install" /\ owned = "current" -> Finishes(p, "already_installed")
                 [] action = "install" /\ owned = "none" ->
                        IF DuplicateAddSafe \/ AllowAdd THEN GoesOn(p, "add")
                        ELSE Finishes(p, "unavailable")
                 [] action = "install" /\ owned = "recognized" ->
                        IF DuplicateAddSafe
                        THEN client' = [client EXCEPT ![p].pc = "recheck", ![p].updating = TRUE]
                        ELSE Finishes(p, "unavailable")
                 [] action = "uninstall" /\ owned = "none" -> Finishes(p, "absent")
                 [] action = "uninstall" /\ owned \in {"current", "recognized"} ->
                        GoesOn(p, "recheck")
    /\ UNCHANGED <<entry, manifest, lock, spoiled>>

(* The ownership is proved again right before the entry is removed.           *)
Recheck(p) ==
    LET may == IF client[p].updating THEN {"recognized"} ELSE {"current", "recognized"}
    IN  /\ client[p].pc = "recheck"
        /\ \E seen \in Seen :
            /\ Looks(p, seen)
            /\ IF Ownership(p, seen) \in may THEN GoesOn(p, "remove") ELSE Finishes(p, "failed")
        /\ UNCHANGED <<entry, manifest, lock, spoiled>>

Remove(p) == client[p].pc = "remove" /\ Command(p, "absent", FALSE, "removed")

VerifyRemoved(p) ==
    /\ client[p].pc = "removed"
    /\ \E seen \in Seen :
        /\ Looks(p, seen)
        /\ IF seen # "absent" THEN Finishes(p, "failed")
           ELSE IF client[p].action = "install" THEN GoesOn(p, "add")
           ELSE client' = [client EXCEPT ![p].pc = "write", ![p].result = "removed"]
    /\ UNCHANGED <<entry, manifest, lock, spoiled>>

Add(p) == client[p].pc = "add" /\ AddEntry(p, Identity[p], "added")

\* Mutant: an add that reports success is not verified.
TrustAdd(p) ==
    /\ client[p].pc = "added"
    /\ \E seen \in Seen :
        /\ Looks(p, seen)
        /\ IF seen = Identity[p] \/ client[p].exit
           THEN client' = [client EXCEPT ![p].pc = "write",
                             ![p].result = IF client[p].updating THEN "updated" ELSE "installed"]
           ELSE IF client[p].updating /\ seen = "absent" THEN GoesOn(p, "rollback")
           ELSE Finishes(p, IF client[p].updating THEN "rollback_failed" ELSE "failed")
    /\ UNCHANGED <<entry, manifest, lock, spoiled>>

(* Installed if the entry is there, whatever the command said; an update that *)
(* left nothing there puts the old entry back.                                *)
VerifyAdded(p) ==
    /\ client[p].pc = "added"
    /\ \E seen \in Seen :
        /\ Looks(p, seen)
        /\ IF seen = Identity[p]
           THEN client' = [client EXCEPT ![p].pc = "write",
                    ![p].result = IF client[p].updating THEN "updated" ELSE "installed"]
           ELSE IF client[p].updating /\ seen = "absent" THEN GoesOn(p, "rollback")
           ELSE Finishes(p, IF client[p].updating THEN "rollback_failed" ELSE "failed")
    /\ UNCHANGED <<entry, manifest, lock, spoiled>>

Rollback(p) == client[p].pc = "rollback" /\ AddEntry(p, client[p].known, "rolled")

VerifyRollback(p) ==
    /\ client[p].pc = "rolled"
    /\ \E seen \in Seen :
        /\ Looks(p, seen)
        /\ Finishes(p, IF client[p].exit /\ Ownership(p, seen) = "recognized"
                   THEN "rollback_restored" ELSE "rollback_failed")
    /\ UNCHANGED <<entry, manifest, lock, spoiled>>

(* The manifest, in one rename, after the change of the entry.  A manifest    *)
(* that could not be read is not written over, and an uninstall that found    *)
(* none writes none.                                                          *)
WriteManifest(p) ==
    LET installs == client[p].action = "install"
        cannot == installs /\ client[p].known = "invalid"
        skips == ~installs /\ client[p].known \in {"missing", "invalid"}
    IN  /\ client[p].pc = "write"
        /\ \/ /\ ~cannot /\ Finishes(p, client[p].result) /\ UNCHANGED budget
              /\ manifest' = IF skips THEN manifest ELSE IF installs THEN Identity[p] ELSE "empty"
           \/ cannot /\ Finishes(p, "manifest_failed") /\ UNCHANGED <<manifest, budget>>
           \/ ~skips /\ ~cannot /\ Finishes(p, "manifest_failed") /\ Spend("troubles")
              /\ UNCHANGED manifest
        /\ UNCHANGED <<entry, lock, edited, spoiled>>

Release(p) == lock' = IF lock = p THEN "free" ELSE lock

End(p) ==
    /\ client[p].pc = "end"
    /\ client' = [client EXCEPT ![p].pc = "idle"]
    /\ Release(p)
    /\ UNCHANGED <<entry, manifest, edited, spoiled, budget>>

-----------------------------------------------------------------------------
(* The process stops; the system releases its lock.                           *)
Killed(p) ==
    /\ client[p].pc \notin {"idle", "end"} /\ Spend("troubles")
    /\ client' = [client EXCEPT ![p] = Idle]
    /\ Release(p)
    /\ UNCHANGED <<entry, manifest, edited, spoiled>>

(* The user changes the entry, at any time.                                   *)
UserEdits ==
    /\ Spend("edits")
    /\ entry' \in (UserEntries \cup {"absent"}) \ {entry}
    /\ edited' = Registrars
    /\ UNCHANGED <<manifest, lock, client, spoiled>>

ConfigStep(p) ==
    \/ Begin(p) \/ Load(p) \/ GivesUp(p) \/ Status(p) \/ Recheck(p) \/ Remove(p)
    \/ VerifyRemoved(p) \/ Add(p) \/ VerifyAdded(p) \/ Rollback(p) \/ VerifyRollback(p)
    \/ WriteManifest(p) \/ End(p) \/ Killed(p)

ConfigNext == UserEdits \/ \E p \in Registrars : ConfigStep(p)

ConfigSpec == ConfigInit /\ [][ConfigNext]_configVars

-----------------------------------------------------------------------------
(* An entry of the user is neither removed nor replaced, unless the user      *)
(* makes it in the moment between Belay's last look and its command.          *)
UserEntryKept == ~spoiled

(* What a run reports is so: the entry it installed, restored or removed is   *)
(* the one the agent has, and the manifest knows an entry that was installed, *)
(* unless the user changed it after the run's last look.                      *)
Says(p, results) == client[p].pc = "end" /\ client[p].result \in results /\ p \notin edited

ReportIsTrue ==
    \A p \in Registrars :
        /\ Says(p, {"installed", "updated"}) => entry = Identity[p] /\ manifest = Identity[p]
        /\ Says(p, {"already_installed"}) => entry = Identity[p]
        /\ Says(p, {"rollback_restored"}) => entry = manifest
        /\ Says(p, {"removed"}) => entry = "absent" /\ manifest \notin Identities

(* Belay leaves what is not its own alone, and says what it has done.         *)
RegistrationHonest == UserEntryKept /\ ReportIsTrue
=============================================================================
