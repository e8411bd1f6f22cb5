------------------------------ MODULE LocalData ------------------------------
(***************************************************************************)
(* What the application finds on disk when it starts: the directory of its *)
(* data, taken over from the product's old name together with the database *)
(* in it (src/main/app/userDataMigration.ts), the home of the agent engine *)
(* (src/main/runtime/codexHome.ts), the schema of the database (#migrate   *)
(* of src/main/state/database.ts), the vault of credentials                *)
(* (src/main/security/credentialStore.ts) and the key the engine is        *)
(* launched with (src/main/providers/providerService.ts and index.ts).     *)
(*                                                                         *)
(* Every step of a start is a file operation or a transaction, and a       *)
(* process may be killed between any two.  Two processes may start at the  *)
(* same time: the lock of the single instance is taken only after the      *)
(* first migration.                                                        *)
(* The vault is written to a temporary file that is then renamed, so that  *)
(* a process killed meanwhile leaves the old vault or the new one.         *)
(***************************************************************************)
EXTENDS Naturals

CONSTANTS
    Instances,    \* the processes of the application
    LastVersion,  \* the last version of the schema
    ApiKeys,      \* the keys of a provider
    EnvKey,       \* the key in the environment, or NoKey
    NoKey,        \* null
    MaxKeyCalls   \* bound: changes of the key, and deaths of a process

ASSUME LocalDataAssumption ==
    /\ LastVersion \in Nat /\ MaxKeyCalls \in Nat
    /\ NoKey \notin ApiKeys /\ EnvKey \in ApiKeys \cup {NoKey}

VARIABLES
    userDir,    \* where the user's data is: the old directory, the current one, or nowhere yet
    current,    \* the current directory
    rows,       \* the name of the database with the user's rows
    freshRows,  \* an empty database has been created in their stead
    home,       \* the name of the engine's home with the user's sessions
    freshHome,  \* an empty home has been created in its stead
    version,    \* user_version
    changes,    \* the versions whose changes are in the tables
    startStep,  \* where each process is in its start
    vault,      \* credentials.json: the key in it
    launchKey,  \* the key in the launch configuration of the engine
    stale,      \* the last change of the key was refused, or the vault could not be read
    turnRuns,   \* a turn or a terminal process is active
    keyCalls    \* how many changes and deaths there were

dataVars == <<userDir, current, rows, freshRows, home, freshHome, version, changes, startStep,
              vault, launchKey, stale, turnRuns, keyCalls>>

Names == {"none", "legacy", "current"}
BeforeLock == {"check", "removing", "moving", "nameCheck", "naming", "locking"}
Holding == {"homeCheck", "homing", "homeMade", "opening", "migrating", "open"}

DataTypeOK ==
    /\ userDir \in Names /\ current \in {"none", "empty", "filled"}
    /\ {rows, home} \subseteq Names /\ {freshRows, freshHome} \subseteq BOOLEAN
    /\ version \in 0 .. LastVersion /\ changes \subseteq 1 .. LastVersion
    /\ startStep \in [Instances -> {"off"} \cup BeforeLock \cup Holding]
    /\ {vault, launchKey} \subseteq ApiKeys \cup {NoKey}
    /\ {stale, turnRuns} \subseteq BOOLEAN /\ keyCalls \in 0 .. MaxKeyCalls

\* A user of the old product, with the new one never or not usefully started, a user of
\* the new one, and nobody yet.
DataInit ==
    /\ \/ /\ userDir = "legacy" /\ current \in {"none", "empty"}
          /\ rows \in {"legacy", "none"} /\ home \in Names
       \/ /\ userDir = "current" /\ current = "filled"
          /\ rows \in {"legacy", "current"} /\ home \in Names
       \/ /\ userDir = "none" /\ current \in {"none", "empty"} /\ rows = "none" /\ home = "none"
    /\ version \in (IF rows = "none" THEN {0} ELSE 0 .. LastVersion)
    /\ changes = 1 .. version
    /\ freshRows = FALSE /\ freshHome = FALSE
    /\ startStep = [i \in Instances |-> "off"]
    /\ vault = NoKey /\ launchKey = NoKey
    /\ stale = FALSE /\ turnRuns = FALSE /\ keyCalls = 0

dataFiles == <<userDir, current, rows, freshRows, home, freshHome>>
keyVars == <<vault, launchKey, stale, turnRuns, keyCalls>>

GoesTo(i, s) == startStep' = [startStep EXCEPT ![i] = s]
Dies(i) == GoesTo(i, "off")

-----------------------------------------------------------------------------
(* prepareNorevinqUserData, before the lock.                               *)

LaunchApp(i) ==
    /\ startStep[i] = "off"
    /\ GoesTo(i, "check")
    /\ UNCHANGED <<dataFiles, version, changes, keyVars>>

\* Fault: the database is renamed only together with the directory.
Fault_OnlyWithDirectory(moved) == IF moved THEN "nameCheck" ELSE "locking"

\* migrateDatabaseName follows, whether the directory was moved or not.
AfterDirectory(moved) == "nameCheck"

\* isRealDirectory(legacy) and canReplaceCurrentDirectory(current).
DirectoriesChecked(i) ==
    /\ startStep[i] = "check"
    /\ GoesTo(i, IF userDir # "legacy" \/ current = "filled" THEN AfterDirectory(FALSE)
                 ELSE IF current = "empty" THEN "removing" ELSE "moving")
    /\ UNCHANGED <<dataFiles, version, changes, keyVars>>

\* rmdir; another process may have moved the data there meanwhile.
EmptyRemoved(i) ==
    /\ startStep[i] = "removing"
    /\ IF current = "empty"
         THEN current' = "none" /\ GoesTo(i, "moving")
         ELSE UNCHANGED current /\ Dies(i)
    /\ UNCHANGED <<userDir, rows, freshRows, home, freshHome, version, changes, keyVars>>

DirectoryMoved(i) ==
    /\ startStep[i] = "moving"
    /\ IF userDir = "legacy" /\ current # "filled"
         THEN userDir' = "current" /\ current' = "filled" /\ GoesTo(i, AfterDirectory(TRUE))
         ELSE UNCHANGED <<userDir, current>> /\ Dies(i)
    /\ UNCHANGED <<rows, freshRows, home, freshHome, version, changes, keyVars>>

\* A database of the current name, the user's or a new one, is left alone.
NameChecked(i) ==
    /\ startStep[i] = "nameCheck"
    /\ GoesTo(i, IF userDir = "current" /\ rows = "legacy" /\ ~freshRows THEN "naming"
                 ELSE "locking")
    /\ UNCHANGED <<dataFiles, version, changes, keyVars>>

DatabaseRenamed(i) ==
    /\ startStep[i] = "naming"
    /\ IF rows = "legacy"
         THEN rows' = "current" /\ GoesTo(i, "locking")
         ELSE UNCHANGED rows /\ Dies(i)
    /\ UNCHANGED <<userDir, current, freshRows, home, freshHome, version, changes, keyVars>>

\* requestSingleInstanceLock: the second process quits.
LockRequested(i) ==
    /\ startStep[i] = "locking"
    /\ IF \E j \in Instances : startStep[j] \in Holding THEN Dies(i)
       ELSE GoesTo(i, "homeCheck")
    /\ UNCHANGED <<dataFiles, version, changes, keyVars>>

-----------------------------------------------------------------------------
(* The start of the application, under the lock.                           *)

\* migrateLegacyAgentHome: a home of the current name is left alone.
HomeChecked(i) ==
    /\ startStep[i] = "homeCheck"
    /\ GoesTo(i, IF userDir = "current" /\ home = "legacy" /\ ~freshHome THEN "homing"
                 ELSE "homeMade")
    /\ UNCHANGED <<dataFiles, version, changes, keyVars>>

HomeRenamed(i) ==
    /\ startStep[i] = "homing"
    /\ home' = "current" /\ GoesTo(i, "homeMade")
    /\ UNCHANGED <<userDir, current, rows, freshRows, freshHome, version, changes, keyVars>>

\* mkdir, which makes the directory of the data as well.
HomeMade(i) ==
    /\ startStep[i] = "homeMade"
    /\ freshHome' = (home # "current")
    /\ current' = "filled" /\ GoesTo(i, "opening")
    /\ UNCHANGED <<userDir, rows, freshRows, home, version, changes, keyVars>>

\* new DatabaseSync creates the file if there is none.
DatabaseOpened(i) ==
    /\ startStep[i] = "opening"
    /\ freshRows' = (rows # "current")
    /\ IF rows = "current" \/ freshRows THEN UNCHANGED <<version, changes>>
       ELSE version' = 0 /\ changes' = {}
    /\ GoesTo(i, "migrating")
    /\ UNCHANGED <<userDir, current, rows, home, freshHome, keyVars>>

\* One version: its changes and user_version in one transaction.
VersionMigrated(i) ==
    /\ startStep[i] = "migrating" /\ version < LastVersion
    /\ version + 1 \notin changes
    /\ changes' = changes \cup {version + 1} /\ version' = version + 1
    /\ UNCHANGED <<dataFiles, startStep, keyVars>>

KeyInForce(stored) == IF EnvKey # NoKey THEN EnvKey ELSE stored

\* readStoredDeepSeekKey, where an error counts as no key, and the launch configuration.
ApplicationOpens(i, readable) ==
    /\ startStep[i] = "migrating" /\ version = LastVersion
    /\ GoesTo(i, "open")
    /\ launchKey' = KeyInForce(IF readable THEN vault ELSE NoKey)
    /\ stale' = ~readable /\ turnRuns' = FALSE
    /\ UNCHANGED <<dataFiles, version, changes, vault, keyCalls>>

-----------------------------------------------------------------------------
(* ProviderService, while the application is open.                         *)

\* A turn or a terminal process begins, or the last one ends.
TurnBegins ==
    /\ \E i \in Instances : startStep[i] = "open"
    /\ turnRuns' = ~turnRuns
    /\ UNCHANGED <<dataFiles, version, changes, startStep, vault, launchKey, stale, keyCalls>>

\* saveDeepSeekCredential and, with no key, deleteDeepSeekCredential: the vault first, then
\* the configuration of the engine, which is refused while a turn or a terminal runs.
ChangeKey(key) ==
    /\ keyCalls < MaxKeyCalls /\ \E i \in Instances : startStep[i] = "open"
    /\ keyCalls' = keyCalls + 1
    /\ vault' = key
    /\ IF turnRuns THEN UNCHANGED launchKey /\ stale' = TRUE
       ELSE launchKey' = KeyInForce(key) /\ stale' = FALSE
    /\ UNCHANGED <<dataFiles, version, changes, startStep, turnRuns>>

\* A process dies between two steps, or while it writes the vault.
ProcessDies(i) ==
    /\ keyCalls < MaxKeyCalls /\ startStep[i] # "off"
    /\ keyCalls' = keyCalls + 1
    /\ Dies(i)
    /\ \/ UNCHANGED vault
       \/ startStep[i] = "open" /\ vault' \in ApiKeys \cup {NoKey}
    /\ UNCHANGED <<dataFiles, version, changes, launchKey, stale, turnRuns>>

DataNext ==
    \/ \E i \in Instances :
         \/ LaunchApp(i) \/ DirectoriesChecked(i) \/ EmptyRemoved(i) \/ DirectoryMoved(i)
         \/ NameChecked(i) \/ DatabaseRenamed(i) \/ LockRequested(i)
         \/ HomeChecked(i) \/ HomeRenamed(i) \/ HomeMade(i) \/ DatabaseOpened(i)
         \/ VersionMigrated(i) \/ \E readable \in BOOLEAN : ApplicationOpens(i, readable)
         \/ ProcessDies(i)
    \/ TurnBegins
    \/ \E key \in ApiKeys \cup {NoKey} : ChangeKey(key)

DataSpec == DataInit /\ [][DataNext]_dataVars

-----------------------------------------------------------------------------
(* Properties.                                                             *)

OpenApps == {i \in Instances : startStep[i] = "open"}

\* The user's rows and sessions, once there are any, are the ones an open application
\* uses, whatever it was killed at before and whichever process came first.
UserDataIsAdopted ==
    OpenApps # {} =>
        /\ rows # "none" => userDir = "current" /\ rows = "current" /\ ~freshRows
        /\ home # "none" => home = "current" /\ ~freshHome

\* user_version tells exactly which changes the tables have.
SchemaMatchesVersion == changes = 1 .. version /\ (OpenApps # {} => version = LastVersion)

\* The engine is launched with the key of the environment or the one in the vault.
EngineHasTheKey == OpenApps # {} /\ ~stale => launchKey = KeyInForce(vault)

\* One process at most is open, and what the user has stored is what it uses.
StoredDataIsInForce ==
    /\ \A i, j \in OpenApps : i = j
    /\ UserDataIsAdopted /\ SchemaMatchesVersion /\ EngineHasTheKey
=============================================================================
