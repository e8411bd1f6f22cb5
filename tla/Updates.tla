------------------------------ MODULE Updates ------------------------------
(* UpdateService (src/main/update/updateService.ts) and the updater it  *)
(* drives.  The phase the user sees is moved by the updater's events and by *)
(* the user's and the timers' calls; only in phase "downloaded" can the     *)
(* update be installed, and in "checking" or "downloading" nothing else may *)
(* be started.                                                              *)
EXTENDS ServiceBounds

CONSTANT MaxUpdateCalls   \* bound: calls made in one behaviour

ASSUME UpdatesAssumption == MaxUpdateCalls \in Nat

VARIABLES
    updatePhase,          \* snapshot.phase
    availableVersion, \* snapshot.availableVersion is set
    updateTimer,    \* the automatic checks: "none", "delay", "interval"
    updater,        \* what the updater is at: "idle", "check", "download"
    updateFile,     \* what the updater holds: "none", a file it has "verified", or one that
                    \* is "doubted" since it reported an error
    upCalls

upVars == <<updatePhase, availableVersion, updateTimer, updater, updateFile, upCalls>>

Phases == {"disabled", "idle", "checking", "available", "downloading",
           "downloaded", "upToDate", "error"}

UpTypeOK ==
    /\ updatePhase \in Phases /\ availableVersion \in BOOLEAN
    /\ updateTimer \in {"none", "delay", "interval", "disposed"}
    /\ updater \in {"idle", "check", "download"}
    /\ updateFile \in {"none", "verified", "doubted"}
    /\ upCalls \in 0..MaxUpdateCalls

(* Without a driver - unpackaged, unsupported, not configured - the service *)
(* stays disabled.                                                          *)
UpInit ==
    /\ updatePhase \in {"disabled", "idle"}
    /\ availableVersion = FALSE /\ updateTimer = "none"
    /\ updater = "idle" /\ updateFile = "none" /\ upCalls = 0

HasDriver == updatePhase # "disabled"
Connected == HasDriver /\ updateTimer # "disposed"

----------------------------------------------------------------------------
StartAutomaticChecks ==
    /\ HasDriver /\ updateTimer = "none"
    /\ updateTimer' = "delay"
    /\ UNCHANGED <<updatePhase, availableVersion, updater, updateFile, upCalls>>

Called == updateTimer # "disposed" /\ upCalls < MaxUpdateCalls /\ upCalls' = upCalls + 1

Fault_CheckDownloaded ==
    /\ updatePhase \notin {"disabled", "checking", "downloading"}
    /\ Called
    /\ updatePhase' = "checking" /\ updater' = "check"
    /\ UNCHANGED <<availableVersion, updateFile>>

CheckForUpdates ==
    /\ updatePhase \notin {"disabled", "checking", "downloading", "downloaded"}
    /\ Called
    /\ updatePhase' = "checking" /\ updater' = "check"
    /\ UNCHANGED <<availableVersion, updateFile>>

UserChecks == CheckForUpdates /\ UNCHANGED updateTimer

(* The first automatic check arms the interval of the others.               *)
UpdateTimerFires ==
    /\ updateTimer \in {"delay", "interval"} /\ updateTimer' = "interval"
    /\ \/ CheckForUpdates
       \/ /\ updateTimer = "delay" /\ updatePhase \in {"checking", "downloading", "downloaded"}
          /\ UNCHANGED <<updatePhase, availableVersion, updater, updateFile, upCalls>>

DownloadUpdate ==
    /\ updatePhase \in {"available", "error"} /\ availableVersion
    /\ Called
    /\ updatePhase' = "downloading" /\ updater' = "download"
    /\ UNCHANGED <<availableVersion, updateTimer, updateFile>>

(* The updater reports an error and, if it was at something, rejects; it    *)
(* may also fail to stage the file it holds.  Whether it still holds the    *)
(* file then the service does not know.                                     *)
RecordError ==
    /\ updater # "idle" \/ updateFile # "none"
    /\ updatePhase' = "error" /\ updater' = "idle"
    /\ updateFile' \in {"doubted", "none"}
    /\ updateFile = "none" => updateFile' = "none"
    /\ updater = "check" => updateFile' = updateFile
    /\ UNCHANGED <<availableVersion, updateTimer, upCalls>>

(* quitAndInstall: the application ends and starts as the new version, or   *)
(* the updater reports that it cannot.                                      *)
InstallUpdate ==
    /\ updatePhase = "downloaded" /\ updateTimer # "disposed"
    /\ \/ /\ updatePhase' = "idle" /\ availableVersion' = FALSE /\ updateTimer' = "none"
          /\ updater' = "idle" /\ updateFile' = "none"
          /\ UNCHANGED upCalls
       \/ RecordError

(* dispose: no timer and no event reaches the service any more.             *)
DisposeUpdates ==
    /\ HasDriver /\ updateTimer # "disposed"
    /\ updateTimer' = "disposed"
    /\ UNCHANGED <<updatePhase, availableVersion, updater, updateFile, upCalls>>

----------------------------------------------------------------------------
(* The updater's events (#connectDriver).                                   *)
Available ==
    /\ updater = "check" /\ updater' = "idle"
    /\ updatePhase' = "available" /\ availableVersion' \in BOOLEAN
    /\ UNCHANGED <<updateTimer, updateFile, upCalls>>

NotAvailable ==
    /\ updater = "check" /\ updater' = "idle"
    /\ updatePhase' = "upToDate" /\ availableVersion' = FALSE
    /\ UNCHANGED <<updateTimer, updateFile, upCalls>>

DownloadProgress ==
    /\ updater = "download"
    /\ updatePhase' = "downloading"
    /\ UNCHANGED <<availableVersion, updateTimer, updater, updateFile, upCalls>>

Downloaded ==
    /\ updater = "download" /\ updater' = "idle"
    /\ updatePhase' = "downloaded" /\ updateFile' = "verified"
    /\ UNCHANGED <<availableVersion, updateTimer, upCalls>>

Cancelled ==
    /\ updater = "download" /\ updater' = "idle"
    /\ updatePhase' = "available"
    /\ UNCHANGED <<availableVersion, updateTimer, updateFile, upCalls>>

Event == Available \/ NotAvailable \/ DownloadProgress \/ Downloaded \/ Cancelled \/ RecordError

UpNext ==
    \/ StartAutomaticChecks \/ UserChecks \/ UpdateTimerFires
    \/ DownloadUpdate \/ InstallUpdate \/ DisposeUpdates
    \/ Connected /\ Event

UpSpec == UpInit /\ [][UpNext]_upVars

----------------------------------------------------------------------------
(* The phase never claims work the updater is not at - both would refuse     *)
(* every later call - and while automatic checks go on, a download stays    *)
(* installable for as long as the updater reports no error.  After an error *)
(* installUpdate refuses the file even if it is still there, but what was   *)
(* being downloaded or was downloaded can be asked for again (the guards of *)
(* checkForUpdates and downloadUpdate against the updater's events).        *)
PhaseFollowsUpdater ==
    /\ updatePhase = "checking" => updater = "check"
    /\ updatePhase = "downloading" => updater = "download"
    /\ updateFile = "verified" <=> updatePhase = "downloaded"
    /\ updatePhase \in {"downloading", "downloaded"} => availableVersion
=============================================================================
