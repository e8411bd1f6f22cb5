-------------------------------- MODULE Scans --------------------------------
(***************************************************************************)
(* The security workbench: SecurityService of                              *)
(* src/main/security/securityService.ts, with the scan records of          *)
(* src/main/state/database.ts and the triage of a finding.                 *)
(*                                                                         *)
(* An action is one task of the event loop.  A scan waits in its           *)
(* executeScan for the coordinator, for the exchange rate, for the SDK or  *)
(* for the SDK to close; step says for which.  The SDK is external: a run  *)
(* ends when and how it likes.  A scan has one finding.  Of the options of *)
(* a scan only its mode and its provider matter to the control; the panel  *)
(* of the runtime is left out.                                             *)
(***************************************************************************)
EXTENDS ServiceBounds

CONSTANTS
    Scans,       \* bound: scans started in one behaviour
    MaxProgress, \* bound: progress one scan reports
    MaxSkills    \* bound: findings validated or fixed at the same time

ASSUME ScansAssumption ==
    IsFiniteSet(Scans) /\ None \notin Scans /\ {MaxProgress, MaxSkills} \subseteq Nat

VARIABLES
    memory,       \* snapshot.scans
    row,          \* security_scans of the database
    request,      \* what each scan was asked for
    activeScan,   \* snapshot.activeScanId
    controllers,  \* #abortControllers
    aborted,      \* scans whose signal is aborted
    step,         \* what the executeScan of each scan waits for
    loaded,       \* scans under way whose coordinator has named the tool it loaded
    spent,        \* scans that called the SDK, which costs, and how they stood then
    closed,       \* findings closed as false positives in the workbench database
    skill,        \* what a validation or a fix of each finding is at
    quitting      \* dispose() was called

records == <<memory, row>>
execution == <<activeScan, controllers, aborted, step, loaded, spent>>
scanVars == <<records, request, execution, closed, skill, quitting>>

NoRecord == [status |-> "none", progress |-> 0, triaged |-> FALSE]

Statuses == {"none", "queued", "running", "completed", "failed", "cancelled"}

\* coordinated: the mode is deep and the service has a plugin path, which index.ts gives
\* it in the packaged app only.  A deep scan of a development build is like any other.
ScanRequests == [coordinated : BOOLEAN, deepseek : BOOLEAN]

Waits == {"no", "coordinator", "loaded", "unavailable", "rate", "run", "close", "stuck"}

ScanTypeOK ==
    /\ memory \in [Scans -> [status : Statuses, progress : 0 .. MaxProgress, triaged : BOOLEAN]]
    /\ row \in [Scans -> [status : Statuses, progress : 0 .. MaxProgress, triaged : BOOLEAN]]
    /\ request \in [Scans -> ScanRequests]
    /\ activeScan \in Scans \cup {None} /\ controllers \subseteq Scans /\ aborted \subseteq Scans
    /\ step \in [Scans -> Waits] /\ loaded \subseteq Scans
    /\ spent \subseteq [scan : Scans, loaded : BOOLEAN, aborted : BOOLEAN]
    /\ closed \subseteq Scans /\ skill \in [Scans -> {"no", "silent", "spoke"}]
    /\ quitting \in BOOLEAN

ScanInit ==
    /\ memory = [s \in Scans |-> NoRecord] /\ row = memory
    /\ request \in [Scans -> ScanRequests]
    /\ activeScan = None /\ controllers = {} /\ aborted = {}
    /\ step = [s \in Scans |-> "no"] /\ loaded = {} /\ spent = {}
    /\ closed = {} /\ skill = [s \in Scans |-> "no"]
    /\ quitting = FALSE

-----------------------------------------------------------------------------
(* Building blocks.                                                        *)

\* #replaceScan of a record: the row holds the whole record when it is persisted.
ReplaceScan(s, r, persist) ==
    /\ memory' = [memory EXCEPT ![s] = r]
    /\ row' = IF persist THEN [row EXCEPT ![s] = r] ELSE row

Status(s, status) == [memory[s] EXCEPT !.status = status]

Goto(s, w) == step' = [step EXCEPT ![s] = w]

\* sdk.run is called, and from then on the scan costs.
CallSdk(s) ==
    /\ Goto(s, "run")
    /\ spent' = spent \cup {[scan |-> s, loaded |-> s \in loaded, aborted |-> s \in aborted]}

\* The finally of executeScan, without an ephemeral SDK to close.
ReleaseScan(s) ==
    /\ Goto(s, "no")
    /\ controllers' = controllers \ {s} /\ activeScan' = None

\* The end of a scan in any state: its record, and the SDK made for it is closed first.
ScanEnds(s, status) ==
    /\ ReplaceScan(s, Status(s, status), TRUE)
    /\ IF request[s].deepseek THEN Goto(s, "close") /\ UNCHANGED <<activeScan, controllers>>
       ELSE ReleaseScan(s)
    /\ loaded' = loaded \ {s}
    /\ UNCHANGED <<aborted, spent>>

\* The catch of executeScan.
ScanThrows(s) == ScanEnds(s, IF s \in aborted THEN "cancelled" ELSE "failed")

\* Fault: a scan that was cancelled meanwhile goes on.
Fault_Proceed(s) == CallSdk(s) /\ UNCHANGED <<records, activeScan, controllers, aborted, loaded>>

\* The signal is looked at once more, and then the SDK called.
Proceed(s) ==
    IF s \in aborted THEN ScanThrows(s)
    ELSE CallSdk(s) /\ UNCHANGED <<records, activeScan, controllers, aborted, loaded>>

-----------------------------------------------------------------------------
(* Starting and cancelling a scan.                                         *)

\* The first wait of executeScan, in the task of startScan.
FirstWait(s) ==
    IF request[s].coordinated THEN Goto(s, "coordinator") /\ UNCHANGED spent
    ELSE IF request[s].deepseek THEN Goto(s, "rate") /\ UNCHANGED spent
    ELSE CallSdk(s)

MayStart(s) == activeScan = None /\ memory[s] = NoRecord /\ row[s] = NoRecord /\ ~quitting

StartScan(s) ==
    /\ MayStart(s)
    /\ ReplaceScan(s, [NoRecord EXCEPT !.status = "running"], TRUE)
    /\ activeScan' = s /\ controllers' = controllers \cup {s}
    /\ FirstWait(s)
    /\ UNCHANGED <<request, aborted, loaded, closed, skill, quitting>>

\* No engine binary, no credential: sdkForRequest throws, and all ends in this task.
ScanFailsToStart(s) ==
    /\ MayStart(s) /\ request[s].deepseek
    /\ ReplaceScan(s, [NoRecord EXCEPT !.status = "failed"], TRUE)
    /\ UNCHANGED <<request, execution, closed, skill, quitting>>

\* The database refuses the record that says running, outside the try of executeScan.
StartNotSaved(s) ==
    /\ MayStart(s)
    /\ memory' = [memory EXCEPT ![s].status = "running"]
    /\ row' = [row EXCEPT ![s].status = "queued"]
    /\ activeScan' = s /\ controllers' = controllers \cup {s}
    /\ Goto(s, "stuck")
    /\ UNCHANGED <<request, aborted, loaded, spent, closed, skill, quitting>>

\* Fault: the slot is free as soon as the user has asked.
Fault_CancelFrees(s) ==
    /\ s = activeScan /\ s \in controllers
    /\ aborted' = aborted \cup {s} /\ activeScan' = None
    /\ IF step[s] = "coordinator" THEN Goto(s, "unavailable") ELSE UNCHANGED step
    /\ UNCHANGED <<records, request, controllers, loaded, spent, closed, skill, quitting>>

\* cancelScan only aborts the signal; the coordinator listens to it, the rate does not.
CancelScan(s) ==
    /\ s = activeScan /\ s \in controllers
    /\ aborted' = aborted \cup {s}
    /\ IF step[s] = "coordinator" THEN Goto(s, "unavailable") ELSE UNCHANGED step
    /\ UNCHANGED <<records, request, activeScan, controllers, loaded, spent, closed, skill,
                   quitting>>

-----------------------------------------------------------------------------
(* The waits of executeScan.                                               *)

\* assertDeepScanMcpAvailable settles once: an answer that names the tool, or another
\* answer, too much output, an error, the exit of the child or 15 s without an answer.
CoordinatorAnswers(s) ==
    /\ step[s] = "coordinator"
    /\ \/ Goto(s, "loaded") /\ loaded' = loaded \cup {s}
       \/ Goto(s, "unavailable") /\ UNCHANGED loaded
    /\ UNCHANGED <<records, request, activeScan, controllers, aborted, spent, closed, skill,
                   quitting>>

\* The child was told to end and has closed, or 2 s have passed.
CoordinatorEnds(s) ==
    /\ step[s] \in {"loaded", "unavailable"}
    /\ IF step[s] = "unavailable" THEN ScanThrows(s)
       ELSE IF request[s].deepseek
         THEN Goto(s, "rate") /\ UNCHANGED <<records, activeScan, controllers, aborted, loaded, spent>>
       ELSE Proceed(s)
    /\ UNCHANGED <<request, closed, skill, quitting>>

\* The exchange rate, or the fallback after 5 s.
RateArrives(s) ==
    /\ step[s] = "rate"
    /\ Proceed(s)
    /\ UNCHANGED <<request, closed, skill, quitting>>

\* #updateProgress, which persists at most every 500 ms.
Progress(s, persist) ==
    /\ step[s] = "run" /\ memory[s].progress < MaxProgress
    /\ ReplaceScan(s, [memory[s] EXCEPT !.progress = @ + 1], persist)
    /\ UNCHANGED <<request, execution, closed, skill, quitting>>

\* The SDK returns a result, even one that was aborted, or throws.
RunEnds(s) ==
    /\ step[s] = "run"
    /\ ScanEnds(s, "completed") \/ ScanThrows(s)
    /\ UNCHANGED <<request, closed, skill, quitting>>

\* closeEphemeralSdk; when it rejects, the rest of the finally does not run.
SdkCloses(s) ==
    /\ step[s] = "close"
    /\ ReleaseScan(s) \/ (Goto(s, "stuck") /\ UNCHANGED <<controllers, activeScan>>)
    /\ UNCHANGED <<records, request, aborted, loaded, spent, closed, skill, quitting>>

-----------------------------------------------------------------------------
(* Findings.                                                               *)

\* #requireCompletedScan reads the row.
Complete(s) == row[s].status = "completed" /\ ~quitting

\* Fault: the app's record first.
Fault_RecordFirst(s) ==
    /\ Complete(s)
    /\ ReplaceScan(s, [memory[s] EXCEPT !.triaged = TRUE], TRUE)
    /\ closed' = closed \cup {s} \/ UNCHANGED closed
    /\ UNCHANGED <<request, execution, skill, quitting>>

\* markFindingFalsePositive and the app's record in one task.  The workbench refuses
\* while a fix is claimed; a failure between the two leaves the second undone.
FalsePositive(s) ==
    /\ Complete(s)
    /\ closed' = closed \cup {s}
    /\ ReplaceScan(s, [memory[s] EXCEPT !.triaged = TRUE], TRUE) \/ UNCHANGED records
    /\ UNCHANGED <<request, execution, skill, quitting>>

\* #runFindingSkill: an engine of its own validates or fixes the finding.
SkillBegins(s) ==
    /\ Complete(s) /\ skill[s] = "no"
    /\ Cardinality({t \in Scans : skill[t] # "no"}) < MaxSkills
    /\ skill' = [skill EXCEPT ![s] = "silent"]
    /\ UNCHANGED <<records, request, execution, closed, quitting>>

\* Its last message is what will be shown.
SkillSpeaks(s) ==
    /\ skill[s] = "silent"
    /\ skill' = [skill EXCEPT ![s] = "spoke"]
    /\ UNCHANGED <<records, request, execution, closed, quitting>>

\* It closes, is too loud or takes 30 minutes.
SkillEnds(s) ==
    /\ skill[s] # "no"
    /\ skill' = [skill EXCEPT ![s] = "no"]
    /\ UNCHANGED <<records, request, execution, closed, quitting>>

-----------------------------------------------------------------------------
(* The end of the program.                                                 *)

\* dispose(); its scans may still write until the database is closed.
Quit ==
    /\ ~quitting
    /\ quitting' = TRUE
    /\ aborted' = aborted \cup controllers /\ controllers' = {}
    /\ step' = [s \in Scans |-> IF step[s] = "coordinator" THEN "unavailable" ELSE step[s]]
    /\ UNCHANGED <<records, request, activeScan, loaded, spent, closed, skill>>

\* A crash, or the end after a quit, and the next start, which reads the rows.
Restart ==
    /\ memory' = row
    /\ activeScan' = None /\ controllers' = {} /\ aborted' = {}
    /\ step' = [s \in Scans |-> "no"] /\ loaded' = {} /\ skill' = [s \in Scans |-> "no"]
    /\ quitting' = FALSE
    /\ UNCHANGED <<row, request, spent, closed>>

ScanNext ==
    \/ \E s \in Scans :
         \/ StartScan(s) \/ ScanFailsToStart(s) \/ StartNotSaved(s) \/ CancelScan(s)
         \/ CoordinatorAnswers(s) \/ CoordinatorEnds(s) \/ RateArrives(s)
         \/ Progress(s, TRUE) \/ Progress(s, FALSE)
         \/ RunEnds(s) \/ SdkCloses(s)
         \/ FalsePositive(s) \/ SkillBegins(s) \/ SkillSpeaks(s) \/ SkillEnds(s)
    \/ Quit \/ Restart

ScanSpec == ScanInit /\ [][ScanNext]_scanVars

-----------------------------------------------------------------------------
(* Properties.                                                             *)

\* One scan at a time (docs/SECURITY_WORKBENCH.md: so that neither cost nor resources
\* run away): whatever executeScan is at, its scan holds the slot, through cancels,
\* failures and the closing of its SDK.
OneScanAtATime == \A s \in Scans : step[s] # "no" => activeScan = s

\* A scan that was cancelled before its model call makes none, and a deep scan of the
\* packaged app makes none before its coordinator has answered, whichever came last of
\* the answer, the cancel, the end of the child and the exchange rate.
NoUnwantedCost ==
    \A c \in spent : ~c.aborted /\ (request[c.scan].coordinated => c.loaded)

\* The app shows a finding as a false positive only when the workbench, which feeds the
\* next scans, has it so: the two databases are written one after the other.
TriageNeverAhead == \A s \in Scans : memory[s].triaged \/ row[s].triaged => s \in closed
=============================================================================
