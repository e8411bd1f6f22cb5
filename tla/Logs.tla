-------------------------------- MODULE Logs --------------------------------
(***************************************************************************)
(* The files the application writes about itself: the log of the agent     *)
(* engine (src/main/logging/logger.ts, sizeRotation.ts) and the records of *)
(* crashes (src/main/diagnostics/diagnosticsService.ts).                   *)
(*                                                                         *)
(* A line is its number in the order of the calls.  The calls of log chain *)
(* on #pending; each awaits a stat, the renames of a rotation and an       *)
(* append, any of which may fail or be cut short when the process is       *)
(* killed, and an append that is cut short leaves the beginning of its     *)
(* line.  A crash is recorded without waiting, but can be cut short too.   *)
(* The text of a line, and what redaction does to it, is left out.         *)
(***************************************************************************)
EXTENDS Naturals, Sequences, FiniteSets

CONSTANTS
    MaxLines,      \* bound: the lines logged
    MaxCrashes,    \* bound: the crashes recorded
    MaxBytes,      \* maxBytes, in lines; MAX_CRASH_FILE_BYTES as well
    RetainedFiles  \* retainedFiles

ASSUME LogsAssumption ==
    /\ {MaxLines, MaxCrashes} \subseteq Nat
    /\ {MaxBytes, RetainedFiles} \subseteq Nat \ {0}

VARIABLES
    logFile,     \* the log and its older parts .1, .2, ...
    logged,      \* where each line is on its way
    rotating,    \* the index to rename next; RetainedFiles when no rotation is under way
    crashFile,   \* the records of crashes and their older part
    crashes,     \* #records
    recorded     \* how many crashes there were

logVars == <<logFile, logged, rotating, crashFile, crashes, recorded>>

Numbers == 1 .. MaxLines
Whole(l) == <<l, TRUE>>
Torn(l) == <<l, FALSE>>

LogTypeOK ==
    /\ logFile \in [0 .. RetainedFiles -> Seq(Numbers \X BOOLEAN)]
    /\ logged \in [Numbers -> {"not", "waiting", "stat", "rotating", "appending",
                               "written", "torn", "failed"}]
    /\ rotating \in 0 .. RetainedFiles
    /\ crashFile \in [{0, 1} -> Seq((1 .. MaxCrashes) \X BOOLEAN)]
    /\ crashes \in Seq(1 .. MaxCrashes) /\ recorded \in 0 .. MaxCrashes

LogInit ==
    /\ logFile = [i \in 0 .. RetainedFiles |-> <<>>]
    /\ logged = [l \in Numbers |-> "not"] /\ rotating = RetainedFiles
    /\ crashFile = [i \in {0, 1} |-> <<>>] /\ crashes = <<>> /\ recorded = 0

-----------------------------------------------------------------------------
(* JsonlLogger and FileLogSink.                                            *)

IsAt(l, stage) == logged[l] = stage
LineGoes(l, stage) == logged' = [logged EXCEPT ![l] = stage]
Busy == \E l \in Numbers : logged[l] \in {"stat", "rotating", "appending"}

\* A call of log, which puts its line at the end of #pending.
Log(l) ==
    /\ IsAt(l, "not") /\ \A k \in 1 .. l - 1 : ~IsAt(k, "not")
    /\ LineGoes(l, "waiting")
    /\ UNCHANGED <<logFile, rotating, crashFile, crashes, recorded>>

\* Fault: the lines do not wait for one another.
Fault_WriteAtOnce(l) == TRUE

\* #pending: a line is written when those before it are, or have failed.
ItsTurn(l) == ~Busy /\ \A k \in 1 .. l - 1 : ~IsAt(k, "waiting")

BeginWrite(l) ==
    /\ IsAt(l, "waiting") /\ ItsTurn(l)
    /\ LineGoes(l, "stat")
    /\ UNCHANGED <<logFile, rotating, crashFile, crashes, recorded>>

\* beforeWrite, with the size that stat has found.
SizeChecked(l) ==
    /\ IsAt(l, "stat")
    /\ IF Len(logFile[0]) + 1 <= MaxBytes
         THEN LineGoes(l, "appending") /\ UNCHANGED <<logFile, rotating>>
         ELSE /\ LineGoes(l, "rotating")
              /\ logFile' = [logFile EXCEPT ![RetainedFiles] = <<>>]
              /\ rotating' = RetainedFiles - 1
    /\ UNCHANGED <<crashFile, crashes, recorded>>

\* renameIfPresent, from the oldest part to the log itself.
RenameStep(l) ==
    /\ IsAt(l, "rotating")
    /\ logFile' = IF logFile[rotating] = <<>> THEN logFile
                  ELSE [logFile EXCEPT ![rotating + 1] = logFile[rotating], ![rotating] = <<>>]
    /\ IF rotating = 0 THEN rotating' = RetainedFiles /\ LineGoes(l, "appending")
       ELSE rotating' = rotating - 1 /\ UNCHANGED logged
    /\ UNCHANGED <<crashFile, crashes, recorded>>

\* appendFile.
Appended(l) ==
    /\ IsAt(l, "appending")
    /\ logFile' = [logFile EXCEPT ![0] = Append(@, Whole(l))]
    /\ LineGoes(l, "written")
    /\ UNCHANGED <<rotating, crashFile, crashes, recorded>>

\* Any step fails: the promise of the line is rejected and the next line is written.
WriteFails(l) ==
    /\ logged[l] \in {"stat", "rotating", "appending"}
    /\ rotating' = RetainedFiles
    /\ \/ LineGoes(l, "failed") /\ UNCHANGED logFile
       \/ /\ IsAt(l, "appending") /\ LineGoes(l, "torn")
          /\ logFile' = [logFile EXCEPT ![0] = Append(@, Torn(l))]
    /\ UNCHANGED <<crashFile, crashes, recorded>>

-----------------------------------------------------------------------------
(* DiagnosticsService.                                                     *)

\* rotateCrashFileIfNeeded.
RotatedCrashFile ==
    IF Len(crashFile[0]) + 1 <= MaxBytes THEN crashFile
    ELSE [i \in {0, 1} |-> IF i = 1 THEN crashFile[0] ELSE <<>>]

\* recordCrash: the file first, then the records of this run of the application.
RecordCrash ==
    /\ recorded < MaxCrashes
    /\ recorded' = recorded + 1
    /\ crashFile' = [RotatedCrashFile EXCEPT ![0] = Append(@, Whole(recorded'))]
    /\ crashes' = Append(crashes, recorded')
    /\ UNCHANGED <<logFile, logged, rotating>>

\* A line that follows the beginning of another is not JSON, nor is that beginning.
Readable(file, n) == file[n][2] /\ (n > 1 => file[n - 1][2])

InOrder(S) ==
    CHOOSE s \in [1 .. Cardinality(S) -> S] : \A j, k \in DOMAIN s : j < k => s[j] < s[k]

Legible(file) ==
    LET places == InOrder({n \in DOMAIN file : Readable(file, n)})
    IN [k \in DOMAIN places |-> file[places[k]][1]]

\* loadCrashRecords, when the application starts.
LoadCrashRecords(file) == Legible(file[1]) \o Legible(file[0])

\* How far the record of a crash may get before the process dies of it.
CutShort(n) ==
    {crashFile, RotatedCrashFile, [RotatedCrashFile EXCEPT ![0] = Append(@, Torn(n))],
     [RotatedCrashFile EXCEPT ![0] = Append(@, Whole(n))]}

\* The process dies and starts again.  The lines that waited are lost, and torn are the
\* lines, one at most, of which a part was written.
Killed(torn) ==
    /\ recorded < MaxCrashes
    /\ recorded' = recorded + 1
    /\ \E file \in CutShort(recorded') : crashFile' = file /\ crashes' = LoadCrashRecords(file)
    /\ logged' = [l \in Numbers |->
           IF l \in torn THEN "torn"
           ELSE IF logged[l] \in {"not", "written", "torn"} THEN logged[l] ELSE "failed"]
    /\ logFile' = [logFile EXCEPT ![0] = IF torn = {} THEN @
                                        ELSE Append(@, Torn(CHOOSE l \in torn : TRUE))]
    /\ rotating' = RetainedFiles

LogNext ==
    \/ \E l \in Numbers : \/ Log(l) \/ BeginWrite(l) \/ SizeChecked(l) \/ RenameStep(l)
                          \/ Appended(l) \/ WriteFails(l)
    \/ RecordCrash
    \/ \E torn \in SUBSET {l \in Numbers : IsAt(l, "appending")} : Killed(torn)

LogSpec == LogInit /\ [][LogNext]_logVars

-----------------------------------------------------------------------------
(* Properties.                                                             *)

\* The places of a file and its older parts, and which of two is older.
Places(parts) == UNION {{i} \X DOMAIN parts[i] : i \in DOMAIN parts}
Older(p, q) == p[1] > q[1] \/ (p[1] = q[1] /\ p[2] < q[2])
NumberAt(parts, p) == parts[p[1]][p[2]][1]

\* The numbers ascend, and nothing of all that is newer than one of them is missing.
AreTheLatest(parts, all) ==
    /\ \A p, q \in Places(parts) : Older(p, q) => NumberAt(parts, p) < NumberAt(parts, q)
    /\ \A p \in Places(parts), l \in all : l > NumberAt(parts, p) =>
         \E q \in Places(parts) : NumberAt(parts, q) = l

\* Whatever fails, and wherever the process is killed in a rotation, the log holds the
\* latest of the lines that reached the disk, in the order they were logged, and only the
\* oldest are gone.  The crashes shown are in order, and miss none that a new start of
\* the application would read.
LatestLinesAreKept ==
    /\ AreTheLatest(logFile, {l \in Numbers : logged[l] \in {"written", "torn"}})
    /\ \A m, n \in DOMAIN crashes : m < n => crashes[m] < crashes[n]
    /\ LET file == LoadCrashRecords(crashFile) IN
         \A n \in DOMAIN file : \E m \in DOMAIN crashes : crashes[m] = file[n]
=============================================================================
