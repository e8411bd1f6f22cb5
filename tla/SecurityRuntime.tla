--------------------------- MODULE SecurityRuntime ---------------------------
(***************************************************************************)
(* The files a security scan runs from, in                                 *)
(* src/main/security/securityService.ts: the private copy of the bundled   *)
(* plugin that the constructor of SecurityService stages at every start of *)
(* the packaged application (prepareSecurityPluginRuntime), and the pair   *)
(* of files that wraps the engine for deep scans on macOS                  *)
(* (prepareMacDeepScanCodexWrapper).                                       *)
(*                                                                         *)
(* A directory is the release it was copied from and the steps done to it. *)
(* Each write may fail, and the application may be killed between any two  *)
(* of them; the disk keeps what was written.                               *)
(***************************************************************************)
EXTENDS Naturals, FiniteSets

CONSTANTS
    LastRelease,   \* bound: releases of the application
    Binaries,      \* engines a deep scan may be told to run
    NoFile,        \* what is not on the disk
    MaxAbandoned   \* bound: staging directories that crashes leave behind

VARIABLES
    app,        \* "down", "preparing", "up", or "failed": no service and no window
    installed,  \* the release installed
    runtimeRoot,       \* plugin-runtime/codex-security
    staging,    \* plugin-runtime/codex-security.<uuid>.tmp of this start
    abandoned,  \* those of earlier starts
    wrapper,    \* whether deep-worker-runtime/codex is there
    pathFile,   \* deep-worker-runtime/real-codex-path
    wrapping,   \* the engine being wrapped, with the files not yet in place
    deepScan    \* the engine the deep scan that runs was told to run

runtimeVars == <<app, installed, runtimeRoot, staging, abandoned, wrapper, pathFile, wrapping, deepScan>>

\* What is done to a copy of the plugin, in this order: its files are there, the
\* manifest names the Node runtime and forwards the key, the worker is patched, and the
\* version has Norevinq's revision.
Steps == {"files", "manifest", "worker", "version"}

Before(step) ==
    CASE step = "files"    -> {}
      [] step = "manifest" -> {"files"}
      [] step = "worker"   -> {"files", "manifest"}
      [] step = "version"  -> {"files", "manifest", "worker"}

Copy(release, done) == [release |-> release, done |-> done]

Copies == [release : 1 .. LastRelease, done : SUBSET Steps]

\* The engine being wrapped, with the files that are not yet in place.
Wrappings == [engine : Binaries, left : SUBSET {"path", "wrapper"}]

ASSUME SecurityRuntimeAssumption ==
    /\ LastRelease \in Nat \ {0} /\ MaxAbandoned \in Nat
    /\ NoFile \notin Binaries \cup Copies \cup Wrappings

RuntimeTypeOK ==
    /\ app \in {"down", "preparing", "up", "failed"}
    /\ installed \in 1 .. LastRelease
    /\ runtimeRoot \in Copies \cup {NoFile} /\ staging \in Copies \cup {NoFile}
    /\ abandoned \in 0 .. MaxAbandoned
    /\ wrapper \in BOOLEAN /\ pathFile \in Binaries \cup {NoFile}
    /\ deepScan \in Binaries \cup {NoFile}
    /\ wrapping \in Wrappings \cup {NoFile}

RuntimeInit ==
    /\ app = "down" /\ installed = 1
    /\ runtimeRoot = NoFile /\ staging = NoFile /\ abandoned = 0
    /\ wrapper = FALSE /\ pathFile = NoFile
    /\ wrapping = NoFile /\ deepScan = NoFile

-----------------------------------------------------------------------------
(* The start of the application.                                           *)

wrapFiles == <<wrapper, pathFile, wrapping, deepScan>>

Launch ==
    /\ app = "down" /\ app' = "preparing"
    /\ UNCHANGED <<installed, runtimeRoot, staging, abandoned, wrapFiles>>

\* The directory of this start is new: its name is random.
CopyBegins ==
    /\ app = "preparing" /\ staging = NoFile
    /\ staging' = Copy(installed, {})
    /\ UNCHANGED <<app, installed, runtimeRoot, abandoned, wrapFiles>>

Prepare(step) ==
    /\ app = "preparing" /\ staging # NoFile /\ staging.done = Before(step)
    /\ staging' = [staging EXCEPT !.done = @ \cup {step}]
    /\ UNCHANGED <<app, installed, runtimeRoot, abandoned, wrapFiles>>

AllDone(copy) == copy # NoFile /\ copy.done = Steps

\* rmSync of the copy of the last start; a kill may leave some of it.
RemoveOld ==
    /\ app = "preparing" /\ AllDone(staging) /\ runtimeRoot # NoFile
    /\ \E rest \in {NoFile} \cup {Copy(runtimeRoot.release, d) : d \in SUBSET runtimeRoot.done \ {runtimeRoot.done}} :
         runtimeRoot' = rest
    /\ UNCHANGED <<app, installed, staging, abandoned, wrapFiles>>

PutInPlace ==
    /\ app = "preparing" /\ AllDone(staging) /\ runtimeRoot = NoFile
    /\ runtimeRoot' = staging /\ staging' = NoFile /\ app' = "up"
    /\ UNCHANGED <<installed, abandoned, wrapFiles>>

\* A plugin or a Node runtime that is not as expected, a full disk, a file in use: the
\* staging directory is removed, and the start of the application ends there.
PrepareFails ==
    /\ app = "preparing" /\ app' = "failed"
    /\ staging' = NoFile
    /\ UNCHANGED <<installed, runtimeRoot, abandoned, wrapFiles>>

-----------------------------------------------------------------------------
(* Deep scans on macOS, one at a time.                                     *)

\* Both files are written under random names first.
WrapBegins(engine) ==
    /\ app = "up" /\ wrapping = NoFile /\ deepScan = NoFile
    /\ wrapping' = [engine |-> engine, left |-> {"path", "wrapper"}]
    /\ UNCHANGED <<app, installed, runtimeRoot, staging, abandoned, wrapper, pathFile, deepScan>>

\* Fault: the wrapper is put in place before the file it reads.
Fault_WrapperFirst(file) == IF file = "path" THEN "wrapper" \notin wrapping.left ELSE TRUE

PathFirst(file) == IF file = "wrapper" THEN "path" \notin wrapping.left ELSE TRUE

PutFile(file) ==
    /\ app = "up" /\ wrapping # NoFile /\ file \in wrapping.left /\ PathFirst(file)
    /\ wrapping' = [wrapping EXCEPT !.left = @ \ {file}]
    /\ pathFile' = IF file = "path" THEN wrapping.engine ELSE pathFile
    /\ wrapper' = (wrapper \/ file = "wrapper")
    /\ UNCHANGED <<app, installed, runtimeRoot, staging, abandoned, deepScan>>

DeepScanBegins ==
    /\ app = "up" /\ wrapping # NoFile /\ wrapping.left = {}
    /\ deepScan' = wrapping.engine /\ wrapping' = NoFile
    /\ UNCHANGED <<app, installed, runtimeRoot, staging, abandoned, wrapper, pathFile>>

\* The engine is not a file that can be run, or a write fails: so does the scan.
WrapFails ==
    /\ wrapping # NoFile /\ wrapping' = NoFile
    /\ UNCHANGED <<app, installed, runtimeRoot, staging, abandoned, wrapper, pathFile, deepScan>>

DeepScanEnds ==
    /\ deepScan # NoFile /\ deepScan' = NoFile
    /\ UNCHANGED <<app, installed, runtimeRoot, staging, abandoned, wrapper, pathFile, wrapping>>

-----------------------------------------------------------------------------
(* The end of the process, and of a release.                               *)

ProcessEnds ==
    /\ app # "down" /\ app' = "down"
    /\ staging' = NoFile
    /\ IF staging = NoFile THEN UNCHANGED abandoned
       ELSE abandoned < MaxAbandoned /\ abandoned' = abandoned + 1
    /\ wrapping' = NoFile /\ deepScan' = NoFile
    /\ UNCHANGED <<installed, runtimeRoot, wrapper, pathFile>>

ReleaseInstalled ==
    /\ app = "down" /\ installed < LastRelease
    /\ installed' = installed + 1
    /\ UNCHANGED <<app, runtimeRoot, staging, abandoned, wrapFiles>>

RuntimeNext ==
    \/ Launch \/ CopyBegins \/ \E step \in Steps : Prepare(step)
    \/ RemoveOld \/ PutInPlace \/ PrepareFails
    \/ \E b \in Binaries : WrapBegins(b)
    \/ \E file \in {"path", "wrapper"} : PutFile(file)
    \/ DeepScanBegins \/ WrapFails \/ DeepScanEnds \/ ProcessEnds \/ ReleaseInstalled

RuntimeSpec == RuntimeInit /\ [][RuntimeNext]_runtimeVars

-----------------------------------------------------------------------------
(* Properties.                                                             *)

\* Whatever earlier starts left on the disk, a service that is up runs its scans from
\* the plugin of its own release with every step done to it, a deep scan runs the
\* engine it was given, and no wrapper is ever on the disk without a file to read.
ScansRunWholeRuntime ==
    /\ app = "up" => runtimeRoot = Copy(installed, Steps)
    /\ deepScan # NoFile => wrapper /\ pathFile = deepScan
    /\ wrapper => pathFile # NoFile
=============================================================================
