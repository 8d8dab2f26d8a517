--------------------------- MODULE BuildPublication -------------------------
(***************************************************************************)
(* scripts/run_verilator_build.py: builds a test executable under a        *)
(* pending name and publishes it with a rename once it is validated and    *)
(* synchronized.  Runners of one output, the command each runs, and the    *)
(* file system under them: an entry of the directory is the file it names, *)
(* and what is not synchronized may be lost when the machine stops.        *)
(*                                                                         *)
(* before is a history variable: no action reads it.                       *)
(***************************************************************************)
CONSTANTS
    Runner,    \* runs of the script that may overlap on one output
    BuildFile, \* files the directory may name; bounds those in use at once
    None       \* no file, or no outcome

ExecutableContent == {"EMPTY", "FOREIGN", "UNFINISHED", "COMPLETE"}
Outcome == {"FAILED", "INTERRUPTED", "PUBLISHED"}
Step == {"IDLE", "BUILD", "VALIDATE", "SYNCHRONIZE", "REPLACE",
         "SYNCHRONIZE_DIRECTORY", "CLEANUP"}

ASSUME NoneAssumption == None \notin BuildFile \cup Outcome

VARIABLES
    output,    \* the directory's entry for the executable
    pending,   \* its entry for the pending name
    durable,   \* the entries for the executable a power loss may leave
    content,   \* what each file holds
    synced,    \* the files whose contents a power loss leaves
    pc,        \* the next step of each runner
    written,   \* the file each runner's command has created
    reported,  \* how each runner's last run went
    before     \* history: the executable when the run started

disk == <<output, pending, durable, content, synced>>
publication_vars == <<disk, pc, written, reported, before>>

\* validate_pending_executable, lines 32-45, sees the magic number and the mode: a
\* file whose writing goes on passes.
Validates(c) == c \in {"UNFINISHED", "COMPLETE"}

InUse == {output, pending} \cup durable \cup {written[r] : r \in Runner}

\* An executable of an earlier build, or none.
PublicationInit ==
    /\ output \in BuildFile \cup {None}
    /\ pending = None
    /\ durable = {output}
    /\ content = [f \in BuildFile |-> "COMPLETE"]
    /\ synced = BuildFile
    /\ pc = [r \in Runner |-> "IDLE"]
    /\ written = [r \in Runner |-> None]
    /\ reported = [r \in Runner |-> None]
    /\ before = [r \in Runner |-> output]

StepTo(r, step) == pc' = [pc EXCEPT ![r] = step]

\* An error or a return inside the try block leads to the finally block.
Leave(r, how) == StepTo(r, "CLEANUP") /\ reported' = [reported EXCEPT ![r] = how]

\* Defect: what a killed run left is kept.
StartKeepingPending(r) ==
    /\ pc[r] = "IDLE"
    /\ before' = [before EXCEPT ![r] = output]
    /\ reported' = [reported EXCEPT ![r] = None]
    /\ StepTo(r, "BUILD")
    /\ UNCHANGED <<disk, written>>

\* Lines 66-73: the pending name is free before the command runs.
StartRunner(r) ==
    /\ pc[r] = "IDLE"
    /\ pending' = None
    /\ before' = [before EXCEPT ![r] = output]
    /\ reported' = [reported EXCEPT ![r] = None]
    /\ StepTo(r, "BUILD")
    /\ UNCHANGED <<output, durable, content, synced, written>>

\* The command creates the pending file and starts to write it.
CreatePending(r) ==
    /\ pc[r] = "BUILD"
    /\ written[r] = None
    /\ \E f \in BuildFile \ InUse, c \in {"EMPTY", "UNFINISHED"} :
          /\ pending' = f
          /\ content' = [content EXCEPT ![f] = c]
          /\ synced' = synced \ {f}
          /\ written' = [written EXCEPT ![r] = f]
    /\ UNCHANGED <<output, durable, pc, reported, before>>

\* The command exits with zero once it has written its file, an executable or not, or
\* without writing any.
CommandSucceeds(r) ==
    /\ pc[r] = "BUILD"
    /\ IF written[r] = None THEN UNCHANGED content
       ELSE \E c \in ExecutableContent \ {"UNFINISHED"} :
                content' = [content EXCEPT ![written[r]] = c]
    /\ synced' = synced \ {written[r]}
    /\ written' = [written EXCEPT ![r] = None]
    /\ StepTo(r, "VALIDATE")
    /\ UNCHANGED <<output, pending, durable, reported, before>>

\* Lines 74-75: a command that fails has written its file, part of it or none.
CommandFails(r) ==
    /\ pc[r] = "BUILD"
    /\ written' = [written EXCEPT ![r] = None]
    /\ Leave(r, "FAILED")
    /\ UNCHANGED <<disk, before>>

\* Defect: the file is renamed first and validated under its name.
ValidateRenamed(r) ==
    /\ pc[r] = "VALIDATE"
    /\ IF pending = None THEN Leave(r, "FAILED") /\ UNCHANGED disk
       ELSE /\ output' = pending
            /\ pending' = None
            /\ durable' = durable \cup {pending}
            /\ IF Validates(content[pending])
               THEN StepTo(r, "SYNCHRONIZE") /\ UNCHANGED reported
               ELSE Leave(r, "FAILED")
            /\ UNCHANGED <<content, synced>>
    /\ UNCHANGED <<written, before>>

\* Line 77.
Validate(r) ==
    /\ pc[r] = "VALIDATE"
    /\ IF pending # None /\ Validates(content[pending])
       THEN StepTo(r, "SYNCHRONIZE") /\ UNCHANGED reported
       ELSE Leave(r, "FAILED")
    /\ UNCHANGED <<disk, written, before>>

\* Defect: the file is not synchronized.
SkipSynchronization(r) ==
    /\ pc[r] = "SYNCHRONIZE"
    /\ StepTo(r, "REPLACE")
    /\ UNCHANGED <<disk, written, reported, before>>

\* synchronize_file, lines 48-53 and 78.
SynchronizeFile(r) ==
    /\ pc[r] = "SYNCHRONIZE"
    /\ pending # None
    /\ synced' = synced \cup {pending}
    /\ StepTo(r, "REPLACE")
    /\ UNCHANGED <<output, pending, durable, content, written, reported, before>>

\* Line 79: the rename is atomic, and not durable yet.
ReplaceOutput(r) ==
    /\ pc[r] = "REPLACE"
    /\ pending # None
    /\ output' = pending
    /\ pending' = None
    /\ durable' = durable \cup {pending}
    /\ StepTo(r, "SYNCHRONIZE_DIRECTORY")
    /\ UNCHANGED <<content, synced, written, reported, before>>

\* Defect: the run succeeds without it.
SkipDirectory(r) ==
    /\ pc[r] = "SYNCHRONIZE_DIRECTORY"
    /\ Leave(r, "PUBLISHED")
    /\ UNCHANGED <<disk, written, before>>

\* synchronize_directory, lines 56-61 and 80.
SynchronizeDirectory(r) ==
    /\ pc[r] = "SYNCHRONIZE_DIRECTORY"
    /\ durable' = {output}
    /\ Leave(r, "PUBLISHED")
    /\ UNCHANGED <<output, pending, content, synced, written, before>>

\* Lines 81-83: a call raises, as it must when the pending name is gone; an error of
\* the last call, after the rename, is reported like the others.
StepFails(r) ==
    /\ pc[r] \in {"SYNCHRONIZE", "REPLACE", "SYNCHRONIZE_DIRECTORY"}
    /\ Leave(r, "FAILED")
    /\ UNCHANGED <<disk, written, before>>

\* An interrupt is not caught, and the command ends with it.
Interrupt(r) ==
    /\ pc[r] \in Step \ {"IDLE", "CLEANUP"}
    /\ written' = [written EXCEPT ![r] = None]
    /\ Leave(r, "INTERRUPTED")
    /\ UNCHANGED <<disk, before>>

\* The finally block, lines 84-85.
Cleanup(r) ==
    /\ pc[r] = "CLEANUP"
    /\ pending' = None
    /\ StepTo(r, "IDLE")
    /\ UNCHANGED <<output, durable, content, synced, written, reported, before>>

\* The run and its command are killed and clean nothing up, or the unlink raises.
KillRunner(r) ==
    /\ pc[r] # "IDLE"
    /\ written' = [written EXCEPT ![r] = None]
    /\ reported' = [reported EXCEPT ![r] = "INTERRUPTED"]
    /\ StepTo(r, "IDLE")
    /\ UNCHANGED <<disk, before>>

\* Power is lost: some durable entry is back, and a file that was not synchronized
\* holds anything.
PowerLoss ==
    /\ output' \in durable
    /\ pending' \in {None, pending}
    /\ durable' = {output'}
    /\ content' \in {c \in [BuildFile -> ExecutableContent] :
                        \A f \in synced : c[f] = content[f]}
    /\ synced' = BuildFile
    /\ pc' = [r \in Runner |-> "IDLE"]
    /\ written' = [r \in Runner |-> None]
    /\ reported' = [r \in Runner |-> None]
    /\ UNCHANGED before

Run(r) ==
    \/ StartRunner(r) \/ CreatePending(r) \/ CommandSucceeds(r) \/ CommandFails(r)
    \/ Validate(r) \/ SynchronizeFile(r) \/ ReplaceOutput(r) \/ SynchronizeDirectory(r)
    \/ StepFails(r) \/ Interrupt(r) \/ Cleanup(r) \/ KillRunner(r)

PublicationNext == PowerLoss \/ \E r \in Runner : Run(r)

PublicationSpec == PublicationInit /\ [][PublicationNext]_publication_vars

-----------------------------------------------------------------------------
(* Correctness.                                                            *)

\* The types of the file system's state and of the runners' registers.
PublicationTypeOK ==
    /\ output \in BuildFile \cup {None} /\ pending \in BuildFile \cup {None}
    /\ durable \subseteq BuildFile \cup {None}
    /\ content \in [BuildFile -> ExecutableContent] /\ synced \subseteq BuildFile
    /\ pc \in [Runner -> Step]
    /\ written \in [Runner -> BuildFile \cup {None}]
    /\ reported \in [Runner -> Outcome \cup {None}]
    /\ before \in [Runner -> BuildFile \cup {None}]

\* The published executable is always a whole one: no failing, interrupted or killed
\* build and no power loss leaves an empty, foreign or partial file under its name.
OutputIsComplete == output # None => content[output] = "COMPLETE"

\* Whatever entry a power loss may leave names a whole, synchronized file.
DurableIsComplete ==
    /\ output \in durable
    /\ \A f \in durable \ {None} : content[f] = "COMPLETE" /\ f \in synced

\* While its command runs, the pending name is the command's own file, which nothing
\* published uses; a command that succeeded has finished it.
PendingIsOwn(r) ==
    /\ pc[r] = "BUILD" => pending = written[r] /\ written[r] \notin durable \ {None}
    /\ pc[r] # "BUILD" => written[r] = None
    /\ pc[r] = "VALIDATE" => pending = None \/ content[pending] # "UNFINISHED"

\* What has been validated stays whole, and is synchronized before its rename.
ValidatedIsComplete(r) ==
    /\ pc[r] \in {"SYNCHRONIZE", "REPLACE"} =>
          pending # None /\ content[pending] = "COMPLETE"
    /\ pc[r] = "REPLACE" => pending \in synced

\* "an interrupted build cannot replace the last valid binary with a zero-length or
\* partial artifact" (README.md): once every run has ended, however it ended, the
\* executable is a whole one.
InterruptedBuildKeepsOutput ==
    (\A r \in Runner : pc[r] = "IDLE") => OutputIsComplete

\* A run that reports success has made its executable durable: no later power loss
\* brings the previous one back.
SuccessIsDurable ==
    \A r \in Runner :
        pc[r] = "IDLE" /\ reported[r] = "PUBLISHED" =>
            durable = {output} /\ output \notin {None, before[r]}

\* A run is stopped by an error, an interrupt or a kill.
Stopped(r) ==
    /\ reported[r] = None
    /\ reported'[r] \in {"FAILED", "INTERRUPTED"}

\* The exit status of a run that was stopped does not say whether it replaced the
\* executable.  Stopped before its rename, it leaves the executable that it found, and
\* no file of its own for a power loss to bring; stopped after it, when the directory
\* was still to be synchronized, it leaves a new executable, whole and synchronized,
\* or after a power loss the one that it found.
StopsSafely ==
    \A r \in Runner : Stopped(r) =>
        IF pc[r] = "SYNCHRONIZE_DIRECTORY"
        THEN /\ output' \notin {None, before[r]}
             /\ content'[output'] = "COMPLETE" /\ output' \in synced'
             /\ before[r] \in durable'
        ELSE /\ output' = before[r]
             /\ pending # None => pending \notin durable'

FailureKeepsOutput == [][StopsSafely]_publication_vars

\* Up to its rename a run leaves the executable alone and writes to a file no power
\* loss can publish; from then on the executable is its own, and a power loss may
\* bring the previous one back until the directory is synchronized.
OutcomeIsEarned(r) ==
    /\ pc[r] \notin {"IDLE", "CLEANUP"} => reported[r] = None
    /\ pc[r] = "CLEANUP" => reported[r] # None
    /\ pc[r] \in {"BUILD", "VALIDATE", "SYNCHRONIZE", "REPLACE"} =>
          before[r] = output /\ (pending # None => pending \notin durable)
    /\ pc[r] = "SYNCHRONIZE_DIRECTORY" =>
          output \notin {None, before[r]} /\ before[r] \in durable
    /\ reported[r] = "PUBLISHED" => durable = {output} /\ output \notin {None, before[r]}

\* What a single runner never breaks at any step, a power loss included: it makes the
\* three properties above inductive.
PublicationInvariant ==
    /\ PublicationTypeOK
    /\ DurableIsComplete
    /\ \A r \in Runner : PendingIsOwn(r) /\ ValidatedIsComplete(r) /\ OutcomeIsEarned(r)
=============================================================================
