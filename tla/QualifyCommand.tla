--------------------------- MODULE QualifyCommand ---------------------------
(***************************************************************************)
(* upgrade-guard qualify: src/upgrade_guard/orchestrator.py starts the     *)
(* runner of ResumeEngine as a child, waits for it, and turns its exit     *)
(* code into an outcome after reading the state root again.  The runner's  *)
(* lock is gone by then: somebody who starts the runner directly on the    *)
(* same state root works on the files the command is reading.              *)
(***************************************************************************)
EXTENDS ResumeEngine

CONSTANT Direct   \* whether the runner is also started without the command

VARIABLES
    asked,      \* the live runner is the child of the command
    awaiting,   \* the exit code the command has still to answer, or NoExit
    alone,      \* nobody started the runner since the child exited
    reported    \* the last answer of the command

command == <<asked, awaiting, alone, reported>>
allVars == <<vars, command>>

(* "undecided" is infrastructure_invalid or inconclusive, as the stored       *)
(* artifact says, and infrastructure_invalid when there is none.             *)
Answers == {"none", "passed", "failed", "unsupported", "undecided",
            "invalid-input", "infrastructure-error", "internal-error"}

(* Mistakes for mutation: only the status is read; every gate is asked for,  *)
(* in a failed publication too.                                              *)
StatusOnly(status) == out[FinalEvidence].result = status
EveryGate(status) ==
    /\ out[FinalEvidence].result = status
    /\ named = Tree
    /\ ~Ambiguous
    /\ \A s \in Gates : Valid(s)

(* validate_publication: the files the evidence inventories are the files on *)
(* disk, the gates form the prefix its status calls for, and the chain of    *)
(* their markers is rebuilt from the files.                                  *)
PublicationValid(status) ==
    /\ out[FinalEvidence].result = status
    /\ named = Tree
    /\ status = "passed" <=> FailedMarks = {}
    /\ ~Ambiguous
    /\ Verify(DepsOf(FinalEvidence))

(* _stored_failure_codes, by the step whose artifact carries them *)
StoredFailures == {d \in DomainSteps : out[d].result = "failed"}

(* FullQualificationRunner.run, after the child returned *)
Answer(code) ==
    CASE code = 0 -> IF PublicationValid("passed") THEN "passed"
                     ELSE "infrastructure-error"
      [] code = 1 -> IF PublicationValid("failed") /\ StoredFailures = FailedMarks
                     THEN "failed" ELSE "infrastructure-error"
      [] code = 2 -> "invalid-input"
      [] code = 3 -> "unsupported"
      [] code = 4 -> IF StoredFailures = {} THEN "undecided"
                     ELSE "infrastructure-error"
      [] OTHER    -> "internal-error"

(* SubprocessExecutor.execute, or an operator who runs the script directly.  *)
(* (A child that finds the lock taken exits with 4 before it touches a file: *)
(* RunnerLock has that; the command then answers as for any other exit 4.)   *)
Start ==
    /\ Invoke
    /\ \/ asked' = TRUE /\ awaiting = NoExit
       \/ asked' = FALSE /\ Direct
    /\ alone' = FALSE
    /\ UNCHANGED <<awaiting, reported>>

(* The child runs; when it exits, the command has an answer to find. *)
RunnerStep ==
    /\ Proceed \/ Failure
    /\ IF Running /\ pc' = 0 /\ asked
       THEN awaiting' = exit' /\ asked' = FALSE /\ alone' = TRUE
       ELSE UNCHANGED <<asked, awaiting, alone>>
    /\ UNCHANGED reported

Report ==
    /\ awaiting # NoExit
    /\ reported' = Answer(awaiting)
    /\ awaiting' = NoExit
    /\ alone' = FALSE
    /\ UNCHANGED <<vars, asked>>

Around == World /\ UNCHANGED command

CommandInit == Init /\ asked = FALSE /\ awaiting = NoExit /\ alone = FALSE
               /\ reported = "none"
CommandNext == Start \/ RunnerStep \/ Report \/ Around
CommandSpec == CommandInit /\ [][CommandNext]_allVars

-----------------------------------------------------------------------------
(* "passed" is reported only over a state root in which, at that moment,     *)
(* every gate has a passed outcome and the audits really succeeded; "failed" *)
(* only over a failed gate with nothing but passed gates before it -- even   *)
(* when another runner is at work on the same files.                         *)
Answering == awaiting # NoExit /\ awaiting' = NoExit

ReportTruthful ==
    [][/\ Answering /\ reported' = "passed" =>
            /\ \A g \in Gates : out[g].result = "passed"
            /\ \A g \in Audited : out[g].sound
       /\ Answering /\ reported' = "failed" =>
            \E d \in DomainSteps :
               /\ out[d].result = "failed"
               /\ \A g \in Prefix(d) \ {d} : out[g].result = "passed"]_allVars

(* When nobody else touches the state root, a full run that exits 0 is       *)
(* reported passed, and one that published a failure is reported failed: the *)
(* validator of publication.py accepts whatever the runner publishes, as     *)
(* long as the registry volume lasts.                                        *)
CompletionReported ==
    Intact /\ alone =>
        /\ awaiting = 0 /\ through = NoStep => Answer(awaiting) = "passed"
        /\ awaiting = 1 /\ Valid(TerminalCleanup) /\ FailedMarks # {} =>
                Answer(awaiting) = "failed"
=============================================================================
