-------------------------- MODULE SeededReductions --------------------------
(***************************************************************************)
(* The gates reduction-prepare, replay-G2, replay-G7 and                   *)
(* reduction-validation: the seeded failures G5, G2 and G7 are reduced,    *)
(* exported as bundles, replayed from a clean directory and validated      *)
(* together.  Every invocation may end anywhere.  The runner moves the     *)
(* outputs of gates without a valid marker aside; the script, invoked      *)
(* directly, resumes the finished half of an unfinished preparation.       *)
(***************************************************************************)
EXTENDS GpuPredicates, Bundles

CONSTANTS MinimumPairs, Pairs,  \* 20 and 24: the pairs G5 keeps, and has
          MaximumTrials,        \* reduction_budget
          Candidates,           \* candidates a session may end with
          PayloadFiles,         \* payload files of a source-bearing bundle
          MaxFaults             \* bound: crashes, errors, direct calls, new inputs

ASSUME SeededAssumption ==
    /\ MinimumPairs \in Nat /\ Pairs \in Nat /\ MinimumPairs < Pairs
    /\ MaximumTrials \in Nat \ {0}
    /\ PayloadFiles \in Nat /\ MaxFaults \in Nat

Seeds == {"G2", "G7"}
Gates == <<"reduction-prepare", "replay-G2", "replay-G7", "reduction-validation">>
SeedOf == <<"none", "G2", "G7", "none">>
FailureOf == [G2 |-> "NUMERICAL_REGRESSION", G7 |-> "PROFILE_REJECTED"]
Environments == <<"baseline", "candidate">>

VARIABLES
    input,      \* gpu-faults: its run, and which prefixes of the G5 pairs regress
    work,       \* candidate-reduction-work: session and candidate of each seed
    prepared,   \* reductions/prepared
    replayed,   \* reductions/<seed>: cli-result.json and replay-result.json
    validation, \* reductions/validation.json
    markers,    \* what the marker of each gate was recorded for
    pc, gate,   \* the invocation: where it is, in which gate
    staged,     \* the preparation it has under way
    origin,     \* who invoked it
    faults      \* bad luck so far

disk == <<work, prepared, replayed, validation, markers>>
run == <<pc, gate, staged, origin>>
vars == <<input, disk, run, faults>>

NoSession == [revision |-> 0]
NoCandidate == [id |-> "none"]
EmptyWork == [s \in Seeds |-> [session |-> NoSession, candidate |-> NoCandidate]]
Nothing == [revision |-> 0]
EmptyReplays == [s \in Seeds |-> [cli |-> NoReplay, result |-> NoReplay]]
NoMarker == <<>>
Unstaged == [pairs |-> 0, held |-> [s \in Seeds |-> NoCandidate],
             bundles |-> [s \in Seeds |-> NoBundle]]

Prefixes == MinimumPairs..Pairs
Inputs(revision) == [revision : {revision}, regresses : [Prefixes -> BOOLEAN]]

Init ==
    /\ input \in Inputs(1)
    /\ work = EmptyWork /\ prepared = Nothing
    /\ replayed = EmptyReplays /\ validation = Nothing
    /\ markers = [g \in DOMAIN Gates |-> NoMarker]
    /\ pc = "idle" /\ gate = 1 /\ staged = Unstaged /\ origin = "runner"
    /\ faults = 0

----------------------------------------------------------------------------
(* Markers.  A gate rests on the gates before it, a replay not on the other. *)
DirectDeps == <<{}, {1}, {1}, {1, 2, 3}>>

Content(g) ==
    CASE g = 1 -> <<input.revision, work, prepared>>
      [] g \in {2, 3} -> <<markers[1], replayed[SeedOf[g]]>>
      [] OTHER -> <<markers[1], markers[2], markers[3], validation>>

\* Mutant of Recorded: a marker outlives the inputs of its gate.
RecordedAnyInput(g) == \A d \in DirectDeps[g] \cup {g} : markers[d] # NoMarker

Recorded(g) == \A d \in DirectDeps[g] \cup {g} : markers[d] = Content(d)

Goto(step) == pc' = step /\ UNCHANGED <<gate, staged, origin>>
Ended == pc' = "idle" /\ gate' = 1 /\ staged' = Unstaged /\ UNCHANGED origin

\* Mutant of Reconciled: the outputs of replays stay where they are.
ReconciledButReplays ==
    /\ work' = IF Recorded(1) THEN work ELSE EmptyWork
    /\ prepared' = IF Recorded(1) THEN prepared ELSE Nothing
    /\ UNCHANGED replayed
    /\ validation' = IF Recorded(4) THEN validation ELSE Nothing
    /\ markers' = [g \in DOMAIN Gates |-> IF Recorded(g) THEN markers[g] ELSE NoMarker]

\* reconcile: what the gates without a valid marker own is moved to stale.
Reconciled ==
    /\ work' = IF Recorded(1) THEN work ELSE EmptyWork
    /\ prepared' = IF Recorded(1) THEN prepared ELSE Nothing
    /\ replayed' = [s \in Seeds |->
          IF \E g \in {2, 3} : SeedOf[g] = s /\ Recorded(g) THEN replayed[s]
          ELSE EmptyReplays[s]]
    /\ validation' = IF Recorded(4) THEN validation ELSE Nothing
    /\ markers' = [g \in DOMAIN Gates |-> IF Recorded(g) THEN markers[g] ELSE NoMarker]

InvokeRunner ==
    /\ pc = "idle" /\ ~Recorded(4)
    /\ Reconciled
    /\ pc' = "gate" /\ gate' = 1 /\ origin' = "runner"
    /\ UNCHANGED <<input, staged, faults>>

\* create_remote_reproductions.py, started by a user.
InvokeDirectly ==
    /\ pc = "idle" /\ faults < MaxFaults
    /\ pc' = "prepare" /\ gate' = 1 /\ origin' = "direct"
    /\ faults' = faults + 1
    /\ UNCHANGED <<input, disk, staged>>

\* run_step: a recorded gate is skipped, any other is executed.
SkipGate ==
    /\ pc = "gate" /\ Recorded(gate)
    /\ IF gate = Len(Gates) THEN Ended
       ELSE gate' = gate + 1 /\ UNCHANGED <<pc, staged, origin>>
    /\ UNCHANGED <<input, disk, faults>>

RunGate ==
    /\ pc = "gate" /\ ~Recorded(gate)
    /\ Goto(CASE gate = 1 -> "prepare" [] gate \in {2, 3} -> "replay" [] OTHER -> "validate")
    /\ UNCHANGED <<input, disk, faults>>

Record ==
    /\ pc = "record"
    /\ markers' = [markers EXCEPT ![gate] = Content(gate)]
    /\ IF gate = Len(Gates) THEN Ended
       ELSE pc' = "gate" /\ gate' = gate + 1 /\ UNCHANGED <<staged, origin>>
    /\ UNCHANGED <<input, work, prepared, replayed, validation, faults>>

----------------------------------------------------------------------------
(* G5: the smallest prefix of the pairs that still is a regression.          *)

\* Mutant of Shorter: the shortest prefix is not tried.
ShorterButMinimum == {n \in (MinimumPairs + 1)..(Pairs - 1) :
    input.regresses[n] /\ n - MinimumPairs + 2 <= MaximumTrials}

\* reduce_performance_failure: the regressing prefixes the budget reaches; the
\* whole sequence is the first candidate evaluated.
Shorter == {n \in MinimumPairs..(Pairs - 1) :
    input.regresses[n] /\ n - MinimumPairs + 2 <= MaximumTrials}

\* _replay_performance_reduction accepts only a shorter sequence.
Reducible == input.regresses[Pairs] /\ Shorter # {}

ReducePerformance ==
    /\ pc = "prepare" /\ prepared = Nothing /\ Reducible
    /\ staged' = [Unstaged EXCEPT !.pairs = CHOOSE n \in Shorter : \A m \in Shorter : n <= m]
    /\ pc' = "G2"
    /\ UNCHANGED <<input, disk, gate, origin, faults>>

----------------------------------------------------------------------------
(* G2 and G7: run_remote_reductions.                                         *)

\* Mutant of G2Resumable: a reduction of any inputs.
G2ResumableAnyContract ==
    /\ work["G2"].session # NoSession /\ work["G2"].candidate # NoCandidate
    /\ work["G2"].session.final = work["G2"].candidate

\* _load_completed_g2: both files, of these inputs and of one session.
G2Resumable ==
    /\ work["G2"].session # NoSession /\ work["G2"].candidate # NoCandidate
    /\ work["G2"].session.revision = input.revision
    /\ work["G2"].session.final = work["G2"].candidate

ResumeG2 ==
    /\ pc = "G2" /\ G2Resumable
    /\ staged' = [staged EXCEPT !.held["G2"] = work["G2"].candidate]
    /\ pc' = "G7"
    /\ UNCHANGED <<input, disk, gate, origin, faults>>

\* Anything else is moved to stale, the candidate first.
PreserveStaleG2 ==
    /\ pc = "G2" /\ ~G2Resumable
    /\ \/ work["G2"].candidate # NoCandidate
          /\ work' = [work EXCEPT !["G2"].candidate = NoCandidate]
       \/ work["G2"].candidate = NoCandidate /\ work["G2"].session # NoSession
          /\ work' = [work EXCEPT !["G2"].session = NoSession]
    /\ UNCHANGED <<input, prepared, replayed, validation, markers, run, faults>>

\* What one trial of a seed may say.
TrialsOf == [G2 |-> {G2Outcome(t) : t \in G2Trials}, G7 |-> {G7Outcome(t) : t \in G7Trials}]

\* reduce_environment_history with _not_applicable: the baseline reproduces the
\* failure or not, and the candidate has to.
HistoryOf(observed) ==
    CASE \E e \in DOMAIN observed : observed[e] = "infrastructure_invalid" -> "raises"
      [] observed = <<"not_reproduced", "reproduced">> -> "boundary"
      [] observed = <<"reproduced", "reproduced">> -> "not_applicable"
      [] OTHER -> "raises"

\* The session of a seed completes with some candidate and writes itself down.
ReduceSeed(seed) ==
    /\ seed = "G2" => work["G2"] = EmptyWork["G2"]
    /\ \E id \in Candidates : \E observed \in [DOMAIN Environments -> TrialsOf[seed]] :
          LET final == [id |-> id, history |-> HistoryOf(observed)] IN
          /\ final.history # "raises"
          /\ staged' = [staged EXCEPT !.held[seed] = final]
          /\ work' = [work EXCEPT ![seed].session = [revision |-> input.revision, final |-> final]]
    /\ UNCHANGED <<input, prepared, replayed, validation, markers, gate, origin, faults>>

ReduceG2 == pc = "G2" /\ ReduceSeed("G2") /\ pc' = "G2-candidate"
ReduceG7 == pc = "G7" /\ ReduceSeed("G7") /\ pc' = "G7-candidate"

WriteCandidate ==
    /\ pc \in {"G2-candidate", "G7-candidate"}
    /\ LET seed == IF pc = "G2-candidate" THEN "G2" ELSE "G7" IN
          work' = [work EXCEPT ![seed].candidate = staged.held[seed]]
    /\ Goto(IF pc = "G2-candidate" THEN "G7" ELSE "export")
    /\ UNCHANGED <<input, prepared, replayed, validation, markers, faults>>

\* A trial was invalid, the candidate environment did not reproduce, a time or
\* trial budget ran out: the script raises and removes its staging directory.
BadTrial ==
    /\ pc \in {"prepare", "G2", "G7"} /\ faults < MaxFaults
    /\ Ended /\ faults' = faults + 1
    /\ UNCHANGED <<input, disk>>

\* A manifest hash no bundle of the state root has.
NewNumber == CHOOSE n \in 1..5 :
    /\ \A s \in Seeds : staged.bundles[s].number # n /\ replayed[s].result.bundle # n
    /\ \A m \in 1..(n - 1) :
         \E s \in Seeds : m \in {staged.bundles[s].number, replayed[s].result.bundle}

\* The recipe is written from the candidate in memory, the rest of the bundle
\* from a copy of the work directory.
ExportSeed ==
    /\ pc = "export" /\ Exportable(PayloadFiles)
    /\ \E seed \in Seeds :
          /\ staged.bundles[seed] = NoBundle
          /\ seed = "G7" => staged.bundles["G2"] # NoBundle
          /\ staged' = [staged EXCEPT !.bundles[seed] =
                          Export(FailureOf[seed], staged.held[seed], PayloadFiles, NewNumber)]
    /\ UNCHANGED <<input, disk, pc, gate, origin, faults>>

\* Both bundles verify once more; the staging directory becomes prepared.
PublishPrepared ==
    /\ pc = "export" /\ \A s \in Seeds : staged.bundles[s] # NoBundle
    /\ \A s \in Seeds : Verifies(staged.bundles[s])
    /\ prepared' = [revision |-> input.revision, pairs |-> staged.pairs,
                    reductions |-> work, bundles |-> staged.bundles]
    /\ IF origin = "runner" THEN pc' = "record" /\ staged' = Unstaged /\ UNCHANGED <<gate, origin>>
       ELSE Ended
    /\ UNCHANGED <<input, work, replayed, validation, markers, faults>>

----------------------------------------------------------------------------
(* run_replay_seed and validate_reduction_replays.                           *)
Seed == SeedOf[gate]

\* The redirection truncates cli-result.json before the command runs.
StartReplay ==
    /\ pc = "replay" /\ replayed[Seed].result = NoReplay
    /\ \E target \in Targets : Replayable(prepared.bundles[Seed], target)
    /\ replayed' = [replayed EXCEPT ![Seed].cli = NoReplay]
    /\ Goto("replaying")
    /\ UNCHANGED <<input, work, prepared, validation, markers, faults>>

PublishReplay ==
    /\ pc = "replaying"
    /\ replayed' = [replayed EXCEPT ![Seed].result = ReplayResult(prepared.bundles[Seed])]
    /\ Goto("printing")
    /\ UNCHANGED <<input, work, prepared, validation, markers, faults>>

PrintResult ==
    /\ pc = "printing"
    /\ replayed' = [replayed EXCEPT ![Seed].cli = replayed[Seed].result]
    /\ Goto("check")
    /\ UNCHANGED <<input, work, prepared, validation, markers, faults>>

\* The assertions of both gates about one seed.
ReplayStands(seed) ==
    /\ replayed[seed].result # NoReplay /\ replayed[seed].cli = replayed[seed].result
    /\ replayed[seed].result.failure = FailureOf[seed]
    /\ replayed[seed].result.bundle = prepared.bundles[seed].number

CheckReplay ==
    /\ pc = "check" /\ ReplayStands(Seed)
    /\ Goto("record")
    /\ UNCHANGED <<input, disk, faults>>

Validate ==
    /\ pc = "validate" /\ \A s \in Seeds : ReplayStands(s)
    /\ validation' = [revision |-> prepared.revision, pairs |-> prepared.pairs,
                      replays |-> [s \in Seeds |-> replayed[s].result]]
    /\ Goto("record")
    /\ UNCHANGED <<input, work, prepared, replayed, markers, faults>>

\* Every check an invocation can fail at: it raises and leaves the outputs.
CheckFails ==
    \/ pc = "prepare" /\ (prepared # Nothing \/ ~Reducible)
    \/ pc = "export" /\ ~Exportable(PayloadFiles)
    \/ pc = "export" /\ \E s \in Seeds :
          staged.bundles[s] # NoBundle /\ ~Verifies(staged.bundles[s])
    \/ pc = "replay" /\ replayed[Seed].result # NoReplay
    \/ pc = "replay" /\ ~Verifies(prepared.bundles[Seed])
    \/ pc = "check" /\ ~ReplayStands(Seed)
    \/ pc = "validate" /\ \E s \in Seeds : ~ReplayStands(s)

Raise ==
    /\ CheckFails /\ Ended
    /\ UNCHANGED <<input, disk, faults>>

\* The GPU does not fit, a container fails, or the failure does not show.
BadReplay ==
    /\ pc \in {"replay", "replaying"} /\ faults < MaxFaults
    /\ replayed' = [replayed EXCEPT ![Seed].cli = NoReplay]
    /\ Ended /\ faults' = faults + 1
    /\ UNCHANGED <<input, work, prepared, validation, markers>>

----------------------------------------------------------------------------
Crash ==
    /\ pc # "idle" /\ faults < MaxFaults
    /\ Ended /\ faults' = faults + 1
    /\ UNCHANGED <<input, disk>>

\* The GPU faults are measured again: the markers that rest on them fall.
Requalify ==
    /\ pc = "idle" /\ faults < MaxFaults
    /\ input' \in Inputs(input.revision + 1)
    /\ faults' = faults + 1
    /\ UNCHANGED <<disk, run>>

Step ==
    \/ SkipGate \/ RunGate \/ Record
    \/ ReducePerformance \/ ResumeG2 \/ PreserveStaleG2 \/ ReduceG2 \/ ReduceG7
    \/ WriteCandidate \/ ExportSeed \/ PublishPrepared
    \/ StartReplay \/ PublishReplay \/ PrintResult \/ CheckReplay \/ Validate
    \/ Raise

Next == InvokeRunner \/ InvokeDirectly \/ Step \/ BadTrial \/ BadReplay \/ Crash \/ Requalify

\* An invocation runs while it can, and the runner is invoked until its last
\* gate is recorded.
Spec == Init /\ [][Next]_vars /\ WF_vars(Step) /\ WF_vars(InvokeRunner)

----------------------------------------------------------------------------
\* What is published as prepared is of one run of the GPU faults: both sessions
\* ran on its inputs, each candidate is the one its session ended with, and each
\* bundle was made from that very candidate, although the candidate, the session
\* and the bundle come from three places (memory, the work directory, its copy).
PreparedLinked ==
    prepared # Nothing =>
        \A s \in Seeds :
            LET reduction == prepared.reductions[s] IN
            /\ reduction.session.revision = prepared.revision
            /\ reduction.session.final = reduction.candidate
            /\ prepared.bundles[s].candidate = reduction.candidate
            /\ prepared.bundles[s].failure = FailureOf[s]

\* A validation the runner relies on is of the current inputs, and its replays
\* are of the bundles that lie beside it (reduction-validation).
ValidationLinked ==
    Recorded(4) =>
        /\ validation.revision = input.revision
        /\ prepared.revision = input.revision
        /\ \A s \in Seeds : validation.replays[s].bundle = prepared.bundles[s].number

\* The prefix G5 keeps is a regression and no shorter one is: a budget that ends
\* the search early leaves no reduction (reduce_performance_failure).
PerformanceIsMinimal ==
    prepared # Nothing /\ prepared.revision = input.revision =>
        /\ prepared.pairs < Pairs /\ input.regresses[prepared.pairs]
        /\ \A n \in MinimumPairs..(prepared.pairs - 1) : ~input.regresses[n]

\* When the pairs of G5 can be reduced, the gates are recorded in the end,
\* whatever an earlier invocation left behind (prepare_reductions and
\* run_replay_seed refuse outputs that exist).
SeedsEventuallyValidated == <>[](Recorded(4) \/ ~Reducible)
============================================================================
