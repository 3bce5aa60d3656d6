--------------------------- MODULE ExtendedDomains ---------------------------
(***************************************************************************)
(* The extended domain gates, plugin-matrix and mobilenet-matrix: the      *)
(* loops of the shell over the workers of both stacks, the validator that  *)
(* promotes what they retained and compares it three ways, and the outcome *)
(* that run_step inspects and records.  The two gates are one module with  *)
(* other constants: MobileNet has a single precision.                      *)
(*                                                                         *)
(* run_step calls the gate with errexit off: the shell leaves its loops    *)
(* only for a typed failure, and a worker that ends in any other way is    *)
(* missed by the validator, if at all.                                     *)
(***************************************************************************)
EXTENDS DecisionRules

CONSTANTS Precisions,      \* the precisions of the suite, in the order of the loops
          Cases,           \* the directories of a corpus, sorted
          Repetitions,     \* the repetitions a worker retains of a case
          RequireBitwise,  \* determinism.require_bitwise
          Views,           \* what the outputs of one case may look like
          MaxAttempts,     \* bound: invocations of the gate
          MaxFaults        \* bound: workers that end untyped, inputs that changed

\* The output of a worker differs from the reference in its schema, its name,
\* its inventory, or only in some of the repetitions.
Drifts == Schemas \cup {"inventory", "varying"}
GateFailures == SUBSET ({BaselineGate} \cup CandidateGates)

CaseViews ==
    [baselineSchema : Drifts, candidateSchema : Drifts,
     baselineStability : Stability, candidateStability : Stability,
     failedGates : [1..Repetitions -> GateFailures]]

ASSUME ExtendedAssumption ==
    /\ Precisions \in Seq(STRING) /\ Precisions # <<>>
    /\ Cases \in Seq(STRING) /\ Cases # <<>>
    /\ \A i, j \in DOMAIN Precisions : Precisions[i] = Precisions[j] => i = j
    /\ \A i, j \in DOMAIN Cases : Cases[i] = Cases[j] => i = j
    /\ Repetitions \in Nat \ {0}
    /\ RequireBitwise \in BOOLEAN
    /\ Views \subseteq CaseViews
    /\ MaxAttempts \in Nat /\ MaxFaults \in Nat

VARIABLES
    pc,          \* what the gate is doing; "ended" once run_step inspected it
    n,           \* the next worker, then the next case
    results,     \* the retained results: the code of each worker that wrote one
    cases,       \* the evidence of the validator, one item per judged case
    view,        \* the outputs of the case judged last
    validation,  \* validation.json
    status,      \* the exit status of the gate
    marker,      \* the outcome recorded for the gate
    attempts, faults

vars == <<pc, n, results, cases, view, validation, status, marker, attempts, faults>>

Stack == <<"baseline", "candidate">>
Build == "build"
NoView == "not looked at"
Job(stack, precision, what) == [stack |-> stack, precision |-> precision, what |-> what]
Width == Len(Cases) + 1
Jobs == Len(Stack) * Len(Precisions) * Width

\* The loops of run_plugin_matrix: stack, precision, the build and its cases.
JobAt(i) ==
    Job(Stack[((i - 1) \div (Len(Precisions) * Width)) + 1],
        Precisions[(((i - 1) \div Width) % Len(Precisions)) + 1],
        IF (i - 1) % Width = 0 THEN Build ELSE Cases[(i - 1) % Width])

\* The order in which the validator looks at the corpus.
Pairs == Len(Precisions) * Len(Cases)
PairAt(i) == [precision |-> Precisions[((i - 1) \div Len(Cases)) + 1],
              name |-> Cases[((i - 1) % Len(Cases)) + 1]]

\* The FailureRecord of a result.
FailureOf(code, stack, phase, pair) ==
    [code |-> code, stack |-> stack, phase |-> phase, pair |-> pair]
NoRecord == FailureOf(NoFailure, "none", "none", PairAt(1))

NoValidation == [status |-> "absent", failure |-> NoRecord, cases |-> <<>>]

Init ==
    /\ pc = "idle" /\ n = 1 /\ results = <<>> /\ cases = <<>> /\ view = NoView
    /\ validation = NoValidation /\ status = 0 /\ marker = "none"
    /\ attempts = 0 /\ faults = 0

\* run_step finds no valid marker.  What an earlier invocation left was moved
\* aside by reconcile.
Start ==
    /\ pc \in {"idle", "ended"} /\ marker = "none" /\ attempts < MaxAttempts
    /\ pc' = "workers" /\ n' = 1 /\ results' = <<>> /\ cases' = <<>>
    /\ view' = NoView /\ validation' = NoValidation /\ status' = 0
    /\ attempts' = attempts + 1 /\ faults' = 0
    /\ UNCHANGED marker

----------------------------------------------------------------------------
Answers(job) ==
    {NoFailure} \cup
    IF job.what = Build
    THEN {WorkerErrorCode("build", kind) : kind \in BuildErrors}
    ELSE {WorkerErrorCode("correctness", kind) : kind \in RunErrors}

Retain(job, answer) ==
    [j \in DOMAIN results \cup {job} |-> IF j = job THEN answer ELSE results[j]]

\* Mutant of AfterFailure: a break leaves too few of the loops.
AfterFailureInner(i) == i + (Width - ((i - 1) % Width))

\* break 2 after a build and break 3 after a case leave all the loops.
AfterFailure(i) == Jobs + 1

Proceed(next) ==
    /\ n' = IF next > Jobs THEN 1 ELSE next
    /\ pc' = IF next > Jobs THEN "validate" ELSE pc
    /\ UNCHANGED <<cases, view, validation, status, marker, attempts>>

\* run_extended_worker: exit 0, or exit 1 with a strict typed failed result,
\* which sets EXTENDED_WORKER_DOMAIN_FAILURE.
RunWorker(answer) ==
    /\ pc = "workers" /\ answer \in Answers(JobAt(n))
    /\ results' = Retain(JobAt(n), answer)
    /\ Proceed(IF answer = NoFailure THEN n + 1 ELSE AfterFailure(n))
    /\ UNCHANGED faults

\* Any other exit of gpu_run: the container is removed, its result may have
\* been written, the return code is lost and the loop goes on.
WorkerKilled ==
    /\ pc = "workers" /\ faults < MaxFaults
    /\ \/ UNCHANGED results
       \/ \E answer \in Answers(JobAt(n)) : results' = Retain(JobAt(n), answer)
    /\ Proceed(n + 1)
    /\ faults' = faults + 1

----------------------------------------------------------------------------
\* The validator ends with an exception and without a result (exit 1).
Raises ==
    /\ pc' = "inspect" /\ status' = 1
    /\ UNCHANGED <<n, results, cases, view, validation, marker, attempts, faults>>

\* _write_result, then exit 2 for an invalid corpus and 1 for any other failure.
WriteResult(evidence, failure) ==
    /\ validation' = [status |-> Status({failure.code} \ {NoFailure}),
                      failure |-> failure, cases |-> evidence]
    /\ cases' = evidence
    /\ pc' = "inspect"
    /\ UNCHANGED <<n, results, marker, attempts, faults>>

\* The item a judged case adds: its code, and the stacks it promoted a stable
\* chain of case, build and run manifests for.
ItemOf(pair, code, chains) == [pair |-> pair, code |-> code, chains |-> chains]

\* prepare_extended_promotion: the frozen inputs have to be those of the locks.
PreparationFails ==
    /\ pc = "validate" /\ faults < MaxFaults
    /\ pc' = "inspect" /\ status' = 1 /\ faults' = faults + 1
    /\ UNCHANGED <<n, results, cases, view, validation, marker, attempts>>

Failed == {job \in DOMAIN results : results[job] # NoFailure}

\* Mutant of Promotable: the build of the run is not looked at.
PromotableAnyway(job) == job \in DOMAIN results

\* promote_extended_case reads the build and refuses one that did not pass.
Promotable(job) ==
    LET build == Job(job.stack, job.precision, Build) IN
    job \in DOMAIN results /\ build \in DOMAIN results /\ results[build] = NoFailure

\* A build failure is reported for the first case of its corpus.
PairOf(job) == [precision |-> job.precision,
                name |-> IF job.what = Build THEN Cases[1] ELSE job.what]

NothingRetained ==
    /\ pc = "validate" /\ Failed = {}
    /\ pc' = "compare" /\ n' = 1
    /\ UNCHANGED <<results, cases, view, validation, status, marker, attempts, faults>>

\* _promote_retained_worker_failure: the one failed result of the runs.
PromoteWorkerFailure ==
    /\ pc = "validate"
    /\ \E job \in Failed :
         /\ Failed = {job} /\ (job.what = Build \/ Promotable(job))
         /\ WriteResult(<<ItemOf(PairOf(job), results[job], {job.stack})>>,
                        FailureOf(results[job], job.stack,
                                  IF job.what = Build THEN "build" ELSE "correctness",
                                  PairOf(job)))
    /\ status' = 1 /\ UNCHANGED view

\* More than one failed result, or a run without the build it needs.
WorkerFailureRaises ==
    /\ pc = "validate" /\ Failed # {}
    /\ \A job \in Failed : Failed = {job} => job.what # Build /\ ~Promotable(job)
    /\ Raises

----------------------------------------------------------------------------
\* Mutant of Decided: the first repetition that fails decides.
DecidedByFirst(codes) ==
    LET failed == {r \in DOMAIN codes : codes[r] # NoFailure} IN
    IF failed = {} THEN NoFailure
    ELSE codes[CHOOSE r \in failed : \A q \in failed : r <= q]

\* Whichever repetition shows it, an invalid corpus outranks nonfinite outputs,
\* and these outrank a regression.
Decided(codes) ==
    LET seen == {codes[r] : r \in DOMAIN codes} IN
    IF "CORPUS_INVALID" \in seen THEN "CORPUS_INVALID"
    ELSE IF "NONFINITE_OUTPUT" \in seen THEN "NONFINITE_OUTPUT"
    ELSE IF "NUMERICAL_REGRESSION" \in seen THEN "NUMERICAL_REGRESSION"
    ELSE NoFailure

\* One repetition, as decide_three_way sees it: both schemas were validated.
Decision(v, r) ==
    ThreeWay([baselineSchema |-> "same", candidateSchema |-> "same",
              baselineStability |-> v.baselineStability,
              candidateStability |-> v.candidateStability,
              failedGates |-> v.failedGates[r]])

\* The code and the phase of a case whose outputs have the right schema.
Verdict(v) ==
    LET decided == Decided([r \in 1..Repetitions |-> Decision(v, r)]) IN
    IF decided # NoFailure THEN [code |-> decided, phase |-> "correctness"]
    ELSE IF ~StableEnough(v.baselineStability, RequireBitwise) THEN
            [code |-> "CORPUS_INVALID", phase |-> "determinism"]
    ELSE IF ~StableEnough(v.candidateStability, RequireBitwise) THEN
            [code |-> "NONDETERMINISM_REGRESSION", phase |-> "determinism"]
    ELSE [code |-> NoFailure, phase |-> "correctness"]

\* worker_evidence_failure_code, for outputs that left the contract.
DriftCode(stack) == IF stack = "baseline" THEN "CORPUS_INVALID" ELSE "OUTPUT_SCHEMA_CHANGED"

\* The stack whose outputs are found to have left it: the baseline's are read
\* first.
Drifted(v) ==
    IF v.baselineSchema # "same" THEN "baseline"
    ELSE IF v.candidateSchema # "same" THEN "candidate"
    ELSE "none"

SchemaOf(v, stack) == IF stack = "baseline" THEN v.baselineSchema ELSE v.candidateSchema

\* The code the validator gives a case.
CaseCode(v) == IF Drifted(v) # "none" THEN DriftCode(Drifted(v)) ELSE Verdict(v).code

ExitStatus(code) == CASE code = NoFailure -> 0 [] code = "CORPUS_INVALID" -> 2 [] OTHER -> 1
Blamed(code) == IF code = "CORPUS_INVALID" THEN "baseline" ELSE "candidate"

\* What the validator needs of the evidence of a case: both passing builds and
\* runs, or, once it has found a stack to drift, the results it read until then
\* and the build it promotes.  A shape that varies over the repetitions has no
\* stability (summarize_determinism raises), a changed inventory no chain.
RunOf(stack, pair) == Job(stack, pair.precision, pair.name)
Readable(v, pair) ==
    LET stack == Drifted(v) IN
    IF stack = "none" THEN \A i \in DOMAIN Stack : Promotable(RunOf(Stack[i], pair))
    ELSE /\ SchemaOf(v, stack) # "varying"
         /\ RunOf("baseline", pair) \in DOMAIN results
         /\ RunOf(stack, pair) \in DOMAIN results
         /\ SchemaOf(v, stack) = "inventory" \/ Promotable(RunOf(stack, pair))

\* validate_repetitions refuses outputs that left the contract; the failure ends
\* the validation.
JudgeDrift(v, pair) ==
    LET stack == Drifted(v)  code == DriftCode(stack) IN
    /\ stack # "none" /\ Readable(v, pair)
    /\ WriteResult(Append(cases, ItemOf(pair, code,
                       IF SchemaOf(v, stack) = "inventory" THEN {} ELSE {stack})),
                   FailureOf(code, stack, "correctness", pair))
    /\ status' = 1

\* Both chains are promoted; a failure ends the validation, the last case that
\* passes completes it.
JudgeOutputs(v, pair) ==
    LET verdict == Verdict(v)
        evidence == Append(cases, ItemOf(pair, verdict.code, {"baseline", "candidate"}))
    IN
    /\ Drifted(v) = "none" /\ Readable(v, pair)
    /\ \/ /\ verdict.code # NoFailure
          /\ WriteResult(evidence, FailureOf(verdict.code, Blamed(verdict.code),
                                             verdict.phase, pair))
          /\ status' = ExitStatus(verdict.code)
       \/ /\ verdict.code = NoFailure /\ n = Pairs
          /\ WriteResult(evidence, NoRecord) /\ status' = 0
       \/ /\ verdict.code = NoFailure /\ n < Pairs
          /\ cases' = evidence /\ n' = n + 1
          /\ UNCHANGED <<pc, results, validation, status, marker, attempts, faults>>

\* Mutant of Judge: the validator follows the retained runs, not the corpus.
JudgeRetained(v) ==
    /\ pc = "compare"
    /\ view' = v
    /\ LET pair == PairAt(n) IN
       \/ JudgeDrift(v, pair) \/ JudgeOutputs(v, pair)
       \/ /\ RunOf("candidate", pair) \notin DOMAIN results
          /\ WriteResult(cases, NoRecord) /\ status' = 0

Judge(v) ==
    /\ pc = "compare"
    /\ view' = v
    /\ JudgeDrift(v, PairAt(n)) \/ JudgeOutputs(v, PairAt(n))

\* A missing result raises; one that fails its own checks is classified as
\* INFRASTRUCTURE_INVALID, which run_step does not record either.
EvidenceMissing(v) ==
    /\ pc = "compare" /\ ~Readable(v, PairAt(n))
    /\ Raises

----------------------------------------------------------------------------
\* _validate_extended_failure_artifacts: exactly one case of the result has a
\* chain for the stack of the failure.
Chains(result) == {i \in DOMAIN result.cases : result.failure.stack \in result.cases[i].chains}
OneChain(result) == Cardinality(Chains(result)) = 1

\* A completed domain decision: it failed, and an upgrade is to blame.
IsDecision(result) ==
    /\ result.status = "failed"
    /\ ExitCodeForFailure(result.failure.code) = "QUALIFICATION_FAILED"

\* inspect-outcome: what _validate_extended_outcome makes of validation.json.
Outcome ==
    CASE validation.status = "passed" -> "passed"
      [] IsDecision(validation) /\ OneChain(validation) -> "failed"
      [] OTHER -> "raises"

\* run_step records an outcome that agrees with the exit status and stops
\* otherwise.
Inspect ==
    /\ pc = "inspect"
    /\ pc' = "ended"
    /\ marker' = IF Outcome # "raises" /\ status = (IF Outcome = "passed" THEN 0 ELSE 1)
                 THEN Outcome ELSE marker
    /\ UNCHANGED <<n, results, cases, view, validation, status, attempts, faults>>

\* The runner is killed.
Crash ==
    /\ pc \notin {"idle", "ended"} /\ attempts < MaxAttempts
    /\ pc' = "idle"
    /\ UNCHANGED <<n, results, cases, view, validation, status, marker, attempts, faults>>

Next ==
    \/ Start
    \/ \E answer \in FailureCodes \cup {NoFailure} : RunWorker(answer)
    \/ WorkerKilled
    \/ PreparationFails \/ NothingRetained \/ PromoteWorkerFailure \/ WorkerFailureRaises
    \/ \E v \in Views : Judge(v) \/ EvidenceMissing(v)
    \/ Inspect
    \/ Crash

Spec == Init /\ [][Next]_vars

----------------------------------------------------------------------------
ExtendedTypeOK ==
    /\ pc \in {"idle", "workers", "validate", "compare", "inspect", "ended"}
    /\ n \in 1..Jobs /\ status \in 0..2
    /\ marker \in {"none", "passed", "failed"}
    /\ attempts \in 0..MaxAttempts /\ faults \in 0..MaxFaults
    /\ \A job \in DOMAIN results : results[job] \in FailureCodes \cup {NoFailure}

\* A gate recorded as passed built and ran every precision and case in both
\* stacks, and the validator compared every pair and kept both chains, whichever
\* workers ended untyped on the way (run_step with errexit off, _write_result).
PassedComparesAll ==
    marker = "passed" =>
        /\ \A i \in 1..Jobs : JobAt(i) \in DOMAIN results /\ results[JobAt(i)] = NoFailure
        /\ \A i \in 1..Pairs : \E c \in DOMAIN validation.cases :
              validation.cases[c] = ItemOf(PairAt(i), NoFailure, {"baseline", "candidate"})

\* A numerical regression is recorded only of a case whose baseline kept the
\* contract and the tolerance of the reference in every repetition: the corpus
\* is at fault otherwise, in whichever repetition that shows (main).
RegressionOnValidBaseline ==
    marker = "failed" /\ validation.failure.code = "NUMERICAL_REGRESSION" =>
        /\ view.baselineSchema = "same"
        /\ \A r \in 1..Repetitions : BaselineGate \notin view.failedGates[r]

\* A typed worker failure of an undisturbed invocation ends it as a decision
\* that names this worker, at whichever point of the loops it happened
\* (run_extended_worker, _promote_retained_worker_failure).
WorkerFailureIsRecorded ==
    pc = "inspect" /\ faults = 0 =>
        \A job \in Failed :
            /\ status = 1 /\ Outcome = "failed"
            /\ validation.failure.code = results[job]
            /\ validation.failure.stack = job.stack /\ validation.failure.pair = PairOf(job)

\* A failure recorded outside the build phase has a retained run, and the chain
\* it is recorded with rests on a passing build and on a run that failed with the
\* same code or was compared (promote_extended_case).
FailureIsEvidenced ==
    marker = "failed" /\ validation.failure.phase # "build" =>
        LET failure == validation.failure IN
        /\ RunOf(failure.stack, failure.pair) \in DOMAIN results
        /\ \A i \in Chains(validation) :
              LET pair == validation.cases[i].pair
                  build == Job(failure.stack, pair.precision, Build)
                  run == RunOf(failure.stack, pair)
              IN /\ {build, run} \subseteq DOMAIN results
                 /\ results[build] = NoFailure /\ results[run] \in {failure.code, NoFailure}

\* README.md: genuine NUMERICAL_REGRESSION decisions of the plugin and MobileNet
\* domains are confirmed and reduced, and the message of
\* _validate_extended_failure_artifacts speaks of the one exact failed chain.  A
\* decision whose failed case has its chain is recorded, and no other is.
RecordedOnItsOwnChain ==
    pc = "ended" =>
        (marker = "failed" <=>
           /\ status = 1 /\ IsDecision(validation)
           /\ \E i \in Chains(validation) : validation.cases[i].pair = validation.failure.pair)
============================================================================
