------------------------- MODULE CoreQualification -------------------------
(***************************************************************************)
(* QualificationRunner.run: the frozen models are built and executed in    *)
(* the baseline and then the candidate worker, compared shape by shape,    *)
(* judged for memory and for paired timings, and the summary is published  *)
(* by renaming a private staging directory.  A typed worker failure        *)
(* publishes a summary of that failure alone; any other error removes the  *)
(* staging directory; a crash leaves it behind.                            *)
(* A measured fact is chosen where the code first reads it.                *)
(***************************************************************************)
EXTENDS PairedMeasurement, DecisionRules

CONSTANTS Precisions,       \* precision_modes, in authored order
          Facts,            \* what the outputs of one case may look like
          RequireBitwise,   \* determinism.require_bitwise
          Metrics,          \* the memory metrics: engine_bytes and device_memory
          Builds,           \* memory.confirmation_builds
          Interruptible,    \* whether anything may end an invocation early
          MaxRuns           \* bound: invocations of run

\* A decision on no shape: a metric, or this.  The source leaves shape_id empty.
Aggregate == "all shapes"

ASSUME CoreAssumption ==
    /\ Precisions \in Seq(STRING) /\ Precisions # <<>>
    /\ \A i, j \in DOMAIN Precisions : Precisions[i] = Precisions[j] => i = j
    /\ Facts \subseteq CaseFacts
    /\ RequireBitwise \in BOOLEAN
    /\ Metrics # {} /\ Metrics \subseteq {"engine_bytes", "device_memory"}
    /\ Builds \in Nat /\ Builds >= 3
    /\ ShapeSet \cap (Metrics \cup {Aggregate}) = {}
    /\ Interruptible \in BOOLEAN /\ MaxRuns \in Nat

VARIABLES
    phase,          \* where the invocation is; "idle" between invocations
    p, e, k,        \* loop positions: precision, environment, shape
    codes,          \* failures: the codes, duplicates dropped
    records,        \* failure_records
    evidence,       \* all_case_evidence: one item per decided case or gate
    staging,        \* the private directory of this invocation
    destination,    \* the published summary
    runs            \* invocations so far

cvars == <<phase, p, e, k, codes, records, evidence, staging, destination, runs>>
vars == <<cvars, mvars>>

Phases == {"idle", "build", "correctness", "compare", "memory",
           "measure", "performance", "publish"}
Gates == Metrics \cup {"case", "performance", "worker"}
Environment == <<"baseline", "candidate">>

Records == [code : FailureCodes, env : Stacks,
            precision : {Precisions[i] : i \in DOMAIN Precisions},
            shape : ShapeSet \cup Metrics \cup {Aggregate}]
Items == [gate : Gates, precision : {Precisions[i] : i \in DOMAIN Precisions},
          shape : ShapeSet \cup Metrics \cup {Aggregate},
          outcome : Outcomes \cup FailureCodes \cup {NoFailure}]

NoSummary == [status |-> "absent", codes |-> {}, records |-> {}, evidence |-> {}]

\* The summary _execute returns: its status is computed from its codes.
Summary(cs, rs, es) ==
    [status |-> Status(cs), codes |-> cs, records |-> rs, evidence |-> es]

Precision == Precisions[p]
FailureOf(code, env, s) == [code |-> code, env |-> env, precision |-> Precision, shape |-> s]
Item(gate, s, outcome) == [gate |-> gate, precision |-> Precision, shape |-> s, outcome |-> outcome]

\* Mutant of RecordsOf: only the run of the baseline is looked up.
RecordsOfBaseline(code, env, s) ==
    IF code = NoFailure \/ env = "candidate" THEN {} ELSE {FailureOf(code, env, s)}

RecordsOf(code, env, s) == IF code = NoFailure THEN {} ELSE {FailureOf(code, env, s)}
CodeSet(code) == {code} \ {NoFailure}

Init ==
    /\ phase = "idle" /\ p = 1 /\ e = 1 /\ k = 1
    /\ codes = {} /\ records = {} /\ evidence = {}
    /\ staging = "absent" /\ destination = NoSummary /\ runs = 0
    /\ MeasurementOff

----------------------------------------------------------------------------
\* The checks before any work: an existing destination is never overwritten.
\* The locks were verified; when they are not, run raises and changes nothing.
Begin ==
    /\ phase = "idle" /\ runs < MaxRuns
    /\ destination = NoSummary
    /\ phase' = "build" /\ staging' = "open" /\ runs' = runs + 1
    /\ p' = 1 /\ e' = 1 /\ k' = 1 /\ codes' = {} /\ records' = {} /\ evidence' = {}
    /\ ResetMeasurement("off")
    /\ UNCHANGED destination

\* _TypedWorkerFailureError: what the other cases showed is not in the summary.
WorkerFailed(code, s) ==
    /\ codes' = {code}
    /\ records' = {FailureOf(code, Environment[e], s)}
    /\ evidence' = {Item("worker", s, code)}
    /\ phase' = "publish"
    /\ UNCHANGED <<p, e, k, staging, destination, runs, mvars>>

\* _build_confirmations: all builds of this stack, or a typed failure of one.
BuildConfirmations ==
    /\ phase = "build"
    /\ phase' = "correctness" /\ k' = 1
    /\ UNCHANGED <<p, e, codes, records, evidence, staging, destination, runs, mvars>>

BuildFails(kind) ==
    /\ phase = "build"
    /\ WorkerFailed(WorkerErrorCode("build", kind), Aggregate)

\* _run_correctness for the next shape, then the other stack, then compare.
RunCorrectness ==
    /\ phase = "correctness"
    /\ \/ k < Len(Shapes) /\ k' = k + 1 /\ UNCHANGED <<phase, e>>
       \/ k = Len(Shapes) /\ e = 1 /\ k' = 1 /\ e' = 2 /\ phase' = "build"
       \/ k = Len(Shapes) /\ e = 2 /\ k' = 1 /\ phase' = "compare" /\ UNCHANGED e
    /\ UNCHANGED <<p, codes, records, evidence, staging, destination, runs, mvars>>

RunFails(kind) ==
    /\ phase = "correctness"
    /\ WorkerFailed(ContextualCode(kind, Environment[e] = "baseline"), Shapes[k])

\* The loop over the sorted shapes: compare, keep the evidence, the code and
\* the failure records of the two typed runs.
CompareShape ==
    /\ phase = "compare"
    /\ \E f \in Facts :
         LET case == CompareCase(f, RequireBitwise) IN
         /\ evidence' = evidence \cup {Item("case", Shapes[k], case.code)}
         /\ codes' = codes \cup CodeSet(case.code)
         /\ records' = IF case.code = NoFailure THEN records
                       ELSE records \cup RecordsOf(case.baseline, "baseline", Shapes[k])
                                    \cup RecordsOf(case.candidate, "candidate", Shapes[k])
    /\ IF k < Len(Shapes) THEN k' = k + 1 /\ UNCHANGED phase
                          ELSE phase' = "memory" /\ UNCHANGED k
    /\ UNCHANGED <<p, e, staging, destination, runs, mvars>>

\* Mutant of MemoryCodes: a regression is kept as evidence only.
MemoryCodesInvalidOnly(outcome) ==
    IF outcome = "infrastructure_invalid" THEN {"INFRASTRUCTURE_INVALID"} ELSE {}

\* What one metric's outcome adds to failures: nothing when it is mixed.
MemoryCodes(outcome) ==
    CASE outcome = "regression" -> {"MEMORY_REGRESSION"}
      [] outcome = "infrastructure_invalid" -> {"INFRASTRUCTURE_INVALID"}
      [] OTHER -> {}

JudgeMemory ==
    /\ phase = "memory"
    /\ \E steady \in [Metrics -> BOOLEAN], exceeding \in [Metrics -> 0..Builds] :
         LET outcome == [m \in Metrics |-> MemoryGate(steady[m], exceeding[m], Builds)] IN
         /\ evidence' = evidence \cup {Item(m, m, outcome[m]) : m \in Metrics}
         /\ codes' = codes \cup UNION {MemoryCodes(outcome[m]) : m \in Metrics}
         /\ records' = records \cup
              {FailureOf("MEMORY_REGRESSION", "candidate", m) :
                 m \in {m \in Metrics : outcome[m] = "regression"}}
    /\ phase' = "measure"
    /\ StartMeasurement
    /\ UNCHANGED <<p, e, k, staging, destination, runs>>

MeasureBlocks ==
    /\ phase = "measure"
    /\ Measure
    /\ phase' = IF stage' = "counted" THEN "performance" ELSE phase
    /\ UNCHANGED <<p, e, k, codes, records, evidence, staging, destination, runs>>

\* run leaves _execute without a summary and removes the staging directory.
Abandon ==
    /\ phase' = "idle" /\ staging' = "absent"
    /\ p' = 1 /\ e' = 1 /\ k' = 1 /\ codes' = {} /\ records' = {} /\ evidence' = {}
    /\ ResetMeasurement("off")
    /\ UNCHANGED <<destination, runs>>

PerformanceCodes(outcome) ==
    CASE outcome = "regression" -> {"PERFORMANCE_REGRESSION"}
      [] outcome = "inconclusive" -> {"INCONCLUSIVE"}
      [] outcome = "infrastructure_invalid" -> {"INFRASTRUCTURE_INVALID"}
      [] OTHER -> {}

Estimates == {"passed", "regression", "inconclusive"}

\* The timing gate, its evidence file and what it adds to the failures.  A gate
\* that counted too few pairs has no estimate: its bounds are NaN, the evidence
\* file refuses them (_write_json, allow_nan=False) and run ends with that error.
JudgePerformance ==
    /\ phase = "performance"
    /\ \E estimates \in [ShapeSet -> Estimates], aggregate \in Estimates :
         LET outcome == WeightedGate(pairs, MinPairs, estimates, aggregate) IN
         IF outcome = "infrastructure_invalid" THEN Abandon
         ELSE /\ evidence' = evidence \cup {Item("performance", Aggregate, outcome)}
              /\ codes' = codes \cup PerformanceCodes(outcome)
              /\ records' = IF outcome = "regression"
                            THEN records \cup
                                 {FailureOf("PERFORMANCE_REGRESSION", "candidate", Aggregate)}
                            ELSE records
              /\ IF p < Len(Precisions)
                 THEN p' = p + 1 /\ e' = 1 /\ k' = 1 /\ phase' = "build"
                 ELSE phase' = "publish" /\ UNCHANGED <<p, e, k>>
              /\ UNCHANGED <<staging, destination, runs, mvars>>

\* The summary is written into the staging directory ...
WriteSummary ==
    /\ phase = "publish" /\ staging = "open"
    /\ staging' = "written"
    /\ UNCHANGED <<phase, p, e, k, codes, records, evidence, destination, runs, mvars>>

\* ... and the directory renamed to the destination.
Publish ==
    /\ phase = "publish" /\ staging = "written"
    /\ destination' = Summary(codes, records, evidence)
    /\ staging' = "absent" /\ phase' = "idle"
    /\ p' = 1 /\ e' = 1 /\ k' = 1 /\ codes' = {} /\ records' = {} /\ evidence' = {}
    /\ ResetMeasurement("off")
    /\ UNCHANGED runs

\* The invocation ends without a result.  An exception (a worker that timed out
\* or wrote no valid result, a missing artifact, invalid reference evidence)
\* removes the staging directory; a crash leaves it under a name nothing reads.
Interrupted ==
    /\ phase # "idle" /\ Interruptible
    /\ Abandon

Next ==
    \/ Begin
    \/ BuildConfirmations
    \/ \E kind \in BuildErrors : BuildFails(kind)
    \/ RunCorrectness
    \/ \E kind \in RunErrors : RunFails(kind)
    \/ CompareShape
    \/ JudgeMemory
    \/ MeasureBlocks
    \/ JudgePerformance
    \/ WriteSummary
    \/ Publish
    \/ Interrupted

\* What the program does of itself: the workers answer and nothing interrupts it.
Progress ==
    \/ BuildConfirmations \/ RunCorrectness \/ CompareShape \/ JudgeMemory
    \/ MeasureBlocks \/ JudgePerformance \/ WriteSummary \/ Publish

Spec == Init /\ [][Next]_vars /\ WF_vars(Progress)

----------------------------------------------------------------------------
CoreTypeOK ==
    /\ MeasurementTypeOK
    /\ phase \in Phases /\ staging \in {"absent", "open", "written"}
    /\ p \in DOMAIN Precisions /\ e \in DOMAIN Environment /\ k \in DOMAIN Shapes
    /\ codes \subseteq FailureCodes /\ records \subseteq Records
    /\ evidence \subseteq Items /\ runs \in 0..MaxRuns
    /\ destination = NoSummary \/
       /\ destination.status \in Outcomes \cup {"failed"}
       /\ destination.codes \subseteq FailureCodes
       /\ destination.records \subseteq Records /\ destination.evidence \subseteq Items

Published == destination # NoSummary

Bad == {"regression", "infrastructure_invalid"} \cup FailureCodes

\* A passing summary holds every decision the specification requires, one for
\* each shape, metric and performance gate of each precision, and none of them
\* is a regression, a failure or invalid (run publishes what _execute finished).
PassedIsComplete ==
    destination.status = "passed" =>
        /\ \A i \in destination.evidence : i.outcome \notin Bad
        /\ \A n \in DOMAIN Precisions :
             LET of(g) == {i \in destination.evidence : i.gate = g /\ i.precision = Precisions[n]} IN
             /\ {i.shape : i \in of("case")} = ShapeSet
             /\ \A g \in Metrics \cup {"performance"} : Cardinality(of(g)) = 1

\* Every code of a failed summary has a failure record, and every numerical
\* record names exactly one compared case that decided the same failure: what
\* the later reduction of that failure looks up (_numerical_material).
FailuresAreRecorded ==
    destination.status = "failed" =>
        /\ destination.codes \subseteq {r.code : r \in destination.records}
        /\ \A r \in destination.records : r.code = "NUMERICAL_REGRESSION" =>
             Cardinality({i \in destination.evidence :
                 /\ i.gate = "case" /\ i.outcome = r.code
                 /\ i.precision = r.precision /\ i.shape = r.shape}) = 1

\* _validate_core_outcome: the failures a runner may record as a decision.
DomainDecision(summary) ==
    /\ summary.status = "failed"
    /\ \A c \in summary.codes : ExitCodeForFailure(c) = "QUALIFICATION_FAILED"

\* In a summary the runner records as a decision, a candidate is blamed for its
\* outputs only where the evidence of that case says the same.
BlameFollowsTheCase ==
    DomainDecision(destination) =>
        \A r \in destination.records :
            r.env = "candidate" /\ r.shape \in ShapeSet =>
                \E i \in destination.evidence :
                    /\ i.precision = r.precision /\ i.shape = r.shape /\ i.outcome = r.code

\* A timing decision of the current precision rests on full sets of accepted
\* pairs of every shape (weighted_performance_gate, _run_performance).
DecidedFromPairs ==
    \A i \in evidence :
        i.gate = "performance" /\ i.precision = Precision
            => \A s \in ShapeSet : pairs[s] >= MinPairs

\* Every invocation ends: the idle waits and the attempts at pairs are bounded.
EveryRunEnds == phase # "idle" ~> phase = "idle"
=============================================================================
