--------------------------- MODULE DecisionRules ---------------------------
(***************************************************************************)
(* The decision rules of the qualification: the failure taxonomy and the   *)
(* verdicts drawn from it (errors.py, classify.py), the three-way          *)
(* numerical table, the determinism, memory and paired-timing gates        *)
(* (compare/), and the comparison of one case as core qualification does   *)
(* it (_compare_correctness_case).  Arrays are abstracted to what the      *)
(* rules tell apart: which gate they fail, whether they are finite, how    *)
(* far their repetitions agree.                                            *)
(***************************************************************************)
EXTENDS Naturals, Sequences, FiniteSets

NoFailure == "none"

\* FailureCode, the taxonomy of errors.py.
FailureCodes ==
    {"PREFLIGHT_UNSUPPORTED", "CORPUS_INVALID", "PLUGIN_COMPILE_FAILED",
     "ONNX_PARSE_FAILED", "ENGINE_BUILD_FAILED", "ENGINE_DESERIALIZE_FAILED",
     "PROFILE_REJECTED", "EXECUTION_FAILED", "OUTPUT_SCHEMA_CHANGED",
     "NONFINITE_OUTPUT", "NUMERICAL_REGRESSION", "NONDETERMINISM_REGRESSION",
     "PERFORMANCE_REGRESSION", "MEMORY_REGRESSION", "SANITIZER_FAILURE",
     "INFRASTRUCTURE_INVALID", "INCONCLUSIVE"}

Outcomes == {"passed", "regression", "inconclusive", "infrastructure_invalid"}

ExitCodeForFailure(code) ==
    CASE code = NoFailure -> "SUCCESS"
      [] code = "PREFLIGHT_UNSUPPORTED" -> "UNSUPPORTED"
      [] code \in {"INFRASTRUCTURE_INVALID", "INCONCLUSIVE"} -> "INFRASTRUCTURE_INVALID"
      [] code = "CORPUS_INVALID" -> "INVALID_INPUT"
      [] OTHER -> "QUALIFICATION_FAILED"

\* _status: the verdict of a summary from its set of failure codes.
Status(codes) ==
    IF "INFRASTRUCTURE_INVALID" \in codes THEN "infrastructure_invalid"
    ELSE IF "INCONCLUSIVE" \in codes THEN "inconclusive"
    ELSE IF codes # {} THEN "failed"
    ELSE "passed"

\* The errors a worker of each kind raises and types, as classify tells them apart.
BuildErrors == {"plugin load", "deserialize", "profile", "parser", "other"}
RunErrors == {"plugin load", "deserialize", "profile", "output schema", "nonfinite", "other"}

\* classify_worker_error, on the kind of message the worker raised.
WorkerErrorCode(phase, kind) ==
    IF kind = "plugin load" THEN "PLUGIN_COMPILE_FAILED"
    ELSE IF kind = "deserialize" THEN "ENGINE_DESERIALIZE_FAILED"
    ELSE IF kind = "profile" THEN "PROFILE_REJECTED"
    ELSE IF kind = "parser" /\ phase = "build" THEN "ONNX_PARSE_FAILED"
    ELSE IF phase = "build" THEN "ENGINE_BUILD_FAILED"
    ELSE IF kind = "output schema" THEN "OUTPUT_SCHEMA_CHANGED"
    ELSE IF kind = "nonfinite" THEN "NONFINITE_OUTPUT"
    ELSE "EXECUTION_FAILED"

\* _contextual_correctness_failure_code: an execution the baseline cannot
\* complete, or a device input it changed, condemns the corpus.  The worker
\* types a changed input as any "other" error of an execution; a result that
\* passed has stable inputs (WorkerCorrectnessResult.validate_status_payload),
\* so the comparison of a case finds none that changed.
ContextualCode(kind, baseline) ==
    LET code == WorkerErrorCode("correctness", kind) IN
    IF baseline /\ code \in {"EXECUTION_FAILED", "NONFINITE_OUTPUT"}
        THEN "CORPUS_INVALID" ELSE code

----------------------------------------------------------------------------
(***************************************************************************)
(* One case.  schema: the output matches the reference's shape and dtype   *)
(* ("same"), differs from it ("reshaped"), or is not called "output"       *)
(* ("renamed").  The failed gates are those of the three-way table.        *)
(***************************************************************************)
Schemas == {"same", "reshaped", "renamed"}
Stability == {"bitwise", "tolerance", "unstable"}
BaselineGate == "baseline_to_reference"
CandidateGates == {"candidate_to_reference", "candidate_to_baseline"}

CaseFacts ==
    [baselineSchema : Schemas, candidateSchema : Schemas,
     baselineStability : Stability, candidateStability : Stability,
     failedGates : SUBSET (CandidateGates \cup {BaselineGate})]

\* decide_three_way: schema of the baseline, then of the candidate, then the
\* baseline's own gate, then the two gates of the candidate.  The worker
\* refuses nonfinite outputs, so none reaches the table.
ThreeWay(f) ==
    IF f.baselineSchema # "same" THEN "CORPUS_INVALID"
    ELSE IF f.candidateSchema # "same" THEN "OUTPUT_SCHEMA_CHANGED"
    ELSE IF BaselineGate \in f.failedGates THEN "CORPUS_INVALID"
    ELSE IF f.failedGates # {} THEN "NUMERICAL_REGRESSION"
    ELSE NoFailure

\* The stability a policy accepts (summarize_determinism, require_bitwise).
StableEnough(stability, requireBitwise) ==
    \/ stability = "bitwise"
    \/ stability = "tolerance" /\ ~requireBitwise

\* The decision on the first outputs: an output without its name decides before
\* the table is looked at.
DecidedCode(f) ==
    IF f.baselineSchema = "renamed" THEN "CORPUS_INVALID"
    ELSE IF f.candidateSchema = "renamed" THEN "OUTPUT_SCHEMA_CHANGED"
    ELSE ThreeWay(f)

\* Mutant of CompareCase: the stability of the candidate is tested first.
CompareCaseUnstableFirst(f, requireBitwise) ==
    LET precedence == f.baselineSchema # "same" \/ f.candidateSchema # "same"
        decided == DecidedCode(f)
        baseline == IF \/ decided = "CORPUS_INVALID"
                       \/ ~precedence /\ ~StableEnough(f.baselineStability, requireBitwise)
                    THEN "CORPUS_INVALID" ELSE NoFailure
        candidate == IF ~precedence /\ ~StableEnough(f.candidateStability, requireBitwise)
                     THEN "NONDETERMINISM_REGRESSION"
                     ELSE IF decided \in {"NUMERICAL_REGRESSION", "OUTPUT_SCHEMA_CHANGED"} THEN decided
                     ELSE NoFailure
    IN [code |-> IF decided # NoFailure THEN decided
                 ELSE IF baseline # NoFailure THEN baseline
                 ELSE candidate,
        baseline |-> baseline,
        candidate |-> candidate]

\* _compare_correctness_case: the code of the case and the codes of the
\* failure records of the baseline's and of the candidate's typed run.
CompareCase(f, requireBitwise) ==
    LET precedence == f.baselineSchema # "same" \/ f.candidateSchema # "same"
        decided == DecidedCode(f)
        baseline == IF \/ decided = "CORPUS_INVALID"
                       \/ ~precedence /\ ~StableEnough(f.baselineStability, requireBitwise)
                    THEN "CORPUS_INVALID" ELSE NoFailure
        candidate == IF decided \in {"NUMERICAL_REGRESSION", "OUTPUT_SCHEMA_CHANGED"} THEN decided
                     ELSE IF /\ decided = NoFailure
                             /\ ~StableEnough(f.candidateStability, requireBitwise)
                     THEN "NONDETERMINISM_REGRESSION"
                     ELSE NoFailure
    IN [code |-> IF decided # NoFailure THEN decided
                 ELSE IF baseline # NoFailure THEN baseline
                 ELSE candidate,
        baseline |-> baseline,
        candidate |-> candidate]

----------------------------------------------------------------------------
\* confirmed_memory_gate: whether the baseline builds agree, and how many of
\* the candidate's confirmation builds exceed the allowance.
MemoryGate(steady, exceeding, builds) ==
    IF ~steady THEN "infrastructure_invalid"
    ELSE IF exceeding = builds THEN "regression"
    ELSE IF exceeding > 0 THEN "inconclusive"
    ELSE "passed"

\* Mutant of PairedGate: any number of pairs decides.
PairedGateAnyway(pairs, minimum, estimate) == estimate

\* paired_ratio_gate: too few pairs decide nothing; otherwise the bounds do.
PairedGate(pairs, minimum, estimate) ==
    IF pairs < minimum THEN "infrastructure_invalid" ELSE estimate

\* _overall
Overall(outcomes) ==
    IF "infrastructure_invalid" \in outcomes THEN "infrastructure_invalid"
    ELSE IF "regression" \in outcomes THEN "regression"
    ELSE IF "inconclusive" \in outcomes THEN "inconclusive"
    ELSE "passed"

\* weighted_performance_gate: an uncounted shape leaves no aggregate either.
WeightedGate(pairs, minimum, estimates, aggregate) ==
    LET shapes == {PairedGate(pairs[s], minimum, estimates[s]) : s \in DOMAIN pairs}
    IN Overall(shapes \cup {IF "infrastructure_invalid" \in shapes
                            THEN "infrastructure_invalid" ELSE aggregate})
============================================================================
