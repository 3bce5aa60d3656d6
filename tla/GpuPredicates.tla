--------------------------- MODULE GpuPredicates ---------------------------
(***************************************************************************)
(* The failure predicates a reduction executes on the GPU: what one trial  *)
(* of the seeded failures G2 and G7 (reduce/gpu.py) and of a numerical     *)
(* regression of a domain gate (reduce/domain.py) says, from what its      *)
(* worker processes left.                                                  *)
(***************************************************************************)
EXTENDS DecisionRules

TrialOutcomes == {"reproduced", "not_reproduced", "infrastructure_invalid"}

\* A worker process passed or failed, with a typed result that says the same;
\* or it could not run, or its result is missing, malformed or contradicts it.
Answers == {"passed", "failed", "invalid"}

G2Trials == [started : BOOLEAN, code : 0..2, wellFormed : BOOLEAN,
             detected : BOOLEAN, control : BOOLEAN, sameShape : BOOLEAN]

\* evaluate_g2: the seeded kernel is detected while its clean control passes.
G2Outcome(t) ==
    IF ~t.started \/ t.code = 2 \/ ~t.wellFormed THEN "infrastructure_invalid"
    ELSE IF t.code = 0 /\ t.detected /\ t.control /\ t.sameShape THEN "reproduced"
    ELSE "not_reproduced"

G7Trials == [build : Answers, control : Answers, failure : Answers, rejected : BOOLEAN]

\* evaluate_g7: the engine builds, an input within the profile runs, and the
\* candidate's input is rejected as outside it.
G7Outcome(t) ==
    IF t.build # "passed" THEN
            IF t.build = "invalid" THEN "infrastructure_invalid" ELSE "not_reproduced"
    ELSE IF t.control # "passed" THEN
            IF t.control = "invalid" THEN "infrastructure_invalid" ELSE "not_reproduced"
    ELSE IF t.failure = "invalid" THEN "infrastructure_invalid"
    ELSE IF t.failure = "failed" /\ t.rejected THEN "reproduced"
    ELSE "not_reproduced"

\* One environment of a domain trial: its build and its repetitions.
DomainRun(answer, schema, stability, requireBitwise) ==
    IF answer = "invalid" \/ (answer = "passed" /\ schema = "renamed") THEN "infrastructure_invalid"
    ELSE IF answer = "failed" \/ ~StableEnough(stability, requireBitwise) THEN "not_reproduced"
    ELSE "compared"

\* DomainNumericalGpuPredicate.evaluate: the environments in their order, then
\* the three-way table on the new outputs.
DomainOutcome(f, answers, requireBitwise) ==
    LET baseline == DomainRun(answers.baseline, f.baselineSchema,
                              f.baselineStability, requireBitwise)
        candidate == DomainRun(answers.candidate, f.candidateSchema,
                               f.candidateStability, requireBitwise)
    IN IF baseline # "compared" THEN baseline
       ELSE IF candidate # "compared" THEN candidate
       ELSE IF ThreeWay(f) = "NUMERICAL_REGRESSION" THEN "reproduced"
       ELSE "not_reproduced"
============================================================================
