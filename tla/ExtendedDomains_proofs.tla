----------------------- MODULE ExtendedDomains_proofs -----------------------
(***************************************************************************)
(* The extended domain gates, for any precisions, cases, repetitions and   *)
(* outputs: their verdict agrees with core qualification, a regression is  *)
(* only recorded against a valid baseline, and a recorded failure rests on *)
(* retained evidence.                                                      *)
(***************************************************************************)
EXTENDS ExtendedDomains, Integers, FiniteSetTheorems, TLAPS

-----------------------------------------------------------------------------
(* The code of a case whose outputs decide nothing: its stability.           *)
StabilityCode(f, requireBitwise) ==
    IF ~StableEnough(f.baselineStability, requireBitwise) THEN "CORPUS_INVALID"
    ELSE IF ~StableEnough(f.candidateStability, requireBitwise) THEN "NONDETERMINISM_REGRESSION"
    ELSE NoFailure

(* _compare_correctness_case, as far as the code of the case goes. *)
LEMMA CompareCode ==
    ASSUME NEW f, NEW requireBitwise
    PROVE  CompareCase(f, requireBitwise).code =
              IF DecidedCode(f) # NoFailure THEN DecidedCode(f)
              ELSE IF f.baselineSchema # "same" \/ f.candidateSchema # "same"
              THEN (IF ~StableEnough(f.candidateStability, requireBitwise)
                    THEN "NONDETERMINISM_REGRESSION" ELSE NoFailure)
              ELSE StabilityCode(f, requireBitwise)
<1> DEFINE b == StableEnough(f.baselineStability, requireBitwise)
           c == StableEnough(f.candidateStability, requireBitwise)
           drift == f.baselineSchema # "same" \/ f.candidateSchema # "same"
           decided == DecidedCode(f)
           baseline == IF decided = "CORPUS_INVALID" \/ (~drift /\ ~b)
                       THEN "CORPUS_INVALID" ELSE NoFailure
           candidate == IF decided \in {"NUMERICAL_REGRESSION", "OUTPUT_SCHEMA_CHANGED"} THEN decided
                        ELSE IF decided = NoFailure /\ ~c THEN "NONDETERMINISM_REGRESSION"
                        ELSE NoFailure
           code == IF decided # NoFailure THEN decided
                   ELSE IF baseline # NoFailure THEN baseline
                   ELSE candidate
<1>1. CompareCase(f, requireBitwise).code = code
  BY DEF CompareCase, StableEnough
<1> HIDE DEF b, c, drift, decided
<1>2. code = IF decided # NoFailure THEN decided
             ELSE IF drift THEN (IF ~c THEN "NONDETERMINISM_REGRESSION" ELSE NoFailure)
             ELSE IF ~b THEN "CORPUS_INVALID"
             ELSE IF ~c THEN "NONDETERMINISM_REGRESSION"
             ELSE NoFailure
  BY DEF NoFailure
<1> QED
  BY <1>1, <1>2 DEF StabilityCode, b, c, drift, decided

(* The facts of one case as core qualification sees them, repeated.          *)
Repeated(f) ==
    [baselineSchema |-> f.baselineSchema, candidateSchema |-> f.candidateSchema,
     baselineStability |-> f.baselineStability, candidateStability |-> f.candidateStability,
     failedGates |-> [r \in 1..Repetitions |-> f.failedGates]]

(* When all repetitions of a case fail the same gates, the validators of     *)
(* both extended domains decide it as _compare_correctness_case does -- but  *)
(* where the baseline's output is reshaped and the candidate's is renamed:   *)
(* there core qualification blames the candidate, they blame the corpus.     *)
THEOREM AgreesWithCore ==
    ASSUME NEW f \in CaseFacts,
           ~(f.baselineSchema = "reshaped" /\ f.candidateSchema = "renamed")
    PROVE  CaseCode(Repeated(f)) = CompareCase(f, RequireBitwise).code
<1> DEFINE v == Repeated(f)
           same == [baselineSchema |-> "same", candidateSchema |-> "same",
                    baselineStability |-> f.baselineStability,
                    candidateStability |-> f.candidateStability,
                    failedGates |-> f.failedGates]
<1>1. \A r \in 1..Repetitions : Decision(v, r) = ThreeWay(same)
  BY DEF Decision, Repeated
<1>2. {[q \in 1..Repetitions |-> Decision(v, q)][r] : r \in 1..Repetitions} = {ThreeWay(same)}
  <2>1. 1 \in 1..Repetitions
    BY ExtendedAssumption
  <2> QED
    BY <1>1, <2>1
<1>3. Decided([r \in 1..Repetitions |-> Decision(v, r)]) = ThreeWay(same)
  <2>1. ThreeWay(same) \in {"CORPUS_INVALID", "NUMERICAL_REGRESSION", NoFailure}
    BY DEF ThreeWay
  <2> QED
    BY <1>2, <2>1 DEF Decided, NoFailure
<1>4. /\ v.baselineSchema = f.baselineSchema /\ v.candidateSchema = f.candidateSchema
      /\ v.baselineStability = f.baselineStability
      /\ v.candidateStability = f.candidateStability
  BY DEF Repeated
<1>5. /\ f.baselineSchema \in {"same", "reshaped", "renamed"}
      /\ f.candidateSchema \in {"same", "reshaped", "renamed"}
  BY DEF CaseFacts, Schemas
<1>6. CASE f.baselineSchema # "same" \/ f.candidateSchema # "same"
  <2>1. CaseCode(v) = IF f.baselineSchema # "same" THEN "CORPUS_INVALID" ELSE "OUTPUT_SCHEMA_CHANGED"
    <3> HIDE DEF v
    <3> QED
      BY <1>4, <1>6 DEF CaseCode, Drifted, DriftCode
  <2>2. DecidedCode(f) = IF f.baselineSchema # "same" THEN "CORPUS_INVALID" ELSE "OUTPUT_SCHEMA_CHANGED"
    BY <1>5, <1>6 DEF DecidedCode, ThreeWay
  <2> QED
    BY <2>1, <2>2, CompareCode DEF NoFailure
<1>7. CASE f.baselineSchema = "same" /\ f.candidateSchema = "same"
  <2>1. DecidedCode(f) = ThreeWay(same)
    BY <1>7 DEF DecidedCode, ThreeWay
  <2>2. CaseCode(v) = IF ThreeWay(same) # NoFailure THEN ThreeWay(same)
                      ELSE StabilityCode(f, RequireBitwise)
    <3> HIDE DEF v, same
    <3> QED
      BY <1>3, <1>4, <1>7 DEF CaseCode, Drifted, Verdict, StabilityCode, NoFailure
  <2> QED
    BY <1>7, <2>1, <2>2, CompareCode
<1> QED
  BY <1>6, <1>7

-----------------------------------------------------------------------------
(* Until the validator ends there is no verdict and no outcome; an outcome   *)
(* ends the gate.                                                            *)
Phases ==
    /\ pc \in {"workers", "validate", "compare"} => validation = NoValidation
    /\ pc \in {"inspect", "workers", "validate", "compare", "idle"} => marker = "none"
    /\ pc \in {"inspect", "workers", "validate", "compare", "idle", "ended"}

(* The gate is validated after the workers and recorded after that. *)
LEMMA PhasesInvariant == Spec => []Phases
<1>1. Init => Phases
  BY DEF Init, Phases
<1>2. Phases /\ [Next]_vars => Phases'
  <2> SUFFICES ASSUME Phases, [Next]_vars PROVE Phases'
    OBVIOUS
  <2>1. CASE Start
    BY <2>1 DEF Start, Phases
  <2>2. ASSUME NEW answer, RunWorker(answer) PROVE Phases'
    BY <2>2 DEF RunWorker, Proceed, Phases
  <2>3. CASE WorkerKilled
    BY <2>3 DEF WorkerKilled, Proceed, Phases
  <2>4. CASE PreparationFails
    BY <2>4 DEF PreparationFails, Phases
  <2>5. CASE NothingRetained
    BY <2>5 DEF NothingRetained, Phases
  <2>6. CASE PromoteWorkerFailure
    BY <2>6 DEF PromoteWorkerFailure, WriteResult, Phases
  <2>7. CASE WorkerFailureRaises
    BY <2>7 DEF WorkerFailureRaises, Raises, Phases
  <2>8. ASSUME NEW v, Judge(v) PROVE Phases'
    <3>1. CASE JudgeDrift(v, PairAt(n))
      BY <2>8, <3>1 DEF Judge, JudgeDrift, WriteResult, Phases
    <3>2. CASE JudgeOutputs(v, PairAt(n))
      BY <2>8, <3>2 DEF Judge, JudgeOutputs, WriteResult, Phases
    <3> QED
      BY <2>8, <3>1, <3>2 DEF Judge
  <2>9. ASSUME NEW v, EvidenceMissing(v) PROVE Phases'
    BY <2>9 DEF EvidenceMissing, Raises, Phases
  <2>10. CASE Inspect
    BY <2>10 DEF Inspect, Phases
  <2>11. CASE Crash
    BY <2>11 DEF Crash, Phases
  <2>12. CASE UNCHANGED vars
    BY <2>12 DEF vars, Phases
  <2> QED
    BY <2>1, <2>2, <2>3, <2>4, <2>5, <2>6, <2>7, <2>8, <2>9, <2>10, <2>11, <2>12 DEF Next
<1> QED
  BY <1>1, <1>2, PTL DEF Spec

-----------------------------------------------------------------------------
(* The outputs a regression may be blamed on the candidate for.              *)
BaselineValid(v) ==
    /\ v.baselineSchema = "same"
    /\ \A r \in 1..Repetitions : BaselineGate \notin v.failedGates[r]

(* No worker types a regression, and the verdict on one is that of the case  *)
(* looked at last.                                                           *)
RegressionInv ==
    /\ \A job \in DOMAIN results : results[job] # "NUMERICAL_REGRESSION"
    /\ validation.failure.code = "NUMERICAL_REGRESSION" => BaselineValid(view)

(* classify_worker_error has no numerical code to give. *)
LEMMA AnswersAreTyped ==
    ASSUME NEW job, NEW answer \in Answers(job)
    PROVE  answer # "NUMERICAL_REGRESSION"
BY DEF Answers, WorkerErrorCode, NoFailure

(* A regression verdict excludes a failing baseline in every repetition. *)
LEMMA RegressionVerdict ==
    ASSUME NEW v, Drifted(v) = "none", Verdict(v).code = "NUMERICAL_REGRESSION"
    PROVE  BaselineValid(v)
<1> DEFINE codes == [r \in 1..Repetitions |-> Decision(v, r)]
<1>1. Decided(codes) = "NUMERICAL_REGRESSION"
  <2> HIDE DEF codes
  <2>1. Verdict(v).code \in {Decided(codes), "CORPUS_INVALID", "NONDETERMINISM_REGRESSION", NoFailure}
    BY DEF Verdict, codes, StableEnough
  <2> QED
    BY <2>1 DEF NoFailure
<1>2. \A r \in 1..Repetitions : codes[r] # "CORPUS_INVALID"
  <2> HIDE DEF codes
  <2>1. DOMAIN codes = 1..Repetitions
    BY DEF codes
  <2> QED
    BY <1>1, <2>1 DEF Decided
<1>3. \A r \in 1..Repetitions : Decision(v, r) # "CORPUS_INVALID"
  BY <1>2
<1>4. \A r \in 1..Repetitions : BaselineGate \notin v.failedGates[r]
  BY <1>3 DEF Decision, ThreeWay
<1>5. v.baselineSchema = "same"
  BY DEF Drifted
<1> QED
  BY <1>4, <1>5 DEF BaselineValid

(* No step decides a regression on a baseline that is itself invalid. *)
LEMMA RegressionInvariant == Spec => []RegressionInv
<1>1. Init => RegressionInv
  BY DEF Init, RegressionInv, NoValidation, NoRecord, FailureOf, NoFailure
<1>2. Phases /\ RegressionInv /\ [Next]_vars => RegressionInv'
  <2> SUFFICES ASSUME Phases, RegressionInv, [Next]_vars PROVE RegressionInv'
    OBVIOUS
  <2>0. NoValidation.failure.code # "NUMERICAL_REGRESSION" /\ NoRecord.code # "NUMERICAL_REGRESSION"
    BY DEF NoValidation, NoRecord, FailureOf, NoFailure
  <2>a. ASSUME pc \in {"workers", "validate", "compare"}
        PROVE  validation.failure.code # "NUMERICAL_REGRESSION"
    BY <2>0, <2>a DEF Phases
  <2>1. CASE Start
    BY <2>0, <2>1 DEF Start, RegressionInv
  <2>2. ASSUME NEW answer, RunWorker(answer) PROVE RegressionInv'
    BY <2>2, <2>a, AnswersAreTyped DEF RunWorker, Proceed, Retain, RegressionInv
  <2>3. CASE WorkerKilled
    BY <2>3, <2>a, AnswersAreTyped DEF WorkerKilled, Proceed, Retain, RegressionInv
  <2>4. CASE PreparationFails
    BY <2>4 DEF PreparationFails, RegressionInv
  <2>5. CASE NothingRetained
    BY <2>5 DEF NothingRetained, RegressionInv
  <2>6. CASE PromoteWorkerFailure
    <3>1. PICK job \in Failed :
             validation'.failure = FailureOf(results[job], job.stack,
                                       IF job.what = Build THEN "build" ELSE "correctness",
                                       PairOf(job))
      BY <2>6 DEF PromoteWorkerFailure, WriteResult
    <3>2. validation'.failure.code # "NUMERICAL_REGRESSION"
      BY <3>1 DEF Failed, FailureOf, RegressionInv
    <3> QED
      BY <2>6, <3>2 DEF PromoteWorkerFailure, WriteResult, RegressionInv
  <2>7. CASE WorkerFailureRaises
    BY <2>7 DEF WorkerFailureRaises, Raises, RegressionInv
  <2>8. ASSUME NEW v, Judge(v) PROVE RegressionInv'
    <3>1. view' = v /\ results' = results /\ pc = "compare"
      BY <2>8 DEF Judge, JudgeDrift, JudgeOutputs, WriteResult
    <3>2. CASE JudgeDrift(v, PairAt(n))
      <4>1. validation'.failure.code = DriftCode(Drifted(v))
        BY <3>2 DEF JudgeDrift, WriteResult, FailureOf
      <4> QED
        BY <3>1, <4>1 DEF DriftCode, RegressionInv
    <3>3. CASE JudgeOutputs(v, PairAt(n))
      <4>1. Drifted(v) = "none"
        BY <3>3 DEF JudgeOutputs
      <4>2. \/ validation'.failure.code = Verdict(v).code
            \/ validation'.failure = NoRecord
            \/ validation' = validation
        BY <3>3 DEF JudgeOutputs, WriteResult, FailureOf
      <4>3. ASSUME validation'.failure.code = "NUMERICAL_REGRESSION"
            PROVE  BaselineValid(v)
        BY <2>0, <2>a, <3>1, <4>1, <4>2, <4>3, RegressionVerdict
      <4> QED
        BY <3>1, <4>3 DEF RegressionInv
    <3> QED
      BY <2>8, <3>2, <3>3 DEF Judge
  <2>9. ASSUME NEW v, EvidenceMissing(v) PROVE RegressionInv'
    BY <2>9 DEF EvidenceMissing, Raises, RegressionInv
  <2>10. CASE Inspect
    BY <2>10 DEF Inspect, RegressionInv
  <2>11. CASE Crash
    BY <2>11 DEF Crash, RegressionInv
  <2>12. CASE UNCHANGED vars
    BY <2>12 DEF vars, RegressionInv
  <2> QED
    BY <2>1, <2>2, <2>3, <2>4, <2>5, <2>6, <2>7, <2>8, <2>9, <2>10, <2>11, <2>12 DEF Next
<1> QED
  BY <1>1, <1>2, PhasesInvariant, PTL DEF Spec

(* A numerical regression is only recorded of a case whose baseline kept the *)
(* contract, and passed its own gate in every repetition.                    *)
THEOREM RegressionBlamesValidly == Spec => []RegressionOnValidBaseline
<1>1. RegressionInv => RegressionOnValidBaseline
  BY DEF RegressionInv, BaselineValid, RegressionOnValidBaseline
<1> QED
  BY <1>1, RegressionInvariant, PTL

-----------------------------------------------------------------------------
(* Division with remainder, for the positions of the loops. *)
LEMMA Division ==
    ASSUME NEW c \in Nat \ {0}, NEW q \in Nat, NEW r \in 0..(c - 1)
    PROVE  (q * c + r) \div c = q /\ (q * c + r) % c = r
OBVIOUS

(* A position in a row of a table is a position in the table. *)
LEMMA Product ==
    ASSUME NEW q \in Nat, NEW d \in Nat, NEW c \in Nat \ {0}, NEW r \in 0..(c - 1), q < d
    PROVE  q * c + r < d * c
OBVIOUS

(* A position in a table has its row and its column. *)
LEMMA Bound ==
    ASSUME NEW a \in Nat, NEW c \in Nat \ {0}, NEW d \in Nat, a < d * c
    PROVE  a \div c \in 0..(d - 1) /\ a % c \in 0..(c - 1)
OBVIOUS

(* A position is its row and its column. *)
LEMMA Remainder ==
    ASSUME NEW a \in Nat, NEW c \in Nat \ {0}
    PROVE  /\ a \div c \in Nat /\ a % c \in 0..(c - 1)
           /\ a = (a \div c) * c + (a % c)
<1>1. a \div c \in Nat /\ a % c \in 0..(c - 1)
  OBVIOUS
<1>2. ASSUME NEW q \in Nat, q = a \div c, NEW r \in Nat, r = a % c
      PROVE  a = q * c + r
  BY <1>2
<1> QED
  BY <1>1, <1>2

(* Rows of rows. *)
LEMMA Rows ==
    ASSUME NEW w \in Nat \ {0}, NEW d \in Nat \ {0}, NEW q \in Nat, NEW r \in 0..(w - 1)
    PROVE  (q * w + r) \div (d * w) = q \div d
<1> DEFINE s == q \div d
           t == q % d
<1>1. s \in Nat /\ t \in 0..(d - 1) /\ q = s * d + t
  BY Remainder
<1> HIDE DEF s, t
<1>2. t * w + r < d * w
  BY <1>1, Product
<1>3. d * w \in Nat \ {0} /\ t * w \in Nat
  BY <1>1
<1>4. t * w + r \in 0..(d * w - 1)
  BY <1>2, <1>3
<1>5. q * w + r = s * (d * w) + (t * w + r)
  BY <1>1
<1>6. (s * (d * w) + (t * w + r)) \div (d * w) = s
  BY <1>1, <1>3, <1>4, Division
<1> QED
  BY <1>5, <1>6 DEF s

(* The loops and the corpus have at least one turn. *)
LEMMA Sizes ==
    /\ Len(Precisions) \in Nat \ {0} /\ Len(Cases) \in Nat \ {0}
    /\ Width \in Nat \ {0} /\ Pairs \in Nat \ {0}
    /\ Len(Precisions) * Width \in Nat \ {0}
    /\ Jobs = 2 * (Len(Precisions) * Width)
<1>1. Len(Precisions) \in Nat \ {0} /\ Len(Cases) \in Nat \ {0}
  BY ExtendedAssumption
<1>2. Width \in Nat \ {0}
  BY <1>1 DEF Width
<1>3. Pairs \in Nat \ {0} /\ Len(Precisions) * Width \in Nat \ {0}
  BY <1>1, <1>2 DEF Pairs
<1>4. Jobs = 2 * (Len(Precisions) * Width)
  BY <1>1, <1>2 DEF Jobs, Stack
<1> QED
  BY <1>1, <1>2, <1>3, <1>4

(* The validator comes to every case of every precision. *)
LEMMA PairIndex ==
    ASSUME NEW x \in 1..Len(Precisions), NEW y \in 1..Len(Cases)
    PROVE  \E i \in 1..Pairs : PairAt(i) = [precision |-> Precisions[x], name |-> Cases[y]]
<1> DEFINE i == (x - 1) * Len(Cases) + y
<1>1. Len(Cases) \in Nat \ {0} /\ x - 1 \in Nat /\ y - 1 \in 0..(Len(Cases) - 1) /\ x - 1 < Len(Precisions)
      /\ Len(Precisions) \in Nat
  BY Sizes
<1>2. /\ ((x - 1) * Len(Cases) + (y - 1)) \div Len(Cases) = x - 1
      /\ ((x - 1) * Len(Cases) + (y - 1)) % Len(Cases) = y - 1
  BY <1>1, Division
<1>2a. (x - 1) * Len(Cases) \in Nat
  BY <1>1
<1>3. i - 1 = (x - 1) * Len(Cases) + (y - 1)
  BY <1>2a
<1>4. i \in 1..Pairs
  <2>1. (x - 1) * Len(Cases) + (y - 1) < Len(Precisions) * Len(Cases)
    BY <1>1, Product
  <2>2. Len(Precisions) * Len(Cases) \in Nat
    BY <1>1
  <2> HIDE DEF i
  <2>3. i = (x - 1) * Len(Cases) + y
    BY DEF i
  <2> QED
    BY <2>1, <2>2, <2>3, <1>2a DEF Pairs
<1>5. PairAt(i) = [precision |-> Precisions[x], name |-> Cases[y]]
  BY <1>2, <1>3 DEF PairAt
<1> QED
  BY <1>4, <1>5

(* Every turn of the loops is a build or a case of the suite. *)
LEMMA JobIndex ==
    ASSUME NEW i \in 1..Jobs
    PROVE  \E s \in 1..2, x \in 1..Len(Precisions), y \in 1..Len(Cases) :
             JobAt(i) = Job(Stack[s], Precisions[x], Build) \/ JobAt(i) = Job(Stack[s], Precisions[x], Cases[y])
<1> DEFINE P == Len(Precisions)
           s == ((i - 1) \div (P * Width)) + 1
           x == (((i - 1) \div Width) % P) + 1
           y == (i - 1) % Width
<1>1. JobAt(i) = Job(Stack[s], Precisions[x], IF y = 0 THEN Build ELSE Cases[y])
  BY Zenon DEF JobAt
<1>2. i - 1 \in Nat /\ i - 1 < 2 * (P * Width)
  BY Sizes
<1>3. s \in 1..2
  <2>1. 2 \in Nat
    OBVIOUS
  <2>2. (i - 1) \div (P * Width) \in 0..(2 - 1)
    BY <1>2, <2>1, Sizes, Bound, Zenon
  <2> HIDE DEF P
  <2> QED
    BY <2>2
<1>4. (i - 1) \div Width \in Nat /\ y \in 0..(Width - 1)
  BY <1>2, Sizes
<1>5. x \in 1..P
  <2>1. ((i - 1) \div Width) % P \in 0..(P - 1)
    BY <1>4, Sizes
  <2> QED
    BY <2>1
<1>6. y = 0 \/ y \in 1..Len(Cases)
  BY <1>4, Sizes DEF Width
<1>7. 1 \in 1..Len(Cases)
  BY Sizes
<1> HIDE DEF s, x, y, P
<1>8. x \in 1..Len(Precisions)
  BY <1>5 DEF P
<1> QED
  BY <1>1, <1>3, <1>6, <1>7, <1>8

-----------------------------------------------------------------------------
(* While the validator compares, no result failed, and the evidence holds    *)
(* the pairs before this one, each passed, with both of its chains.          *)
BothStacks == {"baseline", "candidate"}

Compared(evidence, i) ==
    /\ evidence[i] = ItemOf(PairAt(i), NoFailure, BothStacks)
    /\ \A stack \in BothStacks : Promotable(RunOf(stack, PairAt(i)))

Evidence ==
    /\ pc \in {"workers", "validate"} => cases = <<>>
    /\ pc = "compare" =>
         /\ Failed = {} /\ n \in 1..Pairs
         /\ cases \in Seq({ItemOf(PairAt(i), NoFailure, BothStacks) : i \in 1..Pairs})
         /\ Len(cases) = n - 1
         /\ \A i \in 1..(n - 1) : Compared(cases, i)

(* A verdict that passes holds all pairs.                                    *)
PassedInv ==
    validation.status = "passed" =>
        /\ Failed = {}
        /\ DOMAIN validation.cases = 1..Pairs
        /\ \A i \in 1..Pairs : Compared(validation.cases, i)

(* A verdict that fails outside the build phase has its run, and each of its *)
(* chains a passing build below a run that failed with its code or passed.   *)
ChainHolds(failure, pair) ==
    LET build == Job(failure.stack, pair.precision, Build)
        run == RunOf(failure.stack, pair)
    IN /\ {build, run} \subseteq DOMAIN results
       /\ results[build] = NoFailure /\ results[run] \in {failure.code, NoFailure}

FailedInv ==
    validation.failure.code # NoFailure /\ validation.failure.phase # "build" =>
        /\ RunOf(validation.failure.stack, validation.failure.pair) \in DOMAIN results
        /\ \A i \in Chains(validation) : ChainHolds(validation.failure, validation.cases[i].pair)

(* What is recorded is what the validator wrote.                             *)
MarkerInv ==
    /\ marker = "passed" => validation.status = "passed"
    /\ marker = "failed" => validation.failure.code # NoFailure

(* A retained result is that of a build or of a case. *)
JobsInv == \A job \in DOMAIN results : job = Job(job.stack, job.precision, job.what)

EvidenceInv == Evidence /\ PassedInv /\ FailedInv /\ MarkerInv /\ JobsInv

(* Without a verdict there is nothing to show of it. *)
LEMMA NoVerdict ==
    ASSUME validation' = NoValidation
    PROVE  PassedInv' /\ FailedInv'
BY DEF PassedInv, FailedInv, NoValidation, NoRecord, FailureOf

(* Nor of one that stays, with the results it rests on. *)
LEMMA VerdictKept ==
    ASSUME EvidenceInv, UNCHANGED <<results, validation>>
    PROVE  PassedInv' /\ FailedInv' /\ JobsInv'
<1>1. PassedInv'
  BY DEF EvidenceInv, PassedInv, Failed, Compared, Promotable, RunOf, Job, PairAt, ItemOf, Pairs
<1>2. FailedInv'
  BY DEF EvidenceInv, FailedInv, ChainHolds, Chains, RunOf, Job
<1>3. JobsInv'
  BY DEF EvidenceInv, JobsInv, Job
<1> QED
  BY <1>1, <1>2, <1>3

(* The status of a verdict says whether there is a failure. *)
LEMMA StatusOfFailure ==
    ASSUME NEW code
    PROVE  Status({code} \ {NoFailure}) = "passed" <=> code = NoFailure
BY DEF Status, NoFailure

(* What is concluded rests on the results that are kept. *)
LEMMA EvidenceInvariant == Spec => []EvidenceInv
<1>1. Init => EvidenceInv
  BY DEF Init, EvidenceInv, Evidence, PassedInv, FailedInv, MarkerInv, JobsInv, NoValidation,
         NoRecord, FailureOf
<1>2. Phases /\ EvidenceInv /\ [Next]_vars => EvidenceInv'
  <2> SUFFICES ASSUME Phases, EvidenceInv, [Next]_vars PROVE EvidenceInv'
    OBVIOUS
  <2>1. CASE Start
    <3>1. PassedInv' /\ FailedInv'
      BY <2>1, NoVerdict DEF Start
    <3>2. Evidence' /\ MarkerInv' /\ JobsInv'
      BY <2>1 DEF Start, Evidence, MarkerInv, JobsInv
    <3> QED
      BY <3>1, <3>2 DEF EvidenceInv
  <2>2. ASSUME NEW job, NEW answer,
               pc = "workers", job = Job(job.stack, job.precision, job.what),
               results' = Retain(job, answer) \/ results' = results,
               NEW next, Proceed(next)
        PROVE  EvidenceInv'
    <3>1. validation' = NoValidation /\ marker' = "none" /\ cases' = <<>>
          /\ pc' \in {"workers", "validate"}
      BY <2>2 DEF Proceed, Phases, EvidenceInv, Evidence
    <3>2. PassedInv' /\ FailedInv'
      BY <3>1, NoVerdict
    <3>3. JobsInv'
      BY <2>2 DEF Retain, JobsInv, EvidenceInv, Job
    <3>4. Evidence' /\ MarkerInv'
      BY <3>1 DEF Evidence, MarkerInv
    <3> QED
      BY <3>2, <3>3, <3>4 DEF EvidenceInv
  <2>3. JobAt(n) = Job(JobAt(n).stack, JobAt(n).precision, JobAt(n).what)
    BY DEF JobAt, Job
  <2>4. ASSUME NEW answer, RunWorker(answer) PROVE EvidenceInv'
    BY <2>2, <2>3, <2>4 DEF RunWorker
  <2>5. CASE WorkerKilled
    BY <2>2, <2>3, <2>5 DEF WorkerKilled
  <2>6. CASE PreparationFails
    <3>1. Evidence' /\ MarkerInv'
      BY <2>6 DEF PreparationFails, Evidence, EvidenceInv, MarkerInv
    <3> QED
      BY <2>6, <3>1, VerdictKept DEF PreparationFails, EvidenceInv
  <2>7. CASE NothingRetained
    <3>1. MarkerInv'
      BY <2>7 DEF NothingRetained, EvidenceInv, MarkerInv
    <3>2. Failed' = {} /\ n' = 1 /\ cases' = <<>> /\ pc' = "compare"
      BY <2>7 DEF NothingRetained, Failed, EvidenceInv, Evidence
    <3>3. Evidence'
      BY <3>2, Sizes DEF Evidence
    <3> QED
      BY <2>7, <3>1, <3>3, VerdictKept DEF NothingRetained, EvidenceInv
  <2>8. CASE PromoteWorkerFailure
    <3>1. PICK job \in Failed :
             /\ job.what = Build \/ Promotable(job)
             /\ WriteResult(<<ItemOf(PairOf(job), results[job], {job.stack})>>,
                            FailureOf(results[job], job.stack,
                                      IF job.what = Build THEN "build" ELSE "correctness",
                                      PairOf(job)))
      BY <2>8 DEF PromoteWorkerFailure
    <3>2. results[job] # NoFailure /\ job \in DOMAIN results
          /\ job = Job(job.stack, job.precision, job.what)
      BY DEF Failed, EvidenceInv, JobsInv
    <3>3. PassedInv'
      BY <3>1, <3>2, StatusOfFailure DEF WriteResult, PassedInv, FailureOf
    <3>4. FailedInv'
      <4> SUFFICES ASSUME validation'.failure.phase # "build"
                   PROVE  /\ RunOf(job.stack, PairOf(job)) \in DOMAIN results
                          /\ \A i \in 1..1 : ChainHolds(FailureOf(results[job], job.stack,
                                                                   "correctness", PairOf(job)),
                                                        PairOf(job))
        BY <3>1 DEF FailedInv, WriteResult, FailureOf, Chains, ItemOf, ChainHolds, RunOf, Job
      <4>1. job.what # Build /\ Promotable(job)
        BY <3>1 DEF WriteResult, FailureOf
      <4>2. RunOf(job.stack, PairOf(job)) = job
        BY <3>2, <4>1 DEF RunOf, PairOf, Job
      <4>3. Job(job.stack, PairOf(job).precision, Build) = Job(job.stack, job.precision, Build)
        BY DEF PairOf
      <4> QED
        BY <3>2, <4>1, <4>2, <4>3 DEF ChainHolds, FailureOf, Promotable
    <3>5. Evidence' /\ MarkerInv' /\ JobsInv'
      BY <2>8, <3>1 DEF PromoteWorkerFailure, WriteResult, Evidence, MarkerInv, JobsInv, EvidenceInv,
                        Phases
    <3> QED
      BY <3>3, <3>4, <3>5 DEF EvidenceInv
  <2>9. CASE WorkerFailureRaises
    <3>1. Evidence' /\ MarkerInv'
      BY <2>9 DEF WorkerFailureRaises, Raises, Evidence, EvidenceInv, MarkerInv
    <3> QED
      BY <2>9, <3>1, VerdictKept DEF WorkerFailureRaises, Raises, EvidenceInv
  <2>10. ASSUME NEW v, Judge(v) PROVE EvidenceInv'
    <3> DEFINE pair == PairAt(n)
    <3>0. /\ pc = "compare" /\ results' = results /\ marker' = "none" /\ n \in 1..Pairs
          /\ Failed = {} /\ validation = NoValidation
      BY <2>10 DEF Judge, JudgeDrift, JudgeOutputs, WriteResult, Phases, EvidenceInv, Evidence
    <3>1. MarkerInv' /\ JobsInv'
      BY <3>0 DEF MarkerInv, JobsInv, EvidenceInv, Job
    <3>2. \A job \in DOMAIN results : results[job] = NoFailure
      BY <3>0 DEF Failed
    <3>3. cases \in Seq({ItemOf(PairAt(i), NoFailure, BothStacks) : i \in 1..Pairs})
          /\ Len(cases) = n - 1 /\ \A i \in 1..(n - 1) : Compared(cases, i)
      BY <3>0 DEF EvidenceInv, Evidence
    <3>4. CASE JudgeDrift(v, pair)
      <4> DEFINE stack == Drifted(v)
                 chains == IF SchemaOf(v, stack) = "inventory" THEN {} ELSE {stack}
                 item == ItemOf(pair, DriftCode(stack), chains)
                 failure == FailureOf(DriftCode(stack), stack, "correctness", pair)
      <4>1. /\ Readable(v, pair) /\ stack # "none" /\ DriftCode(stack) # NoFailure
            /\ WriteResult(Append(cases, item), failure)
        BY <3>4 DEF JudgeDrift, DriftCode, NoFailure
      <4>2. PassedInv'
        BY <4>1, StatusOfFailure DEF WriteResult, PassedInv, FailureOf
      <4>3. /\ RunOf(stack, pair) \in DOMAIN results /\ stack \in BothStacks
            /\ (stack \in chains => Promotable(RunOf(stack, pair)))
        BY <4>1 DEF Readable, Drifted, BothStacks
      <4>4. /\ validation'.failure = failure /\ validation'.cases = Append(cases, item)
            /\ failure.stack = stack /\ failure.pair = pair
            /\ item.pair = pair /\ item.chains = chains
        BY <4>1 DEF WriteResult, FailureOf, ItemOf
      <4>5. ASSUME NEW q, Promotable(RunOf(stack, q)) PROVE ChainHolds(failure, q)
        BY <3>2, <4>5 DEF ChainHolds, Promotable, FailureOf, RunOf, Job
      <4> HIDE DEF item, chains, stack, failure
      <4>6. ASSUME NEW i \in 1..n, stack \in Append(cases, item)[i].chains
            PROVE  ChainHolds(failure, Append(cases, item)[i].pair)
        <5>1. CASE i = n
          <6>1. Append(cases, item)[i] = item
            BY <3>0, <3>3, <5>1
          <6> QED
            BY <4>3, <4>4, <4>5, <4>6, <6>1
        <5>2. CASE i \in 1..(n - 1)
          <6>1. Append(cases, item)[i] = cases[i] /\ Compared(cases, i)
            BY <3>0, <3>3, <5>2
          <6>2. cases[i].pair = PairAt(i) /\ Promotable(RunOf(stack, PairAt(i)))
            BY <4>3, <6>1 DEF Compared, ItemOf
          <6> QED
            BY <4>5, <6>1, <6>2
        <5>3. i = n \/ i \in 1..(n - 1)
          BY <3>0, Sizes
        <5> QED
          BY <5>1, <5>2, <5>3
      <4>7. DOMAIN Append(cases, item) = 1..n
        BY <3>0, <3>3
      <4>8. FailedInv'
        <5>1. Chains(validation)' = {i \in 1..n : stack \in Append(cases, item)[i].chains}
          BY <4>4, <4>7 DEF Chains
        <5>2. \A q : ChainHolds(failure, q) => ChainHolds(validation.failure, q)'
          BY <3>0, <4>4 DEF ChainHolds, RunOf, Job
        <5>3. RunOf(validation.failure.stack, validation.failure.pair)' \in DOMAIN results'
          BY <3>0, <4>3, <4>4 DEF RunOf, Job
        <5> QED
          BY <4>4, <4>6, <5>1, <5>2, <5>3 DEF FailedInv
      <4>9. Evidence'
        BY <4>1 DEF WriteResult, Evidence
      <4> QED
        BY <3>1, <4>2, <4>8, <4>9 DEF EvidenceInv
    <3>5. CASE JudgeOutputs(v, pair)
      <4> DEFINE verdict == Verdict(v)
                 item == ItemOf(pair, verdict.code, BothStacks)
                 evidence == Append(cases, item)
                 failure == FailureOf(verdict.code, Blamed(verdict.code), verdict.phase, pair)
      <4>1. \A stack \in BothStacks : Promotable(RunOf(stack, pair))
        BY <3>5 DEF JudgeOutputs, Readable, Stack, BothStacks
      <4>2. \/ verdict.code # NoFailure /\ WriteResult(evidence, failure)
            \/ verdict.code = NoFailure /\ n = Pairs /\ WriteResult(evidence, NoRecord)
            \/ /\ verdict.code = NoFailure /\ n < Pairs
               /\ cases' = evidence /\ n' = n + 1 /\ pc' = pc /\ validation' = validation
        BY <3>5 DEF JudgeOutputs, BothStacks
      <4>3. item.pair = pair /\ item.chains = BothStacks
            /\ (verdict.code = NoFailure => item = ItemOf(PairAt(n), NoFailure, BothStacks))
        BY DEF ItemOf
      <4>4. failure.code = verdict.code /\ failure.stack \in BothStacks /\ failure.pair = pair
        BY DEF FailureOf, Blamed, BothStacks
      <4> HIDE DEF item, verdict, failure
      <4>5. /\ DOMAIN evidence = 1..n /\ Len(evidence) = n
            /\ \A i \in 1..(n - 1) : evidence[i] = cases[i]
            /\ evidence[n] = item
        BY <3>0, <3>3, Sizes
      <4> HIDE DEF evidence
      <4>6. ASSUME verdict.code = NoFailure, NEW i \in 1..n
            PROVE  Compared(evidence, i)
        <5>1. CASE i = n
          BY <4>1, <4>3, <4>5, <4>6, <5>1 DEF Compared
        <5>2. CASE i \in 1..(n - 1)
          BY <3>3, <4>5, <5>2 DEF Compared
        <5> QED
          BY <3>0, <5>1, <5>2, Sizes
      <4>7. ASSUME NEW i \in 1..n
            PROVE  evidence[i].pair = pair \/ \E j \in 1..(n - 1) : evidence[i].pair = PairAt(j) /\ Compared(cases, j)
        <5>1. CASE i = n
          BY <4>3, <4>5, <5>1
        <5>2. CASE i \in 1..(n - 1)
          BY <3>3, <4>5, <5>2 DEF Compared, ItemOf
        <5> QED
          BY <3>0, <5>1, <5>2, Sizes
      <4>8. CASE verdict.code # NoFailure /\ WriteResult(evidence, failure)
        <5>1. validation'.failure = failure /\ validation'.cases = evidence
              /\ validation'.status = Status({verdict.code} \ {NoFailure})
          BY <4>4, <4>8 DEF WriteResult
        <5>2. PassedInv'
          BY <4>8, <5>1, StatusOfFailure DEF PassedInv
        <5>3. ASSUME NEW i \in 1..n PROVE Promotable(RunOf(failure.stack, evidence[i].pair))
          BY <4>1, <4>4, <4>7 DEF Compared
        <5>4. ASSUME NEW q, Promotable(RunOf(failure.stack, q))
              PROVE  ChainHolds(validation.failure, q)'
          BY <3>0, <3>2, <5>1, <5>4 DEF ChainHolds, Promotable, RunOf, Job
        <5>5. RunOf(validation.failure.stack, validation.failure.pair)' \in DOMAIN results'
          BY <3>0, <4>1, <4>4, <5>1 DEF RunOf, Job, Promotable
        <5>6. Chains(validation)' \subseteq 1..n
          BY <4>5, <5>1 DEF Chains
        <5>7. FailedInv'
          BY <5>1, <5>3, <5>4, <5>5, <5>6 DEF FailedInv
        <5>8. Evidence'
          BY <4>8 DEF WriteResult, Evidence
        <5> QED
          BY <3>1, <5>2, <5>7, <5>8 DEF EvidenceInv
      <4>9. CASE verdict.code = NoFailure /\ n = Pairs /\ WriteResult(evidence, NoRecord)
        <5>1. validation'.failure = NoRecord /\ validation'.cases = evidence
          BY <4>9 DEF WriteResult
        <5>2. FailedInv'
          BY <5>1 DEF FailedInv, NoRecord, FailureOf
        <5>3. Failed' = {} /\ \A i \in 1..Pairs : Compared(validation.cases, i)'
          BY <3>0, <4>6, <4>9, <5>1 DEF Failed, Compared, Promotable, RunOf, Job
        <5>4. PassedInv'
          BY <4>5, <4>9, <5>1, <5>3 DEF PassedInv
        <5>5. Evidence'
          BY <4>9 DEF WriteResult, Evidence
        <5> QED
          BY <3>1, <5>2, <5>4, <5>5 DEF EvidenceInv
      <4>10. CASE /\ verdict.code = NoFailure /\ n < Pairs
                  /\ cases' = evidence /\ n' = n + 1 /\ pc' = pc /\ validation' = validation
        <5>1. item \in {ItemOf(PairAt(i), NoFailure, BothStacks) : i \in 1..Pairs}
          BY <3>0, <4>3, <4>10
        <5>2. evidence \in Seq({ItemOf(PairAt(i), NoFailure, BothStacks) : i \in 1..Pairs})
          BY <3>3, <5>1 DEF evidence
        <5>3. n' \in 1..Pairs /\ n' - 1 = n
          BY <3>0, <4>10, Sizes
        <5>4. Failed' = {} /\ \A i \in 1..n : Compared(cases, i)'
          BY <3>0, <4>6, <4>10 DEF Failed, Compared, Promotable, RunOf, Job
        <5>5. Evidence'
          BY <3>0, <4>5, <4>10, <5>2, <5>3, <5>4 DEF Evidence
        <5>6. PassedInv' /\ FailedInv'
          BY <3>0, <4>10, NoVerdict
        <5> QED
          BY <3>1, <5>5, <5>6 DEF EvidenceInv
      <4> QED
        BY <4>2, <4>8, <4>9, <4>10
    <3> QED
      BY <2>10, <3>4, <3>5 DEF Judge
  <2>11. ASSUME NEW v, EvidenceMissing(v) PROVE EvidenceInv'
    <3>1. Evidence' /\ MarkerInv'
      BY <2>11 DEF EvidenceMissing, Raises, Evidence, EvidenceInv, MarkerInv
    <3> QED
      BY <2>11, <3>1, VerdictKept DEF EvidenceMissing, Raises, EvidenceInv
  <2>12. CASE Inspect
    <3>1. Evidence' /\ UNCHANGED <<results, validation>>
      BY <2>12 DEF Inspect, Evidence
    <3>2. MarkerInv'
      <4>1. marker' = "passed" => validation.status = "passed"
        BY <2>12 DEF Inspect, Outcome, Phases
      <4>2. marker' = "failed" => IsDecision(validation)
        BY <2>12 DEF Inspect, Outcome, Phases
      <4>3. IsDecision(validation) => validation.failure.code # NoFailure
        BY DEF IsDecision, ExitCodeForFailure, NoFailure
      <4> QED
        BY <3>1, <4>1, <4>2, <4>3 DEF MarkerInv
    <3> QED
      BY <3>1, <3>2, VerdictKept DEF EvidenceInv
  <2>13. CASE Crash
    <3>1. Evidence' /\ MarkerInv'
      BY <2>13 DEF Crash, Evidence, EvidenceInv, MarkerInv
    <3> QED
      BY <2>13, <3>1, VerdictKept DEF Crash, EvidenceInv
  <2>14. CASE UNCHANGED vars
    <3>1. Evidence' /\ MarkerInv'
      BY <2>14 DEF vars, Evidence, EvidenceInv, MarkerInv, Failed, Compared, Promotable, RunOf, Job
    <3> QED
      BY <2>14, <3>1, VerdictKept DEF vars, EvidenceInv
  <2> QED
    BY <2>1, <2>4, <2>5, <2>6, <2>7, <2>8, <2>9, <2>10, <2>11, <2>12, <2>13, <2>14 DEF Next
<1> QED
  BY <1>1, <1>2, PhasesInvariant, PTL DEF Spec

(* A failure recorded outside the build phase has its run, and every chain   *)
(* it is recorded with rests on a passing build and on a run of that code,   *)
(* or of none.                                                               *)
THEOREM RecordedFailureIsEvidenced == Spec => []FailureIsEvidenced
<1>1. EvidenceInv => FailureIsEvidenced
  BY DEF EvidenceInv, MarkerInv, FailedInv, ChainHolds, FailureIsEvidenced
<1> QED
  BY <1>1, EvidenceInvariant, PTL

(* A gate recorded as passed built and ran all of the suite in both stacks,  *)
(* whichever workers ended untyped, and compared every pair of it.           *)
THEOREM PassedIsComplete == Spec => []PassedComparesAll
<1>1. ASSUME EvidenceInv, marker = "passed" PROVE PassedComparesAll
  <2>1. /\ Failed = {} /\ DOMAIN validation.cases = 1..Pairs
        /\ \A i \in 1..Pairs : Compared(validation.cases, i)
    BY <1>1 DEF EvidenceInv, MarkerInv, PassedInv
  <2>2. \A i \in 1..Pairs : \E c \in DOMAIN validation.cases :
          validation.cases[c] = ItemOf(PairAt(i), NoFailure, {"baseline", "candidate"})
    BY <2>1 DEF Compared, BothStacks
  <2>3. ASSUME NEW i \in 1..Jobs
        PROVE  JobAt(i) \in DOMAIN results /\ results[JobAt(i)] = NoFailure
    <3>1. PICK s \in 1..2, x \in 1..Len(Precisions), y \in 1..Len(Cases) :
            \/ JobAt(i) = Job(Stack[s], Precisions[x], Build)
            \/ JobAt(i) = Job(Stack[s], Precisions[x], Cases[y])
      BY JobIndex
    <3>2. PICK j \in 1..Pairs : PairAt(j) = [precision |-> Precisions[x], name |-> Cases[y]]
      BY PairIndex
    <3>3. Stack[s] \in BothStacks
      BY <3>1 DEF Stack, BothStacks
    <3>4. Promotable(RunOf(Stack[s], PairAt(j)))
      BY <2>1, <3>3 DEF Compared
    <3>5. RunOf(Stack[s], PairAt(j)) = Job(Stack[s], Precisions[x], Cases[y])
      BY <3>2 DEF RunOf
    <3>6. Job(Stack[s], Precisions[x], Build) \in DOMAIN results
          /\ Job(Stack[s], Precisions[x], Cases[y]) \in DOMAIN results
      BY <3>4, <3>5 DEF Promotable, Job
    <3> QED
      BY <2>1, <3>1, <3>6 DEF Failed
  <2> QED
    BY <2>2, <2>3 DEF PassedComparesAll
<1>2. EvidenceInv => PassedComparesAll
  BY <1>1 DEF PassedComparesAll
<1> QED
  BY <1>2, EvidenceInvariant, PTL

-----------------------------------------------------------------------------
(* The build of a case comes before it in the loops.                         *)
LEMMA BuildBefore ==
    ASSUME NEW i \in 1..Jobs, JobAt(i).what # Build
    PROVE  \E b \in 1..(i - 1) :
             JobAt(b) = Job(JobAt(i).stack, JobAt(i).precision, Build)
<1> DEFINE P == Len(Precisions)
           q == (i - 1) \div Width
           r == (i - 1) % Width
           b == q * Width + 1
<1>1. /\ q \in Nat /\ r \in 0..(Width - 1) /\ i - 1 = q * Width + r
      /\ Width \in Nat \ {0} /\ P \in Nat \ {0} /\ i \in Nat
  <2>1. i - 1 \in Nat /\ Width \in Nat \ {0} /\ P \in Nat \ {0} /\ i \in Nat
    BY Sizes
  <2>2. q \in Nat /\ r \in 0..(Width - 1) /\ i - 1 = q * Width + r
    BY <2>1, Remainder, Zenon
  <2> QED
    BY <2>1, <2>2
<1>2. r # 0
  BY DEF JobAt, Job
<1>3. /\ (q * Width + 0) \div Width = q /\ (q * Width + 0) % Width = 0
      /\ (q * Width + 0) \div (P * Width) = q \div P
      /\ (q * Width + r) \div (P * Width) = q \div P
  <2>1. 0 \in 0..(Width - 1)
    BY <1>1
  <2> HIDE DEF q, r, P
  <2> QED
    BY <1>1, <2>1, Division, Rows
<1>4. b - 1 = q * Width + 0 /\ b \in 1..(i - 1)
  <2> HIDE DEF q, r
  <2>1. q * Width \in Nat
    BY <1>1
  <2> QED
    BY <1>1, <1>2, <2>1
<1>5. JobAt(b) = Job(Stack[(q \div P) + 1], Precisions[(q % P) + 1], Build)
  <2> HIDE DEF q, r, b
  <2> QED
    BY <1>3, <1>4 DEF JobAt
<1>6. JobAt(i).stack = Stack[(q \div P) + 1] /\ JobAt(i).precision = Precisions[(q % P) + 1]
  <2>1. (i - 1) \div (P * Width) = q \div P
    <3> HIDE DEF q, r, P
    <3> QED
      BY <1>1, <1>3
  <2> QED
    BY <2>1 DEF JobAt, Job
<1> QED
  BY <1>4, <1>5, <1>6

(* What a worker may retain, short of passing: the upgrade is to blame.      *)
WorkerCodes == {"PLUGIN_COMPILE_FAILED", "ENGINE_DESERIALIZE_FAILED", "PROFILE_REJECTED",
                "ONNX_PARSE_FAILED", "ENGINE_BUILD_FAILED", "OUTPUT_SCHEMA_CHANGED",
                "NONFINITE_OUTPUT", "EXECUTION_FAILED"}

(* Whatever a worker retains, the result is a failed qualification. *)
LEMMA WorkersBlameTheUpgrade ==
    /\ \A job : \A answer \in Answers(job) : answer \in WorkerCodes \cup {NoFailure}
    /\ \A code \in WorkerCodes :
          /\ code # NoFailure /\ Status({code} \ {NoFailure}) = "failed"
          /\ ExitCodeForFailure(code) = "QUALIFICATION_FAILED"
BY DEF Answers, WorkerErrorCode, WorkerCodes, Status, ExitCodeForFailure, NoFailure

(* One worker failed, above a build that passed.                             *)
OneFailed(job) == Failed = {job} /\ (job.what = Build \/ Promotable(job))

(* In an undisturbed invocation all the jobs before this one passed, and the *)
(* one that fails is the last.                                               *)
LoopsInv ==
    /\ faults \in Nat
    /\ \A job \in DOMAIN results : results[job] \in WorkerCodes \cup {NoFailure}
    /\ faults = 0 /\ pc = "workers" =>
         /\ n \in 1..Jobs /\ Failed = {}
         /\ \A i \in 1..(n - 1) : JobAt(i) \in DOMAIN results
    /\ faults = 0 /\ pc = "validate" => Failed = {} \/ \E job : OneFailed(job)
    /\ pc = "compare" => Failed = {}
    /\ WorkerFailureIsRecorded

(* Without a fault, the loops stop at the first failure. *)
LEMMA LoopsInvariant == Spec => []LoopsInv
<1>1. Init => LoopsInv
  BY DEF Init, LoopsInv, Failed, WorkerFailureIsRecorded
<1>2. Phases /\ LoopsInv /\ [Next]_vars => LoopsInv'
  <2> SUFFICES ASSUME Phases, LoopsInv, [Next]_vars PROVE LoopsInv'
    OBVIOUS
  <2>1. CASE Start
    <3>1. results' = <<>> /\ pc' = "workers" /\ n' = 1 /\ faults' = 0
      BY <2>1 DEF Start
    <3>2. Failed' = {} /\ DOMAIN results' = {}
      BY <3>1 DEF Failed
    <3>3. 1 \in 1..Jobs
      BY Sizes
    <3> QED
      BY <3>1, <3>2, <3>3 DEF LoopsInv, WorkerFailureIsRecorded
  <2>2. ASSUME NEW answer, NEW job, job = JobAt(n), RunWorker(answer) PROVE LoopsInv'
    <3>1. /\ pc = "workers" /\ answer \in WorkerCodes \cup {NoFailure}
          /\ results' = Retain(job, answer) /\ faults' = faults
          /\ Proceed(IF answer = NoFailure THEN n + 1 ELSE AfterFailure(n))
      BY <2>2, WorkersBlameTheUpgrade DEF RunWorker
    <3>2. /\ DOMAIN results' = DOMAIN results \cup {job} /\ results'[job] = answer
          /\ \A other \in DOMAIN results \ {job} : results'[other] = results[other]
      BY <3>1 DEF Retain
    <3>3. /\ faults' \in Nat /\ pc' \in {"workers", "validate"}
          /\ \A other \in DOMAIN results' : results'[other] \in WorkerCodes \cup {NoFailure}
      BY <3>1, <3>2 DEF LoopsInv, Proceed
    <3>4. CASE faults # 0
      BY <3>1, <3>3, <3>4 DEF LoopsInv, WorkerFailureIsRecorded
    <3>5. CASE faults = 0
      <4>1. n \in 1..Jobs /\ Failed = {} /\ \A i \in 1..(n - 1) : JobAt(i) \in DOMAIN results
        BY <3>1, <3>5 DEF LoopsInv
      <4>2. CASE answer = NoFailure
        <5>1. Failed' = {}
          BY <3>2, <4>1, <4>2 DEF Failed
        <5>2. pc' = "workers" => n' = n + 1 /\ n + 1 \in 1..Jobs
          BY <3>1, <4>1, <4>2, Sizes DEF Proceed
        <5>3. \A i \in 1..n : JobAt(i) \in DOMAIN results'
          BY <2>2, <3>2, <4>1
        <5> QED
          BY <3>3, <4>1, <5>1, <5>2, <5>3 DEF LoopsInv, WorkerFailureIsRecorded
      <4>3. CASE answer # NoFailure
        <5>1. pc' = "validate"
          BY <3>1, <4>3, Sizes DEF Proceed, AfterFailure
        <5>2. Failed' = {job}
          BY <3>2, <4>1, <4>3 DEF Failed
        <5>3. job.what # Build => Promotable(job)'
          <6> SUFFICES ASSUME job.what # Build PROVE Promotable(job)'
            OBVIOUS
          <6> DEFINE build == Job(job.stack, job.precision, Build)
          <6>1. PICK b \in 1..(n - 1) : JobAt(b) = build
            BY <2>2, <4>1, BuildBefore
          <6>2. build \in DOMAIN results /\ results[build] = NoFailure
            BY <4>1, <6>1 DEF Failed
          <6>3. build # job
            BY DEF Job
          <6> QED
            BY <3>2, <6>2, <6>3 DEF Promotable, Job
        <5>4. OneFailed(job)'
          BY <5>2, <5>3 DEF OneFailed
        <5> QED
          BY <3>3, <5>1, <5>4 DEF LoopsInv, WorkerFailureIsRecorded
      <4> QED
        BY <4>2, <4>3
    <3> QED
      BY <3>4, <3>5
  <2>3. CASE WorkerKilled
    <3>1. faults' = faults + 1 /\ faults' \in Nat /\ faults' # 0 /\ pc = "workers"
      BY <2>3 DEF WorkerKilled, LoopsInv
    <3>2. pc' \in {"workers", "validate"}
      BY <2>3 DEF WorkerKilled, Proceed
    <3>3. \A job \in DOMAIN results' : results'[job] \in WorkerCodes \cup {NoFailure}
      BY <2>3, WorkersBlameTheUpgrade DEF WorkerKilled, Retain, LoopsInv
    <3> QED
      BY <3>1, <3>2, <3>3 DEF LoopsInv, WorkerFailureIsRecorded
  <2>4. CASE PreparationFails
    <3>1. faults' \in Nat /\ faults' # 0 /\ results' = results /\ pc' = "inspect"
      BY <2>4 DEF PreparationFails, LoopsInv
    <3> QED
      BY <3>1 DEF LoopsInv, WorkerFailureIsRecorded
  <2>5. CASE NothingRetained
    <3>1. Failed' = {} /\ results' = results /\ faults' = faults /\ pc' = "compare"
      BY <2>5 DEF NothingRetained, Failed
    <3> QED
      BY <3>1 DEF LoopsInv, WorkerFailureIsRecorded
  <2>6. CASE PromoteWorkerFailure
    <3>1. PICK job \in Failed :
             /\ Failed = {job}
             /\ WriteResult(<<ItemOf(PairOf(job), results[job], {job.stack})>>,
                            FailureOf(results[job], job.stack,
                                      IF job.what = Build THEN "build" ELSE "correctness",
                                      PairOf(job)))
      BY <2>6 DEF PromoteWorkerFailure
    <3>2. /\ pc' = "inspect" /\ status' = 1 /\ results' = results /\ faults' = faults
          /\ validation'.failure = FailureOf(results[job], job.stack,
                 IF job.what = Build THEN "build" ELSE "correctness", PairOf(job))
          /\ validation'.cases = <<ItemOf(PairOf(job), results[job], {job.stack})>>
          /\ validation'.status = Status({results[job]} \ {NoFailure})
      BY <2>6, <3>1 DEF PromoteWorkerFailure, WriteResult, FailureOf
    <3>3. Failed' = {job} /\ results[job] \in WorkerCodes
      BY <3>1, <3>2 DEF Failed, LoopsInv
    <3>4. validation'.failure.code = results[job] /\ validation'.failure.stack = job.stack
          /\ validation'.failure.pair = PairOf(job)
      BY <3>2 DEF FailureOf
    <3>5. Outcome' = "failed"
      <4>1. Chains(validation)' = {1}
        BY <3>2, <3>4 DEF Chains, ItemOf
      <4>2. OneChain(validation)'
        BY <4>1, FS_Singleton DEF OneChain
      <4>3. IsDecision(validation)'
        BY <3>2, <3>3, <3>4, WorkersBlameTheUpgrade DEF IsDecision
      <4> QED
        BY <3>2, <3>3, <4>2, <4>3, WorkersBlameTheUpgrade DEF Outcome
    <3>6. WorkerFailureIsRecorded'
      BY <3>2, <3>3, <3>4, <3>5 DEF WorkerFailureIsRecorded, PairOf
    <3> QED
      BY <3>2, <3>6 DEF LoopsInv
  <2>7. CASE WorkerFailureRaises
    <3>1. /\ pc = "validate" /\ Failed # {} /\ pc' = "inspect" /\ results' = results
          /\ faults' = faults
          /\ \A job \in Failed : Failed = {job} => job.what # Build /\ ~Promotable(job)
      BY <2>7 DEF WorkerFailureRaises, Raises
    <3>2. faults # 0
      BY <3>1 DEF LoopsInv, OneFailed
    <3> QED
      BY <3>1, <3>2 DEF LoopsInv, WorkerFailureIsRecorded
  <2>8. ASSUME NEW v, Judge(v) \/ EvidenceMissing(v) PROVE LoopsInv'
    <3>1. /\ pc = "compare" /\ results' = results /\ faults' = faults
          /\ pc' \in {"compare", "inspect"}
      BY <2>8 DEF Judge, JudgeDrift, JudgeOutputs, WriteResult, EvidenceMissing, Raises
    <3>2. Failed = {} /\ Failed' = {}
      BY <3>1 DEF LoopsInv, Failed
    <3> QED
      BY <3>1, <3>2 DEF LoopsInv, WorkerFailureIsRecorded
  <2>9. CASE Inspect
    <3>1. pc' = "ended" /\ results' = results /\ faults' = faults
      BY <2>9 DEF Inspect
    <3> QED
      BY <3>1 DEF LoopsInv, WorkerFailureIsRecorded
  <2>10. CASE Crash
    <3>1. pc' = "idle" /\ results' = results /\ faults' = faults
      BY <2>10 DEF Crash
    <3> QED
      BY <3>1 DEF LoopsInv, WorkerFailureIsRecorded
  <2>11. CASE UNCHANGED vars
    BY <2>11 DEF vars, LoopsInv, WorkerFailureIsRecorded, Failed, OneFailed, Promotable, Job,
                 Outcome, IsDecision, OneChain, Chains, PairOf
  <2> QED
    BY <2>1, <2>2, <2>3, <2>4, <2>5, <2>6, <2>7, <2>8, <2>9, <2>10, <2>11 DEF Next
<1> QED
  BY <1>1, <1>2, PhasesInvariant, PTL DEF Spec

(* A typed worker failure of an undisturbed invocation ends it as a decision *)
(* that names the worker, wherever in the loops it happened.                 *)
THEOREM TypedFailureIsRecorded == Spec => []WorkerFailureIsRecorded
<1>1. LoopsInv => WorkerFailureIsRecorded
  BY DEF LoopsInv
<1> QED
  BY <1>1, LoopsInvariant, PTL

=============================================================================
