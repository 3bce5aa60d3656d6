---------------------- MODULE CoreQualification_proofs ----------------------
(***************************************************************************)
(* Core qualification for any shapes, precisions, metrics, number of pairs *)
(* and of confirmation builds: a summary that passed decided everything    *)
(* the specification requires, a failed one records what it blames, and    *)
(* the timing gate counts the pairs its raw blocks show.                   *)
(***************************************************************************)
EXTENDS CoreQualification, FiniteSetTheorems, SequenceTheorems, TLAPS

-----------------------------------------------------------------------------
(***************************************************************************)
(* The paired measurement.                                                 *)
(***************************************************************************)
Orders == {<<"baseline", "candidate">>, <<"candidate", "baseline">>}
Underway == {"idle", "before", "after"}

\* A pair is under way only with an order, for a shape that still needs pairs
\* and attempts; its first record, once there is one, was accepted.
PairUnderway ==
    IF stage \in Underway
    THEN /\ order \in Orders
         /\ pairs[Shapes[shape]] < MinPairs /\ attempt < MaximumAttempts
         /\ block \in {<<>>, <<[env |-> order[1], accepted |-> TRUE]>>}
    ELSE block = <<>>

MeasureInv == MeasurementTypeOK /\ PairUnderway /\ AcceptedRecordsArePairs

\* What is known of the constants of a measurement.
LEMMA MeasureConstants ==
    /\ Shapes \in Seq(STRING) /\ Len(Shapes) \in Nat /\ Len(Shapes) >= 1
    /\ DOMAIN Shapes = 1..Len(Shapes) /\ 1 \in DOMAIN Shapes
    /\ MinPairs \in Nat /\ MinPairs >= 1 /\ MaximumAttempts \in Nat
    /\ IdleTries \in Nat /\ IdleTries >= 1
    /\ \A i \in DOMAIN Shapes : Shapes[i] \in ShapeSet
BY MeasurementAssumption DEF ShapeSet, MaximumAttempts

\* Nothing is measured yet, or any more: the start of a measurement and the
\* state between two of them.
LEMMA MeasureReset ==
    ASSUME NEW next \in {"off", "choose"}, ResetMeasurement(next)
    PROVE  MeasureInv'
<1>1. MeasurementTypeOK'
  BY MeasureConstants DEF ResetMeasurement, MeasurementTypeOK, Stages
<1>2. PairUnderway'
  BY DEF ResetMeasurement, PairUnderway, Underway
<1>3. AcceptedRecordsArePairs'
  BY DEF ResetMeasurement, AcceptedRecordsArePairs
<1> QED
  BY <1>1, <1>2, <1>3 DEF MeasureInv

\* How many accepted records of a stack raw_blocks keeps of a pair: the one of
\* a valid pair, none of an invalid one, whose accepted half is withdrawn.
LEMMA SettledRecords ==
    ASSUME NEW o \in Orders, NEW a \in BOOLEAN, NEW b, NEW st \in Stacks,
           \/ b = <<[env |-> o[1], accepted |-> a]>> /\ ~a
           \/ b = <<[env |-> o[1], accepted |-> TRUE], [env |-> o[2], accepted |-> a]>>
    PROVE  /\ PairValid(b) => AcceptedOf(Settled(b), st) = 1
           /\ ~PairValid(b) => AcceptedOf(Settled(b), st) = 0
<1>1. CASE PairValid(b)
  <2>1. Settled(b) = b /\ b = <<[env |-> o[1], accepted |-> TRUE], [env |-> o[2], accepted |-> TRUE]>>
    BY <1>1 DEF PairValid, Settled
  <2>2. PICK j \in {1, 2} : o[j] = st /\ o[3 - j] # st
    BY DEF Orders, Stacks
  <2>3. {i \in DOMAIN b : b[i].env = st /\ b[i].accepted} = {j}
    BY <2>1, <2>2
  <2>4. Cardinality({j}) = 1
    BY FS_Singleton
  <2>5. AcceptedOf(Settled(b), st) = 1
    BY <2>1, <2>3, <2>4 DEF AcceptedOf
  <2> QED
    BY <1>1, <2>5
<1>2. CASE ~PairValid(b)
  <2>1. Settled(b) = [i \in DOMAIN b |-> [b[i] EXCEPT !.accepted = FALSE]]
    BY <1>2 DEF Settled
  <2>2. \A i \in DOMAIN b : b[i] = [env |-> b[i].env, accepted |-> b[i].accepted]
    OBVIOUS
  <2>3. \A i \in DOMAIN Settled(b) : ~Settled(b)[i].accepted
    BY <2>1, <2>2
  <2>4. {i \in DOMAIN Settled(b) : Settled(b)[i].env = st /\ Settled(b)[i].accepted} = {}
    BY <2>3
  <2> QED
    BY <1>2, <2>4, FS_EmptySet DEF AcceptedOf
<1> QED
  BY <1>1, <1>2

\* A second record appended to a first.
LEMMA AppendSecond == \A x, y : Append(<<x>>, y) = <<x, y>>
<1> TAKE x, y
<1> DEFINE q == <<x>>
           r == Append(q, y)
<1>1. q \in Seq({x, y}) /\ Len(q) = 1 /\ q[1] = x
  OBVIOUS
<1> HIDE DEF q
<1>2. r \in Seq({x, y}) /\ Len(r) = 2 /\ r[1] = x /\ r[2] = y
  <2>1. y \in {x, y}
    OBVIOUS
  <2>2. /\ r \in Seq({x, y}) /\ Len(r) = Len(q) + 1 /\ r[Len(q) + 1] = y
        /\ \A i \in 1..Len(q) : r[i] = q[i]
    BY <1>1, <2>1, AppendProperties
  <2> HIDE DEF r
  <2> QED
    BY <1>1, <2>2
<1> HIDE DEF r
<1>3. r = [i \in 1..2 |-> IF i = 1 THEN x ELSE y]
  BY <1>2
<1>4. <<x, y>> = [i \in 1..2 |-> IF i = 1 THEN x ELSE y]
  OBVIOUS
<1> QED
  BY <1>3, <1>4 DEF q, r

\* The end of a pair counts it exactly where it keeps its records.
LEMMA ClosePairInv ==
    ASSUME MeasureInv, stage \in Underway, NEW a \in BOOLEAN, ClosePair(Record(a)),
           a => Len(block) = 1
    PROVE  MeasureInv'
<1> DEFINE b == Record(a)
           s == Shapes[shape]
<1>1. /\ order \in Orders /\ pairs[s] < MinPairs /\ attempt < MaximumAttempts
      /\ block \in {<<>>, <<[env |-> order[1], accepted |-> TRUE]>>}
  BY DEF MeasureInv, PairUnderway
<1>2. \/ b = <<[env |-> order[1], accepted |-> a]>> /\ ~a
      \/ b = <<[env |-> order[1], accepted |-> TRUE], [env |-> order[2], accepted |-> a]>>
  <2>1. CASE block = <<>>
    BY <2>1 DEF Record
  <2>2. CASE block = <<[env |-> order[1], accepted |-> TRUE]>>
    <3>1. Record(a) = Append(block, [env |-> order[2], accepted |-> a])
      BY <2>2 DEF Record
    <3> QED
      BY <2>2, <3>1, AppendSecond
  <2> QED
    BY <1>1, <2>1, <2>2
<1>3. s \in ShapeSet /\ shape \in DOMAIN Shapes /\ pairs[s] \in 0..MinPairs
      /\ pairs \in [ShapeSet -> 0..MinPairs] /\ raw \in [ShapeSet -> [Stacks -> Nat]]
  BY MeasureConstants DEF MeasureInv, MeasurementTypeOK
<1>4. \A st \in Stacks : AcceptedOf(Settled(b), st) = IF PairValid(b) THEN 1 ELSE 0
  BY <1>1, <1>2, SettledRecords
<1> HIDE DEF b
<1>5. /\ pairs' = [pairs EXCEPT ![s] = pairs[s] + (IF PairValid(b) THEN 1 ELSE 0)]
      /\ raw' = [raw EXCEPT ![s] = [st \in Stacks |-> raw[s][st] + AcceptedOf(Settled(b), st)]]
      /\ attempt' = attempt + 1 /\ stage' = "choose" /\ block' = <<>> /\ order' = <<>>
      /\ tries' = 0 /\ UNCHANGED shape
  BY DEF ClosePair, NextAttempt, b
<1>6. pairs' \in [ShapeSet -> 0..MinPairs]
  BY <1>1, <1>3, <1>5, MeasureConstants
<1>7. raw' \in [ShapeSet -> [Stacks -> Nat]]
  <2>1. [st \in Stacks |-> raw[s][st] + AcceptedOf(Settled(b), st)] \in [Stacks -> Nat]
    BY <1>3, <1>4
  <2> QED
    BY <1>3, <1>5, <2>1
<1>8. attempt' \in 0..MaximumAttempts /\ tries' \in 0..(IdleTries - 1)
  BY <1>1, <1>5, MeasureConstants DEF MeasureInv, MeasurementTypeOK
<1>9. MeasurementTypeOK'
  BY <1>3, <1>5, <1>6, <1>7, <1>8 DEF MeasurementTypeOK, Stages
<1>10. PairUnderway'
  BY <1>5 DEF PairUnderway, Underway
<1>11. ASSUME NEW t \in ShapeSet, NEW st \in Stacks PROVE raw'[t][st] = pairs'[t]
  <2>1. raw[t][st] = pairs[t]
    BY <1>11 DEF MeasureInv, AcceptedRecordsArePairs
  <2>2. CASE t = s
    BY <1>3, <1>4, <1>5, <2>1, <2>2
  <2>3. CASE t # s
    BY <1>3, <1>5, <2>1, <2>3
  <2> QED
    BY <2>2, <2>3
<1> QED
  BY <1>9, <1>10, <1>11 DEF MeasureInv, AcceptedRecordsArePairs

\* Every step of the measurement keeps the records and the pairs together.
LEMMA MeasureStep == MeasureInv /\ Measure => MeasureInv'
<1> SUFFICES ASSUME MeasureInv, Measure PROVE MeasureInv'
  OBVIOUS
<1>u. ASSUME UNCHANGED <<pairs, raw>> PROVE AcceptedRecordsArePairs'
  BY <1>u DEF MeasureInv, AcceptedRecordsArePairs
<1>1. CASE ChooseOrder
  BY <1>1, <1>u, MeasureConstants
  DEF ChooseOrder, MeasureInv, MeasurementTypeOK, PairUnderway, Underway, Orders, Stages
<1>2. CASE NextShape
  <2>1. /\ shape' \in DOMAIN Shapes /\ attempt' \in 0..MaximumAttempts /\ stage' \in {"choose", "counted"}
        /\ UNCHANGED <<order, tries, block, pairs, raw>> /\ stage = "choose"
    BY <1>2, MeasureConstants DEF NextShape, MeasureInv, MeasurementTypeOK
  <2> QED
    BY <2>1, <1>u DEF MeasureInv, MeasurementTypeOK, PairUnderway, Underway, Stages
<1>3. CASE ObserveBusy
  <2>1. CASE tries + 1 < IdleTries
    BY <1>3, <2>1, <1>u, MeasureConstants
    DEF ObserveBusy, MeasureInv, MeasurementTypeOK, PairUnderway, Underway
  <2>2. CASE ~(tries + 1 < IdleTries)
    BY <1>3, <2>2, ClosePairInv DEF ObserveBusy, Underway
  <2> QED
    BY <2>1, <2>2
<1>4. CASE ObserveIdle
  BY <1>4, <1>u DEF ObserveIdle, MeasureInv, MeasurementTypeOK, PairUnderway, Underway, Stages
<1>5. ASSUME NEW valid \in Observations, ObserveBefore(valid) PROVE MeasureInv'
  <2>1. CASE valid
    BY <1>5, <2>1, <1>u
    DEF ObserveBefore, MeasureInv, MeasurementTypeOK, PairUnderway, Underway, Stages
  <2>2. CASE ~valid
    BY <1>5, <2>2, ClosePairInv DEF ObserveBefore, Underway
  <2> QED
    BY <2>1, <2>2
<1>6. ASSUME NEW valid \in Observations, NEW steady \in Variations, ObserveAfter(valid /\ steady)
      PROVE  MeasureInv'
  <2>0. (valid /\ steady) \in BOOLEAN /\ stage = "after" /\ Len(block) \in {0, 1}
    BY <1>6 DEF ObserveAfter, MeasureInv, PairUnderway, Underway
  <2>1. CASE (valid /\ steady) /\ Len(block) = 0
    <3>1. /\ block' = Record(TRUE) /\ stage' = "idle" /\ tries' = 0
          /\ UNCHANGED <<shape, attempt, order, pairs, raw>>
      BY <1>6, <2>1 DEF ObserveAfter
    <3>2. block = <<>> /\ order \in Orders
      BY <2>0, <2>1 DEF MeasureInv, PairUnderway, Underway
    <3>3. block' = <<[env |-> order[1], accepted |-> TRUE]>>
      BY <3>1, <3>2 DEF Record
    <3>4. block' \in Seq([env : Stacks, accepted : BOOLEAN]) /\ Len(block') <= 1
      BY <3>2, <3>3 DEF Orders, Stacks
    <3>5. 0 \in 0..(IdleTries - 1)
      BY MeasureConstants
    <3>6. MeasurementTypeOK'
      BY <3>1, <3>4, <3>5 DEF MeasureInv, MeasurementTypeOK, Stages
    <3>7. PairUnderway'
      BY <2>0, <3>1, <3>3 DEF MeasureInv, PairUnderway, Underway
    <3> QED
      BY <3>1, <3>6, <3>7, <1>u DEF MeasureInv
  <2>2. CASE ~((valid /\ steady) /\ Len(block) = 0)
    <3>1. ClosePair(Record(valid /\ steady))
      BY <1>6, <2>2 DEF ObserveAfter
    <3> QED
      BY <2>0, <2>2, <3>1, ClosePairInv DEF Underway
  <2> QED
    BY <2>1, <2>2
<1> QED
  BY <1>1, <1>2, <1>3, <1>4, <1>5, <1>6 DEF Measure

\* A step that leaves the measurement alone.
LEMMA MeasureUnchanged == MeasureInv /\ UNCHANGED mvars => MeasureInv'
BY DEF MeasureInv, MeasurementTypeOK, PairUnderway, AcceptedRecordsArePairs, mvars

-----------------------------------------------------------------------------
(***************************************************************************)
(* The evidence of an invocation.                                          *)
(***************************************************************************)
\* The gates a precision owes besides its cases.
Required == Metrics \cup {"performance"}

ItemsOf(g, n) == {i \in evidence : i.gate = g /\ i.precision = Precisions[n]}
OneItem(g, n) == \E i \in evidence : ItemsOf(g, n) = {i}

\* The first m shapes of the precision n were compared, each once.
Compared(n, m) ==
    /\ {i.shape : i \in ItemsOf("case", n)} = {Shapes[j] : j \in 1..m}
    /\ \A i, j \in ItemsOf("case", n) : i.shape = j.shape => i = j

Decided(n) == Compared(n, Len(Shapes)) /\ \A g \in Required : OneItem(g, n)

\* Every precision before q is decided, of q itself m shapes and these gates,
\* and nothing later.
EvidenceAt(q, m, gates) ==
    /\ \A i \in evidence : \E n \in 1..q : i.precision = Precisions[n]
    /\ \A n \in 1..(q - 1) : Decided(n)
    /\ Compared(q, m)
    /\ \A g \in Required : IF g \in gates THEN OneItem(g, q) ELSE ItemsOf(g, q) = {}

ComparedSoFar ==
    IF phase \in {"idle", "build", "correctness"} THEN 0
    ELSE IF phase = "compare" THEN k - 1 ELSE Len(Shapes)

GatesSoFar ==
    IF phase = "publish" THEN Required
    ELSE IF phase \in {"measure", "performance"} THEN Metrics ELSE {}

\* A typed worker failure left its own item, code and record alone.
WorkerEnded ==
    /\ phase = "publish"
    /\ \E s \in ShapeSet \cup {Aggregate}, env \in Stacks, c \in FailureCodes \ {"NUMERICAL_REGRESSION"} :
         /\ codes = {c} /\ records = {FailureOf(c, env, s)}
         /\ evidence = {Item("worker", s, c)}

EvidenceInv ==
    \/ WorkerEnded
    \/ /\ EvidenceAt(p, ComparedSoFar, GatesSoFar)
       /\ phase = "publish" => p = Len(Precisions)

\* What the codes say of the evidence, and the records of the codes.
CleanWhenNoCode == codes = {} => \A i \in evidence : i.outcome \notin Bad

CodesHaveRecords ==
    codes \ {"INFRASTRUCTURE_INVALID", "INCONCLUSIVE"} \subseteq {r.code : r \in records}

NumericalHasCase ==
    \A r \in records : r.code = "NUMERICAL_REGRESSION" =>
        \E i \in evidence : /\ i.gate = "case" /\ i.outcome = r.code
                            /\ i.precision = r.precision /\ i.shape = r.shape

BlameHasEvidence ==
    \A r \in records : r.env = "candidate" /\ r.shape \in ShapeSet =>
        \/ "CORPUS_INVALID" \in codes
        \/ \E i \in evidence : /\ i.precision = r.precision /\ i.shape = r.shape
                               /\ i.outcome = r.code

PublishedInv == PassedIsComplete /\ FailuresAreRecorded /\ BlameFollowsTheCase

-----------------------------------------------------------------------------
(***************************************************************************)
(* What the decision rules return.                                         *)
(***************************************************************************)
\* classify_worker_error types every failure, and none as a numerical one; the
\* context of a correctness run changes that only to an invalid corpus.
LEMMA WorkerCodes ==
    ASSUME NEW kind, NEW ph, NEW baseline \in BOOLEAN
    PROVE  /\ WorkerErrorCode(ph, kind) \in FailureCodes \ {"NUMERICAL_REGRESSION"}
           /\ ContextualCode(kind, baseline) \in FailureCodes \ {"NUMERICAL_REGRESSION"}
<1>1. \A f : WorkerErrorCode(f, kind) \in FailureCodes \ {"NUMERICAL_REGRESSION"}
  BY DEF WorkerErrorCode, FailureCodes
<1>2. "CORPUS_INVALID" \in FailureCodes \ {"NUMERICAL_REGRESSION"}
  BY DEF FailureCodes
<1> QED
  BY <1>1, <1>2 DEF ContextualCode

\* A case is decided by the code of one of its two runs; a numerical failure is
\* the candidate's, and a failing candidate is outranked only by the corpus.
LEMMA CaseCodes ==
    ASSUME NEW f
    PROVE  LET case == CompareCase(f, RequireBitwise) IN
           /\ case.code \in FailureCodes \cup {NoFailure}
           /\ case.baseline \in {NoFailure, "CORPUS_INVALID"}
           /\ case.candidate \in {NoFailure, "OUTPUT_SCHEMA_CHANGED",
                                  "NUMERICAL_REGRESSION", "NONDETERMINISM_REGRESSION"}
           /\ case.code # NoFailure => case.code \in {case.baseline, case.candidate}
           /\ case.candidate = "NUMERICAL_REGRESSION" => case.code = "NUMERICAL_REGRESSION"
           /\ case.code # NoFailure /\ case.candidate # NoFailure
                  => case.code \in {case.candidate, "CORPUS_INVALID"}
<1>1. DecidedCode(f) \in {NoFailure, "CORPUS_INVALID", "OUTPUT_SCHEMA_CHANGED",
                          "NUMERICAL_REGRESSION"}
  BY DEF DecidedCode, ThreeWay
<1> QED
  BY <1>1 DEF CompareCase, FailureCodes, NoFailure

\* The outcome of a metric decides what it adds to the failures.
LEMMA MemoryOutcomes ==
    ASSUME NEW steady, NEW exceeding
    PROVE  LET outcome == MemoryGate(steady, exceeding, Builds) IN
           /\ outcome \in Outcomes
           /\ MemoryCodes(outcome) \subseteq {"MEMORY_REGRESSION", "INFRASTRUCTURE_INVALID"}
           /\ outcome \in Bad => MemoryCodes(outcome) # {}
           /\ "MEMORY_REGRESSION" \in MemoryCodes(outcome) => outcome = "regression"
BY DEF MemoryGate, Outcomes, MemoryCodes, Bad, FailureCodes

\* The codes of a timing outcome.
LEMMA TimingCodes ==
    ASSUME NEW outcome \in Outcomes
    PROVE  /\ PerformanceCodes(outcome) \subseteq
                  {"PERFORMANCE_REGRESSION", "INCONCLUSIVE", "INFRASTRUCTURE_INVALID"}
           /\ outcome \in Bad => PerformanceCodes(outcome) # {}
           /\ "PERFORMANCE_REGRESSION" \in PerformanceCodes(outcome) => outcome = "regression"
BY DEF Outcomes, PerformanceCodes, Bad, FailureCodes

\* A timing gate decides only when every shape has its pairs.
LEMMA TimingGate ==
    ASSUME MeasurementTypeOK,
           NEW estimates \in [ShapeSet -> Estimates], NEW aggregate \in Estimates
    PROVE  LET outcome == WeightedGate(pairs, MinPairs, estimates, aggregate) IN
           /\ outcome \in Outcomes
           /\ outcome # "infrastructure_invalid" => \A s \in ShapeSet : pairs[s] >= MinPairs
<1> DEFINE shapes == {PairedGate(pairs[s], MinPairs, estimates[s]) : s \in DOMAIN pairs}
           rest == IF "infrastructure_invalid" \in shapes THEN "infrastructure_invalid" ELSE aggregate
<1>1. DOMAIN pairs = ShapeSet /\ \A s \in ShapeSet : pairs[s] \in Nat
  BY MeasureConstants DEF MeasurementTypeOK
<1>2. WeightedGate(pairs, MinPairs, estimates, aggregate) = Overall(shapes \cup {rest})
  BY DEF WeightedGate
<1>3. \A set : Overall(set) \in Outcomes
  BY DEF Overall, Outcomes
<1>4. \A set : "infrastructure_invalid" \in set => Overall(set) = "infrastructure_invalid"
  BY DEF Overall
<1>5. ASSUME NEW s \in ShapeSet, ~(pairs[s] >= MinPairs)
      PROVE  "infrastructure_invalid" \in shapes
  <2>1. PairedGate(pairs[s], MinPairs, estimates[s]) = "infrastructure_invalid"
    BY <1>1, <1>5, MeasureConstants DEF PairedGate
  <2> QED
    BY <1>1, <2>1
<1> HIDE DEF shapes, rest
<1>6. "infrastructure_invalid" \in shapes => Overall(shapes \cup {rest}) = "infrastructure_invalid"
  BY <1>4
<1> QED
  BY <1>2, <1>3, <1>5, <1>6

-----------------------------------------------------------------------------
(***************************************************************************)
(* Types.                                                                  *)
(***************************************************************************)
\* What is known of the constants of a qualification.
LEMMA CoreConstants ==
    /\ Len(Precisions) \in Nat /\ Len(Precisions) >= 1
    /\ DOMAIN Precisions = 1..Len(Precisions) /\ 1 \in DOMAIN Precisions
    /\ \A i, j \in DOMAIN Precisions : Precisions[i] = Precisions[j] => i = j
    /\ "performance" \notin Metrics /\ "case" \notin Metrics /\ "worker" \notin Metrics
    /\ Metrics \cap ShapeSet = {} /\ Aggregate \notin ShapeSet
    /\ Metrics \subseteq {"engine_bytes", "device_memory"}
    /\ MaxRuns \in Nat
BY CoreAssumption

\* A failure record and an item of evidence are of their types.
LEMMA FailureType ==
    ASSUME p \in DOMAIN Precisions, NEW code \in FailureCodes, NEW env \in Stacks,
           NEW s \in ShapeSet \cup Metrics \cup {Aggregate}
    PROVE  FailureOf(code, env, s) \in Records
BY DEF FailureOf, Records, Precision

\* An evidence item built from members of its fields' sets is an item.
LEMMA ItemType ==
    ASSUME p \in DOMAIN Precisions, NEW g \in Gates,
           NEW s \in ShapeSet \cup Metrics \cup {Aggregate},
           NEW outcome \in Outcomes \cup FailureCodes \cup {NoFailure}
    PROVE  Item(g, s, outcome) \in Items
BY DEF Item, Items, Precision

\* Types of the variables of this module alone.
RunTypeOK ==
    /\ phase \in Phases /\ staging \in {"absent", "open", "written"}
    /\ p \in DOMAIN Precisions /\ e \in DOMAIN Environment /\ k \in DOMAIN Shapes
    /\ codes \subseteq FailureCodes /\ records \subseteq Records
    /\ evidence \subseteq Items /\ runs \in 0..MaxRuns
    /\ destination = NoSummary \/
       /\ destination.status \in Outcomes \cup {"failed"}
       /\ destination.codes \subseteq FailureCodes
       /\ destination.records \subseteq Records /\ destination.evidence \subseteq Items

TypeInv == RunTypeOK /\ MeasureInv

\* The loop positions and findings of an invocation that is over, or begins.
LEMMA FreshTypes ==
    ASSUME TypeInv, p' = 1, e' = 1, k' = 1, codes' = {}, records' = {}, evidence' = {},
           phase' \in Phases, staging' \in {"absent", "open", "written"},
           runs' \in 0..MaxRuns, UNCHANGED destination
    PROVE  RunTypeOK'
BY CoreConstants, MeasureConstants DEF TypeInv, RunTypeOK, Environment

\* A typed worker failure.
LEMMA WorkerFailedTypes ==
    ASSUME TypeInv, NEW code \in FailureCodes, NEW s \in ShapeSet \cup {Aggregate},
           WorkerFailed(code, s)
    PROVE  TypeInv'
<1>1. Environment[e] \in Stacks /\ p \in DOMAIN Precisions
  BY DEF TypeInv, RunTypeOK, Environment, Stacks
<1>2. FailureOf(code, Environment[e], s) \in Records
  BY <1>1, FailureType
<1>3. Item("worker", s, code) \in Items
  BY <1>1, ItemType DEF Gates
<1>4. MeasureInv'
  BY MeasureUnchanged DEF WorkerFailed, TypeInv
<1>5. RunTypeOK'
  BY <1>2, <1>3 DEF WorkerFailed, TypeInv, RunTypeOK, Phases
<1> QED
  BY <1>4, <1>5 DEF TypeInv

\* An invocation starts and ends with nothing found.
LEMMA TypeInit == Init => TypeInv
<1> SUFFICES ASSUME Init PROVE TypeInv
  OBVIOUS
<1>1. MeasureInv
  <2>1. MeasurementTypeOK
    BY MeasureConstants DEF Init, MeasurementOff, MeasurementTypeOK, Stages
  <2> QED
    BY <2>1 DEF Init, MeasurementOff, MeasureInv, PairUnderway, Underway, AcceptedRecordsArePairs
<1>2. RunTypeOK
  BY CoreConstants, MeasureConstants DEF Init, RunTypeOK, Phases, Environment
<1> QED
  BY <1>1, <1>2 DEF TypeInv

\* No action leaves the types, and the measurement keeps its own invariant.
LEMMA TypeStep == TypeInv /\ [Next]_vars => TypeInv'
<1> SUFFICES ASSUME TypeInv, [Next]_vars PROVE TypeInv'
  OBVIOUS
<1>m. UNCHANGED mvars => MeasureInv'
  BY MeasureUnchanged DEF TypeInv
<1>1. CASE Begin
  <2>1. MeasureInv' /\ RunTypeOK'
    BY <1>1, MeasureReset, FreshTypes, CoreConstants DEF Begin, TypeInv, RunTypeOK, Phases
  <2> QED
    BY <2>1 DEF TypeInv
<1>2. CASE BuildConfirmations
  BY <1>2, <1>m, MeasureConstants DEF BuildConfirmations, TypeInv, RunTypeOK, Phases
<1>3. ASSUME NEW kind \in BuildErrors, BuildFails(kind) PROVE TypeInv'
  BY <1>3, WorkerCodes, WorkerFailedTypes DEF BuildFails
<1>4. CASE RunCorrectness
  BY <1>4, <1>m, MeasureConstants DEF RunCorrectness, TypeInv, RunTypeOK, Phases, Environment
<1>5. ASSUME NEW kind \in RunErrors, RunFails(kind) PROVE TypeInv'
  <2>1. Shapes[k] \in ShapeSet /\ ContextualCode(kind, Environment[e] = "baseline") \in FailureCodes
    BY WorkerCodes, MeasureConstants DEF TypeInv, RunTypeOK
  <2> QED
    BY <1>5, <2>1, WorkerFailedTypes DEF RunFails
<1>6. CASE CompareShape
  <2>1. PICK f \in Facts :
          LET case == CompareCase(f, RequireBitwise) IN
          /\ evidence' = evidence \cup {Item("case", Shapes[k], case.code)}
          /\ codes' = codes \cup CodeSet(case.code)
          /\ records' = IF case.code = NoFailure THEN records
                        ELSE records \cup RecordsOf(case.baseline, "baseline", Shapes[k])
                                     \cup RecordsOf(case.candidate, "candidate", Shapes[k])
    BY <1>6 DEF CompareShape
  <2> DEFINE case == CompareCase(f, RequireBitwise)
  <2>2. Shapes[k] \in ShapeSet /\ p \in DOMAIN Precisions
    BY MeasureConstants DEF TypeInv, RunTypeOK
  <2>3. /\ case.code \in FailureCodes \cup {NoFailure}
        /\ case.baseline \in FailureCodes \cup {NoFailure}
        /\ case.candidate \in FailureCodes \cup {NoFailure}
    BY CaseCodes DEF FailureCodes
  <2> HIDE DEF case
  <2>4. Item("case", Shapes[k], case.code) \in Items
    BY <2>2, <2>3, ItemType DEF Gates
  <2>5. /\ RecordsOf(case.baseline, "baseline", Shapes[k]) \subseteq Records
        /\ RecordsOf(case.candidate, "candidate", Shapes[k]) \subseteq Records
    BY <2>2, <2>3, FailureType DEF RecordsOf, Stacks
  <2>6. codes' \subseteq FailureCodes /\ records' \subseteq Records /\ evidence' \subseteq Items
    BY <2>1, <2>3, <2>4, <2>5 DEF TypeInv, RunTypeOK, CodeSet, case
  <2>7. /\ k' \in DOMAIN Shapes /\ phase' \in Phases /\ UNCHANGED <<p, e, staging, destination, runs, mvars>>
    BY <1>6, MeasureConstants DEF CompareShape, TypeInv, RunTypeOK, Phases
  <2> QED
    BY <1>m, <2>6, <2>7 DEF TypeInv, RunTypeOK
<1>7. CASE JudgeMemory
  <2>1. PICK steady \in [Metrics -> BOOLEAN], exceeding \in [Metrics -> 0..Builds] :
          LET outcome == [m \in Metrics |-> MemoryGate(steady[m], exceeding[m], Builds)] IN
          /\ evidence' = evidence \cup {Item(m, m, outcome[m]) : m \in Metrics}
          /\ codes' = codes \cup UNION {MemoryCodes(outcome[m]) : m \in Metrics}
          /\ records' = records \cup
               {FailureOf("MEMORY_REGRESSION", "candidate", m) :
                  m \in {m \in Metrics : outcome[m] = "regression"}}
    BY <1>7 DEF JudgeMemory
  <2> DEFINE outcome == [m \in Metrics |-> MemoryGate(steady[m], exceeding[m], Builds)]
  <2>2. ASSUME NEW m \in Metrics
        PROVE  /\ outcome[m] \in Outcomes
               /\ MemoryCodes(outcome[m]) \subseteq FailureCodes
               /\ Item(m, m, outcome[m]) \in Items
               /\ FailureOf("MEMORY_REGRESSION", "candidate", m) \in Records
    <3>1. outcome[m] \in Outcomes /\ MemoryCodes(outcome[m]) \subseteq FailureCodes
      BY MemoryOutcomes DEF FailureCodes
    <3> HIDE DEF outcome
    <3>2. p \in DOMAIN Precisions
      BY DEF TypeInv, RunTypeOK
    <3>3. Item(m, m, outcome[m]) \in Items
      BY <3>1, <3>2, ItemType DEF Gates
    <3>4. FailureOf("MEMORY_REGRESSION", "candidate", m) \in Records
      BY <3>2, FailureType DEF FailureCodes, Stacks
    <3> QED
      BY <3>1, <3>3, <3>4
  <2>3. codes' \subseteq FailureCodes /\ records' \subseteq Records /\ evidence' \subseteq Items
    <3> HIDE DEF outcome
    <3>1. /\ evidence' = evidence \cup {Item(m, m, outcome[m]) : m \in Metrics}
          /\ codes' = codes \cup UNION {MemoryCodes(outcome[m]) : m \in Metrics}
          /\ records' = records \cup
               {FailureOf("MEMORY_REGRESSION", "candidate", m) :
                  m \in {m \in Metrics : outcome[m] = "regression"}}
      BY <2>1 DEF outcome
    <3> QED
      BY <2>2, <3>1 DEF TypeInv, RunTypeOK
  <2>4. MeasureInv'
    BY <1>7, MeasureReset DEF JudgeMemory, StartMeasurement
  <2> QED
    BY <1>7, <2>3, <2>4 DEF JudgeMemory, TypeInv, RunTypeOK, Phases
<1>8. CASE MeasureBlocks
  BY <1>8, MeasureStep DEF MeasureBlocks, TypeInv, RunTypeOK, Phases
<1>9. CASE Abandon
  <2>1. MeasureInv' /\ RunTypeOK'
    BY <1>9, MeasureReset, FreshTypes DEF Abandon, TypeInv, RunTypeOK, Phases
  <2> QED
    BY <2>1 DEF TypeInv
<1>10. CASE JudgePerformance
  <2>1. PICK estimates \in [ShapeSet -> Estimates], aggregate \in Estimates :
          LET outcome == WeightedGate(pairs, MinPairs, estimates, aggregate) IN
          IF outcome = "infrastructure_invalid" THEN Abandon
          ELSE /\ evidence' = evidence \cup {Item("performance", Aggregate, outcome)}
               /\ codes' = codes \cup PerformanceCodes(outcome)
               /\ records' = IF outcome = "regression"
                             THEN records \cup
                                  {FailureOf("PERFORMANCE_REGRESSION", "candidate", Aggregate)}
                             ELSE records
               /\ IF p < Len(Precisions)
                  THEN p' = p + 1 /\ e' = 1 /\ k' = 1 /\ phase' = "build"
                  ELSE phase' = "publish" /\ UNCHANGED <<p, e, k>>
               /\ UNCHANGED <<staging, destination, runs, mvars>>
    BY <1>10 DEF JudgePerformance
  <2> DEFINE outcome == WeightedGate(pairs, MinPairs, estimates, aggregate)
  <2>2. outcome \in Outcomes
    BY TimingGate DEF TypeInv, MeasureInv
  <2> HIDE DEF outcome
  <2>3. CASE outcome = "infrastructure_invalid"
    BY <2>1, <2>3, <1>9 DEF outcome
  <2>4. CASE outcome # "infrastructure_invalid"
    <3>1. /\ evidence' = evidence \cup {Item("performance", Aggregate, outcome)}
          /\ codes' = codes \cup PerformanceCodes(outcome)
          /\ records' = IF outcome = "regression"
                        THEN records \cup
                             {FailureOf("PERFORMANCE_REGRESSION", "candidate", Aggregate)}
                        ELSE records
          /\ IF p < Len(Precisions)
             THEN p' = p + 1 /\ e' = 1 /\ k' = 1 /\ phase' = "build"
             ELSE phase' = "publish" /\ UNCHANGED <<p, e, k>>
          /\ UNCHANGED <<staging, destination, runs, mvars>>
      BY <2>1, <2>4 DEF outcome
    <3>2. p \in DOMAIN Precisions
      BY DEF TypeInv, RunTypeOK
    <3>3. Item("performance", Aggregate, outcome) \in Items
      BY <2>2, <3>2, ItemType DEF Gates
    <3>4. FailureOf("PERFORMANCE_REGRESSION", "candidate", Aggregate) \in Records
      BY <3>2, FailureType DEF FailureCodes, Stacks
    <3>5. PerformanceCodes(outcome) \subseteq FailureCodes
      BY <2>2, TimingCodes DEF FailureCodes
    <3>6. codes' \subseteq FailureCodes /\ records' \subseteq Records /\ evidence' \subseteq Items
      BY <3>1, <3>3, <3>4, <3>5 DEF TypeInv, RunTypeOK
    <3>7. p' \in DOMAIN Precisions /\ e' \in DOMAIN Environment /\ k' \in DOMAIN Shapes /\ phase' \in Phases
      BY <3>1, CoreConstants, MeasureConstants DEF TypeInv, RunTypeOK, Phases, Environment
    <3> QED
      BY <1>m, <3>1, <3>6, <3>7 DEF TypeInv, RunTypeOK
  <2> QED
    BY <2>3, <2>4
<1>11. CASE WriteSummary
  BY <1>11, <1>m DEF WriteSummary, TypeInv, RunTypeOK
<1>12. CASE Publish
  <2>1. MeasureInv'
    BY <1>12, MeasureReset DEF Publish
  <2>2. /\ destination'.status \in Outcomes \cup {"failed"}
        /\ destination'.codes \subseteq FailureCodes
        /\ destination'.records \subseteq Records /\ destination'.evidence \subseteq Items
    BY <1>12 DEF Publish, Summary, Status, Outcomes, TypeInv, RunTypeOK
  <2>3. RunTypeOK'
    BY <1>12, <2>2, CoreConstants, MeasureConstants DEF Publish, TypeInv, RunTypeOK, Phases, Environment
  <2> QED
    BY <2>1, <2>3 DEF TypeInv
<1>13. CASE Interrupted
  BY <1>13, <1>9 DEF Interrupted
<1>14. CASE UNCHANGED vars
  BY <1>14, <1>m DEF vars, cvars, TypeInv, RunTypeOK
<1> QED
  BY <1>1, <1>2, <1>3, <1>4, <1>5, <1>6, <1>7, <1>8, <1>10, <1>11, <1>12, <1>13, <1>14 DEF Next

\* The types and the measurement of every reachable state.
LEMMA TypeInvariant == Spec => []TypeInv
BY TypeInit, TypeStep, PTL DEF Spec

\* Types, for every value of the constants: among them, that a pair is never
\* counted past the minimum and the attempts never pass their limit.
THEOREM CoreTypeCorrect == Spec => []CoreTypeOK
<1>1. TypeInv => CoreTypeOK
  BY DEF TypeInv, RunTypeOK, MeasureInv, CoreTypeOK
<1> QED
  BY <1>1, TypeInvariant, PTL

\* The raw blocks that a summary keeps are the pairs its gate counted, whatever
\* the GPU did between any two observations (_run_performance).
THEOREM AcceptedArePairs == Spec => []AcceptedRecordsArePairs
<1>1. TypeInv => AcceptedRecordsArePairs
  BY DEF TypeInv, MeasureInv
<1> QED
  BY <1>1, TypeInvariant, PTL

-----------------------------------------------------------------------------
(***************************************************************************)
(* The evidence grows by one item of one precision at a time.              *)
(***************************************************************************)
\* An item belongs to one gate of one precision: adding items of one gate and
\* precision leaves every other as it was.
LEMMA OtherItems ==
    ASSUME NEW q \in DOMAIN Precisions, NEW new,
           \A i \in new : i.precision = Precisions[q],
           evidence' = evidence \cup new
    PROVE  /\ \A g : ItemsOf(g, q)' = ItemsOf(g, q) \cup {i \in new : i.gate = g}
           /\ \A g : \A n \in DOMAIN Precisions : n # q => ItemsOf(g, n)' = ItemsOf(g, n)
<1>1. \A g : ItemsOf(g, q)' = ItemsOf(g, q) \cup {i \in new : i.gate = g}
  BY DEF ItemsOf
<1>2. ASSUME NEW g, NEW n \in DOMAIN Precisions, n # q PROVE ItemsOf(g, n)' = ItemsOf(g, n)
  <2>1. Precisions[n] # Precisions[q]
    BY <1>2, CoreConstants
  <2> QED
    BY <2>1 DEF ItemsOf
<1> QED
  BY <1>1, <1>2

\* What was decided of the earlier precisions stays decided.
LEMMA EarlierKept ==
    ASSUME NEW q \in DOMAIN Precisions, NEW m, NEW gates, EvidenceAt(q, m, gates),
           NEW new, \A i \in new : i.precision = Precisions[q],
           evidence' = evidence \cup new
    PROVE  /\ (\A i \in evidence : \E n \in 1..q : i.precision = Precisions[n])'
           /\ \A n \in 1..(q - 1) : Decided(n)'
<1>1. (\A i \in evidence : \E n \in 1..q : i.precision = Precisions[n])'
  <2>1. q \in 1..q
    BY CoreConstants
  <2> QED
    BY <2>1 DEF EvidenceAt
<1>2. ASSUME NEW n \in 1..(q - 1) PROVE Decided(n)'
  <2>1. Decided(n) /\ n \in DOMAIN Precisions /\ n # q
    BY CoreConstants DEF EvidenceAt
  <2>2. \A g : ItemsOf(g, n)' = ItemsOf(g, n)
    BY <2>1, OtherItems
  <2>3. Compared(n, Len(Shapes))'
    BY <2>1, <2>2 DEF Decided, Compared
  <2>4. \A g \in Required : OneItem(g, n)'
    BY <2>1, <2>2 DEF Decided, OneItem
  <2> QED
    BY <2>3, <2>4 DEF Decided, Required
<1> QED
  BY <1>1, <1>2

\* Nothing decided: where an invocation starts.
LEMMA NoEvidence ==
    ASSUME evidence = {}, NEW q \in {1}
    PROVE  EvidenceAt(q, 0, {})
BY DEF EvidenceAt, Compared, ItemsOf

\* The next shape of the precision is compared.
LEMMA AddCase ==
    ASSUME NEW q \in DOMAIN Precisions, NEW m \in Nat, m + 1 \in DOMAIN Shapes,
           EvidenceAt(q, m, {}), NEW item,
           item.gate = "case", item.precision = Precisions[q], item.shape = Shapes[m + 1],
           evidence' = evidence \cup {item}
    PROVE  EvidenceAt(q, m + 1, {})'
<1> DEFINE new == {item}
<1>0. (\A i \in new : i.precision = Precisions[q]) /\ evidence' = evidence \cup new
  OBVIOUS
<1>a. \A g : {i \in new : i.gate = g} = IF g = item.gate THEN {item} ELSE {}
  OBVIOUS
<1>b. item \in evidence'
  OBVIOUS
<1> HIDE DEF new
<1>1. /\ ItemsOf("case", q)' = ItemsOf("case", q) \cup {item}
      /\ \A g \in Required : ItemsOf(g, q)' = ItemsOf(g, q)
  <2>1. \A g : ItemsOf(g, q)' = ItemsOf(g, q) \cup {i \in new : i.gate = g}
    BY <1>0, OtherItems
  <2>2. "case" \notin Required
    BY CoreConstants DEF Required
  <2>3. \A g : g # "case" => {i \in new : i.gate = g} = {}
    BY <1>a
  <2>4. {i \in new : i.gate = "case"} = {item}
    BY <1>a
  <2>5. ItemsOf("case", q)' = ItemsOf("case", q) \cup {item}
    BY <2>1, <2>4
  <2>6. ASSUME NEW g \in Required PROVE ItemsOf(g, q)' = ItemsOf(g, q)
    BY <2>1, <2>2, <2>3
  <2> QED
    BY <2>5, <2>6
<1>2. {i.shape : i \in ItemsOf("case", q)} = {Shapes[j] : j \in 1..m}
      /\ \A i, j \in ItemsOf("case", q) : i.shape = j.shape => i = j
  BY DEF EvidenceAt, Compared
<1>3. \A i \in ItemsOf("case", q) : i.shape # item.shape
  <2>1. \A j \in 1..m : Shapes[j] # Shapes[m + 1]
    BY MeasurementAssumption, MeasureConstants
  <2> QED
    BY <1>2, <2>1
<1>4. {Shapes[j] : j \in 1..(m + 1)} = {Shapes[j] : j \in 1..m} \cup {item.shape}
  <2>1. 1..(m + 1) = 1..m \cup {m + 1}
    OBVIOUS
  <2> QED
    BY <2>1
<1>5. Compared(q, m + 1)'
  <2>1. ({i.shape : i \in ItemsOf("case", q)} = {Shapes[j] : j \in 1..(m + 1)})'
    BY <1>1, <1>2, <1>4
  <2>2. (\A i, j \in ItemsOf("case", q) : i.shape = j.shape => i = j)'
    BY <1>1, <1>2, <1>3
  <2> QED
    BY <2>1, <2>2 DEF Compared
<1>6. \A g \in Required : ItemsOf(g, q)' = {}
  BY <1>1 DEF EvidenceAt
<1>7. /\ (\A i \in evidence : \E n \in 1..q : i.precision = Precisions[n])'
      /\ \A n \in 1..(q - 1) : Decided(n)'
  BY <1>0, EarlierKept
<1> QED
  BY <1>5, <1>6, <1>7 DEF EvidenceAt, Required

\* Each metric gets its one item.
LEMMA AddMemory ==
    ASSUME NEW q \in DOMAIN Precisions, EvidenceAt(q, Len(Shapes), {}), NEW item,
           \A m \in Metrics : item[m].gate = m /\ item[m].precision = Precisions[q],
           evidence' = evidence \cup {item[m] : m \in Metrics}
    PROVE  EvidenceAt(q, Len(Shapes), Metrics)'
<1> DEFINE new == {item[m] : m \in Metrics}
<1>1. \A i \in new : i.precision = Precisions[q]
  OBVIOUS
<1>2. \A g : {i \in new : i.gate = g} = IF g \in Metrics THEN {item[g]} ELSE {}
  OBVIOUS
<1>3. evidence' = evidence \cup new
  OBVIOUS
<1>4. \A m \in Metrics : item[m] \in new
  OBVIOUS
<1> HIDE DEF new
<1>5. \A g : ItemsOf(g, q)' = ItemsOf(g, q) \cup {i \in new : i.gate = g}
  BY <1>1, <1>3, OtherItems
<1>6. Compared(q, Len(Shapes))'
  <2>1. {i \in new : i.gate = "case"} = {}
    BY <1>2, CoreConstants
  <2>2. ItemsOf("case", q)' = ItemsOf("case", q)
    <3>1. ItemsOf("case", q)' = ItemsOf("case", q) \cup {i \in new : i.gate = "case"}
      BY <1>5
    <3> QED
      BY <2>1, <3>1
  <2> QED
    BY <2>2 DEF EvidenceAt, Compared
<1>7. ASSUME NEW g \in Metrics PROVE OneItem(g, q)'
  <2>1. ItemsOf(g, q)' = {item[g]} /\ item[g] \in evidence'
    BY <1>2, <1>3, <1>4, <1>5 DEF EvidenceAt, Required
  <2> QED
    BY <2>1 DEF OneItem
<1>8. ItemsOf("performance", q)' = {}
  BY <1>2, <1>5, CoreConstants DEF EvidenceAt, Required
<1>9. /\ (\A i \in evidence : \E n \in 1..q : i.precision = Precisions[n])'
      /\ \A n \in 1..(q - 1) : Decided(n)'
  BY <1>1, <1>3, EarlierKept
<1> QED
  BY <1>6, <1>7, <1>8, <1>9, CoreConstants DEF EvidenceAt, Required

\* The timing gate gets its one item, and the precision is decided.
LEMMA AddPerformance ==
    ASSUME NEW q \in DOMAIN Precisions, EvidenceAt(q, Len(Shapes), Metrics), NEW item,
           item.gate = "performance", item.precision = Precisions[q],
           evidence' = evidence \cup {item}
    PROVE  EvidenceAt(q, Len(Shapes), Required)'
<1> DEFINE new == {item}
<1>0. (\A i \in new : i.precision = Precisions[q]) /\ evidence' = evidence \cup new
  OBVIOUS
<1>a. \A g : {i \in new : i.gate = g} = IF g = item.gate THEN {item} ELSE {}
  OBVIOUS
<1>b. item \in evidence'
  OBVIOUS
<1> HIDE DEF new
<1>1. /\ ItemsOf("performance", q)' = ItemsOf("performance", q) \cup {item}
      /\ \A g : g # "performance" => ItemsOf(g, q)' = ItemsOf(g, q)
  <2>1. \A g : ItemsOf(g, q)' = ItemsOf(g, q) \cup {i \in new : i.gate = g}
    BY <1>0, OtherItems
  <2> QED
    BY <2>1, <1>a
<1>2. Compared(q, Len(Shapes))'
  BY <1>1 DEF EvidenceAt, Compared
<1>3. OneItem("performance", q)'
  <2>1. ItemsOf("performance", q)' = {item}
    BY <1>1, CoreConstants DEF EvidenceAt, Required
  <2> QED
    BY <2>1, <1>b DEF OneItem
<1>4. ASSUME NEW g \in Metrics PROVE OneItem(g, q)'
  <2>1. OneItem(g, q) /\ ItemsOf(g, q)' = ItemsOf(g, q)
    BY <1>1, CoreConstants DEF EvidenceAt, Required
  <2> QED
    BY <2>1 DEF OneItem
<1>5. /\ (\A i \in evidence : \E n \in 1..q : i.precision = Precisions[n])'
      /\ \A n \in 1..(q - 1) : Decided(n)'
  BY <1>0, EarlierKept
<1> QED
  BY <1>2, <1>3, <1>4, <1>5 DEF EvidenceAt, Required

\* With one precision decided, nothing is known yet of the next.
LEMMA NextPrecision ==
    ASSUME NEW q \in DOMAIN Precisions, q + 1 \in DOMAIN Precisions,
           EvidenceAt(q, Len(Shapes), Required)'
    PROVE  EvidenceAt(q + 1, 0, {})'
<1>1. q \in Nat /\ Decided(q)'
  BY CoreConstants DEF EvidenceAt, Decided, Required
<1>2. (\A i \in evidence : \E n \in 1..(q + 1) : i.precision = Precisions[n])'
  BY <1>1 DEF EvidenceAt
<1>3. \A n \in 1..((q + 1) - 1) : Decided(n)'
  BY <1>1 DEF EvidenceAt
<1>4. \A g : ItemsOf(g, q + 1)' = {}
  <2>1. \A n \in 1..q : Precisions[n] # Precisions[q + 1]
    BY <1>1, CoreConstants
  <2> QED
    BY <2>1 DEF EvidenceAt, ItemsOf
<1>5. Compared(q + 1, 0)'
  BY <1>4 DEF Compared
<1> QED
  BY <1>2, <1>3, <1>4, <1>5 DEF EvidenceAt, Required

-----------------------------------------------------------------------------
(***************************************************************************)
(* Every invocation collects the evidence in order.                        *)
(***************************************************************************)
\* An invocation begins, or is over.
LEMMA FreshEvidence ==
    ASSUME evidence' = {}, p' = 1, phase' \in {"idle", "build"}
    PROVE  EvidenceInv'
BY DEF EvidenceInv, EvidenceAt, ComparedSoFar, GatesSoFar, Compared, ItemsOf

\* Evidence that no step touches shows what it showed.
LEMMA EvidenceStays ==
    ASSUME NEW q, NEW m, NEW gates, EvidenceAt(q, m, gates), UNCHANGED evidence
    PROVE  EvidenceAt(q, m, gates)'
<1>1. \A g, n : ItemsOf(g, n)' = ItemsOf(g, n)
  BY DEF ItemsOf
<1>2. \A g, n : OneItem(g, n) => OneItem(g, n)'
  BY <1>1 DEF OneItem
<1>3. \A n, l : Compared(n, l) => Compared(n, l)'
  BY <1>1 DEF Compared
<1>4. \A n : Decided(n) => Decided(n)'
  BY <1>2, <1>3 DEF Decided, Required
<1> QED
  BY <1>1, <1>2, <1>3, <1>4 DEF EvidenceAt, Required

\* A step between two decisions.
LEMMA SameEvidence ==
    ASSUME EvidenceInv, UNCHANGED <<evidence, p>>,
           phase # "publish", phase' # "publish",
           ComparedSoFar' = ComparedSoFar, GatesSoFar' = GatesSoFar
    PROVE  EvidenceInv'
<1>1. EvidenceAt(p, ComparedSoFar, GatesSoFar)
  BY DEF EvidenceInv, WorkerEnded
<1>2. PICK q, m, gates : q = p /\ m = ComparedSoFar /\ gates = GatesSoFar
  OBVIOUS
<1>3. EvidenceAt(q, m, gates)'
  BY <1>1, <1>2, EvidenceStays
<1>4. p' = q /\ ComparedSoFar' = m /\ GatesSoFar' = gates
  BY <1>2
<1> QED
  BY <1>3, <1>4 DEF EvidenceInv

\* A typed worker failure replaces what was found.
LEMMA WorkerEvidence ==
    ASSUME TypeInv, NEW code \in FailureCodes \ {"NUMERICAL_REGRESSION"},
           NEW s \in ShapeSet \cup {Aggregate}, WorkerFailed(code, s)
    PROVE  WorkerEnded'
<1>1. Environment[e] \in Stacks
  BY DEF TypeInv, RunTypeOK, Environment, Stacks
<1>2. /\ codes' = {code} /\ records' = {FailureOf(code, Environment[e], s)}
      /\ evidence' = {Item("worker", s, code)} /\ phase' = "publish" /\ p' = p
  BY DEF WorkerFailed
<1>3. FailureOf(code, Environment[e], s) = [code |-> code, env |-> Environment[e], precision |-> Precisions[p'], shape |-> s]
      /\ Item("worker", s, code) = [gate |-> "worker", precision |-> Precisions[p'], shape |-> s, outcome |-> code]
  BY <1>2 DEF FailureOf, Item, Precision
<1> QED
  BY <1>1, <1>2, <1>3 DEF WorkerEnded, FailureOf, Item, Precision

\* What the types say of the typed failures.
LEMMA WorkerFailures ==
    ASSUME TypeInv
    PROVE  /\ \A kind \in BuildErrors : BuildFails(kind) => WorkerEnded'
           /\ \A kind \in RunErrors : RunFails(kind) => WorkerEnded'
<1>1. ASSUME NEW kind \in BuildErrors, BuildFails(kind) PROVE WorkerEnded'
  BY <1>1, WorkerCodes, WorkerEvidence DEF BuildFails
<1>2. ASSUME NEW kind \in RunErrors, RunFails(kind) PROVE WorkerEnded'
  <2>1. /\ Shapes[k] \in ShapeSet
        /\ ContextualCode(kind, Environment[e] = "baseline") \in FailureCodes \ {"NUMERICAL_REGRESSION"}
    BY WorkerCodes, MeasureConstants DEF TypeInv, RunTypeOK
  <2> QED
    BY <1>2, <2>1, WorkerEvidence DEF RunFails
<1> QED
  BY <1>1, <1>2

\* Every step keeps the evidence complete for the cases already judged.
LEMMA EvidenceStep == TypeInv /\ EvidenceInv /\ [Next]_vars => EvidenceInv'
<1> SUFFICES ASSUME TypeInv, EvidenceInv, [Next]_vars PROVE EvidenceInv'
  OBVIOUS
<1>p. PICK q \in DOMAIN Precisions : q = p
  BY DEF TypeInv, RunTypeOK
<1>1. CASE Begin
  BY <1>1, FreshEvidence DEF Begin
<1>2. CASE BuildConfirmations
  BY <1>2, SameEvidence DEF BuildConfirmations, ComparedSoFar, GatesSoFar
<1>3. ASSUME NEW kind \in BuildErrors, BuildFails(kind) PROVE EvidenceInv'
  BY <1>3, WorkerFailures DEF EvidenceInv
<1>4. CASE RunCorrectness
  BY <1>4, SameEvidence, MeasureConstants DEF RunCorrectness, ComparedSoFar, GatesSoFar
<1>5. ASSUME NEW kind \in RunErrors, RunFails(kind) PROVE EvidenceInv'
  BY <1>5, WorkerFailures DEF EvidenceInv
<1>6. CASE CompareShape
  <2>1. PICK m \in Nat : k = m + 1 /\ m + 1 \in DOMAIN Shapes
    <3>1. k \in DOMAIN Shapes /\ k - 1 \in Nat /\ k = (k - 1) + 1
      BY MeasureConstants DEF TypeInv, RunTypeOK
    <3> QED
      BY <3>1
  <2>2. EvidenceAt(q, m, {})
    BY <1>6, <1>p, <2>1 DEF CompareShape, EvidenceInv, WorkerEnded, ComparedSoFar, GatesSoFar
  <2>3. PICK code : evidence' = evidence \cup {Item("case", Shapes[k], code)}
    BY <1>6 DEF CompareShape
  <2> DEFINE item == Item("case", Shapes[k], code)
  <2>4. item.gate = "case" /\ item.precision = Precisions[q] /\ item.shape = Shapes[m + 1]
    BY <1>p, <2>1 DEF Item, Precision
  <2> HIDE DEF item
  <2>5. EvidenceAt(q, m + 1, {})'
    BY <2>1, <2>2, <2>3, <2>4, AddCase DEF item
  <2>6. /\ p' = q /\ ComparedSoFar' = m + 1 /\ GatesSoFar' = {} /\ phase' # "publish"
    BY <1>6, <1>p, <2>1, MeasureConstants DEF CompareShape, ComparedSoFar, GatesSoFar
  <2> QED
    BY <2>5, <2>6 DEF EvidenceInv
<1>7. CASE JudgeMemory
  <2>1. EvidenceAt(q, Len(Shapes), {})
    BY <1>7, <1>p DEF JudgeMemory, EvidenceInv, WorkerEnded, ComparedSoFar, GatesSoFar
  <2>2. PICK outcome : evidence' = evidence \cup {Item(m, m, outcome[m]) : m \in Metrics}
    BY <1>7 DEF JudgeMemory
  <2> DEFINE item == [m \in Metrics |-> Item(m, m, outcome[m])]
  <2>3. /\ \A m \in Metrics : item[m].gate = m /\ item[m].precision = Precisions[q]
        /\ evidence' = evidence \cup {item[m] : m \in Metrics}
    BY <1>p, <2>2 DEF Item, Precision
  <2> HIDE DEF item
  <2>4. EvidenceAt(q, Len(Shapes), Metrics)'
    BY <2>1, <2>3, AddMemory
  <2>5. /\ p' = q /\ ComparedSoFar' = Len(Shapes) /\ GatesSoFar' = Metrics /\ phase' # "publish"
    BY <1>7, <1>p DEF JudgeMemory, ComparedSoFar, GatesSoFar
  <2> QED
    BY <2>4, <2>5 DEF EvidenceInv
<1>8. CASE MeasureBlocks
  BY <1>8, SameEvidence DEF MeasureBlocks, ComparedSoFar, GatesSoFar
<1>9. CASE Abandon
  BY <1>9, FreshEvidence DEF Abandon
<1>10. CASE JudgePerformance
  <2>1. CASE Abandon
    BY <1>9, <2>1
  <2>2. CASE ~Abandon
    <3>1. PICK outcome :
            /\ evidence' = evidence \cup {Item("performance", Aggregate, outcome)}
            /\ IF p < Len(Precisions)
               THEN p' = p + 1 /\ e' = 1 /\ k' = 1 /\ phase' = "build"
               ELSE phase' = "publish" /\ UNCHANGED <<p, e, k>>
      BY <1>10, <2>2 DEF JudgePerformance
    <3>2. EvidenceAt(q, Len(Shapes), Metrics)
      BY <1>10, <1>p DEF JudgePerformance, EvidenceInv, WorkerEnded, ComparedSoFar, GatesSoFar
    <3> DEFINE item == Item("performance", Aggregate, outcome)
    <3>3. item.gate = "performance" /\ item.precision = Precisions[q]
      BY <1>p DEF Item, Precision
    <3> HIDE DEF item
    <3>4. EvidenceAt(q, Len(Shapes), Required)'
      BY <3>1, <3>2, <3>3, AddPerformance DEF item
    <3>5. CASE p < Len(Precisions)
      <4>1. q + 1 \in DOMAIN Precisions /\ p' = q + 1
        BY <1>p, <3>1, <3>5, CoreConstants
      <4>2. EvidenceAt(q + 1, 0, {})'
        BY <3>4, <4>1, NextPrecision
      <4>3. ComparedSoFar' = 0 /\ GatesSoFar' = {} /\ phase' # "publish"
        BY <3>1, <3>5 DEF ComparedSoFar, GatesSoFar
      <4> QED
        BY <4>1, <4>2, <4>3 DEF EvidenceInv
    <3>6. CASE ~(p < Len(Precisions))
      <4>1. p' = q /\ p' = Len(Precisions)
        BY <1>p, <3>1, <3>6, CoreConstants
      <4>2. ComparedSoFar' = Len(Shapes) /\ GatesSoFar' = Required
        BY <3>1, <3>6 DEF ComparedSoFar, GatesSoFar, Required
      <4> QED
        BY <3>4, <4>1, <4>2 DEF EvidenceInv
    <3> QED
      BY <3>5, <3>6
  <2> QED
    BY <2>1, <2>2
<1>11. CASE WriteSummary \/ UNCHANGED vars
  <2>1. UNCHANGED <<phase, p, k, codes, records, evidence>>
    BY <1>11 DEF WriteSummary, vars, cvars
  <2>2. CASE WorkerEnded
    BY <2>1, <2>2 DEF EvidenceInv, WorkerEnded, FailureOf, Item, Precision
  <2>3. CASE EvidenceAt(p, ComparedSoFar, GatesSoFar) /\ (phase = "publish" => p = Len(Precisions))
    <3>1. PICK m, gates : m = ComparedSoFar /\ gates = GatesSoFar
      OBVIOUS
    <3>2. EvidenceAt(q, m, gates)'
      BY <1>p, <2>1, <2>3, <3>1, EvidenceStays
    <3>3. p' = q /\ ComparedSoFar' = m /\ GatesSoFar' = gates
      BY <1>p, <2>1, <3>1 DEF ComparedSoFar, GatesSoFar, Required
    <3> QED
      BY <1>p, <2>1, <2>3, <3>2, <3>3 DEF EvidenceInv
  <2> QED
    BY <2>2, <2>3 DEF EvidenceInv
<1>12. CASE Publish
  BY <1>12, FreshEvidence DEF Publish
<1>13. CASE Interrupted
  BY <1>13, <1>9 DEF Interrupted
<1> QED
  BY <1>1, <1>2, <1>3, <1>4, <1>5, <1>6, <1>7, <1>8, <1>10, <1>11, <1>12, <1>13 DEF Next

-----------------------------------------------------------------------------
(***************************************************************************)
(* The codes and the failure records follow the evidence.                  *)
(***************************************************************************)
FoundInv == CleanWhenNoCode /\ CodesHaveRecords /\ NumericalHasCase /\ BlameHasEvidence

\* A decision adds items, codes and records that answer each other.
Grows(newItems, newCodes, newRecords) ==
    /\ evidence' = evidence \cup newItems
    /\ codes' = codes \cup newCodes
    /\ records' = records \cup newRecords
    /\ newCodes = {} => \A i \in newItems : i.outcome \notin Bad
    /\ newCodes \ {"INFRASTRUCTURE_INVALID", "INCONCLUSIVE"} \subseteq {r.code : r \in newRecords}
    /\ \A r \in newRecords : r.code = "NUMERICAL_REGRESSION" =>
          \E i \in newItems : /\ i.gate = "case" /\ i.outcome = r.code
                              /\ i.precision = r.precision /\ i.shape = r.shape
    /\ \A r \in newRecords : r.env = "candidate" /\ r.shape \in ShapeSet =>
          \/ "CORPUS_INVALID" \in newCodes
          \/ \E i \in newItems : /\ i.precision = r.precision /\ i.shape = r.shape
                                 /\ i.outcome = r.code

\* Such a decision keeps what the codes and the records say of the evidence.
LEMMA FoundGrows ==
    ASSUME FoundInv, NEW newItems, NEW newCodes, NEW newRecords,
           Grows(newItems, newCodes, newRecords)
    PROVE  FoundInv'
<1>1. CleanWhenNoCode'
  BY DEF Grows, FoundInv, CleanWhenNoCode, Bad
<1>2. CodesHaveRecords'
  BY DEF Grows, FoundInv, CodesHaveRecords
<1>3. NumericalHasCase'
  BY DEF Grows, FoundInv, NumericalHasCase
<1>4. BlameHasEvidence'
  BY DEF Grows, FoundInv, BlameHasEvidence
<1> QED
  BY <1>1, <1>2, <1>3, <1>4 DEF FoundInv

\* Nothing was found yet.
LEMMA NothingFound ==
    ASSUME codes' = {}, records' = {}, evidence' = {}
    PROVE  FoundInv'
BY DEF FoundInv, CleanWhenNoCode, CodesHaveRecords, NumericalHasCase, BlameHasEvidence

\* A typed worker failure is recorded by its code, never as a numerical one, and
\* its item says the same.
LEMMA WorkerFound == WorkerEnded => FoundInv
<1> SUFFICES ASSUME WorkerEnded PROVE FoundInv
  OBVIOUS
<1>1. PICK s \in ShapeSet \cup {Aggregate}, env \in Stacks, c \in FailureCodes \ {"NUMERICAL_REGRESSION"} :
        /\ codes = {c} /\ records = {FailureOf(c, env, s)}
        /\ evidence = {Item("worker", s, c)}
  BY DEF WorkerEnded
<1> QED
  BY <1>1 DEF FoundInv, CleanWhenNoCode, CodesHaveRecords, NumericalHasCase, BlameHasEvidence,
     FailureOf, Item

\* One compared case: its code has the record of the run that decided it.
LEMMA CaseFound == TypeInv /\ FoundInv /\ CompareShape => FoundInv'
<1> SUFFICES ASSUME TypeInv, FoundInv, CompareShape PROVE FoundInv'
  OBVIOUS
<1>1. PICK f \in Facts :
        LET case == CompareCase(f, RequireBitwise) IN
        /\ evidence' = evidence \cup {Item("case", Shapes[k], case.code)}
        /\ codes' = codes \cup CodeSet(case.code)
        /\ records' = IF case.code = NoFailure THEN records
                      ELSE records \cup RecordsOf(case.baseline, "baseline", Shapes[k])
                                   \cup RecordsOf(case.candidate, "candidate", Shapes[k])
  BY DEF CompareShape
<1> DEFINE case == CompareCase(f, RequireBitwise)
           newItems == {Item("case", Shapes[k], case.code)}
           newCodes == CodeSet(case.code)
           newRecords == IF case.code = NoFailure THEN {}
                         ELSE RecordsOf(case.baseline, "baseline", Shapes[k])
                              \cup RecordsOf(case.candidate, "candidate", Shapes[k])
<1>2. /\ case.code \in FailureCodes \cup {NoFailure}
      /\ case.baseline \in {NoFailure, "CORPUS_INVALID"}
      /\ case.candidate \in {NoFailure, "OUTPUT_SCHEMA_CHANGED",
                             "NUMERICAL_REGRESSION", "NONDETERMINISM_REGRESSION"}
      /\ case.code # NoFailure => case.code \in {case.baseline, case.candidate}
      /\ case.candidate = "NUMERICAL_REGRESSION" => case.code = "NUMERICAL_REGRESSION"
      /\ case.code # NoFailure /\ case.candidate # NoFailure
             => case.code \in {case.candidate, "CORPUS_INVALID"}
  BY CaseCodes
<1>3. evidence' = evidence \cup newItems /\ codes' = codes \cup newCodes /\ records' = records \cup newRecords
  BY <1>1
<1> HIDE DEF case
<1>4. \A r \in newRecords :
        /\ r.precision = Precision /\ r.shape = Shapes[k] /\ case.code # NoFailure
        /\ \/ r.env = "baseline" /\ r.code = "CORPUS_INVALID" /\ r.code = case.baseline
           \/ r.env = "candidate" /\ r.code = case.candidate /\ r.code # NoFailure
  BY <1>2 DEF RecordsOf, FailureOf
<1>5. \A i \in newItems : /\ i.gate = "case" /\ i.precision = Precision
                          /\ i.shape = Shapes[k] /\ i.outcome = case.code
  BY DEF Item
<1>6. newCodes = IF case.code = NoFailure THEN {} ELSE {case.code}
  BY DEF CodeSet
<1>7. \E i \in newItems : TRUE
  OBVIOUS
<1>8. case.code # NoFailure => \E r \in newRecords : r.code = case.code
  <2>1. CASE case.code = case.baseline /\ case.code # NoFailure
    <3>1. FailureOf(case.baseline, "baseline", Shapes[k]) \in newRecords
      BY <2>1 DEF RecordsOf
    <3>2. FailureOf(case.baseline, "baseline", Shapes[k]).code = case.code
      BY <2>1 DEF FailureOf
    <3> QED
      BY <3>1, <3>2
  <2>2. CASE case.code = case.candidate /\ case.code # NoFailure
    <3>1. FailureOf(case.candidate, "candidate", Shapes[k]) \in newRecords
      BY <2>2 DEF RecordsOf
    <3>2. FailureOf(case.candidate, "candidate", Shapes[k]).code = case.code
      BY <2>2 DEF FailureOf
    <3> QED
      BY <3>1, <3>2
  <2> QED
    BY <1>2, <2>1, <2>2
<1> HIDE DEF newItems, newCodes, newRecords
<1>9. newCodes = {} => \A i \in newItems : i.outcome \notin Bad
  BY <1>5, <1>6 DEF Bad, FailureCodes, NoFailure
<1>10. newCodes \ {"INFRASTRUCTURE_INVALID", "INCONCLUSIVE"} \subseteq {r.code : r \in newRecords}
  BY <1>6, <1>8
<1>11. \A r \in newRecords : r.code = "NUMERICAL_REGRESSION" =>
          \E i \in newItems : /\ i.gate = "case" /\ i.outcome = r.code
                              /\ i.precision = r.precision /\ i.shape = r.shape
  BY <1>2, <1>4, <1>5, <1>7
<1>12. \A r \in newRecords : r.env = "candidate" /\ r.shape \in ShapeSet =>
          \/ "CORPUS_INVALID" \in newCodes
          \/ \E i \in newItems : /\ i.precision = r.precision /\ i.shape = r.shape
                                 /\ i.outcome = r.code
  BY <1>2, <1>4, <1>5, <1>6, <1>7
<1>13. Grows(newItems, newCodes, newRecords)
  BY <1>3, <1>9, <1>10, <1>11, <1>12 DEF Grows
<1> QED
  BY <1>13, FoundGrows

\* The memory gate: a metric that regressed has a record, one that could not be
\* judged a code alone.
LEMMA MemoryFound == TypeInv /\ FoundInv /\ JudgeMemory => FoundInv'
<1> SUFFICES ASSUME TypeInv, FoundInv, JudgeMemory PROVE FoundInv'
  OBVIOUS
<1>1. PICK steady \in [Metrics -> BOOLEAN], exceeding \in [Metrics -> 0..Builds] :
        LET outcome == [m \in Metrics |-> MemoryGate(steady[m], exceeding[m], Builds)] IN
        /\ evidence' = evidence \cup {Item(m, m, outcome[m]) : m \in Metrics}
        /\ codes' = codes \cup UNION {MemoryCodes(outcome[m]) : m \in Metrics}
        /\ records' = records \cup
             {FailureOf("MEMORY_REGRESSION", "candidate", m) :
                m \in {m \in Metrics : outcome[m] = "regression"}}
  BY DEF JudgeMemory
<1> DEFINE outcome == [m \in Metrics |-> MemoryGate(steady[m], exceeding[m], Builds)]
           newItems == {Item(m, m, outcome[m]) : m \in Metrics}
           newCodes == UNION {MemoryCodes(outcome[m]) : m \in Metrics}
           newRecords == {FailureOf("MEMORY_REGRESSION", "candidate", m) :
                            m \in {m \in Metrics : outcome[m] = "regression"}}
<1>2. ASSUME NEW m \in Metrics
      PROVE  /\ MemoryCodes(outcome[m]) \subseteq {"MEMORY_REGRESSION", "INFRASTRUCTURE_INVALID"}
             /\ outcome[m] \in Bad => MemoryCodes(outcome[m]) # {}
             /\ "MEMORY_REGRESSION" \in MemoryCodes(outcome[m]) => outcome[m] = "regression"
  BY MemoryOutcomes
<1>3. evidence' = evidence \cup newItems /\ codes' = codes \cup newCodes /\ records' = records \cup newRecords
  BY <1>1
<1> HIDE DEF outcome
<1>4. newCodes = {} => \A i \in newItems : i.outcome \notin Bad
  BY <1>2 DEF Item
<1>5. newCodes \ {"INFRASTRUCTURE_INVALID", "INCONCLUSIVE"} \subseteq {r.code : r \in newRecords}
  <2>1. SUFFICES ASSUME NEW c \in newCodes, c # "INFRASTRUCTURE_INVALID"
                 PROVE  \E r \in newRecords : r.code = c
    OBVIOUS
  <2>2. PICK m \in Metrics : c \in MemoryCodes(outcome[m])
    OBVIOUS
  <2>3. c = "MEMORY_REGRESSION" /\ outcome[m] = "regression"
    BY <1>2, <2>1, <2>2
  <2>4. FailureOf("MEMORY_REGRESSION", "candidate", m) \in newRecords
    BY <2>3
  <2>5. FailureOf("MEMORY_REGRESSION", "candidate", m).code = c
    BY <2>3 DEF FailureOf
  <2> QED
    BY <2>4, <2>5
<1>6. \A r \in newRecords : r.code = "MEMORY_REGRESSION" /\ r.shape \in Metrics
  BY DEF FailureOf
<1> HIDE DEF newItems, newCodes, newRecords
<1>7. Grows(newItems, newCodes, newRecords)
  BY <1>3, <1>4, <1>5, <1>6, CoreConstants DEF Grows
<1> QED
  BY <1>7, FoundGrows

\* The timing gate: a regression has a record, an inconclusive one a code alone.
LEMMA TimingFound ==
    ASSUME FoundInv, NEW outcome \in Outcomes,
           evidence' = evidence \cup {Item("performance", Aggregate, outcome)},
           codes' = codes \cup PerformanceCodes(outcome),
           records' = IF outcome = "regression"
                      THEN records \cup {FailureOf("PERFORMANCE_REGRESSION", "candidate", Aggregate)}
                      ELSE records
    PROVE  FoundInv'
<1> DEFINE newItems == {Item("performance", Aggregate, outcome)}
           newCodes == PerformanceCodes(outcome)
           newRecords == IF outcome = "regression"
                         THEN {FailureOf("PERFORMANCE_REGRESSION", "candidate", Aggregate)} ELSE {}
<1>1. evidence' = evidence \cup newItems /\ codes' = codes \cup newCodes /\ records' = records \cup newRecords
  OBVIOUS
<1>2. newCodes = {} => \A i \in newItems : i.outcome \notin Bad
  BY TimingCodes DEF Item
<1>3. newCodes \ {"INFRASTRUCTURE_INVALID", "INCONCLUSIVE"} \subseteq {r.code : r \in newRecords}
  BY TimingCodes DEF FailureOf
<1>4. \A r \in newRecords : r.code = "PERFORMANCE_REGRESSION" /\ r.shape = Aggregate
  BY DEF FailureOf
<1> HIDE DEF newItems, newCodes, newRecords
<1>5. Grows(newItems, newCodes, newRecords)
  BY <1>1, <1>2, <1>3, <1>4, CoreConstants DEF Grows
<1> QED
  BY <1>5, FoundGrows

\* No step lets the codes and the records say more than the evidence.
LEMMA FoundStep == TypeInv /\ FoundInv /\ [Next]_vars => FoundInv'
<1> SUFFICES ASSUME TypeInv, FoundInv, [Next]_vars PROVE FoundInv'
  OBVIOUS
<1>u. UNCHANGED <<codes, records, evidence>> => FoundInv'
  BY DEF FoundInv, CleanWhenNoCode, CodesHaveRecords, NumericalHasCase, BlameHasEvidence
<1>w. WorkerEnded' => FoundInv'
  BY WorkerFound, PTL
<1>1. CASE Begin \/ Abandon \/ Publish \/ Interrupted
  BY <1>1, NothingFound DEF Begin, Abandon, Publish, Interrupted
<1>2. CASE BuildConfirmations \/ RunCorrectness \/ MeasureBlocks \/ WriteSummary \/ UNCHANGED vars
  BY <1>2, <1>u DEF BuildConfirmations, RunCorrectness, MeasureBlocks, WriteSummary, vars, cvars
<1>3. CASE \/ \E kind \in BuildErrors : BuildFails(kind)
           \/ \E kind \in RunErrors : RunFails(kind)
  BY <1>3, <1>w, WorkerFailures
<1>4. CASE CompareShape
  BY <1>4, CaseFound
<1>5. CASE JudgeMemory
  BY <1>5, MemoryFound
<1>6. CASE JudgePerformance
  <2>1. CASE Abandon
    BY <1>1, <2>1
  <2>2. CASE ~Abandon
    <3>1. PICK estimates \in [ShapeSet -> Estimates], aggregate \in Estimates :
            LET outcome == WeightedGate(pairs, MinPairs, estimates, aggregate) IN
            /\ evidence' = evidence \cup {Item("performance", Aggregate, outcome)}
            /\ codes' = codes \cup PerformanceCodes(outcome)
            /\ records' = IF outcome = "regression"
                          THEN records \cup
                               {FailureOf("PERFORMANCE_REGRESSION", "candidate", Aggregate)}
                          ELSE records
      BY <1>6, <2>2 DEF JudgePerformance
    <3>2. WeightedGate(pairs, MinPairs, estimates, aggregate) \in Outcomes
      BY TimingGate DEF TypeInv, MeasureInv
    <3> QED
      BY <3>1, <3>2, TimingFound
  <2> QED
    BY <2>1, <2>2
<1> QED
  BY <1>1, <1>2, <1>3, <1>4, <1>5, <1>6 DEF Next

-----------------------------------------------------------------------------
(***************************************************************************)
(* Timing decisions and published summaries.                               *)
(***************************************************************************)
\* The timing gate of a precision is the last to be decided, and only its pairs
\* let it decide.
LEMMA PairsStep ==
    TypeInv /\ EvidenceInv /\ EvidenceInv' /\ DecidedFromPairs /\ [Next]_vars => DecidedFromPairs'
<1> SUFFICES ASSUME TypeInv, EvidenceInv, EvidenceInv', DecidedFromPairs, [Next]_vars
             PROVE  DecidedFromPairs'
  OBVIOUS
<1>1. CASE phase' # "publish"
  <2>1. EvidenceAt(p, ComparedSoFar, GatesSoFar)'
    BY <1>1 DEF EvidenceInv, WorkerEnded
  <2>2. "performance" \notin GatesSoFar'
    BY <1>1, CoreConstants DEF GatesSoFar
  <2>3. ItemsOf("performance", p)' = {}
    BY <2>1, <2>2 DEF EvidenceAt, Required
  <2> QED
    BY <2>3 DEF DecidedFromPairs, ItemsOf, Precision
<1>2. CASE WorkerEnded'
  BY <1>2 DEF WorkerEnded, DecidedFromPairs, Item
<1>3. CASE UNCHANGED <<evidence, p, pairs>>
  BY <1>3 DEF DecidedFromPairs, Precision
<1>4. CASE JudgePerformance /\ ~Abandon
  <2>1. PICK estimates \in [ShapeSet -> Estimates], aggregate \in Estimates :
          WeightedGate(pairs, MinPairs, estimates, aggregate) # "infrastructure_invalid"
    BY <1>4 DEF JudgePerformance
  <2>2. \A s \in ShapeSet : pairs[s] >= MinPairs
    BY <2>1, TimingGate DEF TypeInv, MeasureInv
  <2>3. UNCHANGED pairs
    BY <1>4 DEF JudgePerformance, mvars
  <2> QED
    BY <2>2, <2>3 DEF DecidedFromPairs
<1>5. \/ phase' # "publish" \/ WorkerEnded' \/ UNCHANGED <<evidence, p, pairs>>
      \/ JudgePerformance /\ ~Abandon
  <2>1. \A kind \in BuildErrors : BuildFails(kind) => WorkerEnded'
    BY WorkerFailures
  <2>2. \A kind \in RunErrors : RunFails(kind) => WorkerEnded'
    BY WorkerFailures
  <2>3. Abandon => phase' # "publish"
    BY DEF Abandon
  <2>4. Begin \/ BuildConfirmations \/ RunCorrectness \/ CompareShape \/ JudgeMemory \/ MeasureBlocks
        \/ Publish => phase' # "publish"
    BY DEF Begin, BuildConfirmations, RunCorrectness, CompareShape, JudgeMemory, MeasureBlocks, Publish
  <2>5. WriteSummary \/ UNCHANGED vars => UNCHANGED <<evidence, p, pairs>>
    BY DEF WriteSummary, vars, cvars, mvars
  <2> QED
    BY <2>1, <2>2, <2>3, <2>4, <2>5 DEF Next, Interrupted
<1> QED
  BY <1>1, <1>2, <1>3, <1>4, <1>5

\* The staged summary, when it is renamed to the destination.
LEMMA PublishStep == TypeInv /\ EvidenceInv /\ FoundInv /\ Publish => PublishedInv'
<1> SUFFICES ASSUME TypeInv, EvidenceInv, FoundInv, Publish PROVE PublishedInv'
  OBVIOUS
<1>1. /\ phase = "publish"
      /\ destination'.status = Status(codes) /\ destination'.codes = codes
      /\ destination'.records = records /\ destination'.evidence = evidence
  BY DEF Publish, Summary
<1>2. WorkerEnded \/ (EvidenceAt(p, Len(Shapes), Required) /\ p = Len(Precisions))
  BY <1>1 DEF EvidenceInv, ComparedSoFar, GatesSoFar
<1>3. ~WorkerEnded => \A n \in DOMAIN Precisions : Decided(n)
  BY <1>2, CoreConstants DEF EvidenceAt, Decided
<1>4. PassedIsComplete'
  <2>1. SUFFICES ASSUME Status(codes) = "passed"
                 PROVE  PassedIsComplete'
    BY <1>1 DEF PassedIsComplete
  <2>2. codes = {}
    BY <2>1 DEF Status
  <2>3. \A i \in evidence : i.outcome \notin Bad
    BY <2>2 DEF FoundInv, CleanWhenNoCode
  <2>4. \A n \in DOMAIN Precisions : Decided(n)
    BY <1>3, <2>2 DEF WorkerEnded
  <2>5. ASSUME NEW n \in DOMAIN Precisions
        PROVE  /\ {i.shape : i \in ItemsOf("case", n)} = ShapeSet
               /\ \A g \in Metrics \cup {"performance"} : Cardinality(ItemsOf(g, n)) = 1
    <3>1. {i.shape : i \in ItemsOf("case", n)} = ShapeSet
      BY <2>4, MeasureConstants DEF Decided, Compared, ShapeSet
    <3>2. ASSUME NEW g \in Metrics \cup {"performance"} PROVE Cardinality(ItemsOf(g, n)) = 1
      <4>1. PICK x : ItemsOf(g, n) = {x}
        BY <2>4 DEF Decided, OneItem, Required
      <4> QED
        BY <4>1, FS_Singleton
    <3> QED
      BY <3>1, <3>2
  <2> QED
    BY <1>1, <2>3, <2>5 DEF PassedIsComplete, ItemsOf
<1>5. FailuresAreRecorded'
  <2>1. SUFFICES ASSUME Status(codes) = "failed"
                 PROVE  /\ codes \subseteq {r.code : r \in records}
                        /\ \A r \in records : r.code = "NUMERICAL_REGRESSION" =>
                             Cardinality({i \in evidence :
                                 /\ i.gate = "case" /\ i.outcome = r.code
                                 /\ i.precision = r.precision /\ i.shape = r.shape}) = 1
    BY <1>1 DEF FailuresAreRecorded
  <2>2. codes \subseteq {r.code : r \in records}
    BY <2>1 DEF Status, FoundInv, CodesHaveRecords
  <2>3. ASSUME NEW r \in records, r.code = "NUMERICAL_REGRESSION"
        PROVE  Cardinality({i \in evidence : /\ i.gate = "case" /\ i.outcome = r.code
                                             /\ i.precision = r.precision /\ i.shape = r.shape}) = 1
    <3>1. ~WorkerEnded
      BY <2>3 DEF WorkerEnded, FailureOf
    <3>2. PICK x \in evidence : /\ x.gate = "case" /\ x.outcome = r.code
                                /\ x.precision = r.precision /\ x.shape = r.shape
      BY <2>3 DEF FoundInv, NumericalHasCase
    <3>3. PICK n \in DOMAIN Precisions : r.precision = Precisions[n]
      BY DEF TypeInv, RunTypeOK, Records
    <3>4. \A i, j \in ItemsOf("case", n) : i.shape = j.shape => i = j
      BY <1>3, <3>1 DEF Decided, Compared
    <3>5. {i \in evidence : /\ i.gate = "case" /\ i.outcome = r.code
                            /\ i.precision = r.precision /\ i.shape = r.shape} = {x}
      BY <3>2, <3>3, <3>4 DEF ItemsOf
    <3> QED
      BY <3>5, FS_Singleton
  <2> QED
    BY <2>2, <2>3
<1>6. BlameFollowsTheCase'
  <2>1. SUFFICES ASSUME DomainDecision(destination')
                 PROVE  \A r \in records : r.env = "candidate" /\ r.shape \in ShapeSet =>
                            \E i \in evidence : /\ i.precision = r.precision /\ i.shape = r.shape
                                                /\ i.outcome = r.code
    BY <1>1 DEF BlameFollowsTheCase, DomainDecision
  <2>2. "CORPUS_INVALID" \notin codes
    BY <1>1, <2>1 DEF DomainDecision, ExitCodeForFailure, NoFailure
  <2> QED
    BY <2>2 DEF FoundInv, BlameHasEvidence
<1> QED
  BY <1>4, <1>5, <1>6 DEF PublishedInv

\* Evidence, codes, records and the published summary of every reachable state.
\* None of the published properties is inductive by itself: Publish only copies
\* what the loops left, so they rest on the order in which those collect it.
CoreInv == TypeInv /\ EvidenceInv /\ FoundInv /\ DecidedFromPairs /\ PublishedInv

\* The conjunction of all the parts is an invariant of core qualification.
LEMMA CoreInvariant == Spec => []CoreInv
<1>1. Init => CoreInv
  <2> SUFFICES ASSUME Init PROVE CoreInv
    OBVIOUS
  <2>1. EvidenceInv
    <3>1. EvidenceAt(1, 0, {})
      BY NoEvidence DEF Init
    <3> QED
      BY <3>1 DEF Init, EvidenceInv, ComparedSoFar, GatesSoFar
  <2>2. FoundInv /\ DecidedFromPairs
    BY DEF Init, FoundInv, CleanWhenNoCode, CodesHaveRecords, NumericalHasCase, BlameHasEvidence,
       DecidedFromPairs
  <2>3. PublishedInv
    BY DEF Init, NoSummary, PublishedInv, PassedIsComplete, FailuresAreRecorded,
       BlameFollowsTheCase, DomainDecision
  <2> QED
    BY <2>1, <2>2, <2>3, TypeInit DEF CoreInv
<1>2. CoreInv /\ [Next]_vars => CoreInv'
  <2> SUFFICES ASSUME CoreInv, [Next]_vars PROVE CoreInv'
    OBVIOUS
  <2>1. TypeInv' /\ EvidenceInv' /\ FoundInv'
    BY TypeStep, EvidenceStep, FoundStep DEF CoreInv
  <2>2. DecidedFromPairs'
    BY <2>1, PairsStep DEF CoreInv
  <2>3. PublishedInv'
    <3>1. CASE Publish
      BY <3>1, PublishStep DEF CoreInv
    <3>2. CASE ~Publish
      <4>1. UNCHANGED destination
        BY <3>2 DEF Next, vars, cvars, Begin, BuildConfirmations, BuildFails, RunCorrectness, RunFails,
           WorkerFailed, CompareShape, JudgeMemory, MeasureBlocks, JudgePerformance, Abandon,
           WriteSummary, Interrupted
      <4> QED
        BY <4>1 DEF CoreInv, PublishedInv, PassedIsComplete, FailuresAreRecorded,
           BlameFollowsTheCase, DomainDecision
    <3> QED
      BY <3>1, <3>2
  <2> QED
    BY <2>1, <2>2, <2>3 DEF CoreInv
<1> QED
  BY <1>1, <1>2, PTL DEF Spec

\* A summary that passed holds each decision the specification requires, once,
\* and none that is bad (run, _execute): however the typed failures, the errors
\* and the crashes of earlier invocations fell.
THEOREM PassedSummaryIsComplete == Spec => []PassedIsComplete
<1>1. CoreInv => PassedIsComplete
  BY DEF CoreInv, PublishedInv
<1> QED
  BY <1>1, CoreInvariant, PTL

\* Every code of a failed summary has its record, and a numerical one the single
\* case that the later reduction looks up (_numerical_material).
THEOREM FailedSummaryIsRecorded == Spec => []FailuresAreRecorded
<1>1. CoreInv => FailuresAreRecorded
  BY DEF CoreInv, PublishedInv
<1> QED
  BY <1>1, CoreInvariant, PTL

\* A candidate that a recorded decision blames for its outputs is blamed by the
\* evidence of that very case (_compare_correctness_case, _validate_core_outcome).
THEOREM BlameIsEvidenced == Spec => []BlameFollowsTheCase
<1>1. CoreInv => BlameFollowsTheCase
  BY DEF CoreInv, PublishedInv
<1> QED
  BY <1>1, CoreInvariant, PTL

\* A timing decision rests on full sets of accepted pairs of every shape
\* (weighted_performance_gate).
THEOREM TimingRestsOnPairs == Spec => []DecidedFromPairs
<1>1. CoreInv => DecidedFromPairs
  BY DEF CoreInv
<1> QED
  BY <1>1, CoreInvariant, PTL
=============================================================================
