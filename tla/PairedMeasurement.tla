------------------------- MODULE PairedMeasurement -------------------------
(***************************************************************************)
(* The paired timing blocks of QualificationRunner._run_performance.  For  *)
(* every shape, adjacent blocks of the two stacks are tried in a random    *)
(* order until MinPairs pairs are accepted or 3 * MinPairs were tried.     *)
(* The GPU is observed before a block (idle, retried), before and after    *)
(* the timing; a bad observation rejects the block and ends the pair.      *)
(***************************************************************************)
EXTENDS Naturals, Sequences, FiniteSets

CONSTANTS Shapes,       \* the concrete shapes, in sorted order
          MinPairs,     \* performance.minimum_accepted_pairs
          IdleTries     \* observations of one idle wait (60 in the code)

ASSUME MeasurementAssumption ==
    /\ Shapes \in Seq(STRING) /\ Shapes # <<>>
    /\ \A i, j \in DOMAIN Shapes : Shapes[i] = Shapes[j] => i = j
    /\ MinPairs \in Nat \ {0} /\ IdleTries \in Nat \ {0}

VARIABLES
    shape,      \* index of the shape being measured
    stage,      \* what the loop does next
    attempt,    \* pairs tried for this shape
    order,      \* the two stacks in the order of this pair
    tries,      \* observations made by the current idle wait
    block,      \* pair_records of the pair being measured
    pairs,      \* accepted pairs of every shape
    raw         \* records left accepted in raw_blocks, per shape and stack

mvars == <<shape, stage, attempt, order, tries, block, pairs, raw>>

Stacks == {"baseline", "candidate"}
Stages == {"off", "choose", "idle", "before", "after", "counted"}
ShapeSet == {Shapes[i] : i \in DOMAIN Shapes}

MeasurementOff ==
    /\ shape = 1 /\ stage = "off" /\ attempt = 0 /\ tries = 0
    /\ order = <<>> /\ block = <<>>
    /\ pairs = [s \in ShapeSet |-> 0]
    /\ raw = [s \in ShapeSet |-> [e \in Stacks |-> 0]]

\* The loop variables of a fresh measurement, about to choose or switched off.
ResetMeasurement(next) ==
    /\ shape' = 1 /\ stage' = next /\ attempt' = 0 /\ tries' = 0
    /\ order' = <<>> /\ block' = <<>>
    /\ pairs' = [s \in ShapeSet |-> 0]
    /\ raw' = [s \in ShapeSet |-> [e \in Stacks |-> 0]]

StartMeasurement == ResetMeasurement("choose")

MaximumAttempts == 3 * MinPairs

PairValid(b) == Len(b) = 2 /\ \A i \in DOMAIN b : b[i].accepted

\* Mutant of Settled: the accepted half of an invalid pair is kept.
SettledAsIs(b) == b

\* What raw_blocks keeps: an invalid pair withdraws the half it had accepted.
Settled(b) == IF PairValid(b) THEN b ELSE [i \in DOMAIN b |-> [b[i] EXCEPT !.accepted = FALSE]]

AcceptedOf(b, e) == Cardinality({i \in DOMAIN b : b[i].env = e /\ b[i].accepted})

\* Mutant of NextAttempt: only a valid pair counts as an attempt.
NextAttemptIfValid(b) == IF PairValid(b) THEN attempt + 1 ELSE attempt

NextAttempt(b) == attempt + 1

\* The end of one pass of the while loop: settle the records, count the pair.
ClosePair(b) ==
    LET s == Shapes[shape] IN
    /\ pairs' = [pairs EXCEPT ![s] = @ + (IF PairValid(b) THEN 1 ELSE 0)]
    /\ raw' = [raw EXCEPT ![s] = [e \in Stacks |-> @[e] + AcceptedOf(Settled(b), e)]]
    /\ attempt' = NextAttempt(b)
    /\ stage' = "choose" /\ block' = <<>> /\ order' = <<>> /\ tries' = 0
    /\ UNCHANGED shape

Record(accepted) == Append(block, [env |-> order[Len(block) + 1], accepted |-> accepted])

\* The seeded bit chooses which stack goes first.
ChooseOrder ==
    /\ stage = "choose"
    /\ pairs[Shapes[shape]] < MinPairs /\ attempt < MaximumAttempts
    /\ order' \in {<<"baseline", "candidate">>, <<"candidate", "baseline">>}
    /\ stage' = "idle" /\ tries' = 0
    /\ UNCHANGED <<shape, attempt, block, pairs, raw>>

\* The loop over the shapes: this one is counted, take the next.
NextShape ==
    /\ stage = "choose"
    /\ pairs[Shapes[shape]] >= MinPairs \/ attempt >= MaximumAttempts
    /\ IF shape < Len(Shapes)
       THEN shape' = shape + 1 /\ attempt' = 0 /\ UNCHANGED stage
       ELSE stage' = "counted" /\ UNCHANGED <<shape, attempt>>
    /\ UNCHANGED <<order, tries, block, pairs, raw>>

ObserveBusy ==
    /\ stage = "idle"
    /\ IF tries + 1 < IdleTries
       THEN tries' = tries + 1 /\ UNCHANGED <<shape, stage, attempt, order, block, pairs, raw>>
       ELSE ClosePair(Record(FALSE))

ObserveIdle ==
    /\ stage = "idle" /\ stage' = "before"
    /\ UNCHANGED <<shape, attempt, order, tries, block, pairs, raw>>

\* After the precondition run: the observation before the timing.
ObserveBefore(valid) ==
    /\ stage = "before"
    /\ IF valid
       THEN stage' = "after" /\ UNCHANGED <<shape, attempt, order, tries, block, pairs, raw>>
       ELSE ClosePair(Record(FALSE))

\* After the timing: the observation and its variation from the first.
ObserveAfter(valid) ==
    /\ stage = "after"
    /\ IF valid /\ Len(block) = 0
       THEN /\ block' = Record(TRUE) /\ stage' = "idle" /\ tries' = 0
            /\ UNCHANGED <<shape, attempt, order, pairs, raw>>
       ELSE ClosePair(Record(valid))

\* _observe_validity: whether the GPU answered and gave no reason to reject.
Observations == BOOLEAN

\* _block_variation_reasons: whether clocks, power and its limit stayed put.
Variations == BOOLEAN

Measure ==
    \/ ChooseOrder
    \/ NextShape
    \/ ObserveBusy
    \/ ObserveIdle
    \/ \E valid \in Observations : ObserveBefore(valid)
    \/ \E valid \in Observations, steady \in Variations : ObserveAfter(valid /\ steady)

MeasurementTypeOK ==
    /\ shape \in DOMAIN Shapes /\ stage \in Stages
    /\ attempt \in 0..MaximumAttempts /\ tries \in 0..(IdleTries - 1)
    /\ order \in {<<>>, <<"baseline", "candidate">>, <<"candidate", "baseline">>}
    /\ block \in Seq([env : Stacks, accepted : BOOLEAN]) /\ Len(block) <= 1
    /\ pairs \in [ShapeSet -> 0..MinPairs]
    /\ raw \in [ShapeSet -> [Stacks -> Nat]]

\* The raw blocks a summary keeps show, for each stack, exactly the pairs the
\* gate counts: no half of a rejected pair stays accepted (_run_performance).
AcceptedRecordsArePairs ==
    \A s \in ShapeSet : \A e \in Stacks : raw[s][e] = pairs[s]
============================================================================
