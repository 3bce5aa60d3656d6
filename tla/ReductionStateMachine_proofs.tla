-------------------- MODULE ReductionStateMachine_proofs --------------------
(***************************************************************************)
(* The log of a reduction session: what the session holds was confirmed,   *)
(* for every number of stages, trials, confirmations and candidates.       *)
(***************************************************************************)
EXTENDS ReductionStateMachine, TLAPS

(* A candidate of the stage's reducer is under way only within a stage. *)
AttemptedWithin == attempted => position \in 1..Len(Stages)

(* The replay confirms the candidate the session holds. *)
ReplayTriesCurrent == position = Len(Stages) + 1 => trying = current

(* The trials counted by a confirmation are the last ones of the log. *)
RunsAreLast ==
    pc = "confirm" =>
        /\ runs <= Len(attempts)
        /\ Reproductions(Len(attempts) - runs, runs, trying, StageName(position))

-----------------------------------------------------------------------------

(* Stages have names, the confirmation and the replay among them. *)
LEMMA StageNameType == \A p \in Position : StageName(p) \in StageNames
BY DEF StageNames

(* What one trial records is an entry of the log. *)
LEMMA AttemptType ==
    ASSUME TypeOK, NEW o \in Outcomes
    PROVE  Attempt(o) \in [stage : StageNames, candidate : Candidates, outcome : Outcomes]
BY StageNameType DEF TypeOK, Attempt

(* A confirmation in the log stays there when a trial is added. *)
LEMMA ConfirmedStays ==
    ASSUME TypeOK, NEW c, NEW s, NEW x, attempts' = Append(attempts, x),
           x \in [stage : StageNames, candidate : Candidates, outcome : Outcomes],
           ConfirmedIn(c, s)
    PROVE  ConfirmedIn(c, s)'
<1>1. PICK k \in 0..(Len(attempts) - ConfirmationCount) :
          Reproductions(k, ConfirmationCount, c, s)
  BY DEF ConfirmedIn
<1>2. /\ Len(attempts) \in Nat
      /\ Len(attempts') = Len(attempts) + 1
      /\ \A i \in 1..Len(attempts) : attempts'[i] = attempts[i]
  BY DEF TypeOK
<1>3. ConfirmationCount \in Nat
  BY ReductionAssumption
<1>4. \A j \in 1..ConfirmationCount : k + j \in 1..Len(attempts)
  BY <1>2, <1>3
<1>5. \A j \in 1..ConfirmationCount :
          attempts'[k + j] = [stage |-> s, candidate |-> c, outcome |-> "reproduced"]
  BY <1>1, <1>2, <1>4 DEF Reproductions
<1>6. k \in 0..(Len(attempts') - ConfirmationCount)
  BY <1>2, <1>3
<1> QED
  BY <1>5, <1>6 DEF ConfirmedIn, Reproductions

(* A confirmation that counted to ConfirmationCount is in the log. *)
LEMMA CountedIsConfirmed ==
    ASSUME TypeOK, RunsAreLast, pc = "confirm", runs = ConfirmationCount
    PROVE  /\ ConfirmedIn(trying, StageName(position))
           /\ Len(attempts) >= ConfirmationCount
           /\ Reproductions(Len(attempts) - ConfirmationCount, ConfirmationCount,
                            trying, StageName(position))
<1>1. /\ ConfirmationCount <= Len(attempts)
      /\ Reproductions(Len(attempts) - ConfirmationCount, ConfirmationCount,
                       trying, StageName(position))
  BY DEF RunsAreLast
<1>2. Len(attempts) \in Nat /\ ConfirmationCount \in Nat
  BY ReductionAssumption DEF TypeOK
<1>3. Len(attempts) - ConfirmationCount \in 0..(Len(attempts) - ConfirmationCount)
  BY <1>1, <1>2
<1> QED
  BY <1>1, <1>2, <1>3 DEF ConfirmedIn

(* One reproduced trial more, and they are still the last of the log. *)
LEMMA RunsGrow ==
    ASSUME TypeOK, RunsAreLast, Confirming, attempts' = Append(attempts, Attempt("reproduced")),
           runs' = runs + 1, UNCHANGED <<trying, position>>
    PROVE  RunsAreLast'
<1>1. Attempt("reproduced") \in [stage : StageNames, candidate : Candidates, outcome : Outcomes]
  BY AttemptType DEF Outcomes
<1>2. /\ Len(attempts) \in Nat /\ runs \in Nat
      /\ Len(attempts') = Len(attempts) + 1
      /\ \A i \in 1..Len(attempts) : attempts'[i] = attempts[i]
      /\ attempts'[Len(attempts) + 1] = Attempt("reproduced")
  BY <1>1, ReductionAssumption DEF TypeOK
<1>3. runs <= Len(attempts) /\ Reproductions(Len(attempts) - runs, runs, trying, StageName(position))
  BY DEF RunsAreLast, Confirming
<1>4. Len(attempts') - runs' = Len(attempts) - runs
  BY <1>2
<1>5. ASSUME NEW j \in 1..(runs + 1)
      PROVE  attempts'[(Len(attempts) - runs) + j] =
                 [stage |-> StageName(position), candidate |-> trying, outcome |-> "reproduced"]
  <2>1. CASE j = runs + 1
    <3>1. (Len(attempts) - runs) + j = Len(attempts) + 1
      BY <2>1, <1>2
    <3> QED
      BY <3>1, <1>2 DEF Attempt
  <2>2. CASE j # runs + 1
    <3>1. j \in 1..runs /\ (Len(attempts) - runs) + j \in 1..Len(attempts)
      BY <2>2, <1>2, <1>3
    <3> QED
      BY <3>1, <1>2, <1>3 DEF Reproductions
  <2> QED
    BY <2>1, <2>2
<1>6. StageName(position)' = StageName(position)
  BY DEF StageName
<1>7. runs' <= Len(attempts')
  BY <1>2, <1>3
<1>8. Reproductions(Len(attempts) - runs, runs, trying, StageName(position))'
  BY <1>4, <1>5, <1>6 DEF Reproductions
<1> QED
  BY <1>7, <1>8 DEF RunsAreLast

-----------------------------------------------------------------------------

(* The shape of the session: types, and where a candidate is under way. *)
ShapeInv == TypeOK /\ AttemptedWithin /\ ReplayTriesCurrent

(* A session starts in shape. *)
LEMMA ShapeInit == Init => ShapeInv
<1> SUFFICES ASSUME Init PROVE ShapeInv
  OBVIOUS
<1>1. <<>> \in Seq(Candidates) /\ <<>> \in Seq(StageNames)
      /\ <<>> \in Seq([stage : StageNames, candidate : Candidates, outcome : Outcomes])
      /\ Len(<<>>) = 0 /\ Len(Stages) \in Nat
  BY ReductionAssumption
<1>2. AttemptedWithin /\ ReplayTriesCurrent
  BY <1>1 DEF Init, AttemptedWithin, ReplayTriesCurrent
<1>3. position \in Position /\ runs \in 0..ConfirmationCount
      /\ Len(attempts) <= MaximumTrials
  BY <1>1, ReductionAssumption DEF Init, Position
<1>4. /\ pc = "confirm" /\ status = "running" /\ cause \in Causes /\ status \in Statuses
      /\ current \in Candidates /\ trying \in Candidates
      /\ attempted \in BOOLEAN /\ late \in BOOLEAN
  BY ReductionAssumption DEF Init, Statuses, Causes
<1>5. /\ offered \in Seq(Candidates) /\ completed \in Seq(StageNames)
      /\ attempts \in Seq([stage : StageNames, candidate : Candidates, outcome : Outcomes])
  BY <1>1 DEF Init
<1> QED
  BY <1>2, <1>3, <1>4, <1>5 DEF ShapeInv, TypeOK

(* Every action keeps the shape.  Advance enters a stage, or the replay with *)
(* the current candidate; only a stage sends a refused candidate back to its *)
(* other candidates.                                                         *)
LEMMA ShapeStep == ShapeInv /\ [Next]_vars => ShapeInv'
<1> SUFFICES ASSUME ShapeInv, [Next]_vars PROVE ShapeInv'
  OBVIOUS
<1>n. Len(Stages) \in Nat /\ ConfirmationCount \in Nat /\ MaximumTrials \in Nat
      /\ MaxOffered \in Nat
  BY ReductionAssumption
<1>u. ASSUME UNCHANGED <<position, attempted, trying, current>>
      PROVE  (AttemptedWithin /\ ReplayTriesCurrent)'
  BY <1>u DEF ShapeInv, AttemptedWithin, ReplayTriesCurrent
<1>a. ASSUME pc # "done", position \in 0..Len(Stages), Advance(position),
             trying' = current', current' \in Candidates,
             UNCHANGED <<attempts, late>>
      PROVE  ShapeInv'
  <2>1. /\ position' \in 1..(Len(Stages) + 1) /\ position' \in Position
        /\ position < Len(Stages) => position' \in 1..Len(Stages)
    BY <1>a, <1>n DEF Advance, Position
  <2>2. completed' \in Seq(StageNames)
    BY <1>a, <1>n, StageNameType DEF ShapeInv, TypeOK, Advance, Position
  <2>3. offered' \in Seq(Candidates) /\ runs' \in 0..ConfirmationCount /\ ~attempted'
    BY <1>a, <1>n DEF Advance
  <2>4. /\ pc' = IF position < Len(Stages) THEN "reduce" ELSE "confirm"
        /\ UNCHANGED <<status, cause>>
    BY <1>a DEF Advance, Goto
  <2> QED
    BY <1>a, <2>1, <2>2, <2>3, <2>4
    DEF ShapeInv, TypeOK, AttemptedWithin, ReplayTriesCurrent, Advance
<1>0. CASE UNCHANGED vars
  BY <1>0, <1>n, <1>u DEF ShapeInv, TypeOK, vars
<1>1. CASE ConfirmOutOfBudget
  BY <1>1, <1>n, <1>u DEF ShapeInv, TypeOK, ConfirmOutOfBudget, Confirming, Goto
<1>2. ASSUME NEW o \in Outcomes, Trial(o) PROVE ShapeInv'
  <2>1. attempts' \in Seq([stage : StageNames, candidate : Candidates, outcome : Outcomes])
        /\ Len(attempts') = Len(attempts) + 1
    BY <1>2, AttemptType DEF ShapeInv, TypeOK, Trial
  <2>2. Len(attempts') <= MaximumTrials
    BY <1>2, <1>n, <2>1 DEF Trial, Exhausted, ShapeInv, TypeOK
  <2>3. runs' \in 0..ConfirmationCount
    BY <1>2, <1>n DEF Trial, Confirming, ShapeInv, TypeOK
  <2>4. /\ pc' \in {"confirm", "refused", "done"} /\ status' \in Statuses /\ cause' \in Causes
        /\ pc' = "done" <=> status' # "running"
    BY <1>2 DEF Trial, Confirming, Goto, Raise, Finish, ShapeInv, TypeOK, Outcomes, Statuses, Causes
  <2>5. UNCHANGED <<position, current, offered, attempted, trying, late, completed>>
    BY <1>2 DEF Trial
  <2> QED
    BY <1>u, <2>1, <2>2, <2>3, <2>4, <2>5 DEF ShapeInv, TypeOK
<1>3. CASE Confirmed
  <2>1. position \in 0..Len(Stages)
    BY <1>3, <1>n DEF Confirmed, ShapeInv, TypeOK, Position
  <2> QED
    BY <1>3, <1>a, <2>1 DEF Confirmed, ShapeInv, TypeOK
<1>4. CASE Replayed
  <2>1. completed' \in Seq(StageNames)
    BY <1>4, <1>n, StageNameType DEF Replayed, ShapeInv, TypeOK, Position, StageName
  <2> QED
    BY <1>4, <1>u, <2>1 DEF Replayed, Finish, ShapeInv, TypeOK, Statuses
<1>5. CASE Refused
  BY <1>5, <1>n, <1>u DEF ShapeInv, TypeOK, AttemptedWithin, Refused, Finish, Goto, Raise,
     Statuses, Causes
<1>6. CASE StageOutOfBudget
  BY <1>6, <1>n, <1>u DEF ShapeInv, TypeOK, StageOutOfBudget, Finish, Statuses
<1>7. CASE Reduce
  <2>1. offered' \in Seq(Candidates)
    BY <1>7, <1>n DEF Reduce
  <2> QED
    BY <1>7, <1>u, <2>1 DEF Reduce, Goto, ShapeInv, TypeOK
<1>8. CASE Offer
  <2>1. offered' \in Seq(Candidates) /\ Head(offered) \in Candidates
    BY <1>8 DEF Offer, ShapeInv, TypeOK
  <2>2. position \in 1..Len(Stages) /\ position' = position
    BY <1>8 DEF Offer, ShapeInv, TypeOK
  <2>3. attempted' \in BOOLEAN /\ trying' \in Candidates /\ runs' \in 0..ConfirmationCount
        /\ pc' \in {"candidates", "confirm"} /\ UNCHANGED <<status, cause>>
    <3>1. CASE Head(offered) = current
      BY <1>8, <3>1 DEF Offer, Goto, ShapeInv, TypeOK
    <3>2. CASE Head(offered) # current
      BY <1>8, <1>n, <2>1, <3>2 DEF Offer, Goto
    <3> QED
      BY <3>1, <3>2
  <2>4. UNCHANGED <<current, attempts, late, completed>>
    BY <1>8 DEF Offer
  <2>5. pc = "candidates"
    BY <1>8 DEF Offer
  <2> QED
    BY <1>n, <2>1, <2>2, <2>3, <2>4, <2>5
    DEF ShapeInv, TypeOK, AttemptedWithin, ReplayTriesCurrent
<1>9. CASE Reconfirm
  BY <1>9, <1>n DEF Reconfirm, Goto, ShapeInv, TypeOK, AttemptedWithin, ReplayTriesCurrent
<1>10. CASE StageUnchanged
  <2>1. position \in 0..Len(Stages)
    BY <1>10, <1>n DEF StageUnchanged, ShapeInv, TypeOK
  <2> QED
    BY <1>10, <1>a, <2>1 DEF StageUnchanged, ShapeInv, TypeOK
<1>11. CASE BoundaryMissing
  BY <1>11, <1>n, <1>u DEF ShapeInv, TypeOK, BoundaryMissing, Raise, Statuses, Causes
<1>12. CASE CallbackRaises
  BY <1>12, <1>n, <1>u DEF ShapeInv, TypeOK, CallbackRaises, Raise, Confirming, Statuses, Causes
<1>13. CASE TimePasses
  BY <1>13, <1>n, <1>u DEF ShapeInv, TypeOK, TimePasses, Statuses
<1> QED
  BY <1>0, <1>1, <1>2, <1>3, <1>4, <1>5, <1>6, <1>7, <1>8, <1>9, <1>10, <1>11, <1>12, <1>13
  DEF Next, Step

(* Types, for every value of the constants; the log stays within             *)
(* maximum_trials, which _budget_exhausted guards.                           *)
THEOREM TypeCorrect == Spec => []TypeOK
<1>1. ShapeInv => TypeOK
  BY DEF ShapeInv
<1> QED
  BY <1>1, ShapeInit, ShapeStep, PTL DEF Spec

-----------------------------------------------------------------------------

(* A stage is entered only after the original was confirmed. *)
OriginalFirst == position # 0 => completed # <<>>

(* No step enters a stage without a completed one before it. *)
LEMMA OriginalFirstStep ==
    ASSUME TypeOK, OriginalFirst, [Next]_vars
    PROVE  OriginalFirst'
<1>1. \A x : Append(completed, x) # <<>>
  <2> TAKE x
  <2>1. Len(Append(completed, x)) = Len(completed) + 1 /\ Len(completed) \in Nat
    BY DEF TypeOK
  <2> QED
    BY <2>1
<1>2. UNCHANGED <<position, completed>>
      \/ \E x : completed' = Append(completed, x)
  BY DEF Next, Step, vars, ConfirmOutOfBudget, Trial, Confirmed, Replayed, Refused,
     StageOutOfBudget, Reduce, Offer, Reconfirm, StageUnchanged, BoundaryMissing,
     CallbackRaises, TimePasses, Advance
<1> QED
  BY <1>1, <1>2 DEF OriginalFirst

(* The log confirms what the session holds.  Without RunsAreLast neither of  *)
(* the last two is inductive: the step that ends a confirmation adds nothing *)
(* to the log, it only believes the count.                                   *)
IInv ==
    /\ ShapeInv
    /\ OriginalFirst
    /\ RunsAreLast
    /\ CurrentIsConfirmed
    /\ CompletedReplayed

(* A session starts with nothing attempted and nothing confirmed. *)
LEMMA IInvInit == Init => IInv
<1> SUFFICES ASSUME Init PROVE IInv
  OBVIOUS
<1>1. Len(<<>>) = 0
  OBVIOUS
<1>2. RunsAreLast
  BY <1>1 DEF Init, RunsAreLast, Reproductions
<1>3. CurrentIsConfirmed /\ CompletedReplayed
  BY DEF Init, CurrentIsConfirmed, CompletedReplayed
<1> QED
  BY <1>2, <1>3, ShapeInit DEF IInv, Init, OriginalFirst

(* One step for each action; those that leave the log, the count and the     *)
(* candidates alone keep everything by <1>u.                                 *)
LEMMA IInvStep == IInv /\ [Next]_vars => IInv'
<1> SUFFICES ASSUME IInv, [Next]_vars PROVE (RunsAreLast /\ CurrentIsConfirmed /\ CompletedReplayed)'
  BY ShapeStep, OriginalFirstStep DEF IInv, ShapeInv
<1>t. TypeOK /\ TypeOK'
  BY ShapeStep DEF IInv, ShapeInv
<1>n. Len(Stages) \in Nat /\ ConfirmationCount \in Nat /\ 0 < ConfirmationCount
  BY ReductionAssumption
<1>c. ASSUME UNCHANGED <<attempts, current, completed>> PROVE CurrentIsConfirmed'
  BY <1>c DEF IInv, CurrentIsConfirmed, ConfirmedIn, Reproductions
<1>u. ASSUME UNCHANGED <<attempts, current, completed>>,
             pc' = "confirm" => pc = "confirm" /\ UNCHANGED <<runs, trying, position>>,
             status' = "completed" => status = "completed"
      PROVE  (RunsAreLast /\ CurrentIsConfirmed /\ CompletedReplayed)'
  <2>1. RunsAreLast'
    BY <1>u DEF IInv, RunsAreLast, Reproductions, StageName
  <2>2. CompletedReplayed'
    BY <1>u DEF IInv, CompletedReplayed, Reproductions
  <2> QED
    BY <1>u, <1>c, <2>1, <2>2
<1>z. ASSUME pc # "done", runs' = 0, UNCHANGED <<attempts, status>>
      PROVE  RunsAreLast' /\ CompletedReplayed'
  <2>1. RunsAreLast'
    BY <1>z, <1>t DEF RunsAreLast, Reproductions, TypeOK
  <2>2. status' # "completed"
    BY <1>z, <1>t DEF TypeOK
  <2> QED
    BY <2>1, <2>2 DEF CompletedReplayed
<1>0. CASE UNCHANGED vars
  BY <1>0, <1>u DEF vars
<1>1. CASE ConfirmOutOfBudget
  BY <1>1, <1>u DEF ConfirmOutOfBudget, Goto
<1>2. ASSUME NEW o \in Outcomes, Trial(o)
      PROVE  (RunsAreLast /\ CurrentIsConfirmed /\ CompletedReplayed)'
  <2>1. CurrentIsConfirmed'
    <3>1. SUFFICES ASSUME NEW s \in StageNames, ConfirmedIn(current, s)
                   PROVE  ConfirmedIn(current, s)'
      BY <1>2 DEF IInv, CurrentIsConfirmed, Trial, StageNames, StageName, ConfirmedIn,
         Reproductions
    <3> QED
      BY <1>2, <1>t, <3>1, AttemptType, ConfirmedStays DEF Trial
  <2>2. CompletedReplayed'
    BY <1>2, <1>t DEF CompletedReplayed, Trial, Confirming, Goto, Raise, Finish, TypeOK, Outcomes
  <2>3. RunsAreLast'
    <3>1. CASE o = "reproduced"
      BY <1>2, <1>t, <3>1, RunsGrow DEF IInv, Trial
    <3>2. CASE o # "reproduced"
      BY <1>2, <3>2 DEF Trial, Goto, Raise, Finish, Outcomes, RunsAreLast
    <3> QED
      BY <3>1, <3>2
  <2> QED
    BY <2>1, <2>2, <2>3
<1>3. CASE Confirmed
  <2>1. /\ pc = "confirm" /\ runs = ConfirmationCount /\ runs' = 0
        /\ UNCHANGED <<attempts, status, trying>> /\ current' = trying
    BY <1>3 DEF Confirmed, Advance, Goto
  <2>2. ConfirmedIn(trying, StageName(position)) /\ StageName(position) \in StageNames
    BY <2>1, <1>t, CountedIsConfirmed, StageNameType DEF IInv, TypeOK
  <2>3. CurrentIsConfirmed'
    BY <2>1, <2>2 DEF CurrentIsConfirmed, ConfirmedIn, Reproductions, StageNames, StageName
  <2> QED
    BY <1>z, <2>1, <2>3
<1>4. CASE Replayed
  <2>1. /\ pc = "confirm" /\ runs = ConfirmationCount /\ position = Len(Stages) + 1
        /\ UNCHANGED <<attempts, current, trying>> /\ pc' = "done"
    BY <1>4 DEF Replayed, Finish
  <2>2. trying = current /\ StageName(position) = FinalReplay
    BY <2>1, <1>n DEF IInv, ShapeInv, ReplayTriesCurrent, StageName
  <2>3. /\ Len(attempts) >= ConfirmationCount
        /\ Reproductions(Len(attempts) - ConfirmationCount, ConfirmationCount,
                         current, FinalReplay)
        /\ ConfirmedIn(current, FinalReplay)
    BY <2>1, <2>2, <1>t, CountedIsConfirmed DEF IInv
  <2>4. FinalReplay \in StageNames
    BY <2>1, <2>2, <1>t, StageNameType DEF TypeOK
  <2>5. CurrentIsConfirmed'
    BY <2>1, <2>3, <2>4 DEF CurrentIsConfirmed, ConfirmedIn, Reproductions, StageNames, StageName
  <2> QED
    BY <2>1, <2>3, <2>5 DEF RunsAreLast, CompletedReplayed, Reproductions
<1>5. CASE Refused
  BY <1>5, <1>u DEF Refused, Finish, Goto, Raise
<1>6. CASE StageOutOfBudget
  BY <1>6, <1>u DEF StageOutOfBudget, Finish
<1>7. CASE Reduce
  BY <1>7, <1>u DEF Reduce, Goto
<1>8. CASE Offer
  <2>1. CASE Head(offered) = current
    BY <1>8, <2>1, <1>u DEF Offer, Goto
  <2>2. CASE Head(offered) # current
    BY <1>8, <2>2, <1>z, <1>c DEF Offer, Goto
  <2> QED
    BY <2>1, <2>2
<1>9. CASE Reconfirm
  BY <1>9, <1>z, <1>c DEF Reconfirm, Goto
<1>10. CASE StageUnchanged
  <2>0. completed # <<>>
    BY <1>10, <1>t DEF IInv, OriginalFirst, StageUnchanged, TypeOK
  <2>1. CurrentIsConfirmed'
    BY <1>10, <2>0 DEF IInv, CurrentIsConfirmed, StageUnchanged, ConfirmedIn, Reproductions,
       StageNames, StageName
  <2> QED
    BY <1>10, <1>z, <2>1 DEF StageUnchanged, Advance, Goto
<1>11. CASE BoundaryMissing
  BY <1>11, <1>u DEF BoundaryMissing, Raise
<1>12. CASE CallbackRaises
  BY <1>12, <1>u DEF CallbackRaises, Raise
<1>13. CASE TimePasses
  BY <1>13, <1>u DEF TimePasses
<1> QED
  BY <1>0, <1>1, <1>2, <1>3, <1>4, <1>5, <1>6, <1>7, <1>8, <1>9, <1>10, <1>11, <1>12, <1>13
  DEF Next, Step

(* What the session holds was confirmed, whatever the predicate answers and  *)
(* whenever the budgets run out.                                             *)
THEOREM CurrentConfirmed == Spec => []CurrentIsConfirmed
<1>1. IInv => CurrentIsConfirmed
  BY DEF IInv
<1> QED
  BY <1>1, IInvInit, IInvStep, PTL DEF Spec

(* A completed session ends with a full clean replay of its candidate. *)
THEOREM CompletedWasReplayed == Spec => []CompletedReplayed
<1>1. IInv => CompletedReplayed
  BY DEF IInv
<1> QED
  BY <1>1, IInvInit, IInvStep, PTL DEF Spec

-----------------------------------------------------------------------------

(* While the session runs, every trial of its log reproduced the failure or  *)
(* did not: the one that ends it is the one being judged.                    *)
RunningIsClean ==
    status = "running" =>
        \A i \in 1..Len(attempts) : attempts[i].outcome \in {"reproduced", "not_reproduced"}

(* Nothing is tried once the session is over, so the last trial stays last.  *)
EndsInv == InvalidEndsSession /\ RunningIsClean

(* A step that leaves the log alone keeps EndsInv: it either leaves a        *)
(* running session, whose log shows nothing that decides, or changes nothing.*)
LEMMA EndsKept ==
    ASSUME EndsInv, UNCHANGED attempts, status = "running" \/ UNCHANGED status
    PROVE  EndsInv'
<1>1. CASE status = "running"
  <2>1. \A i \in 1..Len(attempts) :
            attempts[i].outcome # "infrastructure_invalid" /\ attempts[i].outcome # "different"
    BY <1>1 DEF EndsInv, RunningIsClean
  <2> QED
    BY <1>1, <2>1 DEF EndsInv, RunningIsClean, InvalidEndsSession
<1>2. CASE UNCHANGED status
  BY <1>2 DEF EndsInv, RunningIsClean, InvalidEndsSession
<1> QED
  BY <1>1, <1>2

(* A trial is appended to a clean log, and its outcome alone decides.        *)
LEMMA EndsTrial ==
    ASSUME TypeOK, EndsInv, NEW o \in Outcomes, Trial(o)
    PROVE  EndsInv'
<1>1. /\ Len(attempts) \in Nat
      /\ Len(attempts') = Len(attempts) + 1
      /\ \A i \in 1..Len(attempts) : attempts'[i] = attempts[i]
      /\ attempts'[Len(attempts) + 1].outcome = o
  BY AttemptType DEF TypeOK, Trial, Attempt
<1>2. status = "running"
  BY DEF Trial, Confirming, TypeOK
<1>3. \A i \in 1..Len(attempts) : attempts'[i].outcome \in {"reproduced", "not_reproduced"}
  BY <1>1, <1>2 DEF EndsInv, RunningIsClean
<1>4. \A i \in 1..Len(attempts') : i \in 1..Len(attempts) \/ i = Len(attempts')
  BY <1>1
<1>5. /\ o = "infrastructure_invalid" => status' = "infrastructure_invalid"
      /\ o = "different" => status' = "raised"
      /\ status' = "running" => o \in {"reproduced", "not_reproduced"}
  BY <1>2 DEF Trial, Goto, Raise, Finish, Outcomes
<1>6. InvalidEndsSession'
  BY <1>1, <1>3, <1>4, <1>5 DEF InvalidEndsSession
<1>7. RunningIsClean'
  BY <1>1, <1>3, <1>4, <1>5 DEF RunningIsClean
<1> QED
  BY <1>6, <1>7 DEF EndsInv

(* Every other action runs only while the session does, and keeps the log.   *)
LEMMA EndsStep == TypeOK /\ EndsInv /\ [Next]_vars => EndsInv'
<1> SUFFICES ASSUME TypeOK, EndsInv, [Next]_vars PROVE EndsInv'
  OBVIOUS
<1>1. ASSUME NEW o \in Outcomes, Trial(o) PROVE EndsInv'
  BY <1>1, EndsTrial
<1>2. CASE UNCHANGED vars
  BY <1>2, EndsKept DEF vars
<1>3. CASE \/ ConfirmOutOfBudget \/ Confirmed \/ Replayed \/ Refused \/ StageOutOfBudget
           \/ Reduce \/ Offer \/ Reconfirm \/ StageUnchanged \/ BoundaryMissing
           \/ CallbackRaises \/ TimePasses
  <2>1. pc # "done" \/ status = "running"
    BY <1>3 DEF ConfirmOutOfBudget, Confirmed, Replayed, Refused, StageOutOfBudget, Reduce,
       Offer, Reconfirm, StageUnchanged, BoundaryMissing, CallbackRaises, TimePasses, Confirming
  <2>2. status = "running"
    BY <2>1 DEF TypeOK
  <2>3. UNCHANGED attempts
    BY <1>3 DEF ConfirmOutOfBudget, Confirmed, Replayed, Refused, StageOutOfBudget, Reduce,
       Offer, Reconfirm, StageUnchanged, BoundaryMissing, CallbackRaises, TimePasses
  <2> QED
    BY <2>2, <2>3, EndsKept
<1> QED
  BY <1>1, <1>2, <1>3 DEF Next, Step

(* A trial whose infrastructure failed, or that showed another failure, is   *)
(* the last of its session and decides its status: no later trial, stage or  *)
(* budget can cover it up (ReductionStateMachine.run).                       *)
THEOREM InvalidWasLast == Spec => []InvalidEndsSession
<1>1. Init => EndsInv
  <2>1. Len(<<>>) = 0
    OBVIOUS
  <2> QED
    BY <2>1 DEF Init, EndsInv, InvalidEndsSession, RunningIsClean
<1>2. EndsInv => InvalidEndsSession
  BY DEF EndsInv
<1> QED
  BY <1>1, <1>2, EndsStep, TypeCorrect, PTL DEF Spec
=============================================================================
