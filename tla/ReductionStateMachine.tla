----------------------- MODULE ReductionStateMachine -----------------------
(***************************************************************************)
(* src/upgrade_guard/reduce/workflow.py: one reduction session.  A failure *)
(* is confirmed by repeated trials of a predicate that runs on the GPU and *)
(* may answer differently each time; each stage offers smaller candidates  *)
(* and keeps the first that is confirmed; the last one is replayed.  Both  *)
(* budgets are read between trials, and the clock passes between any two   *)
(* reads.                                                                  *)
(***************************************************************************)
EXTENDS Integers, Sequences

CONSTANTS
    Candidates,
    Original,
    Stages,             \* REDUCTION_STAGES, a sequence of names
    History,            \* the stage ENVIRONMENT_HISTORY
    MaximumTrials,
    ConfirmationCount,
    MaxOffered          \* bound: candidates one reducer returns

None == "none"
ConfirmOriginal == "confirm_original"
FinalReplay == "final_empty_replay"

ASSUME ReductionAssumption ==
    /\ Original \in Candidates
    /\ None \notin Candidates
    /\ Stages \in Seq(STRING)
    /\ \A i \in 1..Len(Stages) : Stages[i] \notin {ConfirmOriginal, FinalReplay}
    /\ \E i \in 1..Len(Stages) : Stages[i] = History
    /\ ConfirmationCount \in Nat /\ MaximumTrials \in Nat
    /\ 2 <= ConfirmationCount /\ ConfirmationCount <= MaximumTrials
    /\ MaxOffered \in Nat

(* "different": the failure is reproduced with another code or signature. *)
Outcomes == {"reproduced", "different", "not_reproduced", "infrastructure_invalid"}
Statuses == {"running", "completed", "budget_exhausted", "infrastructure_invalid", "raised"}

Position == 0..(Len(Stages) + 1)

VARIABLES
    position,    \* 0: the original is confirmed; Len(Stages) + 1: the replay
    current,
    offered,     \* what the reducer of the stage returned and is left to try
    attempted,   \* attempted_candidate
    trying,      \* the candidate under confirmation
    runs,        \* the trials of this confirmation that reproduced
    attempts,    \* the log: stage, candidate and outcome of each trial
    late,        \* maximum_seconds have passed
    completed,   \* completed_stages
    pc,
    status,
    cause        \* of an exception

vars == <<position, current, offered, attempted, trying, runs, attempts,
          late, completed, pc, status, cause>>

StageName(p) ==
    IF p = 0 THEN ConfirmOriginal
    ELSE IF p = Len(Stages) + 1 THEN FinalReplay ELSE Stages[p]

Attempt(o) == [stage |-> StageName(position), candidate |-> trying, outcome |-> o]

(* Mistake for mutation: one trial more than the limit. *)
ExhaustedAfter == Len(attempts) > MaximumTrials \/ late

Exhausted == Len(attempts) >= MaximumTrials \/ late

Init ==
    /\ position = 0
    /\ current = Original
    /\ offered = <<>>
    /\ attempted = FALSE
    /\ trying = Original
    /\ runs = 0
    /\ attempts = <<>>
    /\ late \in BOOLEAN
    /\ completed = <<>>
    /\ pc = "confirm"
    /\ status = "running"
    /\ cause = None

Finish(s) ==
    /\ status' = s
    /\ pc' = "done"
    /\ UNCHANGED cause

Raise(why) ==
    /\ status' = "raised"
    /\ pc' = "done"
    /\ cause' = why

Goto(label) == pc' = label /\ UNCHANGED <<status, cause>>

(* Mistake for mutation: the count of the last confirmation is kept. *)
AdvanceStillConfirmed(p) ==
    /\ position' = p + 1
    /\ completed' = Append(completed, StageName(p))
    /\ runs' = runs
    /\ attempted' = FALSE
    /\ offered' = <<>>
    /\ Goto(IF p < Len(Stages) THEN "reduce" ELSE "confirm")

(* The head of the loop of run: the next stage, or the replay. *)
Advance(p) ==
    /\ position' = p + 1
    /\ completed' = Append(completed, StageName(p))
    /\ runs' = 0
    /\ attempted' = FALSE
    /\ offered' = <<>>
    /\ Goto(IF p < Len(Stages) THEN "reduce" ELSE "confirm")

Confirming == pc = "confirm" /\ runs < ConfirmationCount

(* _confirm and _confirm_clean_replay: no trial once a budget is spent. *)
ConfirmOutOfBudget ==
    /\ Confirming
    /\ Exhausted
    /\ Goto("refused")
    /\ UNCHANGED <<position, current, offered, attempted, trying, runs, attempts,
                   late, completed>>

(* Mistake for mutation: an invalid trial only refuses the candidate. *)
TrialInvalidRefuses(o) ==
    /\ Confirming
    /\ ~Exhausted
    /\ attempts' = Append(attempts, Attempt(o))
    /\ runs' = IF o = "reproduced" THEN runs + 1 ELSE runs
    /\ CASE o = "reproduced" -> Goto("confirm")
         [] o = "different"  -> Raise("different")
         [] OTHER            -> Goto("refused")
    /\ UNCHANGED <<position, current, offered, attempted, trying, late,
                   completed>>

(* One trial: recorded whatever it shows, then judged. *)
Trial(o) ==
    /\ Confirming
    /\ ~Exhausted
    /\ attempts' = Append(attempts, Attempt(o))
    /\ runs' = IF o = "reproduced" THEN runs + 1 ELSE runs
    /\ CASE o = "reproduced"     -> Goto("confirm")
         [] o = "not_reproduced" -> Goto("refused")
         [] o = "different"      -> Raise("different")
         [] OTHER                -> Finish("infrastructure_invalid")
    /\ UNCHANGED <<position, current, offered, attempted, trying, late,
                   completed>>

(* Confirmed: the candidate is kept and the stage is over. *)
Confirmed ==
    /\ pc = "confirm"
    /\ runs = ConfirmationCount
    /\ position <= Len(Stages)
    /\ current' = trying
    /\ trying' = trying
    /\ Advance(position)
    /\ UNCHANGED <<attempts, late>>

Replayed ==
    /\ pc = "confirm"
    /\ runs = ConfirmationCount
    /\ position = Len(Stages) + 1
    /\ completed' = Append(completed, FinalReplay)
    /\ Finish("completed")
    /\ UNCHANGED <<position, current, offered, attempted, trying, runs, attempts,
                   late>>

(* NOT_REPRODUCED: the budget first, then the next candidate of the stage;   *)
(* the original, a candidate confirmed earlier and the final one have to     *)
(* reproduce.                                                                *)
Refused ==
    /\ pc = "refused"
    /\ IF Exhausted THEN Finish("budget_exhausted")
       ELSE IF attempted THEN Goto("candidates")
       ELSE Raise("not reproduced")
    /\ UNCHANGED <<position, current, offered, attempted, trying, runs, attempts,
                   late, completed>>

StageOutOfBudget ==
    /\ pc = "reduce"
    /\ Exhausted
    /\ Finish("budget_exhausted")
    /\ UNCHANGED <<position, current, offered, attempted, trying, runs, attempts,
                   late, completed>>

(* The reducer of the stage offers candidates.  The one of the environment   *)
(* history runs trials of its own, outside this log and its budgets.         *)
Reduce ==
    /\ pc = "reduce"
    /\ ~Exhausted
    /\ \E n \in 0..MaxOffered : \E cs \in [1..n -> Candidates] : offered' = cs
    /\ Goto("candidates")
    /\ UNCHANGED <<position, current, attempted, trying, runs, attempts, late, completed>>

(* Mistakes for mutation: the count of the refused candidate is kept; the    *)
(* skipped candidate stays in front.                                         *)
OfferStillConfirmed ==
    /\ pc = "candidates"
    /\ offered # <<>>
    /\ offered' = Tail(offered)
    /\ IF Head(offered) = current
       THEN UNCHANGED <<attempted, trying, runs>> /\ Goto("candidates")
       ELSE attempted' = TRUE /\ trying' = Head(offered) /\ runs' = runs /\ Goto("confirm")
    /\ UNCHANGED <<position, current, attempts, late, completed>>
OfferAgain ==
    /\ pc = "candidates"
    /\ offered # <<>>
    /\ IF Head(offered) = current
       THEN UNCHANGED <<offered, attempted, trying, runs>> /\ Goto("candidates")
       ELSE /\ offered' = Tail(offered)
            /\ attempted' = TRUE /\ trying' = Head(offered) /\ runs' = 0
            /\ Goto("confirm")
    /\ UNCHANGED <<position, current, attempts, late, completed>>

(* A candidate equal to the current one is skipped, any other is confirmed.  *)
Offer ==
    /\ pc = "candidates"
    /\ offered # <<>>
    /\ offered' = Tail(offered)
    /\ IF Head(offered) = current
       THEN UNCHANGED <<attempted, trying, runs>> /\ Goto("candidates")
       ELSE attempted' = TRUE /\ trying' = Head(offered) /\ runs' = 0 /\ Goto("confirm")
    /\ UNCHANGED <<position, current, attempts, late, completed>>

(* Nothing was attempted: the current candidate is confirmed once more. *)
Reconfirm ==
    /\ pc = "candidates"
    /\ offered = <<>>
    /\ ~attempted
    /\ Stages[position] # History
    /\ trying' = current
    /\ runs' = 0
    /\ Goto("confirm")
    /\ UNCHANGED <<position, current, offered, attempted, attempts, late,
                   completed>>

(* Every candidate was refused: the stage is over without a change. *)
StageUnchanged ==
    /\ pc = "candidates"
    /\ offered = <<>>
    /\ attempted
    /\ Stages[position] # History
    /\ trying' = current
    /\ Advance(position)
    /\ UNCHANGED <<current, attempts, late>>

(* ENVIRONMENT_HISTORY has to change the candidate. *)
BoundaryMissing ==
    /\ pc = "candidates"
    /\ offered = <<>>
    /\ Stages[position] = History
    /\ Raise("boundary")
    /\ UNCHANGED <<position, current, offered, attempted, trying, runs, attempts,
                   late, completed>>

(* A reducer or a predicate raises. *)
CallbackRaises ==
    /\ pc = "reduce" \/ Confirming
    /\ ~Exhausted
    /\ Raise("callback")
    /\ UNCHANGED <<position, current, offered, attempted, trying, runs, attempts,
                   late, completed>>

TimePasses ==
    /\ status = "running"
    /\ ~late
    /\ late' = TRUE
    /\ UNCHANGED <<position, current, offered, attempted, trying, runs, attempts,
                   completed, pc, status, cause>>

Step ==
    \/ ConfirmOutOfBudget
    \/ \E o \in Outcomes : Trial(o)
    \/ Confirmed
    \/ Replayed
    \/ Refused
    \/ StageOutOfBudget
    \/ Reduce
    \/ Offer
    \/ Reconfirm
    \/ StageUnchanged
    \/ BoundaryMissing
    \/ CallbackRaises

Next == Step \/ TimePasses

Spec == Init /\ [][Next]_vars

(* The callbacks return or raise: the commands they run have time limits. *)
FairSpec == Spec /\ WF_vars(Step)
-----------------------------------------------------------------------------

Causes == {None, "different", "not reproduced", "boundary", "callback"}
StageNames == {StageName(p) : p \in Position}

(* Types; the log never grows past maximum_trials. *)
TypeOK ==
    /\ position \in Position
    /\ current \in Candidates
    /\ offered \in Seq(Candidates)
    /\ attempted \in BOOLEAN
    /\ trying \in Candidates
    /\ runs \in 0..ConfirmationCount
    /\ attempts \in Seq([stage : StageNames, candidate : Candidates, outcome : Outcomes])
    /\ Len(attempts) <= MaximumTrials
    /\ late \in BOOLEAN
    /\ completed \in Seq(StageNames)
    /\ pc \in {"confirm", "refused", "reduce", "candidates", "done"}
    /\ pc = "done" <=> status # "running"
    /\ status \in Statuses
    /\ cause \in Causes
    /\ pc \in {"reduce", "candidates"} => position \in 1..Len(Stages)

(* n trials in a row, the first after the attempt k, reproduced the failure  *)
(* with the candidate c in the stage s.                                      *)
Reproductions(k, n, c, s) ==
    \A j \in 1..n :
        attempts[k + j] = [stage |-> s, candidate |-> c, outcome |-> "reproduced"]

ConfirmedIn(c, s) ==
    \E k \in 0..(Len(attempts) - ConfirmationCount) :
        Reproductions(k, ConfirmationCount, c, s)

(* Once the original is confirmed, the candidate the session holds, and      *)
(* returns whatever its status, has been confirmed by ConfirmationCount      *)
(* trials in a row within one stage.                                         *)
CurrentIsConfirmed ==
    completed # <<>> => \E s \in StageNames : ConfirmedIn(current, s)

(* A completed session ends with the trials of the clean replay of the       *)
(* candidate it returns, and all of them reproduced the failure.             *)
CompletedReplayed ==
    status = "completed" =>
        /\ Len(attempts) >= ConfirmationCount
        /\ Reproductions(Len(attempts) - ConfirmationCount, ConfirmationCount,
                         current, FinalReplay)

(* A trial whose infrastructure failed, or that showed another failure, is   *)
(* the last one of its session and decides its status.                       *)
InvalidEndsSession ==
    \A i \in 1..Len(attempts) :
        /\ attempts[i].outcome = "infrastructure_invalid" =>
               i = Len(attempts) /\ status = "infrastructure_invalid"
        /\ attempts[i].outcome = "different" => i = Len(attempts) /\ status = "raised"

(* A session ends, whatever its trials show. *)
Finishes == <>(pc = "done")
=============================================================================
