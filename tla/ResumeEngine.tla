---------------------------- MODULE ResumeEngine ----------------------------
(***************************************************************************)
(* The resumable qualification runner: scripts/run_gpu_qualification.sh    *)
(* walks a fixed script of steps; scripts/qualification_state.py decides   *)
(* from the files of one state root which steps may be skipped, records a  *)
(* marker for each completed step, and moves invalid evidence aside.       *)
(*                                                                         *)
(* A step owns some files (its outputs and its log): out[s].  Its marker   *)
(* marker[s] carries the inventory of those files and the sha256 of the    *)
(* marker of every direct dependency.  A sha256 is taken to be injective,  *)
(* so a marker stands for the inventory of every step it rests on, itself  *)
(* included: marker[s] is a function from {s} and all the steps below s to *)
(* the contents bound when it was recorded.                                *)
(***************************************************************************)
EXTENDS Naturals, Sequences, FiniteSets

CONSTANTS
    Gates,           \* the steps before the terminal publication
    Order,           \* the gates in the order of FULL_MODE_STEPS
    MoveOrder,       \* all steps, as _topological_steps lists them
    Deps,            \* Deps[g]: the direct dependencies of gate g
    Under,           \* Under[g]: g and every gate it transitively depends on
    DomainSteps,     \* gates whose completed outcome may be "failed"
    AlwaysSteps,     \* gates executed by run_always_step
    Masking,         \* gates whose last sub-command hides a failed earlier one
    Audited,         \* gates whose sub-results final-evidence reads again
    Keeping,         \* gates whose command keeps complete evidence it finds
    Refusing,        \* gates whose command refuses an existing output
    Script,          \* the sequence of calls at the end of the runner
    Throughs,        \* values of UG_THROUGH_STEP, NoStep when unset
    MaxInvocations,  \* bound: starts of the runner
    MaxFaults,       \* bound: crashes, failed commands and hidden failures
    MaxLosses,       \* bound: losses of the registry volume's content
    MaxHostChanges,  \* bound: driver or Docker changes
    MaxDigests       \* bound: distinct digests a worker rebuild may produce

NoStep == "none"
PublicFailure == "public-failure"
FinalEvidence == "final-evidence"
TerminalCleanup == "terminal-cleanup"
Terminal == {PublicFailure, FinalEvidence, TerminalCleanup}
Steps == Gates \cup Terminal

Item(op, s) == [op |-> op, step |-> s]
Ops == {"step", "always", "reconcile", "ensure-workers", "preserve-matrix",
        "finish-failed"}

(* finish_failed_qualification: what runs instead of the rest of the script *)
FailureScript == << Item("step", PublicFailure), Item("step", FinalEvidence),
                    Item("step", TerminalCleanup) >>

ASSUME GatesAssumption ==
    /\ Gates \cap Terminal = {}
    /\ NoStep \notin Gates
    /\ IsFiniteSet(Gates)
    /\ DomainSteps \subseteq Gates
    /\ AlwaysSteps \subseteq Gates
    /\ Audited \subseteq Gates
    /\ DomainSteps \cap AlwaysSteps = {}
    /\ "core-qualification" \notin Masking
    /\ {"worker-images", "matrix-lock", "matrix-live-verification"} \subseteq Gates

ASSUME DepsAssumption ==
    /\ Deps \in [Gates -> SUBSET Gates]
    /\ Under \in [Gates -> SUBSET Gates]
    /\ \A g \in Gates : Under[g] = {g} \cup UNION {Under[d] : d \in Deps[g]}
    /\ "core-qualification" \in Gates => "matrix-lock" \in Under["core-qualification"]
    /\ \A g \in AlwaysSteps \cup {"worker-images"} :
          "matrix-lock" \in Under[g] => g \in {"matrix-lock", "matrix-live-verification"}

ASSUME ScriptAssumption ==
    /\ Order \in Seq(Gates)
    /\ MoveOrder \in Seq(Steps)
    /\ Steps = {MoveOrder[i] : i \in DOMAIN MoveOrder}
    /\ Script \in Seq([op : Ops, step : Steps \cup {NoStep}])
    /\ Len(Script) > 0
    /\ \A i \in DOMAIN Script :
          /\ Script[i].op \in {"step", "always"} => Script[i].step \in Steps
          /\ Script[i].op = "always" <=> Script[i].step \in AlwaysSteps
    /\ Throughs \subseteq Steps \cup {NoStep}

(* The steps the script asks for before its i-th item *)
Called == {i \in DOMAIN Script : Script[i].op \in {"step", "always"}}
CalledBefore(i) == {Script[j].step : j \in {k \in Called : k < i}}

(* expected_publication_steps: the gates up to and including d *)
Place(g) == CHOOSE i \in DOMAIN Order : Order[i] = g
Prefix(d) == {g \in Gates : Place(g) <= Place(d)}

(* The runner asks for each step once and after the steps it rests on; it    *)
(* rebuilds the workers, and moves a stale lock, before it asks for anything *)
(* computed from them; and each domain step is followed by                   *)
(* finish_failed_qualification.                                              *)
ASSUME OrderAssumption ==
    /\ Gates \cup {FinalEvidence, TerminalCleanup} = {Script[i].step : i \in Called}
    /\ \A i \in Called :
          LET s == Script[i].step IN
          /\ s \notin CalledBefore(i)
          /\ s \in Gates => UNION {Under[d] : d \in Deps[s]} \subseteq CalledBefore(i)
          /\ s = FinalEvidence => CalledBefore(i) = Gates
          /\ s = TerminalCleanup => CalledBefore(i) = Gates \cup {FinalEvidence}
          /\ s \in DomainSteps => /\ Prefix(s) = CalledBefore(i) \cup {s}
                                   /\ i + 1 \in DOMAIN Script
                                   /\ Script[i + 1].op = "finish-failed"
    /\ \A i \in DOMAIN Script \ Called :
          LET op == Script[i].op IN
          /\ CalledBefore(i) \subseteq Gates
          /\ op = "ensure-workers" =>
                /\ Script[i].step = "worker-images"
                /\ "worker-images" \in CalledBefore(i)
                /\ \A g \in CalledBefore(i) \ {"worker-images"} : "worker-images" \notin Under[g]
          /\ op = "preserve-matrix" =>
                \A g \in CalledBefore(i) : "matrix-lock" \notin Under[g]

(* The one call of qualification_state.py reconcile *)
ReconcileIndex == CHOOSE i \in DOMAIN Script : Script[i].op = "reconcile"

(* Before it the runner asks for no domain step, for nothing that concerns   *)
(* the workers or their lock, and, of the steps every invocation repeats,    *)
(* for the probe of the host only.  A domain step rests on all of those.     *)
ASSUME ReconcileAssumption ==
    /\ \E i \in DOMAIN Script : Script[i].op = "reconcile"
    /\ \A i, j \in DOMAIN Script :
          Script[i].op = "reconcile" /\ Script[j].op = "reconcile" => i = j
    /\ \A i \in DOMAIN Script :
          \/ Script[i].op \in {"ensure-workers", "preserve-matrix"}
          \/ Script[i].step \in DomainSteps \cup {"worker-images", "matrix-lock"}
          => i > ReconcileIndex
    /\ AlwaysSteps \subseteq
          {"gpu-runtime-preflight", "registry-bootstrap", "matrix-live-verification"}
    /\ AlwaysSteps \cap CalledBefore(ReconcileIndex) =
          AlwaysSteps \cap {"gpu-runtime-preflight"}
    /\ AlwaysSteps \cap (Keeping \cup Refusing) = {}
    /\ \A d \in DomainSteps : AlwaysSteps \subseteq Under[d]
    /\ "worker-images" \in Under["matrix-lock"]
    /\ "matrix-lock" \in Under["matrix-live-verification"]

ASSUME BoundAssumption ==
    /\ MaxInvocations \in Nat
    /\ MaxFaults \in Nat
    /\ MaxLosses \in Nat
    /\ MaxHostChanges \in Nat
    /\ MaxDigests \in Nat \ {0}

-----------------------------------------------------------------------------
VARIABLES
    out,         \* [Steps -> contents of the owned paths and log, or NoOut]
    marker,      \* [Steps -> the recorded marker, or NoMarker]
    named,       \* the files evidence.json inventories, NoMarker if there is none
    volume,      \* digest of the workers in the registry volume, 0 if absent
    built,       \* the newest worker digest built so far
    host,        \* identity of the driver and Docker observed by probes
    pc,          \* index of the current script item, 0 when no runner lives
    prog,        \* "main" or "failed": which script is being walked
    phase,       \* "check", "record" or "move" within the current item
    todo,        \* invalid steps reconcile has still to move
    failedStep,  \* QUALIFICATION_FAILURE_STEP
    through,     \* THROUGH_STEP of this invocation
    exit,        \* exit code of the last runner
    inv,         \* invocations so far, the clock that stamps fresh outputs
    faults,      \* faults so far
    losses       \* volume losses so far

records == <<marker, named>>
disk == <<out, records>>
world == <<volume, built, host>>
process == <<pc, prog, phase, todo, failedStep, through, exit>>
budget == <<inv, faults, losses>>
vars == <<disk, world, process, budget>>

NoExit == 256
Killed == 137

(* What an output was computed from: the lock file names the two workers,  *)
(* the probed host and the invocation that created it.                     *)
Basis == [workers : Nat, host : Nat, at : Nat]
NoBasis == [workers |-> 0, host |-> 0, at |-> 0]
Results == {"absent", "partial", "passed", "failed"}

(* run stamps the bytes (timestamps, durations) and the log; result is what  *)
(* the typed outcome of the outputs says; sound says whether every           *)
(* sub-command that computes the outputs succeeded, those that               *)
(* final-evidence reads again included.                                      *)
Content(run, basis, result, sound) ==
    [run |-> run, basis |-> basis, result |-> result, sound |-> sound]
Contents == [run : Nat, basis : Basis, result : Results, sound : BOOLEAN]
NoOut == Content(0, NoBasis, "absent", FALSE)
NoMarker == <<>>

Narrow(f, S) == [x \in S |-> f[x]]

-----------------------------------------------------------------------------
(*                 Markers: scripts/qualification_state.py                 *)

(* _failed_step_from_markers: it reads the markers as they lie there, valid *)
(* or not, and raises when it finds more than one failure.                  *)
FailedMarks ==
    {d \in DomainSteps : marker[d] # NoMarker /\ marker[d][d].result = "failed"}

Ambiguous == \E d, e \in FailedMarks : d # e

EvidenceGates ==
    IF FailedMarks = {} THEN Gates ELSE UNION {Prefix(d) : d \in FailedMarks}

(* _dependencies_for *)
DepsOf(s) ==
    CASE s \in Gates         -> Deps[s]
      [] s = PublicFailure   -> FailedMarks
      [] s = FinalEvidence   -> IF FailedMarks = {} THEN Gates
                                ELSE EvidenceGates \cup {PublicFailure}
      [] s = TerminalCleanup -> {FinalEvidence}

EvidenceUnder ==
    {FinalEvidence} \cup (UNION {Under[g] : g \in EvidenceGates})
        \cup {s \in {PublicFailure} : FailedMarks # {}}

(* s and everything its verification visits *)
UnderOf(s) ==
    CASE s \in Gates         -> Under[s]
      [] s = PublicFailure   -> {s} \cup UNION {Under[d] : d \in FailedMarks}
      [] s = FinalEvidence   -> EvidenceUnder
      [] s = TerminalCleanup -> {s} \cup EvidenceUnder

LockedBasis == out["matrix-lock"].basis
LockBound == {g \in Gates : "matrix-lock" \in Under[g]} \ {"matrix-lock"}

(* _validate_step_outcome: a failed core summary must name the lock on disk; *)
(* a passed one is accepted before that comparison is reached.               *)
Recordable(s) ==
    /\ out[s].result \in {"passed", "failed"}
    /\ s = "core-qualification" /\ out[s].result = "failed"
          => out[s].basis = LockedBasis

(* The marker equals a freshly computed payload: the inventory is the one on *)
(* disk, and the dependency hashes are those of the markers on disk.         *)
Local(s) ==
    /\ marker[s] # NoMarker
    /\ DOMAIN marker[s] = UnderOf(s)
    /\ marker[s][s] = out[s]
    /\ Recordable(s)
    /\ \A d \in DepsOf(s) : marker[d] = Narrow(marker[s], UnderOf(d))

(* verify_marker of these steps, the recursion over their dependencies       *)
(* unfolded                                                                  *)
Verify(S) == \A a \in UNION {UnderOf(s) : s \in S} : Local(a)

(* a step without a marker is looked at no further *)
Valid(s) ==
    /\ marker[s] # NoMarker
    /\ s \in Terminal => ~Ambiguous
    /\ Verify({s})

(* record_marker refuses unless every direct dependency verifies *)
MayRecord(s) ==
    /\ s \in Terminal => ~Ambiguous
    /\ Verify(DepsOf(s))
    /\ Recordable(s)

(* _payload, once the dependencies verify *)
Payload(s) == [a \in UnderOf(s) |-> out[a]]

-----------------------------------------------------------------------------
(*              The runner's position in its script of calls               *)

Current == IF prog = "main" THEN Script ELSE FailureScript
Running == pc > 0
At(op) == Running /\ Current[pc].op = op
Here == Current[pc].step
Name(s) == Running /\ Here = s /\ Current[pc].op \in {"step", "always"}

(* The process is gone: its variables return to their idle values; through   *)
(* stays, to tell what the exit code was an answer to.                      *)
Stop(code) ==
    /\ pc' = 0
    /\ prog' = "main"
    /\ phase' = "check"
    /\ todo' = {}
    /\ failedStep' = NoStep
    /\ exit' = code
    /\ UNCHANGED through

(* Mistake for mutation: the end of the script is not noticed. *)
ForwardPastEnd(failed) ==
    /\ pc' = pc + 1
    /\ phase' = "check"
    /\ failedStep' = failed
    /\ UNCHANGED <<prog, todo, through, exit>>

(* The script ends with exit 0, finish_failed_qualification with exit 1 *)
Forward(failed) ==
    IF pc = Len(Current)
    THEN Stop(IF prog = "main" THEN 0 ELSE 1)
    ELSE /\ pc' = pc + 1
         /\ phase' = "check"
         /\ failedStep' = failed
         /\ UNCHANGED <<prog, todo, through, exit>>

(* The end of run_step and run_always_step: a failed domain step is         *)
(* remembered, and UG_THROUGH_STEP stops a run that has not failed.         *)
StepDone(s, result) ==
    LET failed == IF s \in DomainSteps /\ result = "failed" THEN s ELSE failedStep
    IN  IF through = s /\ failed = NoStep THEN Stop(0) ELSE Forward(failed)

Fault == faults < MaxFaults /\ faults' = faults + 1
NoFault == UNCHANGED faults

(* Mistake for mutation: run_step does not ask verify. *)
ExecutingAnyway(s) == Name(s) /\ phase = "check"

(* The command of the current item is about to run: run_step runs it when   *)
(* the marker does not verify, run_always_step always.                      *)
Executing(s) ==
    /\ Name(s)
    /\ phase = "check"
    /\ Current[pc].op = "step" => ~Valid(s)

ToRecord == phase' = "record" /\ UNCHANGED <<pc, prog, todo, failedStep, through, exit>>

Fresh(s, result, basis, sound) ==
    Content(IF s \in AlwaysSteps THEN 0 ELSE inv, basis, result, sound)

-----------------------------------------------------------------------------
(*                              Runner actions                             *)

(* bash scripts/run_gpu_qualification.sh: the operator starts or resumes.  *)
Invoke ==
    /\ ~Running
    /\ inv < MaxInvocations
    /\ inv' = inv + 1
    /\ pc' = 1
    /\ exit' = NoExit
    /\ through' \in Throughs
    /\ UNCHANGED <<disk, world, prog, phase, todo, failedStep, faults, losses>>

(* Mistake for mutation: the marker file exists, which is enough. *)
SkipMarked(s) ==
    /\ Name(s)
    /\ Current[pc].op = "step"
    /\ phase = "check"
    /\ marker[s] # NoMarker
    /\ StepDone(s, out[s].result)
    /\ UNCHANGED <<disk, world, budget>>

(* run_step finds a marker that verifies *)
Skip(s) ==
    /\ Name(s)
    /\ Current[pc].op = "step"
    /\ phase = "check"
    /\ Valid(s)
    /\ StepDone(s, out[s].result)
    /\ UNCHANGED <<disk, world, budget>>

(* run_always_step: the log and the outputs are rewritten deterministically; *)
(* gpu_runtime_preflight writes what it observes of the host.                *)
RunAlways(s) ==
    /\ s \in AlwaysSteps \ {"matrix-live-verification"}
    /\ Executing(s)
    /\ LET basis == IF s = "gpu-runtime-preflight"
                    THEN [NoBasis EXCEPT !.host = host] ELSE NoBasis
       IN  out' = [out EXCEPT ![s] = Fresh(s, "passed", basis, TRUE)]
    /\ ToRecord
    /\ UNCHANGED <<records, world, budget>>

(* verify_matrix_live re-probes the host and the workers against the lock *)
LockIsLive == LockedBasis.workers = volume /\ LockedBasis.host = host

VerifyMatrixLive ==
    LET s == "matrix-live-verification" IN
    /\ Executing(s)
    /\ LockIsLive
    /\ out' = [out EXCEPT ![s] = Fresh(s, "passed", LockedBasis, TRUE)]
    /\ ToRecord
    /\ UNCHANGED <<records, world, budget>>

(* build_workers: Docker's build cache gives the previous digest again or a *)
(* new one; the push fills the registry volume, whose tags it replaces.     *)
NextDigests == {digest \in {built, built + 1} : digest \in 1..MaxDigests}

PushWorkers ==
    \E digest \in NextDigests :
        /\ built' = digest
        /\ volume' = digest
        /\ out' = [out EXCEPT !["worker-images"] =
                     Fresh("worker-images", "passed",
                           [NoBasis EXCEPT !.workers = digest], TRUE)]
        /\ ToRecord
        /\ UNCHANGED <<records, host, budget>>

BuildWorkers == Executing("worker-images") /\ PushWorkers

(* ensure_worker_registry: present content is enough, whatever its digest *)
WorkersPresent ==
    /\ At("ensure-workers")
    /\ phase = "check"
    /\ volume # 0
    /\ Forward(failedStep)
    /\ UNCHANGED <<disk, world, budget>>

RebuildWorkers ==
    /\ At("ensure-workers")
    /\ phase = "check"
    /\ volume = 0
    /\ PushWorkers

MatrixIsStale ==
    /\ LockedBasis # NoBasis
    /\ LockedBasis.workers # out["worker-images"].basis.workers

(* preserve_stale_matrix: only the files of matrix-lock are moved aside *)
PreserveStaleMatrix ==
    /\ At("preserve-matrix")
    /\ IF MatrixIsStale
       THEN /\ out' = [out EXCEPT !["matrix-lock"] = NoOut]
            /\ marker' = [marker EXCEPT !["matrix-lock"] = NoMarker]
       ELSE UNCHANGED <<out, marker>>
    /\ Forward(failedStep)
    /\ UNCHANGED <<named, world, budget>>

(* lock_matrix: an existing lock file is reused after its self-hash check *)
LockMatrix ==
    LET s == "matrix-lock"
        new == [workers |-> volume, host |-> host, at |-> inv]
        basis == IF LockedBasis # NoBasis THEN LockedBasis ELSE new
    IN  /\ Executing(s)
        /\ out' = [out EXCEPT ![s] = Fresh(s, "passed", basis, TRUE)]
        /\ ToRecord
        /\ UNCHANGED <<records, world, budget>>

(* Mistake for mutation: every domain step keeps complete evidence it finds. *)
KeptAnywhere(s) ==
    s \in DomainSteps \cup Keeping /\ out[s].result \in {"passed", "failed"}

(* Commands that keep what they find: run_core_qualification only compares a *)
(* stored summary again; run_aa_pilot and run_gpu_faults move each new pair  *)
(* into the directory of the old one, whose sample is then read, and the     *)
(* fault inputs that are there are not made again.  Only the log is new, but *)
(* compile_plugins, which builds on in the old directory, may keep what it   *)
(* finds or compile it again for the lock on disk.                           *)
LogOnly(s) == [out[s] EXCEPT !.run = inv]
Kept(s) == s \in Keeping /\ out[s].result \in {"passed", "failed"}
KeptBases(s) ==
    {out[s].basis} \cup (IF s = "plugin-build" THEN {LockedBasis} ELSE {})

KeepEvidence(s) ==
    /\ Kept(s)
    /\ Executing(s)
    /\ \E basis \in KeptBases(s) :
          out' = [out EXCEPT ![s] = [LogOnly(s) EXCEPT !.basis = basis]]
    /\ IF Recordable(s) THEN ToRecord ELSE Stop(4)
    /\ UNCHANGED <<records, world, budget>>

(* Commands that refuse an existing output fail, after tee opened the log *)
Refused(s) == s \in Refusing /\ out[s].result # "absent"

RefuseOutput(s) ==
    /\ Refused(s)
    /\ Executing(s)
    /\ out' = [out EXCEPT ![s] = LogOnly(s)]
    /\ \E code \in {1, 4} : Stop(code)
    /\ UNCHANGED <<records, world, budget>>

(* Any other gate computes its outputs from the lock on disk.  The command   *)
(* runs with errexit off, so a gate whose last sub-command does not depend   *)
(* on the earlier ones succeeds even when one of those failed; if that one   *)
(* wrote nothing, the outputs of an earlier invocation are still there.      *)
Ordinary == Gates \ (AlwaysSteps \cup {"worker-images", "matrix-lock"})
LockOf(s) == IF s \in LockBound THEN LockedBasis ELSE NoBasis
StaleBases(s) == IF out[s].result = "absent" THEN {} ELSE {out[s].basis}

RunGate(s) ==
    /\ s \in Ordinary
    /\ ~Kept(s)
    /\ ~Refused(s)
    /\ Executing(s)
    /\ \E result \in {"passed"} \cup (IF s \in DomainSteps THEN {"failed"} ELSE {}) :
          \/ /\ out' = [out EXCEPT ![s] = Fresh(s, result, LockOf(s), TRUE)]
             /\ NoFault
          \/ /\ s \in Masking
             /\ \E basis \in {LockOf(s)} \cup StaleBases(s) :
                   out' = [out EXCEPT ![s] = Fresh(s, result, basis, FALSE)]
             /\ Fault
    /\ ToRecord
    /\ UNCHANGED <<records, world, inv, losses>>

(* resolve_public_failure *)
ResolvePublicFailure ==
    /\ Executing(PublicFailure)
    /\ out' = [out EXCEPT ![PublicFailure] =
                 Fresh(PublicFailure, "passed", LockedBasis, TRUE)]
    /\ ToRecord
    /\ UNCHANGED <<records, world, budget>>

(* generate: every marker must verify again; a passing publication also reads *)
(* the audit reports and the typed chains of the extended suites.             *)
PublicationAllowed ==
    /\ ~Ambiguous
    /\ Verify(DepsOf(FinalEvidence))
    /\ FailedMarks = {} =>
          /\ \A g \in Audited : out[g].sound
          /\ \A g \in DomainSteps \ Keeping : out[g].sound => out[g].basis = LockedBasis

(* _inventory: every retained file but those of the publication itself *)
Tree == [s \in Gates \cup {PublicFailure} |-> [marker |-> marker[s], out |-> out[s]]]

(* Mistake for mutation: an evidence.json that is there is not replaced. *)
GenerateOnce ==
    /\ Executing(FinalEvidence)
    /\ PublicationAllowed
    /\ out' = [out EXCEPT ![FinalEvidence] =
                 Content(inv, LockedBasis,
                         IF FailedMarks = {} THEN "passed" ELSE "failed", TRUE)]
    /\ named' = IF named = NoMarker THEN Tree ELSE named
    /\ ToRecord
    /\ UNCHANGED <<marker, world, budget>>

GenerateEvidence ==
    /\ Executing(FinalEvidence)
    /\ IF PublicationAllowed
       THEN /\ out' = [out EXCEPT ![FinalEvidence] =
                         Content(inv, LockedBasis,
                                 IF FailedMarks = {} THEN "passed" ELSE "failed",
                                 TRUE)]
            /\ named' = Tree
            /\ ToRecord
       ELSE /\ out' = [out EXCEPT ![FinalEvidence] = LogOnly(FinalEvidence)]
            /\ Stop(1)
            /\ UNCHANGED named
    /\ UNCHANGED <<marker, world, budget>>

(* terminal_cleanup: the container goes, the volume stays *)
CleanUp ==
    /\ Executing(TerminalCleanup)
    /\ out' = [out EXCEPT ![TerminalCleanup] =
                 Fresh(TerminalCleanup, "passed", NoBasis, TRUE)]
    /\ ToRecord
    /\ UNCHANGED <<records, world, budget>>

(* qualification_state.py record, for the step just executed *)
RecordMarker ==
    /\ Running
    /\ phase = "record"
    /\ MayRecord(Here)
    /\ marker' = [marker EXCEPT ![Here] = Payload(Here)]
    /\ StepDone(Here, out[Here].result)
    /\ UNCHANGED <<out, named, world, budget>>

RejectRecord ==
    /\ Running
    /\ phase = "record"
    /\ ~MayRecord(Here)
    /\ Stop(1)
    /\ UNCHANGED <<disk, world, budget>>

(* Mistake for mutation: a failed domain step does not end the run. *)
FinishNever ==
    /\ At("finish-failed")
    /\ Forward(failedStep)
    /\ UNCHANGED <<disk, world, budget>>

FinishFailed ==
    /\ At("finish-failed")
    /\ IF failedStep = NoStep
       THEN Forward(failedStep)
       ELSE /\ prog' = "failed"
            /\ pc' = 1
            /\ UNCHANGED <<phase, todo, failedStep, through, exit>>
    /\ UNCHANGED <<disk, world, budget>>

-----------------------------------------------------------------------------
(*      reconcile: validity is computed once, then the paths are moved     *)

(* Mistake for mutation: outputs without a marker are left where they are.   *)
InvalidMarked == {s \in Steps : ~Valid(s) /\ marker[s] # NoMarker}

Invalid == {s \in Steps : ~Valid(s) /\ (out[s] # NoOut \/ marker[s] # NoMarker)}

ReconcileRaises ==
    /\ At("reconcile")
    /\ phase = "check"
    /\ Ambiguous
    /\ Stop(1)
    /\ UNCHANGED <<disk, world, budget>>

ReconcileStart ==
    /\ At("reconcile")
    /\ phase = "check"
    /\ ~Ambiguous
    /\ todo' = Invalid
    /\ phase' = "move"
    /\ UNCHANGED <<disk, world, budget, pc, prog, failedStep, through, exit>>

(* dependencies before dependents *)
First(S) ==
    MoveOrder[CHOOSE i \in DOMAIN MoveOrder :
                 /\ MoveOrder[i] \in S
                 /\ \A j \in 1..(i - 1) : MoveOrder[j] \notin S]

ReconcileMove ==
    /\ At("reconcile")
    /\ phase = "move"
    /\ todo # {}
    /\ out' = [out EXCEPT ![First(todo)] = NoOut]
    /\ marker' = [marker EXCEPT ![First(todo)] = NoMarker]
    /\ named' = IF First(todo) = FinalEvidence THEN NoMarker ELSE named
    /\ todo' = todo \ {First(todo)}
    /\ UNCHANGED <<world, budget, pc, prog, phase, failedStep, through, exit>>

ReconcileDone ==
    /\ At("reconcile")
    /\ phase = "move"
    /\ todo = {}
    /\ Forward(failedStep)
    /\ UNCHANGED <<disk, world, budget>>

-----------------------------------------------------------------------------
(*                        Failures and the world                           *)

(* What a command that dies leaves behind.  Always-steps write no log when   *)
(* they fail; the redirection of matrix verify truncates its output first;   *)
(* a core run is published by one rename, one that decides nothing too; a    *)
(* new lock is written atomically; any other command leaves some outputs.    *)
Partial(run, basis) == Content(run, basis, "partial", FALSE)

Leftovers(s) ==
    CASE s = "matrix-live-verification" -> {Partial(0, NoBasis)}
      [] s = "registry-bootstrap" -> {out[s]}
      [] s = "gpu-runtime-preflight" -> {out[s], Partial(0, NoBasis)}
      [] s \in {"worker-images", TerminalCleanup} -> {LogOnly(s)}
      [] s = "core-qualification" -> {LogOnly(s), Partial(inv, LockedBasis)}
      [] s = "matrix-lock" ->
            {LogOnly(s),
             IF LockedBasis # NoBasis THEN Partial(inv, LockedBasis)
             ELSE Partial(inv, [workers |-> volume, host |-> host, at |-> inv])}
      [] OTHER -> {LogOnly(s), Partial(inv, NoBasis)}

(* A command exits with an error, times out, or is killed with the runner *)
CommandDies(s) ==
    /\ Fault
    /\ Executing(s)
    /\ \E left \in Leftovers(s) : out' = [out EXCEPT ![s] = left]
    /\ \E code \in {1, 3, 4, Killed} : Stop(code)
    /\ UNCHANGED <<records, world, inv, losses>>

(* matrix verify finds a drift: no fault, the lock no longer holds *)
MatrixDrift ==
    /\ Executing("matrix-live-verification")
    /\ ~LockIsLive
    /\ out' = [out EXCEPT !["matrix-live-verification"] = Partial(0, NoBasis)]
    /\ Stop(4)
    /\ UNCHANGED <<records, world, budget>>

(* The images were pushed, worker-images.json was not written *)
PushInterrupted ==
    /\ Executing("worker-images")
          \/ (At("ensure-workers") /\ phase = "check" /\ volume = 0)
    /\ Fault
    /\ \E digest \in NextDigests : built' = digest /\ volume' = digest
    /\ out' = [out EXCEPT !["worker-images"] = LogOnly("worker-images")]
    /\ \E code \in {1, 4, Killed} : Stop(code)
    /\ UNCHANGED <<records, host, inv, losses>>

(* invocation_guard: dirty checkout, unsupported host, absent tool or GPU *)
InvocationGuardFails ==
    /\ pc = 1
    /\ prog = "main"
    /\ phase = "check"
    /\ Fault
    /\ \E code \in {2, 3, 4} : Stop(code)
    /\ UNCHANGED <<disk, world, inv, losses>>

(* The runner is killed between two effects on the disk *)
Crash ==
    /\ Running
    /\ Fault
    /\ Stop(Killed)
    /\ UNCHANGED <<disk, world, inv, losses>>

(* ... after the outputs of a step were moved and before its marker was *)
CrashMoving ==
    /\ Running
    /\ Fault
    /\ \/ /\ phase = "move"
          /\ todo # {}
          /\ out' = [out EXCEPT ![First(todo)] = NoOut]
          /\ named' = IF First(todo) = FinalEvidence THEN NoMarker ELSE named
       \/ /\ At("preserve-matrix")
          /\ MatrixIsStale
          /\ out' = [out EXCEPT !["matrix-lock"] = NoOut]
          /\ UNCHANGED named
    /\ Stop(Killed)
    /\ UNCHANGED <<marker, world, inv, losses>>

(* At any moment Docker may be upgraded, between two runs the driver too ... *)
HostChange ==
    /\ host < MaxHostChanges
    /\ host' = host + 1
    /\ UNCHANGED <<disk, volume, built, process, budget>>

(* ... and between two invocations the content of the volume may be pruned. *)
LoseVolume ==
    /\ ~Running
    /\ losses < MaxLosses
    /\ volume # 0
    /\ losses' = losses + 1
    /\ volume' = 0
    /\ UNCHANGED <<disk, built, host, process, inv, faults>>

-----------------------------------------------------------------------------
Init ==
    /\ out = [s \in Steps |-> NoOut]
    /\ marker = [s \in Steps |-> NoMarker]
    /\ named = NoMarker
    /\ volume = 0
    /\ built = 0
    /\ host = 0
    /\ pc = 0
    /\ prog = "main"
    /\ phase = "check"
    /\ todo = {}
    /\ failedStep = NoStep
    /\ through = NoStep
    /\ exit = NoExit
    /\ inv = 0
    /\ faults = 0
    /\ losses = 0

(* One step of a live runner that nothing disturbs *)
Proceed ==
    \/ \E s \in Steps : Skip(s)
    \/ \E s \in AlwaysSteps : RunAlways(s)
    \/ \E s \in Gates : RunGate(s) \/ KeepEvidence(s) \/ RefuseOutput(s)
    \/ VerifyMatrixLive
    \/ MatrixDrift
    \/ BuildWorkers
    \/ WorkersPresent
    \/ RebuildWorkers
    \/ PreserveStaleMatrix
    \/ LockMatrix
    \/ ResolvePublicFailure
    \/ GenerateEvidence
    \/ CleanUp
    \/ RecordMarker
    \/ RejectRecord
    \/ FinishFailed
    \/ ReconcileRaises
    \/ ReconcileStart
    \/ ReconcileMove
    \/ ReconcileDone

Failure ==
    \/ \E s \in Steps : CommandDies(s)
    \/ PushInterrupted
    \/ InvocationGuardFails
    \/ Crash
    \/ CrashMoving

World == HostChange \/ LoseVolume

Next == Invoke \/ Proceed \/ Failure \/ World

Spec == Init /\ [][Next]_vars

(* A live runner keeps taking steps, every command being bounded by a       *)
(* timeout, and the operator resumes a run that is not complete.            *)
FairSpec == Spec /\ WF_vars(Proceed) /\ WF_vars(Invoke)

-----------------------------------------------------------------------------
(*                               Properties                                *)

TypeOK ==
    /\ out \in [Steps -> Contents]
    /\ DOMAIN marker = Steps
    /\ \A s \in Steps : \A a \in DOMAIN marker[s] :
          a \in Steps /\ marker[s][a] \in Contents
    /\ volume \in Nat /\ built \in Nat /\ host \in Nat
    /\ prog \in {"main", "failed"}
    /\ pc \in 0..Len(Current)
    /\ phase \in {"check", "record", "move"}
    /\ todo \subseteq Steps
    /\ failedStep \in DomainSteps \cup {NoStep}
    /\ through \in Throughs \cup {NoStep}
    /\ exit \in {0, 1, 2, 3, 4, Killed, NoExit}
    /\ inv \in Nat /\ faults \in Nat /\ losses \in Nat

(* A full run that exits 0 ("COMPLETE evidence=") has, for every gate, a     *)
(* marker that verifies and a passed outcome, and its publication and        *)
(* cleanup markers verify too.                                               *)
CompleteRunIsValid ==
    exit = 0 /\ through = NoStep =>
        \A s \in Gates \cup {FinalEvidence, TerminalCleanup} :
            Valid(s) /\ out[s].result = "passed"

(* evidence.json, as long as its marker verifies, names the very files and   *)
(* markers of the gates it publishes, and says "failed" exactly when a       *)
(* domain step failed.                                                       *)
PublicationTruthful ==
    Valid(FinalEvidence) =>
        /\ \A s \in DepsOf(FinalEvidence) : named[s] = Tree[s]
        /\ out[FinalEvidence].result = "failed" <=> FailedMarks # {}

(* Evidence that verifies was computed under the very lock its marker chain  *)
(* rests on: a resumed run never mixes two matrix locks.                     *)
EvidenceUnderOneLock ==
    \A g \in LockBound :
        Valid(g) => out[g].basis = marker[g]["matrix-lock"].basis

(* The same without the bound on losses, whatever is lost, rebuilt or torn   *)
(* between two steps, for the gates whose command keeps nothing it finds     *)
(* (not the core qualification, the A/A pilot, the GPU faults and the plugin *)
(* build) and when none of its sub-commands failed unnoticed.                *)
ComputedUnderOneLock ==
    \A g \in LockBound \ Keeping :
        Valid(g) /\ out[g].sound => out[g].basis = marker[g]["matrix-lock"].basis

(* qualification_state.py record finds the dependencies of the step that     *)
(* just ran valid: the script runs the steps in an order the table allows,   *)
(* whatever was skipped, moved or repeated before.                           *)
RecordsInOrder ==
    phase = "record" /\ ~Ambiguous => \A d \in DepsOf(Here) : Valid(d)

(* The volume of the local registry is still the one the run began with.     *)
Intact == losses = 0

(* A run never retains two terminal failures: _failed_step_from_markers      *)
(* would raise in every later invocation.  A lost volume can lead there.     *)
AtMostOneFailure == Intact => ~Ambiguous

(* What reconcile left behind is valid: once it is over, a step that is      *)
(* executed by run_step finds none of its own files in its way.  A volume    *)
(* lost after reconcile has judged the markers is the exception.             *)
RerunStartsClean ==
    [][\A s \in Steps \ AlwaysSteps :
          /\ Intact
          /\ Executing(s)
          /\ prog = "failed" \/ pc > ReconcileIndex
          /\ out'[s] # out[s]
          => out[s] = NoOut]_vars

(* A gate, once recorded, keeps its marker through every later invocation,   *)
(* unless a step that every invocation repeats now observes something else   *)
(* than what the marker rests on, or was left torn by a failure, or the      *)
(* workers are gone.                                                         *)
RepeatedOnlyForCause ==
    [][\A g \in Gates :
          Intact /\ marker[g] # NoMarker /\ marker'[g] # marker[g] =>
              \E a \in Under[g] \cap AlwaysSteps : out[a] # marker[g][a]]_vars

Published == Valid(TerminalCleanup)

(* An audit that failed unnoticed is recorded: no later invocation repeats   *)
(* its gate, and generate_remote_evidence.py raises each time it reads it.   *)
HiddenAuditFailure == \E g \in Audited : Valid(g) /\ ~out[g].sound

(* Once its faults are over, a run that is resumed as a whole reaches a      *)
(* publication, unless its workers are lost on the way; nothing but an audit *)
(* that failed unnoticed, and stays recorded for ever, can keep it from one. *)
EventuallyPublished ==
    [](Intact /\ through = NoStep) => <>Published \/ <>[]HiddenAuditFailure
=============================================================================
