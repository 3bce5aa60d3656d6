# TLA+ verification of TensorRT UpgradeGuard

TensorRT UpgradeGuard qualifies an upgrade of a GPU inference stack: it runs a
frozen corpus of models on a baseline and a candidate worker, compares them,
and publishes hash-bound evidence. The numbers it compares are produced on a
GPU; what makes the published answer trustworthy is control code: a runner
that may die anywhere and is resumed, markers that decide what is repeated,
a lock that keeps runners apart, rules that turn measured facts into failure
codes, loops that must not pass over a case nobody ran, a reducer that shrinks
a failure by repeated trials, and a chain of request, session, candidate,
bundle and replay that is written piece by piece. This directory models that
control code in TLA+, checks it with TLC, and proves part of it with TLAPS.

## 1. The system

| Component | Source | State it keeps | Operations | What is hard | What makes it correct |
|---|---|---|---|---|---|
| Resume engine | `scripts/run_gpu_qualification.sh`, `scripts/qualification_state.py`, `gates.py`, `scripts/bounded_executor.sh` | one state root: outputs and logs of about 30 steps, a marker per completed step, the matrix lock, `evidence.json`; a registry volume | run or skip a step, record, verify, reconcile, rebuild workers, lock and verify the matrix, publish, clean up | crash between any two file effects, resume on changed worlds, three hand-written tables that must agree, errexit off in step functions | a complete run is valid, evidence never mixes two locks, resuming starts clean and ends |
| Runner lock and registry | `scripts/run_locked.py`, `start_local_registry` | a flock per checkout, a container on port 5500 | acquire, contend, start registry, exit, be killed | orphaned commands keep the descriptor; the port is per machine, the lock per checkout | mutual exclusion, no stale lock, the registry stays up |
| Public orchestrator | `orchestrator.py`, `classify.py`, `errors.py` | none of its own; reads the state root after its child | start the child, validate the publication, answer | the child's lock is gone while the files are read | the answer is true of the files |
| Publication | `scripts/generate_remote_evidence.py`, `publication.py` | `evidence.json`: inventory and gate table | generate, validate | inventory of one moment, later moves | what is generated validates; it names what is there |
| Core qualification | `qualification.py` | a private staging directory, then a published summary with codes, failure records and evidence items | build, run, compare, judge memory, measure pairs, judge timing, publish | a typed failure in the middle drops what came before, half-accepted timing pairs, two stacks with one failure each | a passing summary is complete, a failing one is recorded where later steps look it up |
| Comparison rules | `compare/*.py`, `classify.py`, `errors.py` | none | decide pass, regression, inconclusive, invalid | precedence of outcomes, boundaries | an upgrade is blamed only where the corpus is valid |
| Extended domain gates | `run_plugin_matrix`, `run_mobilenet_matrix`, `scripts/validate_*_outputs.py`, `extended_artifacts.py` | a result per worker run, `validation.json`, the recorded outcome | run a worker, retain a typed failure, promote, compare over repetitions, inspect, record | loops left by `break n` with errexit off, precedence over repetitions, counting chains | passed means every case was built, run and compared; a failure rests on its own evidence |
| Failure reduction | `reduce/*.py` | hash-chained log of trials, current candidate, budgets | confirm, reduce by stages, clean replay | flaky trials, budget running out anywhere, nested reducers | the returned candidate was confirmed, a completed one was replayed |
| Public failures | `reduce/public_failure.py`, `reduce/domain.py` | a directory per failure: request, session, candidate, bundle, replay; `disposition.json` | open, reduce, export, replay, dispose, validate, resume | a crash between any two writes, new decisions over old directories, material that can never be reduced | one chain per item, the disposition is of the current decision, a reducible decision is resolved |
| Seeded reductions | `scripts/create_remote_reproductions.py`, `reduce/remote.py`, `reduce/performance.py`, three gates of the runner | work directory, prepared bundles, replays, validation, four markers | reduce G5, G2, G7, export, replay, validate, reconcile | files of two sessions, direct invocations between runs of the runner, new GPU faults | what is prepared is of one run, what is validated is of what lies beside it |
| Reproduction bundles | `reproduce/*.py` | a bundle directory and its manifest | export, verify, replay | limits that differ between export and verification, GPUs that do not fit | a replay is of the bundle it names |
| Matrix locking | `matrix/*.py` | the lock file | resolve, probe, lock, verify live | drift between lock and use | a verified lock describes the live host |
| Worker | `worker/*.py` | files of one run | build an engine, run a case | typed and untyped ends | - |
| Corpus store | `scripts/corpus_store.py`, `corpus/*.py`, `materialize_*` of the runner | directories named by the identity of their materializer, a lock, staging and stale trees, the index `corpora.json` | look up, produce, write the sidecar, check the staged tree, publish or reuse under the lock, index | racing publishers, a death between rename and read-only, producers that leave a part, commands that check for different things | an answer names what was staged, nobody is refused for being slower, an index verifies for ever |
| Result transactions, containers, doctor, CUDA plugin, contracts, reports | `results.py`, `containers`, `doctor.py`, `cpp`, `contracts`, `report` | none, or GPU state | command construction, probes, validation, formatting | floating point | - |

(Python files without a directory are in `src/upgrade_guard/`.)

How they interact. `upgrade-guard qualify` (orchestrator) starts the shell
runner as a child. The runner takes the lock, walks its script, and calls
`qualification_state.py` before, between and after steps; steps call the
worker builds, the core qualification, the extended matrices, the corpus store,
the matrix commands and the reductions. All of them communicate through files of
the state root: there are no messages, and the only callbacks are those of the
reduction (predicate, reducers, clean replay). The published core summary is
what `process_public_failure` takes its work from; a marker of `gpu-faults` is
what the seeded reductions rest on. After the child's exit the orchestrator
reads the state root again, through `publication.py`.

## 2. The modules

| Module | Models | Built on |
|---|---|---|
| `ResumeEngine` | the runner and its state root, parameterised by the tables and the script | - |
| `QualificationGates` | the real tables: 29 gates, their dependencies, orders, the real script | constants for `ResumeEngine` |
| `QualifyCommand` | `upgrade-guard qualify` around the runner, and a second direct runner | EXTENDS `ResumeEngine` |
| `ExclusiveRunner` | abstract: at most one process at work per checkout | - |
| `RunnerLock` | `run_locked.py`, inherited descriptors, kills, the registry port | refines `ExclusiveRunner` |
| `DecisionRules` | every verdict as an operator: failure taxonomy, worker failures, three-way table, determinism, memory and timing gates | - |
| `PairedMeasurement` | the paired timing loop of `_run_performance` | - |
| `CoreQualification` | one invocation of `QualificationRunner.run` | EXTENDS `PairedMeasurement`, `DecisionRules` |
| `ExtendedDomains` | `plugin-matrix` and `mobilenet-matrix`: shell loops, promotion, comparison, recorded outcome | EXTENDS `DecisionRules` |
| `ReductionStateMachine` | one reduction session of `reduce/workflow.py` | - |
| `GpuPredicates` | what one trial of G2, G7 or of a domain failure says | EXTENDS `DecisionRules` |
| `Bundles` | what export and verification accept, which GPU may replay, what a replay proves | - |
| `PublicFailure` | `process_public_failure` over the decisions the core can publish | EXTENDS `GpuPredicates`, `Bundles` |
| `SeededReductions` | preparation, replays and validation of the seeded failures, with their four markers | EXTENDS `GpuPredicates`, `Bundles` |
| `CorpusStore` | materialization and publication of corpora by the runner and by others | - |
| `MCGraph`, `MC*` | instances for TLC | |
| `*_proofs` | theorems (eight modules; those of `QualifyCommand` are in `ResumeEngine_proofs`) | the module they name |

Operators under a comment "Mistake for mutation" or "Mutant of" are not part of
a specification: each is the definition below it with a plausible bug, and shows
that a property notices it.

### ResumeEngine

The state root is three functions. `out[s]` abstracts the files a step owns,
its log included: the invocation that stamped the bytes, the *basis* (worker
digest, host identity and the lock they were computed under), the typed result,
and whether every sub-command succeeded. `marker[s]` abstracts
`state/<step>.json`. A marker holds the sha256 of each file and of each
dependency's marker; with an injective hash it determines, transitively, the
inventories of every step below, so `marker[s]` is a function from `UnderOf(s)`
to contents. `named` is what `evidence.json` inventories. `volume`, `built` and
`host` are the world: the workers in the registry volume, the newest digest a
build produced, the driver and Docker as probes see them.

`Local(s)` is one marker compared with a fresh payload, `Valid(s)` the recursion
of `verify_marker` over dependencies, `MayRecord` what `record` insists on,
`FailedMarks` the scan of `_failed_step_from_markers` (it reads markers valid or
not, and raises on two: `Ambiguous`).

The process walks `Script`, the list of calls at the end of the runner
(`pc`, `phase`), or `FailureScript` once `finish_failed_qualification` took over.
`Skip` and `Executing` are the two branches of `run_step`; a command's effect and
the following `record` are two steps, so that a crash may fall between them.
`reconcile` is three actions because it judges all markers first
(`ReconcileStart`) and then moves step after step (`ReconcileMove`), the outputs
before the marker (`CrashMoving`). Commands differ in what they do with what they
find. Five keep it (`Keeping`): core qualification compares a stored summary
again, the A/A pilot and the GPU faults move each new pair *into* the directory of
the old one and then read the old sample, the fault inputs that are there are not
made again, and the plugin build goes on in the old build directory (its outputs
may be the old ones or new ones, `KeptBases`). Reductions refuse an existing output
(`Refusing`), the lock is reused (`LockMatrix`), the rest overwrite. `CommandDies`
leaves what each command can leave. In `Masking` gates a hidden sub-command failure
still ends in a marker; the output of the failed sub-command may then be that of an
earlier invocation, computed under another lock (`StaleBases`).

### QualifyCommand

Adds the parent: `Start` spawns the child (or an operator starts the runner
directly), `RunnerStep` notices its exit, `Report` maps the exit code through
`Answer`, which re-reads the state root at that later moment. The answer
"undecided" stands for both results of a core that decided nothing
(infrastructure-invalid and inconclusive). That the command or the runner exits 4
when the lock is taken changes no file and is modelled in `RunnerLock`.

### RunnerLock

A file description is held by the runner *and* the command it started:
`Kill` of a runner with a live command keeps the lock, `CommandEnds` frees it.
`Active` is the refinement mapping to `ExclusiveRunner`.

### ReductionStateMachine

`position` is the stage, `trying` and `runs` the progress of `_confirm`,
`attempts` the hash-chained log, `late` whether `maximum_seconds` have passed;
`TimePasses` may fire between any two reads of the clock. A trial answers
reproduced, reproduced with another failure code or signature (`different`),
not reproduced, or infrastructure-invalid. `Reduce` offers any sequence of
candidates.

### DecisionRules, PairedMeasurement, CoreQualification

`DecisionRules` has no state. A case is a record of what the rules tell apart:
the schema of each stack's output, its stability, and the set of failed gates.
`CompareCase` returns the code of the case and the codes of the two typed runs,
which are not the same thing: the baseline's may say the corpus is invalid while
the case says regression. `Status` and `ExitCodeForFailure` are what the rest of
the program does with a set of codes.

`PairedMeasurement` is the loop that alternates the stacks: `order` is the seeded
bit, `block` the records of the pair under way, `raw` what stays accepted in the
raw records, `pairs` what the gate will count. `CoreQualification` runs through
`phase` (build, correctness, compare, memory, measure, performance, publish) for
each precision; `codes`, `records` and `evidence` are `failures`,
`failure_records` and the evidence items of `_execute`; `destination` is what
other components read. A typed worker failure replaces all three by its own
(`WorkerFailed`); any other exception abandons the invocation.

### ExtendedDomains

`JobAt` numbers the runs as the nested loops visit them, `AfterFailure` is the
`break`. `results` are the retained typed results. `WorkerKilled` is an untyped
end: the return code is lost and the loop goes on. `Judge` is one round of the
validator's loop over the corpus; what the outputs look like (`view`) is chosen
where the validator first reads them. `Outcome` is `inspect-outcome`, and
`Inspect` the part of `run_step` that records an outcome only if it agrees with
the exit status.

### PublicFailure

`source` is a decision core qualification can publish *and* the runner records
as failed (`DomainFailures`); it is computed from the outputs by the operators of
`DecisionRules`, and `repeats` says, by `GpuPredicates`, whether a trial with the
same outputs satisfies the predicate of the reducer. `disk[i]` is the directory
`failure-i`; each step writes one piece of it and an invocation may end between
any two. `InvokeAfterReconcile` is the runner (it has moved the whole directory
aside); `InvokeDirectly` is the script started on what is there. `Raise` collects
every check that ends an invocation; `Requalify` publishes another decision
without touching the directories.

### SeededReductions

`work`, `prepared`, `replayed` and `validation` are the outputs of four gates,
`markers` what each marker was recorded for, `Content` what it would be recorded
for now. `staged` is the memory of the script: a bundle is written from the
candidate held there and from a copy of the work directory, which a direct
invocation may have filled at another time. G5 is the choice of a regressing
prefix (`Shorter`).

### CorpusStore

An object is the tree under `by-id/<kind>/<identity>`; an identity is a kind and
a reference environment, since within a checkout the sources are fixed. `Trees`
says what a producer can leave: the core corpus is renamed into place and is
whole or absent, the plugin and MobileNet corpora are written in place with their
lock last, so a part may be left. Runners follow
`materialize_corpus_content_addressed`: `Look`, `Produce` (with `write-sidecar`),
`VerifyStaging`, then `publish`. Publishers call the commands themselves and skip
the two checks that belong to the runner. `publish` is four steps (`Acquire`,
`LookLocked`, then `Compare` or `Rename` and `Protect`), so that a `Crash` or
another caller may come between any two; `Rename` refuses a directory that is not
empty, as the system call does. `WriteIndex` may name any objects, and
`IndexVerifies` is what `qualification_state.py` later asks of the index.

## 3. Runs

All passing runs explore their whole state space. Deadlock is not checked
because each system really stops: the operator may not start again, a session
ends, a decision is resolved.

| Run | Instance | Shows |
|---|---|---|
| `resume` | 10-gate graph, 3 invocations, 1 fault, 1 host change, 1 loss of the volume, 2 worker digests, `UG_THROUGH_STEP` set or not | types; steps are recorded in an allowed order; a complete run is valid; the publication names what is there; computed evidence is under one lock; and while the volume is there: never two terminal failures, clean reruns, repetition only for cause, a publication is reached |
| `qualify` | the real 29 gates and script, 2 invocations, 1 fault or hidden failure, 1 volume loss, 1 host change, a direct runner | the answer is true of the files, a completed run is reported as such |
| `lock` | 3 processes of one checkout, 2 commits, 5 starts | lock and processes agree, exclusion (refinement), no stale lock |
| `core` | 2 precisions, 1 shape, every worker failure, 80 kinds of outputs, every order of good and bad blocks | what a summary may claim, that timing decisions rest on whole pairs, that a run ends |
| `extended` | 2 precisions, 2 cases, 2 repetitions, 2 invocations, 2 untyped ends or changed inputs, a crash | passed means all, regressions only on a valid baseline, failures are recorded and evidenced |
| `reduction` | 3 stages, 2 candidates, 2 offered per stage, 11 trials, 2 confirmations | what the log proves about the candidate, when a session may give up, that it ends |
| `disposition` | 2 shapes, every decision of the core, 3 crashes, errors, direct calls or new core runs | the chain of every item, the disposition is current, finished work is kept, a reducible decision is resolved |
| `reproductions` | every pattern of regressing prefixes, 2 candidates, 3 crashes, bad trials, direct calls or new GPU faults | what is prepared belongs together, what is validated is current, G5 is minimal, the gates are recorded in the end |
| `corpora` | a runner, 2 publishers, 2 kinds, 2 reference environments, 2 contents, 4 materializations, 1 death | answers stay true, a publisher is refused only for cause, an index keeps verifying |
| `stale_core` | 1 volume loss, 2 digests | **violation**, finding 1 |
| `wedge` | 1 shape, no faults | **violation**, finding 2 |
| `unrecorded` | 2 precisions, 2 cases, no faults | **violation**, finding 3 |

The graph of `MCGraph` keeps one gate of each kind the code treats differently:
an ordinary one, an always-step, the audit, workers, lock, live verification,
the three domain gates, and one that refuses outputs; paths through the gates
left out are contracted; of the masking gates it has preflight, the audit and
plugin-matrix (`Masking` is the real table restricted to this graph), so that a
failure may be hidden in a gate outside the lock, in an audited one and in one
computed under the lock. `qualify` covers the tables themselves. `stale_core` and
its `Masking = {}` isolate finding 1: nothing fails in it.

Bounds. Three invocations are: one that leaves something behind, one that
resumes and may be disturbed again, one that must cope. One fault per behaviour
reaches every crash point, and a world change supplies a second disturbance.
Two digests are enough to tell "the same workers" from "others". The failed
sub-command of a masking gate counts as a fault. For the reduction, eleven trials are
one more than an undisturbed session of three stages needs, so the budget runs
out in every place, early by the clock and late by the count. Two candidates
suffice since a candidate is only compared with the current one. In `lock`,
five starts let each process start and some again after a kill. In `core`, one
pair is enough for a pair to be half accepted, rejected and tried until the
attempts run out; two precisions let a failure of the second meet results of the
first. In `extended`, the second case has a predecessor that passed, and the
second repetition may contradict the first. In `disposition`, two shapes give up
to four records and two directories; three disturbances are an interrupted
piece, a direct call that finds it, and a new decision. Bundles are one file
below the limit that verification accepts. In `reproductions`, three prefixes
lie below the whole and the budget reaches two, so it ends the search early.
In `corpora`, four materializations let a race and its two objects be followed by
a lookup; callers, environments and contents are interchangeable, so the run uses
their symmetry.

Fairness. `WF(Proceed)` of the runner: every command is under
`timeout --kill-after` (`bounded_executor.sh`), so a live runner takes its next
step. `WF(Invoke)`, `WF(InvokeAfterReconcile)`, `WF(InvokeRunner)`: the
properties that something is reached in the end are about an operator who
resumes an incomplete run; nobody else restarts it. `WF(CommandEnds)`: the same
timeout ends an orphaned command. `WF(Step)` of the sessions and scripts and
`WF(Progress)` of core qualification: predicates, reducers and workers run with
time limits and return or raise. No fairness is assumed for faults, host
changes, losses or the clock; a trial that must reproduce in the end does so
because bad luck is bounded, and `Resolvable` and `Reducible` say which failures
can reproduce at all.

## 4. What the properties say

* `AtMostOneFailure`: two failed domain markers would make
  `_failed_step_from_markers` raise in every later invocation.
* `ComputedUnderOneLock`: a marker that verifies rests on the lock its outputs
  were computed under, whatever is lost or rebuilt in between. It leaves out the
  gates whose command keeps what it finds (core-qualification, aa-pilot,
  fault-inputs, gpu-faults, plugin-build) and a gate one of whose sub-commands
  failed unnoticed: after a loss of the volume that reconcile did not see, these
  can record evidence of the old lock under the new one. It is about the lock a
  gate's own command read; a gate that reads files of a keeping gate (the plugin
  matrix loads the built plugin) inherits their age. `EvidenceUnderOneLock` has no
  exception, and finding 1 shows it violated by the core.
* `RerunStartsClean`: after reconcile, a step that runs again finds none of its
  own files, whatever the crash before it left.
* `RepeatedOnlyForCause`: a completed gate is lost only if a step that each
  invocation repeats observed something new, or was torn by a failure.
* `EventuallyPublished`: with faults over, resuming reaches a publication; this
  would fail if a refused or left-over output could wedge a gate. The one other end
  is `HiddenAuditFailure`: an audit that failed unnoticed is behind a valid marker
  and stays there (section 5). This, the two
  before it and `AtMostOneFailure` are stated for an intact volume (`Intact`):
  after a loss that reconcile did not see they are false.
* `CompleteRunIsValid`, `PublicationTruthful`: exit 0 and the evidence file, in a
  world that loses the registry volume after reconcile judged the markers.
  `RecordsInOrder`: each call of `record` finds what it rests on. `OrderAssumption`,
  from which it is proved, is evaluated on the script of the repository.
* `CompletionReported`, `ReportTruthful`: the command's answer, with a second
  runner on the same files. That a second runner causes no false "passed" is due
  to the validator's comparison with the inventory. The soundness `ReportTruthful`
  promises is that of the audited gates, dependency-audit and sanitizers; a failure
  hidden in any other masking gate is not looked for again, and the command then
  answers "passed" (section 5).
* `LockFollowsProcesses`, `ImplementsExclusive`, `NoStaleLock`.
* `AcceptedRecordsArePairs`: the raw blocks show exactly the pairs the gate
  counted, although a pair is recorded half by half. `DecidedFromPairs`: no
  timing decision rests on fewer than the required pairs of every shape.
* `PassedIsComplete`, `FailuresAreRecorded`: a passing summary has one decision
  per shape, metric and performance gate of each precision; each code of a
  failing one has a record, and each numerical record one compared case, which is
  what the reduction later looks up. `BlameFollowsTheCase`: in a summary the
  runner records as a decision, the candidate is blamed only where the evidence
  of that case says so.
* `PassedComparesAll`, `WorkerFailureIsRecorded`, `FailureIsEvidenced`,
  `RegressionOnValidBaseline`: the extended gates, with errexit off, workers that
  end untyped, results an interrupted worker left, and repetitions that disagree.
* `CurrentIsConfirmed`: the candidate a session holds was reproduced by
  consecutive trials of one stage, so trials of a refused candidate never count
  for another. `CompletedReplayed`, `InvalidEndsSession`, `Finishes`.
* `DispositionLinked`: each reduced item is one chain. The validation compares
  every link but that of bundle and candidate; the order of the steps has to
  guarantee it across resumptions. `ResolvedIsCurrent`: a recorded gate speaks
  of the decision on disk. `FinishedWorkIsKept`: resuming does not repeat.
  `AgreedDecisionIsResolved`: nothing an earlier invocation left blocks a
  decision that can be reduced.
* `PreparedLinked`, `ValidationLinked`, `PerformanceIsMinimal`,
  `SeedsEventuallyValidated`: the same questions of the seeded failures.
* `AnswersHold`: what `publish` answered goes on being so, whoever races and dies;
  of two publishers of one content neither fails, which is what the lock is for
  (the rename alone would already protect the object). `IndexHolds`: nothing
  published later makes the marker of corpus-materialization invalid.

## 5. Findings

1. `stale_core`: after lost workers were rebuilt with another digest, the kept
   core summary of the old lock is accepted (`passed` is returned before the
   lock is compared) and recorded under the new one.
2. `wedge`: a failed core decision whose baseline was unstable in a case that is
   a regression has a code list and a record list that differ, and one whose
   candidate was unstable does not repeat under the predicate. The runner records
   both as failed, and no invocation of `process_public_failure` resolves them.
3. `unrecorded`: `_validate_extended_failure_artifacts` counts the chains of the
   failing stack over all cases of the result and wants one, but cases that
   passed carry chains too. A regression in any case but the first is never
   recorded.

Met while modelling, without a run of their own.

Runner and publication:

* Into an empty store the runner never publishes a corpus: `verify-corpus` wants
  the directory to bear the identity (`qualification_state.py:863`), the runner
  calls it on the staged directory `corpus`, and as `reference_run` has turned
  errexit on again, the refusal ends the materialization. A store filled by other
  means is used. In the model, no runner passes `VerifyStaging`;
  `docs/remote-qualification.md:34` says that corpora are published once.
* A publisher that dies between the rename and the change of the modes leaves a
  writable object, which is reused and indexed for good.
* When the volume is lost after a run that failed in mobilenet-matrix, reconcile
  still finds that marker valid; the workers are rebuilt later in the same
  invocation, and a failure of plugin-matrix is recorded beside it. Every later
  reconcile raises: `AtMostOneFailure` without `Intact` is false.
* When the volume is lost after a passed run and plugin-matrix then fails, the
  publication of the failure inventories the files of later gates. The next
  reconcile moves them although every marker that is left verifies, and validation
  rejects the publication for good: the command never returns the stored failure.
  `CompletionReported` is therefore stated for an intact volume.
* `docs/remote-qualification.md:36` promises one process-wide lock that protects
  the registry; the lock file is per checkout, the port per machine. `RegistrySafe`
  needs the assumption that all runners share a checkout.
* `run_step` calls step functions with errexit off, so a failing sub-command is lost
  behind a marker if what comes after it succeeds. This concerns preflight,
  cpu-verify, dependency-audit, reference-environment, plugin-build,
  profiler-preflight, target-readiness, plugin-benchmark, the plugin and MobileNet
  matrices, aa-pilot, gpu-faults, memory-seed, sanitizers and profiles
  (`FullMasking`). The publication reads the reports of pip-audit and the logs of
  the sanitizer controls again and catches those two (`FullAudited`); what was
  hidden elsewhere is published as passed.
* A hidden failure of an audit can never be repaired by resuming: its triage is
  written last and its marker verifies, so every later invocation skips the gate
  and `final-evidence` raises (`generate_remote_evidence.py:127`, `:190`). Only
  deleting the marker or the state root helps. This is the exception
  `EventuallyPublished` names.
* After a loss of the volume that reconcile did not see, workers and lock are new
  while the outputs of later gates are still in place. `aa-pilot`
  (`run_gpu_qualification.sh:1345`) and `gpu-faults` (`:1412`) move the new pair
  into the old directory and read the old sample, `fault-inputs` (`:1361`) keeps
  the old inputs, and `plugin-build` (`:852`) builds on in the old directory; like
  the core summary of finding 1, old evidence gets a marker under the new lock.
* An interruption in `matrix-live-verification` tears its output, and the next
  invocation repeats completed gates, replays included.
* The index of corpora is checked for its artifacts only when corpus-materialization
  itself is verified; a partial plugin or MobileNet tree published by hand blocks
  its identity for ever, since the runner never repairs an object.

Core qualification and the rules:

* A precision that counted too few pairs has NaN bounds; `_write_json` refuses
  them, so the invocation raises where `BUILD_PLAN.md:570` wants an
  infrastructure-invalid result.
* `Status` lets INCONCLUSIVE outrank a regression (`BUILD_PLAN.md:569` lets a
  confirmed regression stand), and memory confirmations that disagree pass where
  `BUILD_PLAN.md:596` calls them inconclusive.
* A typed worker failure of the second precision drops what the first showed.

Extended gates:

* A typed failure of the *baseline* worker is promoted as a failed qualification;
  `BUILD_PLAN.md:501` and the core (`_contextual_correctness_failure_code`) make
  the corpus invalid. Worker failures are also promoted before the numbers of the
  baseline are looked at.
* Outputs whose shape varies over the repetitions raise, so no validation is
  written. A missing result raises; one that fails its own checks is
  infrastructure-invalid, which is not recorded either.
* With a reshaped baseline and a renamed candidate output the core blames the
  candidate, the extended gates the corpus: the one exception of `AgreesWithCore`.
* A MobileNet regression that touches all classes leaves the reducer nothing to
  keep and raises in every invocation (`reduce/domain.py`).

Reductions and bundles:

* Trials of the environment-history reducer run under a fresh copy of the limits
  (`reduce/remote.py:323`, against `BUILD_PLAN.md:702`); a session whose failure
  stopped reproducing reports `budget_exhausted` if the clock passes its limit
  between the trial and the test (`reduce/workflow.py:317`).
* A session that completes without reduced outputs cannot be exported, and its
  directory blocks every later direct invocation (`public_failure.py:779`); only
  the runner, which moves the directory, gets further. Source evidence above
  4 MiB blocks the export in the same way.
* `verify_bundle` counts the manifest among the files, `export_bundle` does not:
  a bundle at the limit is written and never verifies (`reproduce/verify.py:121`).
  The suffixes copied into a bundle and those verification allows differ as well.
* If no shorter prefix of the G5 pairs regresses, `prepare-reductions` raises in
  every invocation: `Reducible` is the premise of `SeedsEventuallyValidated`.
* The boundary of the environment history of a domain failure is written from
  the retained outputs, without trials. `_preserve_partial` names directories by
  the second.
* The runner moves `public-failure/` and the work directory of the seeded
  reductions as a whole, so the code that resumes them runs only when the scripts
  are started directly, which is not under the runner's lock.

## 6. Proofs

* `RunnerLock_proofs`, for any number of runners, checkouts and commits:
  `TypeCorrect`; `LockInductive`, the invariant that a process is at work exactly
  if it holds its checkout's lock and that readiness implies being at work. The
  property alone is not inductive: that a killed runner's command keeps
  the lock needs the correspondence in both directions. From it follow
  `LockCorrect`, `RefinesExclusive` (each step is an entry, a departure or a
  stutter of `ExclusiveRunner`) and, assuming that all runners share one
  checkout, `RegistrySafe`. That assumption is what two checkouts on one machine lack.
* `ResumeEngine_proofs`, for every table of gates and script that satisfy the
  assumptions of the module, every bound and any number of losses. `TypeCorrect`.
  The lemmas take the actions in groups: gate steps, steps of fixed gates, the
  rest, failures. `RecordedInOrder` and `CompletionIsValid` share `WalkInv`, which
  says of each position of the two scripts that what was asked for before it is
  valid and, but for one failed domain step, passed. Two exceptions make it
  hold: between `ensure-workers` and the end of its record the markers of
  what depends on the workers are torn (`Torn`), and a failed run is bound to its
  failed prefix only. That recording a step disturbs just what depends on it, and
  that `Valid` passes down to all a step rests on, are lemmas about markers as
  functions; `OrderAssumption` says that the script calls each step once and after
  its dependencies, and TLC evaluates it on the real script.
  `PublicationIsTruthful` needs the publication's marker to determine what the
  file names: `PublishedInv` says it of every marker on disk and every file not
  yet recorded, by the invocation that stamped them, since a file written in one
  invocation may get its marker in no other. `OneLock` rests on `LockInv`: what
  was computed while it is not yet recorded is of the lock on disk, and a marker
  repeats it. The gates of `Keeping` are left out, and it asks that no sub-command
  failed unnoticed (`out[g].sound`): both leave files of another lock in place
  (`KeptBases`, `StaleBases`), and `KeepEvidenceWrites` and `RunGateWrites` say what
  else these two actions may write. Of the kept gates, core-qualification is the one
  finding 1 is about.
  `OneFailure`, `RerunsStartClean` and `RepeatsAreCaused` speak of a volume that
  lasts and share `IntactInv`, which follows a marker through all invocations.
  `RestInv`: a marker is `Outdated` (the probe recorded another host since, or a
  repeated step left other files) or all it rests on is on disk as it was bound.
  `StandingInv`: from reconcile on, what is not to be moved binds the disk with
  all below it, and a step without a marker has no files; hence a step executed
  then finds nothing (`ExecutingUnmarked`). `FailInv`: a recorded failure is
  outdated or agrees with every domain step before it, so a second one cannot be
  recorded (`RecordAlone`). None of them is inductive alone: that reconcile moves
  only what is outdated (`ReconcileInvalid`) needs the probe, recorded just before,
  from `WalkInv`; that an outdated marker never heals needs `Shape`, what each
  repeated step writes. `ReconcileAssumption` says where the script calls reconcile,
  and TLC evaluates it like `OrderAssumption`.
* Of the command, in the same module. `CommandRunsRunner`: each of its steps is a
  step of `ResumeEngine` or leaves it alone, hence the theorems above hold of a
  runner started by the command or beside another. `ReportIsTruthful`: that a publication
  which still verifies names sound audits and passed gates is `NamedSound`; the
  rest is that validation reads everything in one moment. `CompletionIsReported`
  is the other direction: the validator accepts what the runner published. It asks
  more than a marker that verifies, that evidence.json names every retained file as
  it lies on the disk, also the files of gates the publication does not rest on. So
  `EvidenceInv` follows a recorded publication through all later invocations:
  it stands (`EvidenceStands`), or is `Outdated`, or was written over. Beside one
  that stands nothing new is executed or recorded (`ExecutedBeside`,
  `EvidenceRecord`), because the script never gets beyond what the publication
  covers (`AskedBeside`), and reconcile moves nothing it names (`MoveEvidence`, with
  `MoveInv` on what is still to be moved). It needs `IntactInv`: a gate is executed
  again only if its marker is outdated, and what outdates a gate outdates the
  publication above it (`OutdatedAbove`).
* `CoreQualification_proofs`, for any precisions, shapes, limits, outputs and
  orders of the blocks. `AcceptedArePairs` needs `PairUnderway`: which half of a
  pair is recorded, in which order. `TimingRestsOnPairs` follows the counts from
  the measurement to the decision. `PassedSummaryIsComplete`,
  `FailedSummaryIsRecorded` and `BlameIsEvidenced` speak of a published summary,
  which only copies what the loops left; so `EvidenceInv` says which items exist
  at each point of the loops and that each gate has exactly one, and `FoundInv`
  that codes, records and items agree at every moment. `CoreTypeCorrect`.
* `ReductionStateMachine_proofs`, for any stages, limits and candidates:
  `TypeCorrect` (the log stays within `maximum_trials`), `CurrentConfirmed`,
  `CompletedWasReplayed` and `InvalidWasLast`. The step that ends a confirmation adds nothing to the
  log, it believes the count `runs`; so the invariant adds `RunsAreLast`, that
  the counted trials are the last entries of the log and concern `trying` in
  this stage. `ReplayTriesCurrent` ties the replay to the returned candidate,
  `AttemptedWithin` keeps a refused candidate inside its stage, `OriginalFirst`
  says no stage comes before the original was confirmed. `ConfirmedStays` is
  the lemma that a confirmation survives growth of the log.

* `ExtendedDomains_proofs`, for any number of precisions, cases and repetitions,
  any worker answers and any faults. `AgreesWithCore` compares the two places
  where the repository decides a case. `RegressionBlamesValidly` carries the
  view of the judged case along. `RecordedFailureIsEvidenced` and `PassedIsComplete`
  share `EvidenceInv`: the cases judged so far are those before `n`, each with
  both runs and both builds passed, the validation is what these cases say, and a
  marker repeats the validation; the property speaks only of the marker and is
  not inductive. `TypedFailureIsRecorded` rests on `LoopsInv`: without a fault
  the results are exactly those of the jobs before the current one and only the
  last can have failed, which is where the `break` counts.
* `SeededReductions_proofs`, for any pairs, budgets, candidates and targets.
  `PreparedIsLinked`: the session, the candidate and the bundle come from three
  places, so `StagedInv` states how far memory, work directory and staged bundles
  agree at each point of the script. `ValidationIsLinked`: a marker that verifies
  is compared with what lies on disk now; `GatesInv`, `RecordInv` and `MarkersInv`
  say what each marker binds when it was written, transitively, and that a
  replay under way has the bundle it started with. `PreparedPrefixIsMinimal`: the
  search takes the least of a set of numbers; that there is one is proved in
  `LeastNumber` from the well-foundedness of the naturals.
* `PublicFailure_proofs`, for any decisions, shapes, targets and numbers of
  faults. `DispositionIsLinked`: `DiskInv` is a chain for every directory however
  old, `HereInv` what this invocation has verified or written of the directory
  it is at, `ItemsInv` the chain of each item held or published. The three are
  needed together: the link of bundle and candidate is never compared, it follows
  from `DirLinked`, which no step that overwrites a candidate may meet with a
  bundle in place. `ResolvedDecisionIsCurrent` adds that only a validation against
  the source records the gate. `FinishedWorkStays` is an action property: each step
  writes one piece, and only where `DiskInv` has nothing finished behind it.
  `PublicFailureTypeCorrect`: the records of a decision are a concatenation
  defined by recursion over the shapes; that it is a sequence of records is shown
  by a least counterexample, and that a new directory has a free number by
  counting.

* `CorpusStore_proofs`, for any callers, kinds, environments, contents and deaths.
  `AnswersStayTrue` and `IndexVerifiesForever` speak of what was once answered or
  written; both follow from `StoreOnlyGrows`, that a step changes no published
  object, and that from `Exclusive` and `Seen`: who is past the lock holds it, so
  what it saw there is still so when it renames or compares. Its death frees the
  lock together with its position, and what it left is an object like any other.

The proofs rest on the ASSUMEs of the modules (shape of the tables and scripts,
bounds are naturals, at least two confirmations, distinct names), which TLC
evaluates on the instances.

Only model-checked: all liveness (`EventuallyPublished`, `NoStaleLock`,
`EveryRunEnds`, `Finishes`, `AgreedDecisionIsResolved`,
`SeedsEventuallyValidated`), which the prover does not reach. How many records a
decision has is checked, not proved.

## 7. Abstractions and what is not modelled

A sha256 is injective. The content of a file is what the code tells apart:
stamp, basis, result, soundness. Numbers appear as the outcomes the rules
distinguish: which gates failed, whether outputs were bitwise or tolerance
stable, how many confirmations exceeded the limit, what the bootstrap said. The
outputs, the memory metrics and the observations of the GPU are chosen freely
where the code first reads them. A result that is missing and one that fails its
checks are told apart only where the code does.

In `PublicFailure` and `SeededReductions` a completed reduction session is one
step: its inside is `ReductionStateMachine`. A bundle is its manifest: failure,
candidate, number of files. `reconcile` moves the paths of a step as one unit,
except for the crash between outputs and marker in `ResumeEngine`.

Not modelled: the smoke and sanitizer modes of the runner, GPU selection, the
failure diagnostic and signal numbers; a GPU container that outlives its killed
client (`timeout` ends the client only, and nothing in the runner observes the
container); the check of the matrix and environment locks by core qualification;
the delta-debugging loops of `general.py`, `inputs.py` and `shapes.py`, of which
the program uses only what `ReductionStateMachine` offers as candidates
(`reduce_sequence` and `simplify_finite_input` have no caller outside tests);
`ResultTransaction`, which nothing in the program opens; the graphs, arrays and
downloads of a corpus, of which `CorpusStore` keeps only whether a tree is whole
and which of the possible contents it has; changes of the materializer's sources
within a checkout; numeric kernels, contract validation, report formatting, the CUDA plugin and the
doctor, whose state is floating point or none.

## 8. Plan

Next modules: `PublicFailure` over a chain of core, plugin and MobileNet decisions;
the smoke and sanitizer modes; per-path moves of reconcile.
