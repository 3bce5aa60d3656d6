--------------------------- MODULE PublicFailure ---------------------------
(***************************************************************************)
(* process_public_failure: every failure record of a failed domain gate    *)
(* is either not applicable or confirmed, reduced, exported as a bundle    *)
(* and replayed, and the disposition says so.  Each finished piece stays   *)
(* on disk, an invocation may end anywhere, and the next one resumes what  *)
(* is left.  The runner moves an unfinished directory aside before it      *)
(* invokes the script again; a user who invokes it directly does not.      *)
(***************************************************************************)
EXTENDS GpuPredicates, Bundles

CONSTANTS Shapes,           \* the shapes of the core run, sorted
          Facts,            \* what the outputs of one case may look like
          RequireBitwise,   \* determinism.require_bitwise
          Aggregates,       \* the aggregate failures that may be among the records
          Finals,           \* candidates whose outputs were reduced
          PayloadFiles,     \* payload files of a source-bearing bundle
          MaxFaults         \* bound: crashes, errors, direct calls, new core runs

ASSUME PublicFailureAssumption ==
    /\ Shapes \in Seq({Shapes[i] : i \in DOMAIN Shapes})
    /\ \A i, j \in DOMAIN Shapes : Shapes[i] = Shapes[j] => i = j
    /\ Facts \subseteq CaseFacts /\ RequireBitwise \in BOOLEAN
    /\ Aggregates \subseteq {"MEMORY_REGRESSION", "PERFORMANCE_REGRESSION"}
    /\ Finals # {} /\ "none" \notin Finals /\ "whole" \notin Finals /\ PayloadFiles \in Nat /\ MaxFaults \in Nat

VARIABLES
    source,         \* core-run: the cases, codes and records of the decision
    disk,           \* the directories failure-NN: what each of them holds
    disposition,    \* disposition.json
    pc, item, items,\* the invocation: where it is, the index, the items so far
    resolved,       \* the gate was recorded: an invocation returned
    faults          \* bad luck so far

vars == <<source, disk, disposition, pc, item, items, resolved, faults>>

BothPassed == [baseline |-> "passed", candidate |-> "passed"]

\* What the decision says of a case, and whether a trial with the very same
\* outputs satisfies the predicate of the reduction.
Verdicts ==
    {[verdict |-> CompareCase(f, RequireBitwise),
      repeats |-> DomainOutcome(f, BothPassed, RequireBitwise) = "reproduced"] : f \in Facts}

RecordIf(condition, code, env, shape) ==
    IF condition THEN <<[code |-> code, env |-> env, shape |-> shape]>> ELSE <<>>

\* The records of one case, the baseline's before the candidate's.
CaseRecords(shape, verdict) ==
    LET of(code, env) ==
            RecordIf(code # NoFailure /\ verdict.code # NoFailure, code, env, shape) IN
    of(verdict.baseline, "baseline") \o of(verdict.candidate, "candidate")

RecordsUpTo(verdicts, n) ==
    LET f[i \in 0..n] == IF i = 0 THEN <<>>
                         ELSE f[i - 1] \o CaseRecords(Shapes[i], verdicts[i].verdict)
    IN f[n]

AggregateRecords(codes) ==
    LET of(code) == RecordIf(code \in codes, code, "candidate", "all shapes") IN
    of("MEMORY_REGRESSION") \o of("PERFORMANCE_REGRESSION")

\* The summary core qualification publishes under one lock.
SourceOf(verdicts, aggregates, revision) ==
    [revision |-> revision,
     cases    |-> [i \in DOMAIN Shapes |-> verdicts[i].verdict.code],
     repeats  |-> [i \in DOMAIN Shapes |-> verdicts[i].repeats],
     codes    |-> ({verdicts[i].verdict.code : i \in DOMAIN Shapes} \ {NoFailure}) \cup aggregates,
     records  |-> RecordsUpTo(verdicts, Len(Shapes)) \o AggregateRecords(aggregates)]

\* Those the runner records as a failed domain decision (_validate_core_outcome).
DomainFailures(revision) ==
    {s \in {SourceOf(v, a, revision) : v \in [DOMAIN Shapes -> Verdicts],
                                       a \in SUBSET Aggregates} :
        /\ s.codes # {}
        /\ \A c \in s.codes : ExitCodeForFailure(c) = "QUALIFICATION_FAILED"}

Supported == {"NUMERICAL_REGRESSION"}

\* Mutant of NotApplicable: no reason is authored for a changed output schema.
NotApplicableWithoutSchema ==
    {"PLUGIN_COMPILE_FAILED", "ONNX_PARSE_FAILED", "ENGINE_BUILD_FAILED",
     "ENGINE_DESERIALIZE_FAILED", "PROFILE_REJECTED", "EXECUTION_FAILED",
     "NONFINITE_OUTPUT", "NONDETERMINISM_REGRESSION",
     "PERFORMANCE_REGRESSION", "MEMORY_REGRESSION", "SANITIZER_FAILURE"}

\* The codes _NOT_APPLICABLE_REASONS has a reason for.
NotApplicable ==
    {"PLUGIN_COMPILE_FAILED", "ONNX_PARSE_FAILED", "ENGINE_BUILD_FAILED",
     "ENGINE_DESERIALIZE_FAILED", "PROFILE_REJECTED", "EXECUTION_FAILED",
     "OUTPUT_SCHEMA_CHANGED", "NONFINITE_OUTPUT", "NONDETERMINISM_REGRESSION",
     "PERFORMANCE_REGRESSION", "MEMORY_REGRESSION", "SANITIZER_FAILURE"}

NoRequest == [revision |-> 0]
NoSession == [final |-> "none"]
NoDisposition == [revision |-> 0, items |-> <<>>]

EmptyItem == [request |-> NoRequest, session |-> NoSession,
              candidate |-> "none", bundle |-> NoBundle, replay |-> NoReplay,
              staging |-> {}]
EmptyDisk == <<>>

Init ==
    /\ source \in DomainFailures(1)
    /\ disk = EmptyDisk /\ disposition = NoDisposition
    /\ pc = "idle" /\ item = 1 /\ items = <<>>
    /\ resolved = FALSE /\ faults = 0

----------------------------------------------------------------------------
Failure == source.records[item]
Here == IF item \in DOMAIN disk THEN disk[item] ELSE EmptyItem
Becomes(dir) ==
    disk' = [i \in DOMAIN disk \cup {item} |-> IF i = item THEN dir ELSE disk[i]]
Goto(step) == pc' = step /\ UNCHANGED <<item, items>>

\* Mutant of Ended: the items of one invocation are left to the next.
EndedKeepingItems == pc' = "idle" /\ item' = 1 /\ UNCHANGED items

Ended == pc' = "idle" /\ item' = 1 /\ items' = <<>>

\* _source_failures: the codes of the summary are those of its records.
SourceAgrees == source.codes = {source.records[i].code : i \in DOMAIN source.records}

\* An invocation of the script on the directory as it is.
InvokeDirectly ==
    /\ pc = "idle" /\ ~resolved /\ faults < MaxFaults
    /\ Goto("start")
    /\ faults' = faults + 1
    /\ UNCHANGED <<source, disk, disposition, resolved>>

\* The runner: the gate is not recorded, so the whole directory it owns was
\* moved to stale before the script runs.
InvokeAfterReconcile ==
    /\ pc = "idle" /\ ~resolved
    /\ Goto("start")
    /\ disk' = EmptyDisk /\ disposition' = NoDisposition
    /\ UNCHANGED <<source, resolved, faults>>

\* A completed disposition is only validated again.
Start ==
    /\ pc = "start"
    /\ \/ /\ disposition # NoDisposition
          /\ Goto("validate")
       \/ /\ disposition = NoDisposition /\ SourceAgrees
          /\ \A n \in DOMAIN source.records : source.records[n].code # "CORPUS_INVALID"
          /\ Goto("item")
    /\ UNCHANGED <<source, disk, disposition, resolved, faults>>

\* The script leaves with an error that no later invocation can avoid.
Refuse ==
    /\ pc = "start" /\ disposition = NoDisposition
    /\ \/ ~SourceAgrees
       \/ \E n \in DOMAIN source.records : source.records[n].code = "CORPUS_INVALID"
    /\ Ended
    /\ UNCHANGED <<source, disk, disposition, resolved, faults>>

NotApplicableItem(failure) == [failure |-> failure, disposition |-> "not_applicable"]

\* A failure no reducer supports needs an authored reason.
SkipItem ==
    /\ pc = "item" /\ item <= Len(source.records)
    /\ Failure.code \in NotApplicable
    /\ items' = Append(items, NotApplicableItem(Failure)) /\ item' = item + 1
    /\ UNCHANGED <<source, disk, disposition, pc, resolved, faults>>

\* _numerical_material: exactly one case decided this failure.
OneCase ==
    Cardinality({n \in DOMAIN Shapes :
        Shapes[n] = Failure.shape /\ source.cases[n] = Failure.code}) = 1

\* The directory is created or found; _preserve_staging moves what an interrupted
\* export or replay left; then the material is resolved.
OpenItem ==
    /\ pc = "item" /\ item <= Len(source.records)
    /\ Failure.code \in Supported /\ OneCase
    /\ Becomes([Here EXCEPT !.staging = {}])
    /\ Goto("request")
    /\ UNCHANGED <<source, disposition, resolved, faults>>

RequestNow == [revision |-> source.revision, failure |-> Failure]

\* Mutant of RequestStands: a retained request is taken as it is.
RequestStandsAsIs == TRUE

\* A retained request must be the one this invocation would write.
RequestStands == Here.request \in {NoRequest, RequestNow}

WriteRequest ==
    /\ pc = "request" /\ RequestStands
    /\ Becomes([Here EXCEPT !.request = IF @ = NoRequest THEN RequestNow ELSE @])
    /\ Goto("reduction")
    /\ UNCHANGED <<source, disposition, resolved, faults>>

\* Mutant of Reduced: a finished reduction is run again.
ReducedNever == FALSE

\* session.json and candidate.json are both there.
Reduced == Here.session # NoSession /\ Here.candidate # "none"

\* The retained session is of this failure and of this candidate.
SessionStands == Here.session.failure = Failure /\ Here.session.final = Here.candidate

KeepReduction ==
    /\ pc = "reduction" /\ Reduced /\ SessionStands
    /\ Goto("bundle")
    /\ UNCHANGED <<source, disk, disposition, resolved, faults>>

\* What is left of an unfinished reduction is moved aside and it starts anew.
BeginReduction ==
    /\ pc = "reduction" /\ ~Reduced
    /\ Becomes([Here EXCEPT !.session = NoSession, !.candidate = "none"])
    /\ Goto("reducing")
    /\ UNCHANGED <<source, disposition, resolved, faults>>

\* The session completes; it is written before the candidate.
WriteSession ==
    /\ pc = "reducing" /\ Here.session = NoSession
    /\ \E final \in Finals :
         Becomes([Here EXCEPT !.session = [failure |-> Failure, final |-> final]])
    /\ UNCHANGED <<source, disposition, pc, item, items, resolved, faults>>

\* A trial of the reduced outputs did not reproduce, the others did: the session
\* completes with the original outputs.
WriteUnreducedSession ==
    /\ pc = "reducing" /\ Here.session = NoSession /\ faults < MaxFaults
    /\ Becomes([Here EXCEPT !.session = [failure |-> Failure, final |-> "whole"]])
    /\ faults' = faults + 1
    /\ UNCHANGED <<source, disposition, pc, item, items, resolved>>

WriteCandidate ==
    /\ pc = "reducing" /\ Here.session # NoSession
    /\ Becomes([Here EXCEPT !.candidate = Here.session.final])
    /\ Goto("bundle")
    /\ UNCHANGED <<source, disposition, resolved, faults>>

KeepBundle ==
    /\ pc = "bundle" /\ Here.bundle # NoBundle
    /\ Verifies(Here.bundle) /\ Here.bundle.failure = Failure
    /\ Goto("replay")
    /\ UNCHANGED <<source, disk, disposition, resolved, faults>>

StageBundle ==
    /\ pc = "bundle" /\ Here.bundle = NoBundle
    /\ Becomes([Here EXCEPT !.staging = @ \cup {"bundle"}])
    /\ Goto("exporting")
    /\ UNCHANGED <<source, disposition, resolved, faults>>

\* A manifest hash no bundle of the directory has.
NewNumber ==
    CHOOSE n \in 1..(Cardinality(DOMAIN disk) + 1) :
        /\ \A i \in DOMAIN disk : disk[i].bundle.number # n
        /\ \A m \in 1..(n - 1) : \E i \in DOMAIN disk : disk[i].bundle.number = m

\* _export_numerical_bundle needs the reduced outputs; export_bundle turns the
\* staging directory into the bundle.
ExportBundle ==
    /\ pc = "exporting" /\ Here.candidate # "whole" /\ Exportable(PayloadFiles)
    /\ Becomes([Here EXCEPT !.staging = @ \ {"bundle"},
                            !.bundle = Export(Failure, Here.candidate, PayloadFiles, NewNumber)])
    /\ Goto("replay")
    /\ UNCHANGED <<source, disposition, resolved, faults>>

\* _load_replay: the retained replay is of this bundle.
KeepReplay ==
    /\ pc = "replay" /\ Here.replay # NoReplay
    /\ Here.replay.bundle = Here.bundle.number
    /\ Goto("append")
    /\ UNCHANGED <<source, disk, disposition, resolved, faults>>

StageReplay ==
    /\ pc = "replay" /\ Here.replay = NoReplay
    /\ \E target \in Targets : Replayable(Here.bundle, target)
    /\ Becomes([Here EXCEPT !.staging = @ \cup {"replay"}])
    /\ Goto("replaying")
    /\ UNCHANGED <<source, disposition, resolved, faults>>

\* execute_replay: the bundle reproduced its failure.
PublishReplay ==
    /\ pc = "replaying"
    /\ Becomes([Here EXCEPT !.staging = @ \ {"replay"}, !.replay = ReplayResult(Here.bundle)])
    /\ Goto("append")
    /\ UNCHANGED <<source, disposition, resolved, faults>>

\* The item names the pieces by their hashes.
ReducedItem ==
    [failure |-> Failure, disposition |-> "reduced_replayed", request |-> Here.request,
     session |-> Here.session, candidate |-> Here.candidate,
     bundle |-> Here.bundle, replay |-> Here.replay]

AppendItem ==
    /\ pc = "append" /\ Here.replay.failure = Failure
    /\ items' = Append(items, ReducedItem) /\ item' = item + 1 /\ pc' = "item"
    /\ UNCHANGED <<source, disk, disposition, resolved, faults>>

WriteDisposition ==
    /\ pc = "item" /\ item > Len(source.records)
    /\ disposition' = [revision |-> source.revision, items |-> items]
    /\ Goto("validate")
    /\ UNCHANGED <<source, disk, resolved, faults>>

\* The links of one item that validate_public_failure_disposition recomputes.
ItemStands(i) ==
    LET it == disposition.items[i] IN
    it.disposition = "reduced_replayed" =>
        /\ it.request.revision = disposition.revision /\ it.request.failure = it.failure
        /\ it.session.failure = it.failure /\ it.session.final = it.candidate
        /\ it.bundle.failure = it.failure /\ Verifies(it.bundle)
        /\ it.replay.bundle = it.bundle.number /\ it.replay.failure = it.failure

\* Mutant of DispositionStands: the source is not read again.
DispositionStandsAlone == \A i \in DOMAIN disposition.items : ItemStands(i)

DispositionStands ==
    /\ \A i \in DOMAIN disposition.items : ItemStands(i)
    /\ disposition.revision = source.revision /\ SourceAgrees
    /\ [i \in DOMAIN disposition.items |-> disposition.items[i].failure] = source.records

\* The invocation returns and the runner records the gate.
Return ==
    /\ pc = "validate" /\ DispositionStands
    /\ resolved' = TRUE
    /\ Ended
    /\ UNCHANGED <<source, disk, disposition, faults>>

\* A trial with the outputs of the decision satisfies the predicate.
Repeats(failure) ==
    \E n \in DOMAIN Shapes : Shapes[n] = failure.shape /\ source.repeats[n]

\* Every check an invocation can fail at; it raises and changes nothing more.
CheckFails ==
    \/ pc = "item" /\ item <= Len(source.records)
       /\ Failure.code \notin NotApplicable
       /\ ~(Failure.code \in Supported /\ OneCase)
    \/ pc = "request" /\ ~RequestStands
    \/ pc = "reduction" /\ Reduced /\ ~SessionStands
    \/ pc = "reducing" /\ Here.session = NoSession /\ ~Repeats(Failure)
    \/ pc = "bundle" /\ Here.bundle # NoBundle
       /\ ~(Verifies(Here.bundle) /\ Here.bundle.failure = Failure)
    \/ pc = "exporting" /\ ~(Here.candidate # "whole" /\ Exportable(PayloadFiles))
    \/ pc = "replay" /\ Here.replay # NoReplay /\ Here.replay.bundle # Here.bundle.number
    \/ pc = "replay" /\ Here.replay = NoReplay /\ ~Verifies(Here.bundle)
    \/ pc = "append" /\ Here.replay.failure # Failure
    \/ pc = "validate" /\ ~DispositionStands

\* An error removes the staging directory it was filling; one about the material
\* finds the directory of the item opened.
Raise ==
    /\ CheckFails
    /\ IF pc = "exporting" \/ (pc = "item" /\ Failure.code \in Supported)
       THEN Becomes([Here EXCEPT !.staging = {}]) ELSE UNCHANGED disk
    /\ Ended
    /\ UNCHANGED <<source, disposition, resolved, faults>>

\* A trial that did not reproduce, an exhausted budget, a replay that failed, an
\* incompatible GPU or a container error: the script raises, a retry may do better.
BadLuck ==
    /\ pc \in {"reducing", "exporting", "replay", "replaying"} /\ faults < MaxFaults
    /\ pc = "reducing" => Here.session = NoSession
    /\ pc = "replay" => Here.replay = NoReplay /\ \E target \in Targets : Reasons(target) # {}
    /\ Becomes([Here EXCEPT !.staging = {}])
    /\ Ended
    /\ faults' = faults + 1
    /\ UNCHANGED <<source, disposition, resolved>>

\* The process is killed; everything on disk stays, staging directories too.
Crash ==
    /\ pc # "idle" /\ faults < MaxFaults
    /\ Ended
    /\ faults' = faults + 1
    /\ UNCHANGED <<source, disk, disposition, resolved>>

\* Core qualification runs again, perhaps under a new lock.  The markers that
\* rest on it no longer hold, the directory is still there.
Requalify ==
    /\ pc = "idle" /\ faults < MaxFaults
    /\ source' \in DomainFailures(source.revision + 1)
    /\ resolved' = FALSE /\ faults' = faults + 1
    /\ UNCHANGED <<disk, disposition, pc, item, items>>

Step ==
    \/ Start \/ Refuse \/ SkipItem \/ OpenItem \/ WriteRequest
    \/ KeepReduction \/ BeginReduction \/ WriteSession \/ WriteUnreducedSession
    \/ WriteCandidate
    \/ KeepBundle \/ StageBundle \/ ExportBundle
    \/ KeepReplay \/ StageReplay \/ PublishReplay
    \/ AppendItem \/ WriteDisposition \/ Return \/ Raise

Next ==
    \/ InvokeDirectly \/ InvokeAfterReconcile
    \/ Step
    \/ BadLuck \/ Crash \/ Requalify

\* The script runs while it can, and the runner is invoked until it recorded
\* the gate.
Spec == Init /\ [][Next]_vars /\ WF_vars(Step) /\ WF_vars(InvokeAfterReconcile)

----------------------------------------------------------------------------
Pcs == {"idle", "start", "item", "request", "reduction", "reducing", "bundle",
        "exporting", "replay", "replaying", "append", "validate"}

PublicFailureTypeOK ==
    /\ source \in DomainFailures(source.revision)
    /\ pc \in Pcs /\ item \in 1..(Len(source.records) + 1)
    /\ Len(items) = item - 1
    /\ \A i \in DOMAIN disk :
         /\ disk[i].candidate \in Finals \cup {"none", "whole"}
         /\ disk[i].staging \subseteq {"bundle", "replay"}
         /\ disk[i].bundle.number \in 0..Cardinality(DOMAIN disk)
         /\ disk[i].replay.bundle \in 0..Cardinality(DOMAIN disk)
    /\ resolved \in BOOLEAN /\ faults \in 0..MaxFaults

\* A disposition, from the moment it is on disk, covers the records of its
\* source in order, and each reduced item is one chain: this request, the
\* session that answers it, the candidate that session ended with, a bundle of
\* that very candidate and a replay of that very bundle.  The validation does
\* not compare the bundle with the candidate: the order of the steps must.
DispositionLinked ==
    \A i \in DOMAIN disposition.items :
        ItemStands(i) /\
        LET it == disposition.items[i] IN
        it.disposition = "reduced_replayed" => it.bundle.candidate = it.candidate

\* A recorded gate speaks of the decision that is on disk, whatever an earlier
\* decision left behind (process_public_failure returns on an old disposition).
ResolvedIsCurrent ==
    resolved =>
        /\ disposition.revision = source.revision
        /\ [i \in DOMAIN disposition.items |-> disposition.items[i].failure] = source.records
        /\ \A i \in DOMAIN disposition.items :
             disposition.items[i].failure.code \in Supported =>
                 disposition.items[i].disposition = "reduced_replayed"

\* Finished work is resumed, not repeated: a bundle and its replay stay as they
\* are until the whole directory is moved aside.
FinishedWorkIsKept ==
    [][\A i \in DOMAIN disk :
        \/ i \notin DOMAIN disk'
        \/ /\ disk[i].bundle # NoBundle => disk'[i].bundle = disk[i].bundle
           /\ disk[i].replay # NoReplay => disk'[i].replay = disk[i].replay
           /\ disk[i].bundle # NoBundle => disk'[i].candidate = disk[i].candidate]_vars

\* No record condemns the corpus, and every regression repeats.
Resolvable ==
    /\ SourceAgrees
    /\ \A n \in DOMAIN source.records :
         source.records[n].code \in Supported => Repeats(source.records[n])

\* A failed decision whose records agree with its codes and whose regressions
\* repeat is resolved in the end, when bad luck is finite and the runner is
\* invoked again: nothing an earlier invocation left behind blocks it
\* (process_public_failure).
AgreedDecisionIsResolved == <>[](resolved \/ ~Resolvable)

\* docs/reproduction-format.md: genuine numerical regressions of the core domain
\* use the full confirmation, reduction, bundle and replay path.  So every
\* failed decision the runner recorded is resolved in the end.
EveryDecisionIsResolved == <>[]resolved
============================================================================
