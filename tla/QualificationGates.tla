-------------------------- MODULE QualificationGates --------------------------
(***************************************************************************)
(* The tables of src/upgrade_guard/gates.py and the calls at the end of    *)
(* scripts/run_gpu_qualification.sh, for the full mode: the values the     *)
(* parameters of ResumeEngine have in the repository.                      *)
(***************************************************************************)
EXTENDS Naturals, Sequences, FiniteSets

(* FULL_MODE_STEPS without the three steps that are no gates *)
FullGateOrder ==
    <<"preflight", "cpu-verify", "gpu-runtime-preflight", "dependency-audit",
      "registry-bootstrap", "capacity-preflight", "reference-environment",
      "corpus-materialization", "worker-images", "matrix-lock",
      "matrix-live-verification", "plugin-build", "profiler-preflight",
      "target-readiness", "sanitizers", "sboms", "aa-pilot",
      "core-qualification", "plugin-benchmark", "plugin-matrix",
      "mobilenet-matrix", "fault-inputs", "gpu-faults", "reduction-prepare",
      "replay-G2", "replay-G7", "reduction-validation", "memory-seed",
      "profiles">>

FullGates == {FullGateOrder[i] : i \in DOMAIN FullGateOrder}

FullDomainSteps == {"core-qualification", "plugin-matrix", "mobilenet-matrix"}

(* STEP_DEPENDENCIES *)
FullDeps == [g \in FullGates |->
    CASE g = "preflight" -> {}
      [] g \in {"cpu-verify"} -> {"preflight"}
      [] g \in {"gpu-runtime-preflight", "registry-bootstrap", "dependency-audit"} ->
            {"cpu-verify"}
      [] g = "capacity-preflight" -> {"preflight", "registry-bootstrap"}
      [] g \in {"reference-environment", "worker-images"} ->
            {"cpu-verify", "registry-bootstrap", "capacity-preflight"}
      [] g = "corpus-materialization" ->
            {"gpu-runtime-preflight", "capacity-preflight", "reference-environment"}
      [] g = "matrix-lock" -> {"worker-images", "gpu-runtime-preflight"}
      [] g = "matrix-live-verification" -> {"matrix-lock"}
      [] g \in {"plugin-build", "mobilenet-matrix"} ->
            {"matrix-live-verification", "corpus-materialization"}
      [] g \in {"target-readiness", "plugin-matrix"} ->
            {"plugin-build", "matrix-live-verification", "corpus-materialization"}
      [] g = "profiler-preflight" -> {"plugin-build"}
      [] g = "aa-pilot" -> {"matrix-lock", "corpus-materialization"}
      [] g = "core-qualification" ->
            {"aa-pilot", "matrix-live-verification", "corpus-materialization"}
      [] g = "plugin-benchmark" -> {"plugin-build", "profiler-preflight"}
      [] g = "fault-inputs" -> {"corpus-materialization"}
      [] g = "gpu-faults" ->
            {"matrix-live-verification", "core-qualification", "plugin-matrix",
             "fault-inputs", "plugin-build", "corpus-materialization"}
      [] g = "reduction-prepare" ->
            {"gpu-faults", "core-qualification", "plugin-matrix",
             "matrix-live-verification", "corpus-materialization"}
      [] g \in {"replay-G2", "replay-G7"} -> {"reduction-prepare"}
      [] g = "reduction-validation" -> {"reduction-prepare", "replay-G2", "replay-G7"}
      [] g = "memory-seed" ->
            {"gpu-faults", "fault-inputs", "plugin-build", "corpus-materialization"}
      [] g = "sanitizers" -> {"plugin-build", "matrix-live-verification"}
      [] g = "profiles" ->
            {"profiler-preflight", "plugin-build", "plugin-benchmark",
             "matrix-live-verification"}
      [] g = "sboms" -> {"worker-images", "matrix-live-verification"}]

(* The closure step_is_bound_to and verify_marker walk, as the solution of   *)
(* its equation on the acyclic table                                         *)
FullUnder ==
    LET below[g \in FullGates] == {g} \cup UNION {below[d] : d \in FullDeps[g]}
    IN  below

(* _topological_steps("full"): round after round of the steps whose          *)
(* dependencies are listed, each round sorted by name                        *)
FullMoveOrder ==
    <<"preflight", "cpu-verify",
      "dependency-audit", "gpu-runtime-preflight", "registry-bootstrap",
      "capacity-preflight",
      "reference-environment", "worker-images",
      "corpus-materialization", "matrix-lock",
      "aa-pilot", "fault-inputs", "matrix-live-verification",
      "core-qualification", "mobilenet-matrix", "plugin-build", "sboms",
      "plugin-matrix", "profiler-preflight", "sanitizers", "target-readiness",
      "gpu-faults", "plugin-benchmark", "public-failure",
      "memory-seed", "profiles", "reduction-prepare",
      "replay-G2", "replay-G7", "reduction-validation",
      "final-evidence", "terminal-cleanup">>

(* run_always_step, finish_failed_qualification and the plain calls *)
FullAlwaysSteps ==
    {"gpu-runtime-preflight", "registry-bootstrap", "matrix-live-verification"}

(* Step functions that can succeed although an earlier command of theirs     *)
(* failed: run_step runs them with errexit off, and what comes after neither *)
(* needs that command's files nor finds the older ones wrong.  (A failed     *)
(* docker build of the workers pushes the image that is there: the action    *)
(* BuildWorkers gives the previous digest again.)                            *)
HostMasking == {"preflight", "cpu-verify"}
ReferenceMasking == {"reference-environment"}
PluginMasking == {"plugin-build", "profiler-preflight"}
WorkerMasking == {"target-readiness", "plugin-benchmark"}
MatrixMasking == {"plugin-matrix", "mobilenet-matrix"}
PairMasking == {"aa-pilot", "gpu-faults"}
LateMasking == {"memory-seed", "sanitizers", "profiles"}
AuditMasking == {"dependency-audit"}
FullMasking ==
    HostMasking \cup ReferenceMasking \cup PluginMasking \cup WorkerMasking
    \cup MatrixMasking \cup PairMasking \cup LateMasking \cup AuditMasking

(* generate_remote_evidence.py reads the reports of pip-audit and the logs   *)
(* of the sanitizers' controls again                                         *)
FullAudited == {"dependency-audit", "sanitizers"}

(* run_core_qualification compares what it finds, compile_plugins builds on  *)
(* it; a pair moved to the place of an older one ends up inside it, and the  *)
(* fault inputs that are there are not made again                            *)
BuildKeeping == {"core-qualification", "plugin-build"}
PairKeeping == {"aa-pilot", "fault-inputs", "gpu-faults"}
FullKeeping == BuildKeeping \cup PairKeeping

(* prepare_reductions and run_replay_seed refuse an existing output *)
FullRefusing == {"reduction-prepare", "replay-G2", "replay-G7"}

Walk(first, last) ==
    [i \in 1..(last - first + 1) |->
        LET s == FullGateOrder[first + i - 1]
        IN  [op |-> IF s \in FullAlwaysSteps THEN "always" ELSE "step", step |-> s]]
Op(op, s) == << [op |-> op, step |-> s] >>

FullScript ==
    Walk(1, 3) \o Op("reconcile", "none") \o Walk(4, 9)
    \o Op("ensure-workers", "worker-images") \o Op("preserve-matrix", "none")
    \o Walk(10, 18) \o Op("finish-failed", "none")
    \o Walk(19, 20) \o Op("finish-failed", "none")
    \o Walk(21, 21) \o Op("finish-failed", "none")
    \o Walk(22, 29)
    \o Op("step", "final-evidence") \o Op("step", "terminal-cleanup")

(* The run order and the move order both list dependencies first. *)
Before(order, a, b) ==
    \E i, j \in DOMAIN order : i < j /\ order[i] = a /\ order[j] = b

ASSUME OrdersRespectDependencies ==
    \A g \in FullGates : \A d \in FullDeps[g] :
        Before(FullGateOrder, d, g) /\ Before(FullMoveOrder, d, g)
=============================================================================
