------------------------------- MODULE MCGraph -------------------------------
(* A small sub-graph of the qualification gates for TLC *)
EXTENDS Naturals, Sequences

MCOrder == <<"preflight", "gpu-runtime-preflight", "dependency-audit",
             "worker-images", "matrix-lock", "matrix-live-verification",
             "core-qualification", "plugin-matrix", "mobilenet-matrix",
             "reduction-prepare">>
MCMoveOrder == <<"preflight",
    "dependency-audit", "gpu-runtime-preflight", "worker-images",
    "matrix-lock", "matrix-live-verification",
    "core-qualification", "mobilenet-matrix", "plugin-matrix",
    "public-failure", "reduction-prepare", "final-evidence", "terminal-cleanup">>
MCGates == {MCOrder[i] : i \in DOMAIN MCOrder}
MCAlways == {"gpu-runtime-preflight", "matrix-live-verification"}
MCDomain == {"core-qualification", "plugin-matrix", "mobilenet-matrix"}

(* STEP_DEPENDENCIES, the paths through the gates left out contracted *)
MCDeps == [g \in MCGates |->
    CASE g = "preflight"                -> {}
      [] g = "gpu-runtime-preflight"    -> {"preflight"}
      [] g = "dependency-audit"         -> {"preflight"}
      [] g = "worker-images"            -> {"preflight"}
      [] g = "matrix-lock"              -> {"worker-images", "gpu-runtime-preflight"}
      [] g = "matrix-live-verification" -> {"matrix-lock"}
      [] g = "reduction-prepare"        ->
            {"core-qualification", "plugin-matrix", "matrix-live-verification"}
      [] OTHER                          -> {"matrix-live-verification"}]
MCUnder ==
    LET below[g \in MCGates] == {g} \cup UNION {below[d] : d \in MCDeps[g]}
    IN  below

Run(s) == [op |-> IF s \in MCAlways THEN "always" ELSE "step", step |-> s]
Call(op) == [op |-> op, step |-> "none"]
MCScript == <<
    Run("preflight"), Run("gpu-runtime-preflight"), Call("reconcile"),
    Run("dependency-audit"), Run("worker-images"),
    [op |-> "ensure-workers", step |-> "worker-images"], Call("preserve-matrix"),
    Run("matrix-lock"), Run("matrix-live-verification"),
    Run("core-qualification"), Call("finish-failed"),
    Run("plugin-matrix"), Call("finish-failed"),
    Run("mobilenet-matrix"), Call("finish-failed"),
    Run("reduction-prepare"), Run("final-evidence"), Run("terminal-cleanup") >>
MCThroughs == {"none", "matrix-lock"}
=============================================================================
