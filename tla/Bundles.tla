------------------------------ MODULE Bundles ------------------------------
(***************************************************************************)
(* Reproduction bundles: what export_bundle accepts, what verify_bundle    *)
(* accepts again, which GPU a replay may use, and when a clean replay is a *)
(* result.  A bundle stands for the directory whose manifest hash is its   *)
(* number: two exports never have one manifest (created_at).               *)
(***************************************************************************)
EXTENDS Naturals, FiniteSets

CONSTANTS FileCountLimit,   \* BundleManifest.file_count_limit
          Requirements,     \* replay_requirements and the locked architecture
          Targets           \* the GPUs observe_replay_target may report

Properties == {"capability", "driver", "vram", "architecture", "platform"}

ASSUME BundleAssumption ==
    /\ FileCountLimit \in Nat
    /\ Requirements \in [Properties -> Nat]
    /\ Targets \subseteq [Properties -> Nat]

NoBundle == [number |-> 0]
NoReplay == [bundle |-> 0]

\* export_bundle: the manifest refuses more payload files than its limit.
Exportable(payload) == payload <= FileCountLimit

Export(failure, candidate, payload, number) ==
    [number |-> number, failure |-> failure, candidate |-> candidate, payload |-> payload]

\* verify_bundle counts bundle.json among the entries.
Verifies(bundle) == bundle.payload + 1 <= FileCountLimit

\* _replay_target_compatibility_reasons: three minima and two equalities (that of
\* the platform is asked by observe_replay_target already).
Reasons(target) ==
    {q \in {"capability", "driver", "vram"} : target[q] < Requirements[q]}
        \cup {q \in {"architecture", "platform"} : target[q] # Requirements[q]}

\* prepare_replay and execute_replay up to the first step.
Replayable(bundle, target) == Verifies(bundle) /\ Reasons(target) = {}

\* The result execute_replay publishes: every step ran as its recipe says and
\* exactly the declared failure was observed, so code and signature are the
\* bundle's own.  Otherwise it raises.
ReplayResult(bundle) == [bundle |-> bundle.number, failure |-> bundle.failure]
============================================================================
