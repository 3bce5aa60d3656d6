----------------------------- MODULE RunnerLock -----------------------------
(***************************************************************************)
(* scripts/run_locked.py: one flock per checkout around the whole runner.  *)
(* The lock belongs to an open file description that the runner and every  *)
(* command it starts inherit; the kernel frees it when the last of them is *)
(* gone.  Inside, run_gpu_qualification.sh owns the local registry, a      *)
(* container on port 5500 that all the checkouts of the machine share.     *)
(***************************************************************************)
EXTENDS Naturals

CONSTANTS
    Runners,      \* qualification processes
    Checkouts,    \* project roots, each with its own lock file
    CheckoutOf,   \* [Runners -> Checkouts]
    Sources,      \* source revisions
    SourceOf,     \* [Runners -> Sources], the commit a runner qualifies
    MaxStarts     \* bound: launches

Nobody == "nobody"
NoSource == "no-source"

ASSUME RunnersAssumption ==
    /\ CheckoutOf \in [Runners -> Checkouts]
    /\ SourceOf \in [Runners -> Sources]
    /\ Nobody \notin Runners
    /\ NoSource \notin Sources
    /\ MaxStarts \in Nat

VARIABLES
    state,      \* [Runners -> "idle", "opened" (the lock file) or "live"]
    child,      \* [Runners -> a command it started is alive]
    holder,     \* [Checkouts -> whose file description holds the flock]
    registry,   \* the source whose container owns port 5500
    ready,      \* [Runners -> its processes rely on the registry]
    starts

vars == <<state, child, holder, registry, ready, starts>>

Active == {r \in Runners : state[r] = "live" \/ child[r]}

Init ==
    /\ state = [r \in Runners |-> "idle"]
    /\ child = [r \in Runners |-> FALSE]
    /\ holder = [c \in Checkouts |-> Nobody]
    /\ registry = NoSource
    /\ ready = [r \in Runners |-> FALSE]
    /\ starts = 0

(* The script executes run_locked.py, which opens the lock file. *)
Launch(r) ==
    /\ state[r] = "idle"
    /\ ~child[r]
    /\ starts < MaxStarts
    /\ starts' = starts + 1
    /\ state' = [state EXCEPT ![r] = "opened"]
    /\ UNCHANGED <<child, holder, registry, ready>>

(* Mistake for mutation: LOCK_SH. *)
AcquireShared(r) ==
    /\ state[r] = "opened"
    /\ holder' = [holder EXCEPT ![CheckoutOf[r]] = r]
    /\ state' = [state EXCEPT ![r] = "live"]
    /\ UNCHANGED <<child, registry, ready, starts>>

(* LOCK_EX | LOCK_NB succeeds; the process becomes the runner. *)
Acquire(r) ==
    /\ state[r] = "opened"
    /\ holder[CheckoutOf[r]] = Nobody
    /\ holder' = [holder EXCEPT ![CheckoutOf[r]] = r]
    /\ state' = [state EXCEPT ![r] = "live"]
    /\ UNCHANGED <<child, registry, ready, starts>>

(* QUALIFICATION_LOCK_CONTENDED: exit 4, before any trap is set *)
Contend(r) ==
    /\ state[r] = "opened"
    /\ holder[CheckoutOf[r]] # Nobody
    /\ state' = [state EXCEPT ![r] = "idle"]
    /\ UNCHANGED <<child, holder, registry, ready, starts>>

(* start_local_registry removes any other project container on the port. *)
StartRegistry(r) ==
    /\ state[r] = "live"
    /\ ~child[r]
    /\ registry' = SourceOf[r]
    /\ ready' = [ready EXCEPT ![r] = TRUE]
    /\ UNCHANGED <<state, child, holder, starts>>

(* A step starts a command, which inherits the descriptor. *)
StartCommand(r) ==
    /\ state[r] = "live"
    /\ ~child[r]
    /\ child' = [child EXCEPT ![r] = TRUE]
    /\ UNCHANGED <<state, holder, registry, ready, starts>>

(* Mistake for mutation: the lock is the metadata, which nobody removes. *)
CommandEndsLocked(r) ==
    /\ child[r]
    /\ child' = [child EXCEPT ![r] = FALSE]
    /\ ready' = [ready EXCEPT ![r] = state[r] = "live" /\ @]
    /\ UNCHANGED <<state, holder, registry, starts>>

(* It ends; if its runner was killed, the lock goes with it. *)
CommandEnds(r) ==
    /\ child[r]
    /\ child' = [child EXCEPT ![r] = FALSE]
    /\ IF state[r] = "live"
       THEN UNCHANGED <<holder, ready>>
       ELSE /\ holder' = [holder EXCEPT ![CheckoutOf[r]] = Nobody]
            /\ ready' = [ready EXCEPT ![r] = FALSE]
    /\ UNCHANGED <<state, registry, starts>>

(* The runner exits: the trap failure_report removes its own container. *)
Finish(r) ==
    /\ state[r] = "live"
    /\ ~child[r]
    /\ state' = [state EXCEPT ![r] = "idle"]
    /\ registry' = IF registry = SourceOf[r] THEN NoSource ELSE registry
    /\ ready' = [ready EXCEPT ![r] = FALSE]
    /\ holder' = [holder EXCEPT ![CheckoutOf[r]] = Nobody]
    /\ UNCHANGED <<child, starts>>

(* Mistake for mutation: the descriptor is not inheritable. *)
KillReleases(r) ==
    /\ state[r] = "live"
    /\ state' = [state EXCEPT ![r] = "idle"]
    /\ holder' = [holder EXCEPT ![CheckoutOf[r]] = Nobody]
    /\ UNCHANGED <<child, registry, ready, starts>>

(* SIGKILL: no trap; the container stays, and so may the command. *)
Kill(r) ==
    /\ state[r] = "live"
    /\ state' = [state EXCEPT ![r] = "idle"]
    /\ IF child[r]
       THEN UNCHANGED <<holder, ready>>
       ELSE /\ holder' = [holder EXCEPT ![CheckoutOf[r]] = Nobody]
            /\ ready' = [ready EXCEPT ![r] = FALSE]
    /\ UNCHANGED <<child, registry, starts>>

Next ==
    \E r \in Runners :
        \/ Launch(r) \/ Acquire(r) \/ Contend(r)
        \/ StartRegistry(r) \/ StartCommand(r) \/ CommandEnds(r)
        \/ Finish(r) \/ Kill(r)

Spec == Init /\ [][Next]_vars

(* Every command runs under timeout --kill-after, so it ends. *)
FairSpec == Spec /\ \A r \in Runners : WF_vars(CommandEnds(r))

-----------------------------------------------------------------------------
TypeOK ==
    /\ state \in [Runners -> {"idle", "opened", "live"}]
    /\ child \in [Runners -> BOOLEAN]
    /\ holder \in [Checkouts -> Runners \cup {Nobody}]
    /\ registry \in Sources \cup {NoSource}
    /\ ready \in [Runners -> BOOLEAN]
    /\ starts \in 0..MaxStarts

(* The lock of a checkout is held exactly by the runner whose processes are  *)
(* at work there -- a killed runner's command keeps it.                      *)
LockFollowsProcesses ==
    \A r \in Runners : r \in Active <=> holder[CheckoutOf[r]] = r

(* run_locked.py implements ExclusiveRunner: the processes at work exclude   *)
(* each other, orphaned commands included.                                   *)
Exclusive == INSTANCE ExclusiveRunner WITH active <- Active
ImplementsExclusive == Exclusive!Spec

(* "One process-wide file lock prevents two qualification invocations from   *)
(* racing the registry": while the processes of a runner rely on it, the     *)
(* registry of its own source stays up.                                      *)
RegistryHeld ==
    \A r \in Runners : ready[r] => registry = SourceOf[r]

(* A runner that was killed never blocks its checkout for ever: whatever the *)
(* metadata in the lock file says, the lock is free once its command ended.  *)
NoStaleLock ==
    \A r \in Runners :
        (holder[CheckoutOf[r]] = r /\ state[r] # "live")
            ~> holder[CheckoutOf[r]] # r
=============================================================================
