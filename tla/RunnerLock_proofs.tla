-------------------------- MODULE RunnerLock_proofs --------------------------
(* For any number of runners, checkouts and revisions: the lock follows the  *)
(* processes, run_locked.py implements ExclusiveRunner, and with a single    *)
(* checkout no runner loses its registry to another.                         *)
EXTENDS RunnerLock, TLAPS

(* The fields keep their types under every action. *)
THEOREM TypeCorrect == Spec => []TypeOK
<1>1. Init => TypeOK
  BY RunnersAssumption DEF Init, TypeOK
<1>2. TypeOK /\ [Next]_vars => TypeOK'
  <2> SUFFICES ASSUME TypeOK, [Next]_vars PROVE TypeOK'
    OBVIOUS
  <2> USE RunnersAssumption DEF TypeOK
  <2>1. CASE UNCHANGED vars
    BY <2>1 DEF vars
  <2>2. ASSUME NEW r \in Runners, Launch(r) PROVE TypeOK'
    BY <2>2 DEF Launch
  <2>3. ASSUME NEW r \in Runners, Acquire(r) PROVE TypeOK'
    BY <2>3 DEF Acquire
  <2>4. ASSUME NEW r \in Runners, Contend(r) PROVE TypeOK'
    BY <2>4 DEF Contend
  <2>5. ASSUME NEW r \in Runners, StartRegistry(r) PROVE TypeOK'
    BY <2>5 DEF StartRegistry
  <2>6. ASSUME NEW r \in Runners, StartCommand(r) PROVE TypeOK'
    BY <2>6 DEF StartCommand
  <2>7. ASSUME NEW r \in Runners, CommandEnds(r) PROVE TypeOK'
    BY <2>7 DEF CommandEnds
  <2>8. ASSUME NEW r \in Runners, Finish(r) PROVE TypeOK'
    BY <2>8 DEF Finish
  <2>9. ASSUME NEW r \in Runners, Kill(r) PROVE TypeOK'
    BY <2>9 DEF Kill
  <2> QED
    BY <2>1, <2>2, <2>3, <2>4, <2>5, <2>6, <2>7, <2>8, <2>9 DEF Next
<1> QED
  BY <1>1, <1>2, PTL DEF Spec

(* A process at work is exactly one that holds its checkout's lock; what     *)
(* relies on the registry is at work.  This is inductive.                    *)
LockInv ==
    /\ TypeOK
    /\ \A r \in Runners : (state[r] = "live" \/ child[r]) <=> holder[CheckoutOf[r]] = r
    /\ \A r \in Runners : ready[r] => state[r] = "live" \/ child[r]

(* Every action keeps the lock with the processes at work: the crash of a    *)
(* runner whose command survives is the case that matters.                   *)
THEOREM LockInductive == Spec => []LockInv
<1>1. Init => LockInv
  BY RunnersAssumption DEF Init, LockInv, TypeOK
<1>2. TypeOK /\ TypeOK' /\ LockInv /\ [Next]_vars => LockInv'
  <2> SUFFICES ASSUME TypeOK, TypeOK', LockInv, [Next]_vars PROVE LockInv'
    OBVIOUS
  <2> USE RunnersAssumption DEF TypeOK, LockInv
  <2>1. CASE UNCHANGED vars
    BY <2>1 DEF vars
  <2>2. ASSUME NEW r \in Runners, Launch(r) PROVE LockInv'
    BY <2>2 DEF Launch
  <2>3. ASSUME NEW r \in Runners, Acquire(r) PROVE LockInv'
    BY <2>3 DEF Acquire
  <2>4. ASSUME NEW r \in Runners, Contend(r) PROVE LockInv'
    BY <2>4 DEF Contend
  <2>5. ASSUME NEW r \in Runners, StartRegistry(r) PROVE LockInv'
    BY <2>5 DEF StartRegistry
  <2>6. ASSUME NEW r \in Runners, StartCommand(r) PROVE LockInv'
    BY <2>6 DEF StartCommand
  <2>7. ASSUME NEW r \in Runners, CommandEnds(r) PROVE LockInv'
    BY <2>7 DEF CommandEnds
  <2>8. ASSUME NEW r \in Runners, Finish(r) PROVE LockInv'
    BY <2>8 DEF Finish
  <2>9. ASSUME NEW r \in Runners, Kill(r) PROVE LockInv'
    BY <2>9 DEF Kill
  <2> QED
    BY <2>1, <2>2, <2>3, <2>4, <2>5, <2>6, <2>7, <2>8, <2>9 DEF Next
<1> QED
  BY <1>1, <1>2, TypeCorrect, PTL DEF Spec

(* The lock of a checkout is held exactly by the runner at work there.       *)
THEOREM LockCorrect == Spec => []LockFollowsProcesses
<1>1. LockInv => LockFollowsProcesses
  BY DEF LockInv, LockFollowsProcesses, Active
<1> QED
  BY <1>1, LockInductive, PTL

(* Every step of run_locked.py and of the runner is an entry, a departure or *)
(* a stutter of ExclusiveRunner.                                             *)
THEOREM RefinesExclusive == Spec => ImplementsExclusive
<1>1. Init => Exclusive!Init
  BY DEF Init, Exclusive!Init, Active
<1>2. LockInv /\ [Next]_vars => [Exclusive!Next]_Active
  <2> SUFFICES ASSUME LockInv, [Next]_vars PROVE [Exclusive!Next]_Active
    OBVIOUS
  <2> USE RunnersAssumption DEF TypeOK, LockInv, Active
  <2>1. CASE UNCHANGED vars
    BY <2>1 DEF vars
  <2>2. ASSUME NEW r \in Runners, Launch(r) PROVE UNCHANGED Active
    BY <2>2 DEF Launch
  <2>3. ASSUME NEW r \in Runners, Acquire(r) PROVE Exclusive!Enter(r)
    BY <2>3 DEF Acquire, Exclusive!Enter
  <2>4. ASSUME NEW r \in Runners, Contend(r) PROVE UNCHANGED Active
    BY <2>4 DEF Contend
  <2>5. ASSUME NEW r \in Runners, StartRegistry(r) PROVE UNCHANGED Active
    BY <2>5 DEF StartRegistry
  <2>6. ASSUME NEW r \in Runners, StartCommand(r) PROVE UNCHANGED Active
    BY <2>6 DEF StartCommand
  <2>7. ASSUME NEW r \in Runners, CommandEnds(r)
        PROVE Exclusive!Leave(r) \/ UNCHANGED Active
    BY <2>7 DEF CommandEnds, Exclusive!Leave
  <2>8. ASSUME NEW r \in Runners, Finish(r) PROVE Exclusive!Leave(r)
    BY <2>8 DEF Finish, Exclusive!Leave
  <2>9. ASSUME NEW r \in Runners, Kill(r)
        PROVE Exclusive!Leave(r) \/ UNCHANGED Active
    BY <2>9 DEF Kill, Exclusive!Leave
  <2> QED
    BY <2>1, <2>2, <2>3, <2>4, <2>5, <2>6, <2>7, <2>8, <2>9
       DEF Next, Exclusive!Next
<1> QED
  BY <1>1, <1>2, LockInductive, PTL DEF Spec, ImplementsExclusive, Exclusive!Spec

(* With one checkout the lock does protect the registry; with two it does    *)
(* not, as the run two_checkouts shows.                                      *)
THEOREM RegistrySafe ==
    ASSUME \A r, o \in Runners : CheckoutOf[r] = CheckoutOf[o]
    PROVE  Spec => []RegistryHeld
<1>1. Init => RegistryHeld
  BY DEF Init, RegistryHeld
<1>2. LockInv /\ RegistryHeld /\ [Next]_vars => RegistryHeld'
  <2> SUFFICES ASSUME LockInv, RegistryHeld, [Next]_vars PROVE RegistryHeld'
    OBVIOUS
  <2>0. \A r, o \in Runners : ready[o] /\ state[r] = "live" => r = o
    BY RunnersAssumption DEF LockInv, TypeOK
  <2> USE <2>0 DEF RegistryHeld, LockInv, TypeOK
  <2>1. CASE UNCHANGED vars
    BY <2>1 DEF vars
  <2>2. ASSUME NEW r \in Runners, Launch(r) \/ Acquire(r) \/ Contend(r)
        PROVE RegistryHeld'
    BY <2>2 DEF Launch, Acquire, Contend
  <2>3. ASSUME NEW r \in Runners, StartRegistry(r) PROVE RegistryHeld'
    BY <2>3 DEF StartRegistry
  <2>4. ASSUME NEW r \in Runners, StartCommand(r) PROVE RegistryHeld'
    BY <2>4 DEF StartCommand
  <2>5. ASSUME NEW r \in Runners, CommandEnds(r) PROVE RegistryHeld'
    BY <2>5 DEF CommandEnds
  <2>6. ASSUME NEW r \in Runners, Finish(r) PROVE RegistryHeld'
    BY <2>6 DEF Finish
  <2>7. ASSUME NEW r \in Runners, Kill(r) PROVE RegistryHeld'
    BY <2>7 DEF Kill
  <2> QED
    BY <2>1, <2>2, <2>3, <2>4, <2>5, <2>6, <2>7 DEF Next
<1> QED
  BY <1>1, <1>2, LockInductive, PTL DEF Spec
=============================================================================
