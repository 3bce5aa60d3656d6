------------------------- MODULE ResumeEngine_proofs -------------------------
(* What holds of the runner for every table of gates, every script of calls  *)
(* and every bound; and, at the end, of the command that starts it.          *)
EXTENDS QualifyCommand, FiniteSetTheorems, WellFoundedInduction, TLAPS

(* UnderOf yields steps. *)
LEMMA UnderOfType == \A s \in Steps : UnderOf(s) \subseteq Steps
<1> SUFFICES ASSUME NEW s \in Steps PROVE UnderOf(s) \subseteq Steps
  OBVIOUS
<1>1. \A g \in Gates : Under[g] \subseteq Steps
  BY DepsAssumption DEF Steps
<1>2. FailedMarks \subseteq Gates
  BY GatesAssumption DEF FailedMarks
<1>3. EvidenceGates \subseteq Gates
  BY <1>2 DEF EvidenceGates, Prefix
<1>4. EvidenceUnder \subseteq Steps
  <2>1. UNION {Under[g] : g \in EvidenceGates} \subseteq Steps
    BY <1>1, <1>3
  <2>2. FinalEvidence \in Steps /\ PublicFailure \in Steps
    BY DEF Steps, Terminal
  <2> SUFFICES ASSUME NEW x \in EvidenceUnder PROVE x \in Steps
    OBVIOUS
  <2>3. \/ x = FinalEvidence
        \/ x \in UNION {Under[g] : g \in EvidenceGates}
        \/ x = PublicFailure
    BY DEF EvidenceUnder
  <2> QED
    BY <2>1, <2>2, <2>3
<1>5. CASE s \in Gates
  <2>1. s \notin Terminal
    BY <1>5, GatesAssumption
  <2> QED
    BY <1>5, <2>1, <1>1 DEF UnderOf, Terminal
<1>6. CASE s \in Terminal
  <2>1. s \notin Gates
    BY <1>6, GatesAssumption
  <2>2. UNION {Under[d] : d \in FailedMarks} \subseteq Steps
    BY <1>1, <1>2
  <2> QED
    BY <1>6, <2>1, <2>2, <1>4, GatesAssumption
       DEF UnderOf, Terminal, Steps, PublicFailure, FinalEvidence, TerminalCleanup
<1> QED
  BY <1>5, <1>6 DEF Steps

(* The contents the actions write are contents. *)
LEMMA ContentType ==
    ASSUME NEW run \in Nat, NEW basis \in Basis, NEW result \in Results,
           NEW sound \in BOOLEAN
    PROVE  Content(run, basis, result, sound) \in Contents
BY DEF Content, Contents

(* An absent output and an absent lock have the types of present ones. *)
LEMMA NoOutType == NoOut \in Contents /\ NoBasis \in Basis
BY DEF NoOut, NoBasis, Basis, Content, Contents, Results

(* The position of the runner *)
ProcessOK ==
    /\ prog \in {"main", "failed"}
    /\ pc \in 0..Len(Current)
    /\ phase \in {"check", "record", "move"}
    /\ todo \subseteq Steps
    /\ failedStep \in DomainSteps \cup {NoStep}
    /\ through \in Throughs \cup {NoStep}
    /\ exit \in {0, 1, 2, 3, 4, Killed, NoExit}

(* Both scripts have steps. *)
LEMMA CurrentType ==
    /\ Len(Script) \in Nat /\ Len(Script) > 0
    /\ Len(FailureScript) = 3
BY ScriptAssumption DEF FailureScript

(* A runner that stops is in no step. *)
LEMMA StopType ==
    ASSUME ProcessOK, NEW code \in {0, 1, 2, 3, 4, Killed}, Stop(code)
    PROVE  ProcessOK'
BY CurrentType DEF ProcessOK, Stop, Current

(* The next step of the script, or its end. *)
LEMMA ForwardType ==
    ASSUME ProcessOK, NEW failed \in DomainSteps \cup {NoStep}, Forward(failed)
    PROVE  ProcessOK'
<1>1. CASE pc = Len(Current)
  <2>1. PICK code \in {0, 1} : Stop(code)
    BY <1>1 DEF Forward
  <2> QED
    BY <2>1, StopType
<1>2. CASE pc # Len(Current)
  BY <1>2, CurrentType DEF ProcessOK, Forward, Current
<1> QED
  BY <1>1, <1>2

(* A completed step moves the position on, or stops at --through-step. *)
LEMMA StepDoneType ==
    ASSUME ProcessOK, NEW s, NEW result, StepDone(s, result)
    PROVE  ProcessOK'
<1> DEFINE failed == IF s \in DomainSteps /\ result = "failed" THEN s ELSE failedStep
<1>1. failed \in DomainSteps \cup {NoStep}
  BY DEF ProcessOK
<1>2. Stop(0) \/ Forward(failed)
  BY DEF StepDone
<1> QED
  BY <1>1, <1>2, StopType, ForwardType

(* A command that ended leaves its step to be recorded. *)
LEMMA ToRecordType == ASSUME ProcessOK, ToRecord PROVE ProcessOK'
BY DEF ProcessOK, ToRecord, Current

(* What lies on the disk and in the world *)
DiskOK ==
    /\ out \in [Steps -> Contents]
    /\ DOMAIN marker = Steps
    /\ \A s \in Steps : \A a \in DOMAIN marker[s] :
          a \in Steps /\ marker[s][a] \in Contents

CountersOK ==
    /\ volume \in Nat /\ built \in Nat /\ host \in Nat
    /\ inv \in Nat /\ faults \in Nat /\ losses \in Nat

(* The type invariant has three parts. *)
LEMMA TypeParts == TypeOK <=> DiskOK /\ CountersOK /\ ProcessOK
BY DEF TypeOK, DiskOK, CountersOK, ProcessOK

(* What the lock holds is a basis. *)
LEMMA LockedBasisType == ASSUME DiskOK PROVE LockedBasis \in Basis
<1>1. "matrix-lock" \in Steps
  BY GatesAssumption DEF Steps
<1> QED
  BY <1>1 DEF DiskOK, LockedBasis, Contents

(* A step that left only its log. *)
LEMMA LogOnlyType ==
    ASSUME DiskOK, CountersOK, NEW s \in Steps PROVE LogOnly(s) \in Contents
BY DEF DiskOK, CountersOK, LogOnly, Contents

(* What a command of this invocation wrote. *)
LEMMA FreshType ==
    ASSUME CountersOK, NEW s, NEW result \in Results, NEW basis \in Basis,
           NEW sound \in BOOLEAN
    PROVE  Fresh(s, result, basis, sound) \in Contents
BY ContentType DEF CountersOK, Fresh

(* What a command that died wrote. *)
LEMMA PartialType ==
    ASSUME NEW run \in Nat, NEW basis \in Basis
    PROVE  Partial(run, basis) \in Contents
BY ContentType DEF Partial, Results

(* The marker that record would write. *)
LEMMA PayloadType ==
    ASSUME DiskOK, NEW s \in Steps
    PROVE  \A a \in DOMAIN Payload(s) : a \in Steps /\ Payload(s)[a] \in Contents
BY UnderOfType DEF DiskOK, Payload

(* Writing one step's outputs, or one step's marker, keeps the disk typed. *)
LEMMA WriteOut ==
    ASSUME DiskOK, NEW s, NEW c \in Contents, out' = [out EXCEPT ![s] = c],
           marker' = marker
    PROVE  DiskOK'
BY DEF DiskOK

(* Reconcile moves the outputs and the marker of a step. *)
LEMMA DropBoth ==
    ASSUME DiskOK, NEW s, out' = [out EXCEPT ![s] = NoOut],
           marker' = [marker EXCEPT ![s] = NoMarker]
    PROVE  DiskOK'
<1>1. DOMAIN NoMarker = {}
  BY DEF NoMarker
<1>2. out' \in [Steps -> Contents]
  BY NoOutType DEF DiskOK
<1>3. \A r \in Steps : marker'[r] = marker[r] \/ marker'[r] = NoMarker
  BY DEF DiskOK
<1> QED
  BY <1>1, <1>2, <1>3 DEF DiskOK

(* record writes the marker of a step. *)
LEMMA WriteMarker ==
    ASSUME DiskOK, NEW s \in Steps, out' = out,
           marker' = [marker EXCEPT ![s] = Payload(s)]
    PROVE  DiskOK'
<1>1. \A r \in Steps : marker'[r] = IF r = s THEN Payload(s) ELSE marker[r]
  BY DEF DiskOK
<1> QED
  BY <1>1, PayloadType DEF DiskOK

(* Steps that touch neither disk nor counters, or only one of them *)
LEMMA SameDisk == ASSUME DiskOK, UNCHANGED <<out, marker>> PROVE DiskOK'
BY DEF DiskOK

(* A step that leaves the world and the bounds alone. *)
LEMMA SameCounters ==
    ASSUME CountersOK, UNCHANGED <<world, budget>> PROVE CountersOK'
BY DEF CountersOK, world, budget

(* A step that may count as a fault. *)
LEMMA FaultCounters ==
    ASSUME CountersOK, Fault \/ NoFault, UNCHANGED <<world, inv, losses>>
    PROVE  CountersOK'
BY DEF CountersOK, Fault, NoFault, world

(* The gates the code names are steps. *)
LEMMA NamedGates ==
    /\ {"worker-images", "matrix-lock", "matrix-live-verification"} \subseteq Steps
    /\ Gates \subseteq Steps /\ DomainSteps \subseteq Steps
    /\ AlwaysSteps \subseteq Steps /\ Terminal \subseteq Steps
BY GatesAssumption DEF Steps

(* A digest a build may produce is a number. *)
LEMMA DigestType == \A digest \in NextDigests : digest \in Nat
BY BoundAssumption DEF NextDigests

(* The workers are built and pushed. *)
LEMMA PushType ==
    ASSUME DiskOK, CountersOK, ProcessOK, PushWorkers
    PROVE  DiskOK' /\ CountersOK' /\ ProcessOK'
<1>1. PICK digest \in NextDigests :
        /\ built' = digest /\ volume' = digest
        /\ out' = [out EXCEPT !["worker-images"] =
                     Fresh("worker-images", "passed",
                           [NoBasis EXCEPT !.workers = digest], TRUE)]
        /\ ToRecord
        /\ UNCHANGED <<records, host, budget>>
  BY DEF PushWorkers
<1>2. digest \in Nat
  BY DigestType
<1>3. [NoBasis EXCEPT !.workers = digest] \in Basis
  BY <1>2 DEF NoBasis, Basis
<1>4. Fresh("worker-images", "passed", [NoBasis EXCEPT !.workers = digest], TRUE)
        \in Contents
  BY <1>3, FreshType DEF Results
<1>5. DiskOK'
  BY <1>1, <1>4, WriteOut DEF records
<1>6. CountersOK'
  BY <1>1, <1>2 DEF CountersOK, budget
<1>7. ProcessOK'
  BY <1>1, ToRecordType
<1> QED
  BY <1>5, <1>6, <1>7

(* What is left by a command that dies, typed *)
LEMMA LeftoversType ==
    ASSUME DiskOK, CountersOK, NEW s \in Steps, NEW left \in Leftovers(s)
    PROVE  left \in Contents
<1>1. LogOnly(s) \in Contents /\ out[s] \in Contents
  BY LogOnlyType DEF DiskOK
<1>2. Partial(0, NoBasis) \in Contents /\ Partial(inv, NoBasis) \in Contents
  BY PartialType, NoOutType DEF CountersOK
<1>3. Partial(inv, LockedBasis) \in Contents
  BY PartialType, LockedBasisType DEF CountersOK
<1>4. [workers |-> volume, host |-> host, at |-> inv] \in Basis
  BY DEF CountersOK, Basis
<1>5. Partial(inv, [workers |-> volume, host |-> host, at |-> inv]) \in Contents
  BY <1>4, PartialType DEF CountersOK
<1> QED
  BY <1>1, <1>2, <1>3, <1>5 DEF Leftovers

(* The first states are typed. *)
LEMMA InitType == Init => TypeOK
<1> SUFFICES ASSUME Init PROVE TypeOK
  OBVIOUS
<1>1. DiskOK
  BY NoOutType DEF Init, DiskOK, NoMarker
<1>2. CountersOK
  BY DEF Init, CountersOK
<1>3. ProcessOK
  BY CurrentType DEF Init, ProcessOK, Current
<1> QED
  BY <1>1, <1>2, <1>3, TypeParts

(* What the command of an ordinary gate writes: a basis other than the lock  *)
(* on the disk is that of outputs it found, after a failure it did not see.  *)
LEMMA RunGateWrites ==
    ASSUME NEW s, RunGate(s)
    PROVE  \E result \in {"passed"} \cup (IF s \in DomainSteps THEN {"failed"} ELSE {}),
              basis \in {LockOf(s), out[s].basis}, sound \in BOOLEAN :
              /\ out' = [out EXCEPT ![s] = Fresh(s, result, basis, sound)]
              /\ basis # LockOf(s) => /\ s \in Masking /\ ~sound
                                      /\ out[s].result # "absent"
              /\ Fault \/ NoFault
<1>1. PICK result \in {"passed"} \cup (IF s \in DomainSteps THEN {"failed"} ELSE {}) :
        \/ /\ out' = [out EXCEPT ![s] = Fresh(s, result, LockOf(s), TRUE)]
           /\ NoFault
        \/ /\ s \in Masking
           /\ \E basis \in {LockOf(s)} \cup StaleBases(s) :
                 out' = [out EXCEPT ![s] = Fresh(s, result, basis, FALSE)]
           /\ Fault
  BY DEF RunGate
<1>2. CASE out' = [out EXCEPT ![s] = Fresh(s, result, LockOf(s), TRUE)] /\ NoFault
  BY <1>2
<1>3. CASE /\ s \in Masking
           /\ \E basis \in {LockOf(s)} \cup StaleBases(s) :
                 out' = [out EXCEPT ![s] = Fresh(s, result, basis, FALSE)]
           /\ Fault
  <2>1. PICK basis \in {LockOf(s)} \cup StaleBases(s) :
          out' = [out EXCEPT ![s] = Fresh(s, result, basis, FALSE)]
    BY <1>3
  <2>2. /\ basis \in {LockOf(s), out[s].basis}
        /\ basis # LockOf(s) => out[s].result # "absent"
    BY DEF StaleBases
  <2> QED
    BY <1>3, <2>1, <2>2
<1> QED
  BY <1>1, <1>2, <1>3

(* What a command that keeps its evidence writes: its log, and the plugin    *)
(* build may have been made again.                                           *)
LEMMA KeepEvidenceWrites ==
    ASSUME DiskOK, NEW s \in Steps, KeepEvidence(s)
    PROVE  \E basis \in {out[s].basis, LockedBasis} :
              /\ out' = [out EXCEPT ![s] = [LogOnly(s) EXCEPT !.basis = basis]]
              /\ s # "plugin-build" => out' = [out EXCEPT ![s] = LogOnly(s)]
<1>1. PICK basis \in KeptBases(s) :
        out' = [out EXCEPT ![s] = [LogOnly(s) EXCEPT !.basis = basis]]
  BY DEF KeepEvidence
<1>2. /\ basis \in {out[s].basis, LockedBasis}
      /\ s # "plugin-build" => basis = out[s].basis
  BY DEF KeptBases
<1>3. [LogOnly(s) EXCEPT !.basis = out[s].basis] = LogOnly(s)
  BY DEF LogOnly, DiskOK, Contents
<1> QED
  BY <1>1, <1>2, <1>3

(* Steps that execute the command of one gate *)
LEMMA GateStepType ==
    ASSUME DiskOK, CountersOK, ProcessOK, NEW s \in Steps,
           RunAlways(s) \/ RunGate(s) \/ KeepEvidence(s) \/ RefuseOutput(s)
           \/ Skip(s)
    PROVE  DiskOK' /\ CountersOK' /\ ProcessOK'
<1>1. CASE RunAlways(s)
  <2> DEFINE basis == IF s = "gpu-runtime-preflight"
                      THEN [NoBasis EXCEPT !.host = host] ELSE NoBasis
  <2>1. basis \in Basis
    BY DEF CountersOK, NoBasis, Basis
  <2>2. Fresh(s, "passed", basis, TRUE) \in Contents
    BY <2>1, FreshType DEF Results
  <2>3. /\ out' = [out EXCEPT ![s] = Fresh(s, "passed", basis, TRUE)]
        /\ ToRecord /\ UNCHANGED <<records, world, budget>>
    BY <1>1 DEF RunAlways
  <2> QED
    BY <2>2, <2>3, WriteOut, SameCounters, ToRecordType DEF records
<1>2. CASE RunGate(s)
  <2>1. PICK result \in Results, basis \in {LockOf(s), out[s].basis},
             sound \in BOOLEAN :
          /\ out' = [out EXCEPT ![s] = Fresh(s, result, basis, sound)]
          /\ Fault \/ NoFault
    BY <1>2, RunGateWrites DEF Results
  <2>2. basis \in Basis
    BY LockedBasisType, NoOutType DEF LockOf, DiskOK, Contents
  <2>3. Fresh(s, result, basis, sound) \in Contents
    BY <2>2, FreshType
  <2>4. ToRecord /\ UNCHANGED <<records, world, inv, losses>>
    BY <1>2 DEF RunGate
  <2>5. DiskOK'
    BY <2>1, <2>3, <2>4, WriteOut DEF records
  <2> QED
    BY <2>1, <2>4, <2>5, FaultCounters, ToRecordType
<1>3. CASE KeepEvidence(s)
  <2>1. PICK basis \in {out[s].basis, LockedBasis} :
          out' = [out EXCEPT ![s] = [LogOnly(s) EXCEPT !.basis = basis]]
    BY <1>3, KeepEvidenceWrites
  <2>2. (ToRecord \/ Stop(4)) /\ UNCHANGED <<records, world, budget>>
    BY <1>3 DEF KeepEvidence
  <2>3. basis \in Basis
    BY LockedBasisType DEF DiskOK, Contents
  <2>4. [LogOnly(s) EXCEPT !.basis = basis] \in Contents
    BY <2>3, LogOnlyType DEF Contents
  <2> QED
    BY <2>1, <2>2, <2>4, WriteOut, SameCounters, ToRecordType, StopType DEF records
<1>4. CASE RefuseOutput(s)
  <2>1. /\ out' = [out EXCEPT ![s] = LogOnly(s)]
        /\ \E code \in {1, 4} : Stop(code)
        /\ UNCHANGED <<records, world, budget>>
    BY <1>4 DEF RefuseOutput
  <2> QED
    BY <2>1, LogOnlyType, WriteOut, SameCounters, StopType DEF records
<1>5. CASE Skip(s)
  <2>1. StepDone(s, out[s].result) /\ UNCHANGED <<disk, world, budget>>
    BY <1>5 DEF Skip
  <2> QED
    BY <2>1, SameDisk, SameCounters, StepDoneType DEF disk, records
<1> QED
  BY <1>1, <1>2, <1>3, <1>4, <1>5

(* Steps of the script that are not the command of an ordinary gate *)
LEMMA FixedStepType ==
    ASSUME DiskOK, CountersOK, ProcessOK,
           VerifyMatrixLive \/ MatrixDrift \/ BuildWorkers \/ WorkersPresent
           \/ RebuildWorkers \/ PreserveStaleMatrix \/ LockMatrix
           \/ ResolvePublicFailure \/ GenerateEvidence \/ CleanUp
    PROVE  DiskOK' /\ CountersOK' /\ ProcessOK'
<1> USE NamedGates
<1>1. CASE VerifyMatrixLive
  <2> DEFINE s == "matrix-live-verification"
  <2>1. /\ out' = [out EXCEPT ![s] = Fresh(s, "passed", LockedBasis, TRUE)]
        /\ ToRecord /\ UNCHANGED <<records, world, budget>>
    BY <1>1 DEF VerifyMatrixLive
  <2>2. Fresh(s, "passed", LockedBasis, TRUE) \in Contents
    BY LockedBasisType, FreshType DEF Results
  <2> QED
    BY <2>1, <2>2, WriteOut, SameCounters, ToRecordType DEF records
<1>2. CASE MatrixDrift
  <2>1. /\ out' = [out EXCEPT !["matrix-live-verification"] = Partial(0, NoBasis)]
        /\ Stop(4) /\ UNCHANGED <<records, world, budget>>
    BY <1>2 DEF MatrixDrift
  <2>2. Partial(0, NoBasis) \in Contents
    BY PartialType, NoOutType
  <2> QED
    BY <2>1, <2>2, WriteOut, SameCounters, StopType DEF records
<1>3. CASE BuildWorkers \/ RebuildWorkers
  BY <1>3, PushType DEF BuildWorkers, RebuildWorkers
<1>4. CASE WorkersPresent
  <2>1. Forward(failedStep) /\ UNCHANGED <<disk, world, budget>>
    BY <1>4 DEF WorkersPresent
  <2>2. failedStep \in DomainSteps \cup {NoStep}
    BY DEF ProcessOK
  <2> QED
    BY <2>1, <2>2, SameDisk, SameCounters, ForwardType DEF disk, records
<1>5. CASE PreserveStaleMatrix
  <2>1. /\ Forward(failedStep) /\ UNCHANGED <<named, world, budget>>
        /\ \/ /\ out' = [out EXCEPT !["matrix-lock"] = NoOut]
              /\ marker' = [marker EXCEPT !["matrix-lock"] = NoMarker]
           \/ UNCHANGED <<out, marker>>
    BY <1>5 DEF PreserveStaleMatrix
  <2>2. failedStep \in DomainSteps \cup {NoStep}
    BY DEF ProcessOK
  <2>3. DiskOK'
    BY <2>1, SameDisk, DropBoth
  <2> QED
    BY <2>1, <2>2, <2>3, SameCounters, ForwardType
<1>6. CASE LockMatrix
  <2> DEFINE new == [workers |-> volume, host |-> host, at |-> inv]
  <2> DEFINE basis == IF LockedBasis # NoBasis THEN LockedBasis ELSE new
  <2>1. /\ out' = [out EXCEPT !["matrix-lock"] =
                                Fresh("matrix-lock", "passed", basis, TRUE)]
        /\ ToRecord /\ UNCHANGED <<records, world, budget>>
    BY <1>6 DEF LockMatrix
  <2>2. basis \in Basis
    BY LockedBasisType DEF CountersOK, Basis
  <2>3. Fresh("matrix-lock", "passed", basis, TRUE) \in Contents
    BY <2>2, FreshType DEF Results
  <2> QED
    BY <2>1, <2>3, WriteOut, SameCounters, ToRecordType DEF records
<1>7. CASE ResolvePublicFailure
  <2>1. /\ out' = [out EXCEPT ![PublicFailure] =
                                Fresh(PublicFailure, "passed", LockedBasis, TRUE)]
        /\ ToRecord /\ UNCHANGED <<records, world, budget>>
    BY <1>7 DEF ResolvePublicFailure
  <2>2. Fresh(PublicFailure, "passed", LockedBasis, TRUE) \in Contents
    BY LockedBasisType, FreshType DEF Results
  <2> QED
    BY <2>1, <2>2, WriteOut, SameCounters, ToRecordType DEF records
<1>8. CASE GenerateEvidence
  <2>1. PICK c \in {LogOnly(FinalEvidence),
                    Content(inv, LockedBasis, "passed", TRUE),
                    Content(inv, LockedBasis, "failed", TRUE)} :
          /\ out' = [out EXCEPT ![FinalEvidence] = c]
          /\ ToRecord \/ Stop(1)
          /\ UNCHANGED <<marker, world, budget>>
    BY <1>8 DEF GenerateEvidence
  <2>2. FinalEvidence \in Steps
    BY DEF Steps, Terminal
  <2>3. inv \in Nat
    BY DEF CountersOK
  <2>4. c \in Contents
    BY <2>2, <2>3, LogOnlyType, ContentType, LockedBasisType DEF Results
  <2> QED
    BY <2>1, <2>4, WriteOut, SameCounters, ToRecordType, StopType
<1>9. CASE CleanUp
  <2>1. /\ out' = [out EXCEPT ![TerminalCleanup] =
                                Fresh(TerminalCleanup, "passed", NoBasis, TRUE)]
        /\ ToRecord /\ UNCHANGED <<records, world, budget>>
    BY <1>9 DEF CleanUp
  <2>2. Fresh(TerminalCleanup, "passed", NoBasis, TRUE) \in Contents
    BY NoOutType, FreshType DEF Results
  <2> QED
    BY <2>1, <2>2, WriteOut, SameCounters, ToRecordType DEF records
<1> QED
  BY <1>1, <1>2, <1>3, <1>4, <1>5, <1>6, <1>7, <1>8, <1>9

(* The steps that record, move, or end a run *)
LEMMA OtherStepType ==
    ASSUME DiskOK, CountersOK, ProcessOK,
           RecordMarker \/ RejectRecord \/ FinishFailed \/ ReconcileRaises
           \/ ReconcileStart \/ ReconcileMove \/ ReconcileDone
    PROVE  DiskOK' /\ CountersOK' /\ ProcessOK'
<1>0. failedStep \in DomainSteps \cup {NoStep}
  BY DEF ProcessOK
<1>1. CASE RecordMarker
  <2>1. /\ marker' = [marker EXCEPT ![Here] = Payload(Here)]
        /\ StepDone(Here, out[Here].result)
        /\ UNCHANGED <<out, named, world, budget>>
    BY <1>1 DEF RecordMarker
  <2>2. DiskOK'
    <3>1. CASE Here \in Steps
      BY <2>1, <3>1, WriteMarker
    <3>2. CASE Here \notin Steps
      BY <2>1, <3>2 DEF DiskOK
    <3> QED
      BY <3>1, <3>2
  <2> QED
    BY <2>1, <2>2, StepDoneType, SameCounters
<1>2. CASE RejectRecord \/ ReconcileRaises
  <2>1. Stop(1) /\ UNCHANGED <<disk, world, budget>>
    BY <1>2 DEF RejectRecord, ReconcileRaises
  <2> QED
    BY <2>1, StopType, SameDisk, SameCounters DEF disk, records
<1>3. CASE FinishFailed
  <2>1. /\ UNCHANGED <<disk, world, budget>>
        /\ \/ Forward(failedStep)
           \/ /\ prog' = "failed" /\ pc' = 1
              /\ UNCHANGED <<phase, todo, failedStep, through, exit>>
    BY <1>3 DEF FinishFailed
  <2>2. ProcessOK'
    BY <1>0, <2>1, ForwardType, CurrentType DEF ProcessOK, Current
  <2> QED
    BY <2>1, <2>2, SameDisk, SameCounters DEF disk, records
<1>4. CASE ReconcileStart
  <2>1. /\ todo' = Invalid /\ phase' = "move"
        /\ UNCHANGED <<disk, world, budget, pc, prog, failedStep, through, exit>>
    BY <1>4 DEF ReconcileStart
  <2>2. Invalid \subseteq Steps
    BY DEF Invalid
  <2>3. ProcessOK'
    BY <2>1, <2>2 DEF ProcessOK, Current
  <2> QED
    BY <2>1, <2>3, SameDisk, SameCounters DEF disk, records
<1>5. CASE ReconcileMove
  <2>1. /\ out' = [out EXCEPT ![First(todo)] = NoOut]
        /\ marker' = [marker EXCEPT ![First(todo)] = NoMarker]
        /\ todo' = todo \ {First(todo)}
        /\ UNCHANGED <<world, budget, pc, prog, phase, failedStep, through, exit>>
    BY <1>5 DEF ReconcileMove
  <2>2. ProcessOK'
    BY <2>1 DEF ProcessOK, Current
  <2> QED
    BY <2>1, <2>2, DropBoth, SameCounters
<1>6. CASE ReconcileDone
  <2>1. Forward(failedStep) /\ UNCHANGED <<disk, world, budget>>
    BY <1>6 DEF ReconcileDone
  <2> QED
    BY <1>0, <2>1, ForwardType, SameDisk, SameCounters DEF disk, records
<1> QED
  BY <1>1, <1>2, <1>3, <1>4, <1>5, <1>6

(* Every way a command or the runner may die. *)
LEMMA FailureType ==
    ASSUME DiskOK, CountersOK, ProcessOK, Failure
    PROVE  DiskOK' /\ CountersOK' /\ ProcessOK'
<1>1. ASSUME NEW s \in Steps, CommandDies(s)
      PROVE  DiskOK' /\ CountersOK' /\ ProcessOK'
  <2>1. PICK left \in Leftovers(s), code \in {1, 3, 4, Killed} :
          out' = [out EXCEPT ![s] = left] /\ Stop(code)
    BY <1>1 DEF CommandDies
  <2>2. Fault /\ UNCHANGED <<records, world, inv, losses>>
    BY <1>1 DEF CommandDies
  <2>3. left \in Contents
    BY LeftoversType
  <2> QED
    BY <2>1, <2>2, <2>3, WriteOut, FaultCounters, StopType DEF records
<1>2. CASE PushInterrupted
  <2>1. PICK digest \in NextDigests : built' = digest /\ volume' = digest
    BY <1>2 DEF PushInterrupted
  <2>2. PICK code \in {1, 4, Killed} : Stop(code)
    BY <1>2 DEF PushInterrupted
  <2>3. /\ out' = [out EXCEPT !["worker-images"] = LogOnly("worker-images")]
        /\ Fault /\ UNCHANGED <<records, host, inv, losses>>
    BY <1>2 DEF PushInterrupted
  <2>4. CountersOK'
    BY <2>1, <2>3, DigestType DEF CountersOK, Fault
  <2> QED
    BY <2>2, <2>3, <2>4, NamedGates, LogOnlyType, WriteOut, StopType DEF records
<1>3. CASE InvocationGuardFails \/ Crash
  <2>1. PICK code \in {2, 3, 4, Killed} : Stop(code)
    BY <1>3 DEF InvocationGuardFails, Crash
  <2>2. Fault /\ UNCHANGED <<disk, world, inv, losses>>
    BY <1>3 DEF InvocationGuardFails, Crash
  <2> QED
    BY <2>1, <2>2, StopType, SameDisk, FaultCounters DEF disk, records
<1>4. CASE CrashMoving
  <2>1. PICK s \in {First(todo), "matrix-lock"} : out' = [out EXCEPT ![s] = NoOut]
    BY <1>4 DEF CrashMoving
  <2>2. Stop(Killed) /\ Fault /\ UNCHANGED <<marker, world, inv, losses>>
    BY <1>4 DEF CrashMoving
  <2> QED
    BY <2>1, <2>2, NoOutType, WriteOut, StopType, FaultCounters
<1> QED
  BY <1>1, <1>2, <1>3, <1>4 DEF Failure

(* The variables of the runner keep their types: every marker names only     *)
(* steps of the table, with contents a step can have, and the position of    *)
(* the runner stays within the script it walks.                              *)
THEOREM TypeCorrect == Spec => []TypeOK
<1>1. Init => TypeOK
  BY InitType
<1>2. TypeOK /\ [Next]_vars => TypeOK'
  <2> SUFFICES ASSUME DiskOK, CountersOK, ProcessOK, [Next]_vars
               PROVE  DiskOK' /\ CountersOK' /\ ProcessOK'
    BY TypeParts DEF TypeOK, DiskOK, CountersOK, ProcessOK
  <2>1. CASE Invoke
    <3>1. ProcessOK'
      <4>1. /\ pc' = 1 /\ exit' = NoExit /\ through' \in Throughs
            /\ UNCHANGED <<prog, phase, todo, failedStep>>
        BY <2>1 DEF Invoke
      <4> QED
        BY <4>1, CurrentType DEF ProcessOK, Current
    <3>2. DiskOK' /\ CountersOK'
      BY <2>1 DEF Invoke, DiskOK, CountersOK, disk, records, world
    <3> QED
      BY <3>1, <3>2
  <2>2. CASE Proceed
    BY <2>2, NamedGates, GateStepType, FixedStepType, OtherStepType DEF Proceed
  <2>3. CASE Failure
    BY <2>3, FailureType
  <2>4. CASE World
    <3>1. DiskOK'
      BY <2>4 DEF World, HostChange, LoseVolume, DiskOK, disk, records
    <3>2. CountersOK'
      BY <2>4 DEF World, HostChange, LoseVolume, CountersOK, budget
    <3>3. ProcessOK'
      BY <2>4 DEF World, HostChange, LoseVolume, ProcessOK, Current, process
    <3> QED
      BY <3>1, <3>2, <3>3
  <2>5. CASE UNCHANGED vars
    BY <2>5 DEF vars, disk, records, world, process, budget, DiskOK, CountersOK,
                ProcessOK, Current
  <2> QED
    BY <2>1, <2>2, <2>3, <2>4, <2>5 DEF Next
<1> QED
  BY <1>1, <1>2, PTL DEF Spec
-----------------------------------------------------------------------------
(*                        The order of the script                            *)

(* A set of gates that holds what its gates rest on *)
Closed(W) == W \subseteq Gates /\ \A g \in W : Under[g] \subseteq W

(* A gate is under itself, and what is under it are gates. *)
LEMMA UnderSelf ==
    \A g \in Gates : /\ g \in Under[g]
                     /\ Under[g] \subseteq Gates
                     /\ Under[g] = {g} \cup UNION {Under[d] : d \in Deps[g]}
                     /\ Deps[g] \subseteq Gates
BY DepsAssumption

(* The names of the terminal steps are distinct, and no gate has them. *)
LEMMA TerminalNames ==
    /\ PublicFailure # FinalEvidence /\ FinalEvidence # TerminalCleanup
    /\ PublicFailure # TerminalCleanup
    /\ PublicFailure \notin Gates /\ FinalEvidence \notin Gates
    /\ TerminalCleanup \notin Gates
    /\ Terminal = {PublicFailure, FinalEvidence, TerminalCleanup}
    /\ "core-qualification" \notin Terminal
    /\ NoStep \notin Steps
BY GatesAssumption DEF Terminal, PublicFailure, FinalEvidence, TerminalCleanup,
   NoStep, Steps

(* A call adds its step to what was asked for before. *)
LEMMA BeforeNext ==
    \A i \in DOMAIN Script :
       CalledBefore(i + 1) = CalledBefore(i) \cup (IF i \in Called THEN {Script[i].step} ELSE {})
<1>1. DOMAIN Script \subseteq Nat /\ Called \subseteq DOMAIN Script
  BY ScriptAssumption DEF Called
<1>2. \A i \in DOMAIN Script : \A k \in Called : k < i + 1 <=> k < i \/ k = i
  BY <1>1
<1> QED
  BY <1>1, <1>2 DEF CalledBefore

(* Nothing was asked for before the first item, and everything after the last. *)
LEMMA BeforeEnds ==
    /\ CalledBefore(1) = {}
    /\ CalledBefore(Len(Script) + 1) = Gates \cup {FinalEvidence, TerminalCleanup}
<1>1. DOMAIN Script = 1..Len(Script) /\ Len(Script) \in Nat /\ Called \subseteq DOMAIN Script
  BY ScriptAssumption DEF Called
<1>2. \A k \in Called : ~(k < 1) /\ k < Len(Script) + 1
  BY <1>1
<1>3. {k \in Called : k < Len(Script) + 1} = Called
  BY <1>2
<1>4. {k \in Called : k < 1} = {}
  BY <1>2
<1>5. CalledBefore(1) = {}
  BY <1>4 DEF CalledBefore
<1>6. CalledBefore(Len(Script) + 1) = {Script[j].step : j \in Called}
  BY <1>3 DEF CalledBefore
<1> QED
  BY <1>5, <1>6, OrderAssumption

(* What was asked for are gates and the two terminal steps of a full run; the *)
(* gates rest on gates asked for earlier.                                     *)
LEMMA BeforeClosed ==
    ASSUME NEW i \in Nat
    PROVE  /\ CalledBefore(i) \subseteq Gates \cup {FinalEvidence, TerminalCleanup}
           /\ Closed(CalledBefore(i) \cap Gates)
           /\ FinalEvidence \in CalledBefore(i) => Gates \subseteq CalledBefore(i)
           /\ TerminalCleanup \in CalledBefore(i) =>
                 Gates \cup {FinalEvidence} \subseteq CalledBefore(i)
<1>1. Called \subseteq Nat
  BY ScriptAssumption DEF Called
<1>2. ASSUME NEW s \in CalledBefore(i)
      PROVE  \E j \in Called : s = Script[j].step /\ CalledBefore(j) \subseteq CalledBefore(i)
  <2>1. PICK j \in Called : j < i /\ s = Script[j].step
    BY DEF CalledBefore
  <2>2. \A k \in Called : k < j => k < i
    BY <1>1, <2>1
  <2>3. CalledBefore(j) \subseteq CalledBefore(i)
    BY <2>2 DEF CalledBefore
  <2> QED
    BY <2>1, <2>3
<1>3. CalledBefore(i) \subseteq Gates \cup {FinalEvidence, TerminalCleanup}
  BY <1>2, OrderAssumption
<1>4. ASSUME NEW g \in CalledBefore(i) \cap Gates PROVE Under[g] \subseteq CalledBefore(i) \cap Gates
  <2>1. PICK j \in Called : g = Script[j].step /\ CalledBefore(j) \subseteq CalledBefore(i)
    BY <1>2
  <2>2. UNION {Under[d] : d \in Deps[g]} \subseteq CalledBefore(j)
    BY <2>1, OrderAssumption
  <2> QED
    BY <2>1, <2>2, UnderSelf
<1>5. FinalEvidence \in CalledBefore(i) => Gates \subseteq CalledBefore(i)
  <2> SUFFICES ASSUME FinalEvidence \in CalledBefore(i) PROVE Gates \subseteq CalledBefore(i)
    OBVIOUS
  <2>1. PICK j \in Called : FinalEvidence = Script[j].step /\ CalledBefore(j) \subseteq CalledBefore(i)
    BY <1>2
  <2>2. CalledBefore(j) = Gates
    BY <2>1, OrderAssumption
  <2> QED
    BY <2>1, <2>2
<1>6. TerminalCleanup \in CalledBefore(i) => Gates \cup {FinalEvidence} \subseteq CalledBefore(i)
  <2> SUFFICES ASSUME TerminalCleanup \in CalledBefore(i)
               PROVE  Gates \cup {FinalEvidence} \subseteq CalledBefore(i)
    OBVIOUS
  <2>1. PICK j \in Called : TerminalCleanup = Script[j].step /\ CalledBefore(j) \subseteq CalledBefore(i)
    BY <1>2
  <2>2. CalledBefore(j) = Gates \cup {FinalEvidence}
    BY <2>1, OrderAssumption
  <2> QED
    BY <2>1, <2>2
<1>7. Closed(CalledBefore(i) \cap Gates)
  BY <1>4 DEF Closed
<1> QED
  BY <1>3, <1>5, <1>6, <1>7

(* A failed publication covers the gates up to and including the failed one: *)
(* those the runner had asked for, and it finishes next.                     *)
LEMMA PrefixCalled ==
    ASSUME NEW i \in Called, Script[i].step \in DomainSteps
    PROVE  /\ Prefix(Script[i].step) = CalledBefore(i + 1)
           /\ i + 1 \in DOMAIN Script
           /\ Script[i + 1].op = "finish-failed"
<1>1. i \in DOMAIN Script
  BY DEF Called
<1> QED
  BY <1>1, BeforeNext, OrderAssumption

(* Such a prefix is closed. *)
LEMMA PrefixClosed ==
    \A d \in DomainSteps : d \in Prefix(d) /\ Closed(Prefix(d))
<1> SUFFICES ASSUME NEW d \in DomainSteps PROVE d \in Prefix(d) /\ Closed(Prefix(d))
  OBVIOUS
<1>1. PICK i \in Called : d = Script[i].step
  BY OrderAssumption, GatesAssumption
<1>2. i + 1 \in Nat /\ i \in DOMAIN Script
  BY <1>1, ScriptAssumption DEF Called
<1>3. Prefix(d) = CalledBefore(i + 1)
  BY <1>1, PrefixCalled
<1>4. d \in CalledBefore(i + 1)
  BY <1>1, <1>2, BeforeNext
<1>5. Prefix(d) \subseteq Gates
  BY DEF Prefix
<1>6. Prefix(d) = CalledBefore(i + 1) \cap Gates
  BY <1>3, <1>5
<1> QED
  BY <1>2, <1>3, <1>4, <1>6, BeforeClosed

(* A set of positions has a least one. *)
LEMMA LeastOf ==
    ASSUME NEW N \in Nat, NEW T, T \subseteq 1..N, T # {}
    PROVE  \E x \in T : \A j \in T : x <= j
<1> DEFINE R == StrictSubsetOrdering(1..N)
           V == {1..i : i \in T}
<1>1. IsFiniteSet(1..N)
  BY FS_Interval
<1>2. \A U \in V : U \subseteq 1..N
  OBVIOUS
<1>3. \A U \in V : IsFiniteSet(U)
  BY <1>1, <1>2, FS_Subset
<1>4. V \subseteq FiniteSubsetsOf(1..N) /\ V # {}
  BY <1>2, <1>3 DEF FiniteSubsetsOf
<1>5. IsWellFoundedOn(R, FiniteSubsetsOf(1..N))
  BY <1>1, FS_StrictSubsetOrderingWellFounded
<1>6. PICK U \in V : \A Z \in V : ~ (<<Z, U>> \in R)
  <2> HIDE DEF R, V
  <2> QED
    BY <1>4, <1>5, WFMin
<1>7. PICK x \in T : U = 1..x
  BY <1>6
<1> SUFFICES ASSUME NEW j \in T, j < x PROVE FALSE
  OBVIOUS
<1>8. 1..j \subseteq 1..x /\ 1..j # 1..x /\ 1..j \subseteq 1..N /\ 1..x \subseteq 1..N
  OBVIOUS
<1>9. <<1..j, 1..x>> \in R
  BY <1>8 DEF StrictSubsetOrdering
<1> QED
  BY <1>6, <1>7, <1>9

(* The first step of a set of steps is one of them. *)
LEMMA FirstIn == ASSUME NEW S, S \subseteq Steps, S # {} PROVE First(S) \in S
<1> DEFINE N == Len(MoveOrder)
           T == {i \in DOMAIN MoveOrder : MoveOrder[i] \in S}
<1>1. N \in Nat /\ DOMAIN MoveOrder = 1..N
  BY ScriptAssumption
<1>2. T # {} /\ T \subseteq 1..N
  BY <1>1, ScriptAssumption
<1>3. PICK x \in T : \A j \in T : x <= j
  <2> HIDE DEF T
  <2> QED
    BY <1>1, <1>2, LeastOf
<1>4. \A j \in 1..(x - 1) : MoveOrder[j] \notin S
  <2> SUFFICES ASSUME NEW j \in 1..(x - 1), MoveOrder[j] \in S PROVE FALSE
    OBVIOUS
  <2>1. j \in T /\ j < x
    BY <1>1, <1>2
  <2> QED
    BY <1>1, <1>2, <1>3, <2>1
<1>5. \E i \in DOMAIN MoveOrder :
          /\ MoveOrder[i] \in S
          /\ \A j \in 1..(i - 1) : MoveOrder[j] \notin S
  BY <1>3, <1>4
<1> QED
  BY <1>5 DEF First

-----------------------------------------------------------------------------
(*                     What a walk of the script makes sure of               *)

(* The marker of s binds what lies on the disk for every step of U.          *)
Bound(s, U) == marker[s] = [a \in U |-> out[a]] /\ Recordable(s)
AllBound(W) == \A g \in W : Bound(g, Under[g])

(* A marker is a function from the steps it binds. *)
MarkersAreMaps ==
    /\ DOMAIN marker = Steps
    /\ \A s \in Steps : marker[s] = [a \in DOMAIN marker[s] |-> marker[s][a]]

(* record writes such a function, and an absent marker is one. *)
LEMMA MapsKept ==
    ASSUME MarkersAreMaps,
           \/ marker' = marker
           \/ \E s \in Steps : marker' = [marker EXCEPT ![s] = NoMarker]
           \/ \E s \in Steps : marker' = [marker EXCEPT ![s] = Payload(s)]
    PROVE  MarkersAreMaps'
<1>1. CASE marker' = marker
  BY <1>1 DEF MarkersAreMaps
<1>2. ASSUME NEW s \in Steps, NEW m, m = [a \in DOMAIN m |-> m[a]],
             marker' = [marker EXCEPT ![s] = m]
      PROVE  MarkersAreMaps'
  BY <1>2 DEF MarkersAreMaps
<1>3. NoMarker = [a \in DOMAIN NoMarker |-> NoMarker[a]]
  BY DEF NoMarker
<1>4. \A s \in Steps : Payload(s) = [a \in DOMAIN Payload(s) |-> Payload(s)[a]]
  BY DEF Payload
<1> QED
  BY <1>1, <1>2, <1>3, <1>4

(* What verification visits from a gate, and from a terminal step. *)
LEMMA UnderOfGate ==
    \A g \in Gates : /\ UnderOf(g) = Under[g] /\ DepsOf(g) = Deps[g]
                     /\ g \notin Terminal /\ g \in Steps
<1> SUFFICES ASSUME NEW g \in Gates
             PROVE  /\ UnderOf(g) = Under[g] /\ DepsOf(g) = Deps[g]
                    /\ g \notin Terminal /\ g \in Steps
  OBVIOUS
<1>1. g # PublicFailure /\ g # FinalEvidence /\ g # TerminalCleanup
  BY TerminalNames
<1> QED
  BY <1>1 DEF UnderOf, DepsOf, Terminal, Steps

(* UnderOf and DepsOf of the three steps that are no gates. *)
LEMMA UnderOfTerminal ==
    /\ UnderOf(PublicFailure) = {PublicFailure} \cup UNION {Under[d] : d \in FailedMarks}
    /\ DepsOf(PublicFailure) = FailedMarks
    /\ UnderOf(FinalEvidence) = EvidenceUnder
    /\ DepsOf(FinalEvidence) = IF FailedMarks = {} THEN Gates
                               ELSE EvidenceGates \cup {PublicFailure}
    /\ UnderOf(TerminalCleanup) = {TerminalCleanup} \cup EvidenceUnder
    /\ DepsOf(TerminalCleanup) = {FinalEvidence}
BY TerminalNames DEF UnderOf, DepsOf

(* In a closed set of gates that are bound, every gate verifies. *)
LEMMA BoundValid ==
    ASSUME NEW W, Closed(W), AllBound(W)
    PROVE  \A g \in W : Local(g) /\ Valid(g)
<1>1. ASSUME NEW g \in W PROVE Local(g)
  <2>1. g \in Gates /\ g \notin Terminal
    BY GatesAssumption DEF Closed
  <2>2. UnderOf(g) = Under[g] /\ DepsOf(g) = Deps[g]
    BY <2>1, UnderOfGate
  <2>3. marker[g] = [a \in Under[g] |-> out[a]] /\ Recordable(g)
    BY DEF AllBound, Bound
  <2>4. g \in Under[g] /\ DOMAIN marker[g] = Under[g]
    BY <2>1, <2>3, UnderSelf
  <2>5. marker[g] # NoMarker
    BY <2>4 DEF NoMarker
  <2>6. ASSUME NEW d \in Deps[g] PROVE marker[d] = Narrow(marker[g], UnderOf(d))
    <3>1. d \in Gates /\ Under[d] \subseteq Under[g] /\ d \in Under[g]
      BY <2>1, UnderSelf
    <3>2. d \in W /\ UnderOf(d) = Under[d]
      BY <3>1, UnderOfGate DEF Closed
    <3>3. marker[d] = [a \in Under[d] |-> out[a]]
      BY <3>2 DEF AllBound, Bound
    <3>4. \A a \in Under[d] : marker[g][a] = out[a]
      BY <3>1, <2>3
    <3> QED
      BY <3>2, <3>3, <3>4 DEF Narrow
  <2> QED
    BY <2>2, <2>3, <2>4, <2>5, <2>6 DEF Local
<1>2. ASSUME NEW g \in W PROVE Valid(g)
  <2>1. g \in Gates /\ g \notin Terminal
    BY GatesAssumption DEF Closed
  <2>2. UnderOf(g) = Under[g] /\ Under[g] \subseteq W
    BY <2>1, UnderOfGate DEF Closed
  <2>3. Verify({g})
    BY <1>1, <2>2 DEF Verify
  <2> QED
    BY <1>1, <2>1, <2>3 DEF Valid, Local
<1> QED
  BY <1>1, <1>2

(* A gate that verifies binds what lies on the disk, if what it rests on     *)
(* does: no induction over the graph is needed, because the walk has already *)
(* passed the gates below.                                                   *)
LEMMA ValidBound ==
    ASSUME NEW W, AllBound(W), NEW g \in Gates, Local(g), MarkersAreMaps,
           UNION {Under[d] : d \in Deps[g]} \subseteq W
    PROVE  Bound(g, Under[g])
<1>1. UnderOf(g) = Under[g] /\ DepsOf(g) = Deps[g]
  BY UnderOfGate
<1>2. /\ DOMAIN marker[g] = Under[g] /\ marker[g][g] = out[g] /\ Recordable(g)
      /\ \A d \in Deps[g] : marker[d] = Narrow(marker[g], UnderOf(d))
  BY <1>1 DEF Local
<1>3. ASSUME NEW a \in Under[g] PROVE marker[g][a] = out[a]
  <2>1. CASE a = g
    BY <1>2, <2>1
  <2>2. CASE a # g
    <3>1. PICK d \in Deps[g] : a \in Under[d]
      BY <2>2, UnderSelf
    <3>2. d \in Gates /\ d \in Under[d] /\ UnderOf(d) = Under[d] /\ d \in W
      BY <3>1, UnderSelf, UnderOfGate
    <3>3. marker[d] = [b \in Under[d] |-> out[b]]
      BY <3>2 DEF AllBound, Bound
    <3>4. marker[d][a] = marker[g][a]
      BY <1>2, <3>1, <3>2 DEF Narrow
    <3> QED
      BY <3>1, <3>3, <3>4
  <2> QED
    BY <2>1, <2>2
<1>4. g \in Steps
  BY DEF Steps
<1> QED
  BY <1>2, <1>3, <1>4 DEF Bound, MarkersAreMaps

(* Files and markers outside of what a step binds may change. *)
LEMMA BoundFrame ==
    ASSUME NEW s, NEW U, Bound(s, U), s \in U, marker'[s] = marker[s],
           \A a \in U : out'[a] = out[a],
           s = "core-qualification" => "matrix-lock" \in U
    PROVE  Bound(s, U)'
<1>1. Recordable(s) => Recordable(s)'
  BY DEF Recordable, LockedBasis
<1> QED
  BY <1>1 DEF Bound

(* ... so a closed set of bound gates stays bound. *)
LEMMA AllBoundFrame ==
    ASSUME NEW W, Closed(W), AllBound(W),
           \A a \in W : out'[a] = out[a] /\ marker'[a] = marker[a]
    PROVE  AllBound(W)'
<1> SUFFICES ASSUME NEW g \in W PROVE Bound(g, Under[g])'
  BY DEF AllBound
<1>1. g \in Gates /\ g \in Under[g] /\ Under[g] \subseteq W
  BY UnderSelf DEF Closed
<1>2. g = "core-qualification" => "matrix-lock" \in Under[g]
  BY <1>1, DepsAssumption
<1>3. Bound(g, Under[g])
  BY DEF AllBound
<1> QED
  BY <1>1, <1>2, <1>3, BoundFrame

-----------------------------------------------------------------------------
(*           The inductive invariant: what lies behind the runner            *)

(* The steps the main script asked for before item n bind the files on the   *)
(* disk; those of torn are being rewritten.                                  *)
MainBound(n, torn) ==
    /\ AllBound((CalledBefore(n) \cap Gates) \ torn)
    /\ FinalEvidence \in CalledBefore(n) =>
          /\ Bound(FinalEvidence, {FinalEvidence} \cup Gates)
          /\ out[FinalEvidence].result = "passed"
    /\ TerminalCleanup \in CalledBefore(n) =>
          /\ Bound(TerminalCleanup, {TerminalCleanup, FinalEvidence} \cup Gates)
          /\ out[TerminalCleanup].result = "passed"

(* They have passed, except for the domain step f that failed. *)
MainPassed(n, f) == \A g \in (CalledBefore(n) \cap Gates) \ {f} : out[g].result = "passed"

(* A failure is remembered only until finish_failed_qualification sees it. *)
MainFailed(n, f) ==
    f # NoStep => /\ f \in DomainSteps
                  /\ Script[n].op = "finish-failed"
                  /\ CalledBefore(n) = Prefix(f)
                  /\ out[f].result = "failed"

(* While ensure_worker_registry rebuilds the workers, their marker is old.   *)
Torn == IF At("ensure-workers") /\ phase = "record" THEN {"worker-images"} ELSE {}

MainInv ==
    Running /\ prog = "main" =>
        /\ MainBound(pc, Torn)
        /\ MainPassed(pc, failedStep)
        /\ MainFailed(pc, failedStep)

(* finish_failed_qualification publishes the gates up to the failed one. *)
FailedBound(n, f) ==
    /\ f \in DomainSteps
    /\ AllBound(Prefix(f))
    /\ \A g \in Prefix(f) \ {f} : out[g].result = "passed"
    /\ out[f].result = "failed"
    /\ n > 1 => Bound(PublicFailure, {PublicFailure} \cup Under[f])
    /\ n > 2 => Bound(FinalEvidence, {FinalEvidence, PublicFailure} \cup Prefix(f))

FailedInv == Running /\ prog = "failed" => FailedBound(pc, failedStep)

(* What is recorded next was just computed; what reconcile moves was not     *)
(* asked for yet.                                                            *)
PhaseInv ==
    /\ Running => exit = NoExit
    /\ ~Running => phase = "check" /\ prog = "main" /\ failedStep = NoStep
    /\ phase = "record" => Name(Here) \/ At("ensure-workers")
    /\ phase = "move" => At("reconcile") /\ todo \cap CalledBefore(pc) = {}
    /\ phase = "record" /\ Here = FinalEvidence =>
          /\ named = Tree
          /\ out[FinalEvidence].result = IF prog = "main" THEN "passed" ELSE "failed"

(* A full run that ended with exit 0 has left every step bound and passed. *)
FinishedInv ==
    exit = 0 /\ through = NoStep =>
        MainBound(Len(Script) + 1, {}) /\ MainPassed(Len(Script) + 1, NoStep)

WalkInv == MainInv /\ FailedInv /\ PhaseInv /\ FinishedInv

(* Where the runner stands when it is at a step. *)
LEMMA StepHere ==
    ASSUME ProcessOK, NEW s, Name(s)
    PROVE  /\ prog = "main" => /\ pc \in Called /\ pc \in Nat /\ pc \in DOMAIN Script
                               /\ s = Script[pc].step /\ s \notin CalledBefore(pc)
                               /\ s \in Gates \cup {FinalEvidence, TerminalCleanup}
           /\ prog = "failed" => /\ pc = 1 => s = PublicFailure
                                 /\ pc = 2 => s = FinalEvidence
                                 /\ pc = 3 => s = TerminalCleanup
                                 /\ pc \in 1..3
           /\ s \in Steps /\ s = Here /\ Running
           /\ ~At("ensure-workers") /\ ~At("reconcile") /\ ~At("finish-failed")
           /\ ~At("preserve-matrix")
<1>1. CASE prog = "main"
  <2>1. Current = Script
    BY <1>1 DEF Current
  <2>2. pc \in DOMAIN Script /\ pc \in Nat
    BY <2>1, ScriptAssumption DEF ProcessOK, Name, Running
  <2>3. pc \in Called /\ s = Script[pc].step
    BY <2>1, <2>2 DEF Called, Name, Here
  <2>4. s \in Gates \cup {FinalEvidence, TerminalCleanup} /\ s \notin CalledBefore(pc)
    BY <2>3, OrderAssumption
  <2> QED
    BY <1>1, <2>1, <2>2, <2>3, <2>4 DEF Name, At, Here, Steps, Terminal, Called
<1>2. CASE prog = "failed"
  <2>1. Current = FailureScript
    BY <1>2 DEF Current
  <2>2. pc \in 1..3
    BY <2>1, CurrentType DEF ProcessOK, Name, Running
  <2>3. /\ FailureScript[1] = Item("step", PublicFailure)
        /\ FailureScript[2] = Item("step", FinalEvidence)
        /\ FailureScript[3] = Item("step", TerminalCleanup)
    BY DEF FailureScript
  <2>4. /\ pc = 1 => s = PublicFailure
        /\ pc = 2 => s = FinalEvidence
        /\ pc = 3 => s = TerminalCleanup
    BY <2>1, <2>3 DEF Name, Here, Item
  <2> QED
    BY <1>2, <2>1, <2>2, <2>4 DEF Name, At, Here, Steps, Terminal
<1> QED
  BY <1>1, <1>2 DEF ProcessOK

(* Where the runner stands when it is at any other item. *)
LEMMA CallHere ==
    ASSUME ProcessOK, NEW op \in {"reconcile", "ensure-workers", "preserve-matrix",
                                  "finish-failed"}, At(op)
    PROVE  /\ prog = "main" /\ Running
           /\ pc \in DOMAIN Script \ Called /\ pc \in Nat
           /\ Script[pc].op = op /\ Here = Script[pc].step
           /\ CalledBefore(pc) \subseteq Gates /\ CalledBefore(pc + 1) = CalledBefore(pc)
           /\ \A s : ~Name(s)
<1>1. prog = "main"
  <2> SUFFICES ASSUME prog = "failed" PROVE FALSE
    BY DEF ProcessOK
  <2>1. Current = FailureScript
    BY DEF Current
  <2>2. pc \in 1..3
    BY <2>1, CurrentType DEF ProcessOK, At, Running
  <2>3. FailureScript[pc].op = "step"
    BY <2>2 DEF FailureScript, Item
  <2> QED
    BY <2>1, <2>3 DEF At
<1>2. Current = Script
  BY <1>1 DEF Current
<1>3. pc \in DOMAIN Script /\ pc \in Nat
  BY <1>2, ScriptAssumption DEF ProcessOK, At, Running
<1>4. pc \notin Called /\ Script[pc].op = op
  BY <1>2 DEF Called, At
<1>5. CalledBefore(pc) \subseteq Gates
  BY <1>3, <1>4, OrderAssumption
<1>6. CalledBefore(pc + 1) = CalledBefore(pc)
  BY <1>3, <1>4, BeforeNext
<1> QED
  BY <1>1, <1>2, <1>3, <1>4, <1>5, <1>6 DEF At, Here, Name

(* Nothing is torn but while the workers are rebuilt. *)
LEMMA TornClosed ==
    ASSUME ProcessOK, prog = "main"
    PROVE  /\ Closed((CalledBefore(pc) \cap Gates) \ Torn)
           /\ Torn # {} => At("ensure-workers") /\ phase = "record"
                           /\ Torn = {"worker-images"}
<1>1. pc \in Nat
  BY ScriptAssumption DEF ProcessOK, Current
<1>2. CASE Torn = {}
  BY <1>1, <1>2, BeforeClosed
<1>3. CASE Torn # {}
  <2>1. At("ensure-workers") /\ Torn = {"worker-images"} /\ phase = "record"
    BY <1>3 DEF Torn
  <2>2. pc \in DOMAIN Script \ Called /\ Script[pc].op = "ensure-workers"
    BY <2>1, CallHere
  <2>3. CalledBefore(pc) \subseteq Gates
        /\ \A g \in CalledBefore(pc) \ {"worker-images"} : "worker-images" \notin Under[g]
    BY <2>2, OrderAssumption
  <2>4. Closed(CalledBefore(pc) \cap Gates)
    BY <1>1, BeforeClosed
  <2>5. Closed(CalledBefore(pc) \ {"worker-images"})
    BY <2>3, <2>4 DEF Closed
  <2>6. (CalledBefore(pc) \cap Gates) \ Torn = CalledBefore(pc) \ {"worker-images"}
    BY <2>1, <2>3
  <2> QED
    BY <2>1, <2>5, <2>6
<1> QED
  BY <1>2, <1>3

(* What is bound stays bound when nothing of it is written. *)
LEMMA MainFrame ==
    ASSUME NEW n \in Nat, NEW torn, Closed((CalledBefore(n) \cap Gates) \ torn),
           MainBound(n, torn),
           torn # {} => CalledBefore(n) \subseteq Gates,
           \A a \in CalledBefore(n) \ torn : out'[a] = out[a] /\ marker'[a] = marker[a]
    PROVE  MainBound(n, torn)'
<1>1. AllBound((CalledBefore(n) \cap Gates) \ torn)'
  <2> DEFINE W == (CalledBefore(n) \cap Gates) \ torn
  <2>1. AllBound(W) /\ Closed(W)
    BY DEF MainBound
  <2>2. \A a \in W : out'[a] = out[a] /\ marker'[a] = marker[a]
    OBVIOUS
  <2> QED
    BY <2>1, <2>2, AllBoundFrame
<1>2. ASSUME FinalEvidence \in CalledBefore(n)
      PROVE  /\ Bound(FinalEvidence, {FinalEvidence} \cup Gates)'
             /\ out'[FinalEvidence].result = "passed"
  <2>1. torn = {} /\ Gates \subseteq CalledBefore(n)
    BY <1>2, BeforeClosed, TerminalNames
  <2>2. \A a \in {FinalEvidence} \cup Gates : out'[a] = out[a] /\ marker'[a] = marker[a]
    BY <1>2, <2>1
  <2>3. Bound(FinalEvidence, {FinalEvidence} \cup Gates)
    BY <1>2 DEF MainBound
  <2>4. Bound(FinalEvidence, {FinalEvidence} \cup Gates)'
    BY <2>2, <2>3, BoundFrame, TerminalNames DEF Terminal
  <2> QED
    BY <1>2, <2>2, <2>4 DEF MainBound
<1>3. ASSUME TerminalCleanup \in CalledBefore(n)
      PROVE  /\ Bound(TerminalCleanup, {TerminalCleanup, FinalEvidence} \cup Gates)'
             /\ out'[TerminalCleanup].result = "passed"
  <2> DEFINE U == {TerminalCleanup, FinalEvidence} \cup Gates
  <2>1. torn = {} /\ Gates \cup {FinalEvidence} \subseteq CalledBefore(n)
    BY <1>3, BeforeClosed, TerminalNames
  <2>2. \A a \in U : out'[a] = out[a] /\ marker'[a] = marker[a]
    BY <1>3, <2>1
  <2>3. Bound(TerminalCleanup, U)
    BY <1>3 DEF MainBound
  <2>4. Bound(TerminalCleanup, U)'
    BY <2>2, <2>3, BoundFrame, TerminalNames DEF Terminal
  <2> QED
    BY <1>3, <2>2, <2>4 DEF MainBound
<1> QED
  BY <1>1, <1>2, <1>3 DEF MainBound

(* Outcomes too. *)
LEMMA PassedFrame ==
    ASSUME NEW n, NEW f, MainPassed(n, f),
           \A a \in CalledBefore(n) : out'[a] = out[a]
    PROVE  MainPassed(n, f)'
BY DEF MainPassed

(* The same for a failed publication. *)
LEMMA FailedFrame ==
    ASSUME NEW n \in Nat, NEW f, FailedBound(n, f),
           \A a \in Prefix(f) : out'[a] = out[a] /\ marker'[a] = marker[a],
           n > 1 => /\ out'[PublicFailure] = out[PublicFailure]
                    /\ marker'[PublicFailure] = marker[PublicFailure],
           n > 2 => /\ out'[FinalEvidence] = out[FinalEvidence]
                    /\ marker'[FinalEvidence] = marker[FinalEvidence]
    PROVE  FailedBound(n, f)'
<1>1. f \in DomainSteps /\ f \in Prefix(f) /\ Closed(Prefix(f))
  BY PrefixClosed DEF FailedBound
<1>2. AllBound(Prefix(f))'
  BY <1>1, AllBoundFrame DEF FailedBound
<1>3. Under[f] \subseteq Prefix(f)
  BY <1>1 DEF Closed
<1>4. ASSUME n > 1 PROVE Bound(PublicFailure, {PublicFailure} \cup Under[f])'
  <2>1. Bound(PublicFailure, {PublicFailure} \cup Under[f])
    BY <1>4 DEF FailedBound
  <2>2. \A a \in {PublicFailure} \cup Under[f] : out'[a] = out[a]
    BY <1>3, <1>4
  <2> QED
    BY <1>4, <2>1, <2>2, BoundFrame, TerminalNames DEF Terminal
<1>5. ASSUME n > 2
      PROVE  Bound(FinalEvidence, {FinalEvidence, PublicFailure} \cup Prefix(f))'
  <2>1. Bound(FinalEvidence, {FinalEvidence, PublicFailure} \cup Prefix(f))
    BY <1>5 DEF FailedBound
  <2>2. \A a \in {FinalEvidence, PublicFailure} \cup Prefix(f) : out'[a] = out[a]
    BY <1>5
  <2> QED
    BY <1>5, <2>1, <2>2, BoundFrame, TerminalNames DEF Terminal
<1> QED
  BY <1>1, <1>2, <1>4, <1>5 DEF FailedBound

-----------------------------------------------------------------------------
(*                    The invariant through control steps                    *)

(* A runner that is gone has nothing behind it. *)
LEMMA StopWalk ==
    ASSUME NEW code \in {1, 2, 3, 4, Killed}, Stop(code)
    PROVE  WalkInv'
<1>1. /\ pc' = 0 /\ phase' = "check" /\ exit' # 0
      /\ prog' = "main" /\ failedStep' = NoStep
  BY DEF Stop, Killed
<1> QED
  BY <1>1 DEF WalkInv, MainInv, FailedInv, PhaseInv, FinishedInv, Running

(* A run that stops where UG_THROUGH_STEP asks claims nothing. *)
LEMMA ThroughWalk ==
    ASSUME Stop(0), through # NoStep
    PROVE  WalkInv'
<1>1. /\ pc' = 0 /\ phase' = "check" /\ through' # NoStep
      /\ prog' = "main" /\ failedStep' = NoStep
  BY DEF Stop
<1> QED
  BY <1>1 DEF WalkInv, MainInv, FailedInv, PhaseInv, FinishedInv, Running

(* The main script moves on to item n, or ends with everything bound. *)
LEMMA MainForward ==
    ASSUME ProcessOK, Running, prog = "main", NEW n, n = pc + 1, exit = NoExit,
           NEW f \in DomainSteps \cup {NoStep}, Forward(f),
           MainBound(n, {})', MainPassed(n, f)',
           f # NoStep => /\ Script[n].op = "finish-failed" /\ n \in DOMAIN Script
                         /\ CalledBefore(n) = Prefix(f) /\ out'[f].result = "failed"
    PROVE  WalkInv'
<1>1. Current = Script /\ pc \in Nat /\ pc \in 1..Len(Script) /\ Len(Script) \in Nat
  BY CurrentType DEF Current, ProcessOK, Running
<1>2. CASE pc = Len(Script)
  <2>1. Stop(0)
    BY <1>1, <1>2 DEF Forward
  <2>2. n \notin DOMAIN Script
    BY <1>1, <1>2, ScriptAssumption
  <2>3. f = NoStep /\ n = Len(Script) + 1
    BY <2>2, <1>2
  <2>4. pc' = 0 /\ phase' = "check" /\ prog' = "main" /\ failedStep' = NoStep
    BY <2>1 DEF Stop
  <2> QED
    BY <2>3, <2>4 DEF WalkInv, MainInv, FailedInv, PhaseInv, FinishedInv, Running
<1>3. CASE pc # Len(Script)
  <2>1. /\ pc' = n /\ phase' = "check" /\ failedStep' = f
        /\ prog' = "main" /\ exit' = NoExit
    BY <1>1, <1>3 DEF Forward
  <2>2. Torn' = {}
    BY <2>1 DEF Torn
  <2>3. MainBound(pc, Torn)' /\ MainPassed(pc, failedStep)'
    BY <2>1, <2>2 DEF MainBound, MainPassed, AllBound
  <2>4. MainFailed(pc, failedStep)'
    BY <2>1 DEF MainFailed
  <2>5. MainInv' /\ FailedInv'
    BY <2>1, <2>3, <2>4 DEF MainInv, FailedInv
  <2>6. PhaseInv' /\ FinishedInv'
    BY <1>1, <2>1 DEF PhaseInv, FinishedInv, NoExit, Running
  <2> QED
    BY <2>5, <2>6 DEF WalkInv
<1> QED
  BY <1>2, <1>3

(* So does the publication of a failure, which ends with exit 1. *)
LEMMA FailedForward ==
    ASSUME ProcessOK, Running, prog = "failed", NEW n, n = pc + 1, exit = NoExit,
           NEW f, f = failedStep, Forward(f), FailedBound(n, f)'
    PROVE  WalkInv'
<1>1. CASE pc = Len(Current)
  <2>1. Stop(1)
    BY <1>1 DEF Forward
  <2> QED
    BY <2>1, StopWalk
<1>2. CASE pc # Len(Current)
  <2>1. /\ pc' = n /\ phase' = "check" /\ failedStep' = f
        /\ prog' = "failed" /\ exit' = NoExit
    BY <1>2 DEF Forward
  <2>2. FailedBound(pc, failedStep)'
    BY <2>1 DEF FailedBound, AllBound
  <2>3. MainInv' /\ FailedInv'
    BY <2>1, <2>2 DEF MainInv, FailedInv
  <2>4. pc' > 0
    BY <2>1 DEF ProcessOK, Running, Current
  <2>5. PhaseInv' /\ FinishedInv'
    BY <2>1, <2>4 DEF PhaseInv, FinishedInv, NoExit, Running
  <2> QED
    BY <2>3, <2>5 DEF WalkInv
<1> QED
  BY <1>1, <1>2

(* A call that is no step and writes nothing that was asked for before. *)
LEMMA CallForward ==
    ASSUME ProcessOK, WalkInv, phase # "record", failedStep = NoStep,
           NEW op \in {"reconcile", "ensure-workers", "preserve-matrix",
                       "finish-failed"},
           At(op), Forward(failedStep),
           \A a \in CalledBefore(pc) : out'[a] = out[a] /\ marker'[a] = marker[a]
    PROVE  WalkInv'
<1>1. PICK n : n = pc + 1
  OBVIOUS
<1>2. PICK m : m = pc
  OBVIOUS
<1>3. /\ prog = "main" /\ Running /\ m \in Nat
      /\ CalledBefore(m) \subseteq Gates /\ CalledBefore(n) = CalledBefore(m)
  BY <1>1, <1>2, CallHere
<1>4. Torn = {}
  BY DEF Torn
<1>5. MainBound(m, {}) /\ MainPassed(m, NoStep) /\ exit = NoExit
  BY <1>2, <1>3, <1>4 DEF WalkInv, MainInv, PhaseInv
<1>6. Closed((CalledBefore(m) \cap Gates) \ {})
  BY <1>3, BeforeClosed
<1>7. MainBound(m, {})'
  BY <1>2, <1>3, <1>5, <1>6, MainFrame
<1>8. MainPassed(m, NoStep)'
  BY <1>2, <1>5, PassedFrame
<1>9. MainBound(n, {})' /\ MainPassed(n, NoStep)'
  BY <1>3, <1>7, <1>8 DEF MainBound, MainPassed, AllBound
<1> QED
  BY <1>1, <1>3, <1>5, <1>9, MainForward

(* A step is executed: it writes only its own files, and is recorded next. *)
LEMMA ExecuteWalk ==
    ASSUME ProcessOK, WalkInv, NEW s \in Steps, Executing(s), ToRecord,
           \A a \in Steps \ {s} : out'[a] = out[a],
           marker' = marker,
           s = FinalEvidence =>
              /\ named' = Tree'
              /\ out'[s].result = IF prog = "main" THEN "passed" ELSE "failed"
    PROVE  WalkInv'
<1>1. Name(s) /\ phase = "check" /\ s = Here /\ Running
  BY StepHere DEF Executing
<1>2. /\ phase' = "record" /\ pc' = pc /\ prog' = prog /\ failedStep' = failedStep
      /\ exit' = exit /\ through' = through /\ todo' = todo
  BY DEF ToRecord
<1>3. PICK n, f : n = pc /\ f = failedStep
  OBVIOUS
<1>4. Torn = {} /\ Torn' = {}
  BY <1>1, <1>2, StepHere DEF Torn, At, Running, Current
<1>5. MainInv'
  <2> SUFFICES ASSUME prog = "main" PROVE MainInv'
    BY <1>2 DEF MainInv
  <2>1. n \in Nat /\ s \notin CalledBefore(n) /\ CalledBefore(n) \subseteq Steps
    BY <1>1, <1>3, StepHere, BeforeClosed DEF Steps, Terminal
  <2>2. MainBound(n, {}) /\ MainPassed(n, f) /\ MainFailed(n, f)
    BY <1>1, <1>3, <1>4 DEF WalkInv, MainInv
  <2>3. \A a \in CalledBefore(n) : out'[a] = out[a] /\ marker'[a] = marker[a]
    BY <2>1
  <2>4. Closed((CalledBefore(n) \cap Gates) \ {})
    BY <2>1, BeforeClosed
  <2>5. MainBound(n, {})'
    BY <2>1, <2>2, <2>3, <2>4, MainFrame
  <2>6. MainPassed(n, f)'
    BY <2>2, <2>3, PassedFrame
  <2>7. f = NoStep
    <3>1. Script[n].op # "finish-failed"
      BY <1>1, <1>3, StepHere DEF At, Current
    <3> QED
      BY <2>2, <3>1 DEF MainFailed
  <2>8. MainFailed(n, f)'
    BY <2>7 DEF MainFailed
  <2> QED
    BY <1>2, <1>3, <1>4, <2>5, <2>6, <2>8
       DEF MainInv, MainBound, MainPassed, MainFailed, AllBound
<1>6. FailedInv'
  <2> SUFFICES ASSUME prog = "failed" PROVE FailedInv'
    BY <1>2 DEF FailedInv, ProcessOK
  <2>1. /\ n \in 1..3
        /\ n = 1 => s = PublicFailure
        /\ n = 2 => s = FinalEvidence
        /\ n = 3 => s = TerminalCleanup
    BY <1>1, <1>3, StepHere
  <2>2. FailedBound(n, f)
    BY <1>1, <1>3 DEF WalkInv, FailedInv
  <2>3. s \notin Gates /\ (n > 1 => s # PublicFailure) /\ (n > 2 => s # FinalEvidence)
    BY <2>1, TerminalNames
  <2>4. Prefix(f) \subseteq Gates
    BY DEF Prefix
  <2>5. \A a \in Prefix(f) : out'[a] = out[a] /\ marker'[a] = marker[a]
    BY <2>3, <2>4 DEF Steps
  <2>6. PublicFailure \in Steps /\ FinalEvidence \in Steps /\ n \in Nat
    BY <2>1 DEF Steps, Terminal
  <2>7. FailedBound(n, f)'
    BY <2>2, <2>3, <2>5, <2>6, FailedFrame
  <2> QED
    BY <1>2, <1>3, <2>7 DEF FailedInv, FailedBound, AllBound
<1>7. PhaseInv'
  <2>1. exit' = NoExit
    BY <1>1, <1>2 DEF WalkInv, PhaseInv
  <2>2. Name(Here)' /\ Here' = Here
    BY <1>1, <1>2 DEF Name, Here, Running, Current
  <2> QED
    BY <1>1, <1>2, <2>1, <2>2 DEF PhaseInv, Running
<1>8. FinishedInv'
  <2>1. exit' # 0
    BY <1>1, <1>2 DEF WalkInv, PhaseInv, NoExit
  <2> QED
    BY <2>1 DEF FinishedInv
<1> QED
  BY <1>5, <1>6, <1>7, <1>8 DEF WalkInv

-----------------------------------------------------------------------------
(*                    The invariant when a step is over                      *)

(* Only the domain steps and the publication have a failed outcome. *)
OnlyDomainsFail ==
    \A s \in Steps \ (DomainSteps \cup {FinalEvidence}) : out[s].result # "failed"

(* A failure is not remembered beyond finish_failed_qualification. *)
LEMMA NoFailureYet ==
    ASSUME ProcessOK, WalkInv, prog = "main", Running, ~At("finish-failed")
    PROVE  failedStep = NoStep
<1>1. MainFailed(pc, failedStep)
  BY DEF WalkInv, MainInv
<1> QED
  BY <1>1 DEF MainFailed, At, Current

(* When every gate is bound and passed, no marker tells of a failure ... *)
LEMMA NoFailedMarks ==
    ASSUME NEW n, MainBound(n, {}), MainPassed(n, NoStep), Gates \subseteq CalledBefore(n)
    PROVE  FailedMarks = {} /\ ~Ambiguous
<1>1. ASSUME NEW d \in DomainSteps PROVE marker[d][d].result # "failed"
  <2>1. d \in Gates /\ d \in Under[d] /\ d # NoStep
    BY GatesAssumption, UnderSelf
  <2>2. Bound(d, Under[d]) /\ out[d].result = "passed"
    BY <2>1 DEF MainBound, AllBound, MainPassed
  <2> QED
    BY <2>1, <2>2 DEF Bound
<1> QED
  BY <1>1 DEF FailedMarks, Ambiguous

(* ... and the publication covers all the gates. *)
LEMMA PassedUnder ==
    ASSUME FailedMarks = {}
    PROVE  /\ UnderOf(FinalEvidence) = {FinalEvidence} \cup Gates
           /\ UnderOf(TerminalCleanup) = {TerminalCleanup, FinalEvidence} \cup Gates
           /\ DepsOf(FinalEvidence) = Gates
<1>1. EvidenceGates = Gates
  BY DEF EvidenceGates
<1>2. UNION {Under[g] : g \in Gates} = Gates
  BY UnderSelf
<1>3. EvidenceUnder = {FinalEvidence} \cup Gates
  BY <1>1, <1>2 DEF EvidenceUnder
<1> QED
  BY <1>3, UnderOfTerminal

(* While a failure is published, its marker is the only one that tells of a  *)
(* failure, unless the markers are ambiguous; the publication covers the     *)
(* gates up to the failed one.                                               *)
LEMMA FailedUnder ==
    ASSUME NEW n, NEW f, FailedBound(n, f), ~Ambiguous
    PROVE  /\ FailedMarks = {f}
           /\ UnderOf(PublicFailure) = {PublicFailure} \cup Under[f]
           /\ UnderOf(FinalEvidence) = {FinalEvidence, PublicFailure} \cup Prefix(f)
           /\ DepsOf(FinalEvidence) = Prefix(f) \cup {PublicFailure}
<1>1. f \in DomainSteps /\ f \in Gates /\ f \in Prefix(f) /\ Closed(Prefix(f))
  BY PrefixClosed, GatesAssumption DEF FailedBound
<1>2. f \in Under[f] /\ f \in Steps
  BY <1>1, UnderSelf DEF Steps
<1>3. marker[f] = [a \in Under[f] |-> out[a]] /\ out[f].result = "failed"
  BY <1>1 DEF FailedBound, AllBound, Bound
<1>4. marker[f] # NoMarker /\ marker[f][f].result = "failed"
  BY <1>2, <1>3 DEF NoMarker
<1>5. f \in FailedMarks
  BY <1>1, <1>4 DEF FailedMarks
<1>6. FailedMarks = {f}
  BY <1>5 DEF Ambiguous
<1>7. EvidenceGates = Prefix(f)
  BY <1>6 DEF EvidenceGates
<1>8. UNION {Under[g] : g \in Prefix(f)} = Prefix(f)
  BY <1>1, UnderSelf DEF Closed
<1>9. EvidenceUnder = {FinalEvidence, PublicFailure} \cup Prefix(f)
  BY <1>6, <1>7, <1>8 DEF EvidenceUnder
<1>10. UNION {Under[d] : d \in FailedMarks} = Under[f]
  BY <1>6
<1> QED
  BY <1>6, <1>7, <1>9, <1>10, UnderOfTerminal

(* A step of the main script whose marker now binds the files on the disk    *)
(* extends what was walked.                                                  *)
LEMMA MainStepDone ==
    ASSUME ProcessOK, WalkInv, prog = "main", NEW s, Name(s),
           MainBound(pc, {}), MainPassed(pc, NoStep),
           NEW m, m = pc, NEW n, n = m + 1,
           MainBound(m, {})', MainPassed(m, NoStep)',
           s \in Gates => Bound(s, Under[s])',
           s = FinalEvidence => Bound(s, {FinalEvidence} \cup Gates)',
           s = TerminalCleanup => Bound(s, {TerminalCleanup, FinalEvidence} \cup Gates)',
           s \notin DomainSteps => out'[s].result = "passed",
           s \in DomainSteps => out'[s].result \in {"passed", "failed"},
           StepDone(s, out'[s].result)
    PROVE  WalkInv'
<1>0. PICK f : f = IF s \in DomainSteps /\ out'[s].result = "failed" THEN s ELSE NoStep
  OBVIOUS
<1>1. /\ m \in Called /\ m \in DOMAIN Script /\ m \in Nat /\ s = Script[m].step
      /\ s \in Steps /\ Running /\ ~At("finish-failed")
      /\ s \in Gates \cup {FinalEvidence, TerminalCleanup}
  BY StepHere
<1>2. failedStep = NoStep /\ exit = NoExit
  BY <1>1, NoFailureYet DEF WalkInv, PhaseInv
<1>3. CalledBefore(n) = CalledBefore(m) \cup {s}
  BY <1>1, BeforeNext
<1>4. s # NoStep /\ s \notin Terminal \cap Gates
  BY <1>1, GatesAssumption, TerminalNames
<1>5. CASE through = s /\ f = NoStep
  <2>1. Stop(0)
    BY <1>0, <1>2, <1>5 DEF StepDone
  <2> QED
    BY <1>4, <1>5, <2>1, ThroughWalk
<1>6. CASE ~(through = s /\ f = NoStep)
  <2>1. Forward(f)
    BY <1>0, <1>2, <1>6 DEF StepDone
  <2>2. f \in DomainSteps \cup {NoStep}
    BY <1>0
  <2>3. MainBound(n, {})'
    <3>1. AllBound((CalledBefore(n) \cap Gates) \ {})'
      BY <1>3 DEF MainBound, AllBound
    <3>2. FinalEvidence \in CalledBefore(n) =>
            /\ Bound(FinalEvidence, {FinalEvidence} \cup Gates)'
            /\ out'[FinalEvidence].result = "passed"
      BY <1>3, TerminalNames, GatesAssumption DEF MainBound
    <3>3. TerminalCleanup \in CalledBefore(n) =>
            /\ Bound(TerminalCleanup, {TerminalCleanup, FinalEvidence} \cup Gates)'
            /\ out'[TerminalCleanup].result = "passed"
      BY <1>3, TerminalNames, GatesAssumption DEF MainBound
    <3> QED
      BY <3>1, <3>2, <3>3 DEF MainBound
  <2>4. MainPassed(n, f)'
    <3> SUFFICES ASSUME NEW g \in (CalledBefore(n) \cap Gates) \ {f}
                 PROVE  out'[g].result = "passed"
      BY DEF MainPassed
    <3>1. CASE g = s
      BY <1>0, <3>1
    <3>2. CASE g # s
      <4>1. g \in (CalledBefore(m) \cap Gates) \ {NoStep}
        BY <1>3, <3>2, GatesAssumption
      <4> QED
        BY <4>1 DEF MainPassed
    <3> QED
      BY <3>1, <3>2
  <2>5. f # NoStep => /\ Script[n].op = "finish-failed" /\ n \in DOMAIN Script
                      /\ CalledBefore(n) = Prefix(f) /\ out'[f].result = "failed"
    BY <1>0, <1>1, PrefixCalled
  <2> QED
    BY <1>1, <1>2, <2>1, <2>2, <2>3, <2>4, <2>5, MainForward
<1> QED
  BY <1>5, <1>6

(* The same while a failure is published. *)
LEMMA FailedStepDone ==
    ASSUME ProcessOK, WalkInv, prog = "failed", NEW s, Name(s),
           NEW f, f = failedStep, NEW m, m = pc,
           FailedBound(m, f)',
           s = PublicFailure => Bound(s, {PublicFailure} \cup Under[f])',
           s = FinalEvidence =>
              Bound(s, {FinalEvidence, PublicFailure} \cup Prefix(f))',
           NEW result, StepDone(s, result)
    PROVE  WalkInv'
<1> DEFINE n == m + 1
<1>1. /\ m \in 1..3 /\ Running
      /\ m = 1 => s = PublicFailure
      /\ m = 2 => s = FinalEvidence
      /\ m = 3 => s = TerminalCleanup
  BY StepHere
<1>2. FailedBound(m, f) /\ exit = NoExit
  BY <1>1 DEF WalkInv, FailedInv, PhaseInv
<1>3. f \in DomainSteps /\ f # NoStep /\ s \notin DomainSteps
  BY <1>1, <1>2, GatesAssumption, TerminalNames DEF FailedBound
<1>4. Forward(f)
  BY <1>3 DEF StepDone
<1>5. FailedBound(n, f)'
  BY <1>1 DEF FailedBound
<1> QED
  BY <1>1, <1>2, <1>4, <1>5, FailedForward

-----------------------------------------------------------------------------
(*                       What evidence.json says                             *)

(* What a publication marker m binds besides the publication itself *)
Covered(m) == DOMAIN m \ {FinalEvidence}
FailedIn(m) == {d \in DomainSteps \cap Covered(m) : m[d].result = "failed"}
Entry(m, s, U) == [marker |-> [a \in U |-> m[a]], out |-> m[s]]

(* evidence.json names the files and markers that m binds, and says failed   *)
(* when one of them is a domain step that failed.                            *)
Publishes(m) ==
    /\ \A s \in Covered(m) \cap Gates : named[s] = Entry(m, s, Under[s])
    /\ PublicFailure \in Covered(m) =>
          \E f \in DomainSteps :
             /\ FailedIn(m) = {f}
             /\ named[PublicFailure] =
                   Entry(m, PublicFailure, {PublicFailure} \cup Under[f])
    /\ m[FinalEvidence].result = "failed" <=> FailedIn(m) # {}

(* The runner has not recorded a publication in this invocation. *)
EvidenceAhead ==
    Running /\ IF prog = "main" THEN FinalEvidence \notin CalledBefore(pc) ELSE pc <= 2

(* A recorded publication is told from the one an interrupted invocation     *)
(* wrote over it by the invocation that stamped it.                          *)
PublishedInv ==
    /\ out[FinalEvidence].run <= inv
    /\ marker[FinalEvidence] # NoMarker =>
          /\ FinalEvidence \in DOMAIN marker[FinalEvidence]
          /\ marker[FinalEvidence][FinalEvidence].run <= inv
          /\ EvidenceAhead => marker[FinalEvidence][FinalEvidence].run < inv
          /\ marker[FinalEvidence][FinalEvidence].result \in {"passed", "failed"}
          /\ marker[FinalEvidence][FinalEvidence] = out[FinalEvidence] =>
                Publishes(marker[FinalEvidence])

(* What a publication that verifies says is then true of the disk. *)
LEMMA PublishedIsTruthful ==
    ASSUME PublishedInv, Valid(FinalEvidence)
    PROVE  /\ \A s \in DepsOf(FinalEvidence) : named[s] = Tree[s]
           /\ out[FinalEvidence].result = "failed" <=> FailedMarks # {}
<1> DEFINE D == DepsOf(FinalEvidence)
<1>0. PICK m : m = marker[FinalEvidence]
  OBVIOUS
<1>1. /\ m # NoMarker /\ ~Ambiguous
      /\ \A a \in UnderOf(FinalEvidence) : Local(a)
  BY <1>0, TerminalNames DEF Valid, Verify
<1>2. FinalEvidence \in UnderOf(FinalEvidence)
  BY UnderOfTerminal DEF EvidenceUnder
<1>3. /\ DOMAIN m = UnderOf(FinalEvidence) /\ m[FinalEvidence] = out[FinalEvidence]
      /\ \A d \in D : marker[d] = Narrow(m, UnderOf(d))
  BY <1>0, <1>1, <1>2 DEF Local
<1>4. Publishes(m)
  BY <1>0, <1>1, <1>3 DEF PublishedInv
<1>5. FailedMarks \subseteq DomainSteps /\ DomainSteps \subseteq Gates
  BY GatesAssumption DEF FailedMarks
<1>6. /\ EvidenceGates \subseteq Gates /\ FailedMarks \subseteq EvidenceGates
      /\ FailedMarks = {} => EvidenceGates = Gates
  <2>1. \A d \in FailedMarks : Prefix(d) \subseteq Gates /\ d \in Prefix(d)
    BY <1>5, PrefixClosed DEF Prefix
  <2> QED
    BY <2>1 DEF EvidenceGates
<1>7. D = EvidenceGates \cup {s \in {PublicFailure} : FailedMarks # {}}
  BY <1>6, UnderOfTerminal
<1>8. D \subseteq Covered(m)
  <2>1. \A g \in Gates : g \in Under[g]
    BY UnderSelf
  <2>2. D \subseteq EvidenceUnder
    BY <1>6, <1>7, <2>1 DEF EvidenceUnder
  <2>3. FinalEvidence \notin D
    BY <1>6, <1>7, TerminalNames
  <2> QED
    BY <1>3, <2>2, <2>3, UnderOfTerminal DEF Covered
<1>9. \A d \in D : Local(d) /\ marker[d][d] = out[d] /\ m[d] = out[d]
  <2> SUFFICES ASSUME NEW d \in D PROVE Local(d) /\ marker[d][d] = out[d] /\ m[d] = out[d]
    OBVIOUS
  <2>1. d \in UnderOf(FinalEvidence)
    BY <1>3, <1>8 DEF Covered
  <2>2. Local(d) /\ marker[d][d] = out[d]
    BY <1>1, <2>1 DEF Local
  <2>3. d \in UnderOf(d)
    BY <1>6, <1>7, UnderOfGate, UnderSelf, UnderOfTerminal
  <2>4. marker[d][d] = m[d]
    BY <1>3, <2>3 DEF Narrow
  <2> QED
    BY <2>2, <2>4
<1>10. ASSUME NEW g \in D \cap Gates PROVE named[g] = Tree[g]
  <2>1. UnderOf(g) = Under[g]
    BY UnderOfGate
  <2>2. marker[g] = [a \in Under[g] |-> m[a]]
    BY <1>3, <2>1 DEF Narrow
  <2>3. named[g] = [marker |-> [a \in Under[g] |-> m[a]], out |-> m[g]]
    BY <1>4, <1>8 DEF Publishes, Entry
  <2>4. Tree[g] = [marker |-> marker[g], out |-> out[g]]
    BY DEF Tree
  <2> QED
    BY <1>9, <2>2, <2>3, <2>4
<1>11. FailedMarks \subseteq FailedIn(m)
  <2> SUFFICES ASSUME NEW d \in FailedMarks PROVE d \in FailedIn(m)
    OBVIOUS
  <2>1. marker[d][d].result = "failed" /\ d \in D /\ d \in DomainSteps
    BY <1>6, <1>7 DEF FailedMarks
  <2> QED
    BY <1>8, <1>9, <2>1 DEF FailedIn
<1>12. FailedMarks = {} => FailedIn(m) = {}
  <2> SUFFICES ASSUME FailedMarks = {}, NEW d \in FailedIn(m) PROVE FALSE
    OBVIOUS
  <2>1. d \in DomainSteps /\ m[d].result = "failed" /\ d \in D
    BY <1>5, <1>6, <1>7 DEF FailedIn
  <2>2. Local(d) /\ marker[d][d].result = "failed"
    BY <1>9, <2>1
  <2>3. d \in FailedMarks
    BY <2>1, <2>2 DEF FailedMarks, Local
  <2> QED
    BY <2>3
<1>13. ASSUME PublicFailure \in D PROVE named[PublicFailure] = Tree[PublicFailure]
  <2>1. PICK e \in DomainSteps :
          /\ FailedIn(m) = {e}
          /\ named[PublicFailure] = Entry(m, PublicFailure, {PublicFailure} \cup Under[e])
    BY <1>4, <1>8, <1>13 DEF Publishes
  <2>2. FailedMarks = {e}
    BY <1>6, <1>7, <1>11, <1>13, <2>1, TerminalNames
  <2>3. UnderOf(PublicFailure) = {PublicFailure} \cup Under[e]
    BY <2>2, UnderOfTerminal
  <2>4. marker[PublicFailure] = [a \in {PublicFailure} \cup Under[e] |-> m[a]]
    BY <1>3, <1>13, <2>3 DEF Narrow
  <2>5. Tree[PublicFailure] = [marker |-> marker[PublicFailure], out |-> out[PublicFailure]]
    BY DEF Tree
  <2> QED
    BY <1>9, <1>13, <2>1, <2>4, <2>5 DEF Entry
<1>14. out[FinalEvidence].result = "failed" <=> FailedMarks # {}
  BY <1>3, <1>4, <1>11, <1>12 DEF Publishes
<1> QED
  BY <1>6, <1>7, <1>10, <1>13, <1>14

-----------------------------------------------------------------------------
(*                      The invariant through recording                      *)

(* record, at a step of the main script *)
LEMMA RecordMain ==
    ASSUME DiskOK, ProcessOK, WalkInv, OnlyDomainsFail, prog = "main",
           phase = "record", NEW s, Name(s), RecordMarker
    PROVE  WalkInv'
<1>0. PICK m, n : m = pc /\ n = m + 1
  OBVIOUS
<1>1. /\ m \in Nat /\ s = Here /\ s \in Steps /\ Running /\ ~At("finish-failed")
      /\ ~At("ensure-workers") /\ s \notin CalledBefore(m) /\ m \in Called
      /\ s = Script[m].step /\ s \in Gates \cup {FinalEvidence, TerminalCleanup}
  BY <1>0, StepHere
<1>2. /\ MayRecord(s) /\ marker' = [marker EXCEPT ![s] = Payload(s)]
      /\ StepDone(s, out[s].result) /\ out' = out
  BY <1>1 DEF RecordMarker
<1>3. failedStep = NoStep /\ Torn = {}
  BY <1>1, NoFailureYet DEF Torn
<1>4. MainBound(m, {}) /\ MainPassed(m, NoStep)
  BY <1>0, <1>1, <1>3 DEF WalkInv, MainInv
<1>5. /\ \A a \in CalledBefore(m) : out'[a] = out[a] /\ marker'[a] = marker[a]
      /\ marker'[s] = [a \in UnderOf(s) |-> out'[a]]
  BY <1>1, <1>2 DEF DiskOK, Payload
<1>6. MainBound(m, {})' /\ MainPassed(m, NoStep)'
  <2>1. Closed((CalledBefore(m) \cap Gates) \ {})
    BY <1>1, BeforeClosed
  <2> QED
    BY <1>1, <1>4, <1>5, <2>1, MainFrame, PassedFrame
<1>7. Recordable(s) /\ Recordable(s)'
  BY <1>2 DEF MayRecord, Recordable, LockedBasis
<1>8. s \in Gates => Bound(s, Under[s])'
  BY <1>5, <1>7, UnderOfGate DEF Bound
<1>9. s \notin Gates => FailedMarks = {}
  <2> SUFFICES ASSUME s \notin Gates PROVE FailedMarks = {}
    OBVIOUS
  <2>1. Gates \subseteq CalledBefore(m)
    BY <1>1, OrderAssumption
  <2> QED
    BY <1>4, <2>1, NoFailedMarks
<1>10. s = FinalEvidence => Bound(s, {FinalEvidence} \cup Gates)'
  BY <1>5, <1>7, <1>9, PassedUnder, TerminalNames DEF Bound
<1>11. s = TerminalCleanup => Bound(s, {TerminalCleanup, FinalEvidence} \cup Gates)'
  BY <1>5, <1>7, <1>9, PassedUnder, TerminalNames DEF Bound
<1>12. s \notin DomainSteps => out'[s].result = "passed"
  <2>1. s = FinalEvidence => out[s].result = "passed"
    BY <1>1 DEF WalkInv, PhaseInv
  <2>2. s \notin DomainSteps \cup {FinalEvidence} => out[s].result # "failed"
    BY <1>1 DEF OnlyDomainsFail
  <2> QED
    BY <1>2, <1>7, <2>1, <2>2 DEF Recordable
<1>13. s \in DomainSteps => out'[s].result \in {"passed", "failed"}
  BY <1>2, <1>7 DEF Recordable
<1>14. StepDone(s, out'[s].result)
  BY <1>2
<1>15. MainBound(pc, {}) /\ MainPassed(pc, NoStep)
  BY <1>0, <1>4
<1> QED
  BY <1>0, <1>6, <1>8, <1>10, <1>11, <1>12, <1>13, <1>14, <1>15, MainStepDone

(* record, when ensure_worker_registry has rebuilt the workers *)
LEMMA RecordWorkers ==
    ASSUME DiskOK, ProcessOK, WalkInv, phase = "record", At("ensure-workers"),
           RecordMarker
    PROVE  WalkInv'
<1> DEFINE w == "worker-images"
<1>0. PICK m, n : m = pc /\ n = m + 1
  OBVIOUS
<1>1. /\ m \in Nat /\ m \in DOMAIN Script \ Called /\ prog = "main" /\ Running
      /\ CalledBefore(m) \subseteq Gates /\ CalledBefore(n) = CalledBefore(m)
      /\ Here = Script[m].step /\ Script[m].op = "ensure-workers"
  BY <1>0, CallHere
<1>2. Here = w /\ w \in CalledBefore(m) /\ w \in Gates /\ w \in Steps
  BY <1>1, OrderAssumption, NamedGates
<1>3. /\ MayRecord(w) /\ marker' = [marker EXCEPT ![w] = Payload(w)]
      /\ StepDone(w, out[w].result) /\ out' = out
  BY <1>2 DEF RecordMarker
<1>4. failedStep = NoStep /\ Torn = {w} /\ exit = NoExit
  BY <1>1, NoFailureYet DEF Torn, WalkInv, PhaseInv, At
<1>5. MainBound(m, {w}) /\ MainPassed(m, NoStep)
  BY <1>0, <1>1, <1>4 DEF WalkInv, MainInv
<1>6. Closed((CalledBefore(m) \cap Gates) \ {w})
  BY <1>0, <1>1, <1>4, TornClosed
<1>7. \A a \in CalledBefore(m) \ {w} : out'[a] = out[a] /\ marker'[a] = marker[a]
  BY <1>1, <1>3 DEF DiskOK, Steps
<1>8. MainBound(m, {w})'
  BY <1>1, <1>5, <1>6, <1>7, MainFrame
<1>9. Bound(w, Under[w])'
  <2>1. marker'[w] = [a \in Under[w] |-> out'[a]]
    BY <1>2, <1>3, UnderOfGate DEF DiskOK, Payload
  <2>2. Recordable(w)'
    BY <1>3 DEF MayRecord, Recordable, LockedBasis
  <2> QED
    BY <2>1, <2>2 DEF Bound
<1>10. MainBound(n, {})' /\ MainPassed(n, NoStep)'
  <2>1. MainPassed(m, NoStep)'
    BY <1>3, <1>5, PassedFrame
  <2>2. AllBound((CalledBefore(m) \cap Gates) \ {})'
    BY <1>8, <1>9 DEF MainBound, AllBound
  <2> QED
    BY <1>1, <1>8, <2>1, <2>2 DEF MainBound, MainPassed
<1>11. out[w].result = "passed"
  BY <1>2, <1>5, GatesAssumption DEF MainPassed
<1>12. (through = w /\ Stop(0)) \/ Forward(NoStep)
  BY <1>3, <1>4, <1>11 DEF StepDone
<1>13. w # NoStep
  BY GatesAssumption
<1>14. CASE through = w /\ Stop(0)
  BY <1>13, <1>14, ThroughWalk
<1>15. CASE Forward(NoStep)
  BY <1>0, <1>1, <1>4, <1>10, <1>15, MainForward
<1> QED
  BY <1>12, <1>14, <1>15

(* record, while a failure is published *)
LEMMA RecordFailed ==
    ASSUME DiskOK, ProcessOK, WalkInv, prog = "failed", phase = "record",
           NEW s, Name(s), RecordMarker
    PROVE  WalkInv'
<1>0. PICK m, f : m = pc /\ f = failedStep
  OBVIOUS
<1>1. /\ m \in 1..3 /\ s = Here /\ s \in Steps /\ Running
      /\ m = 1 => s = PublicFailure
      /\ m = 2 => s = FinalEvidence
      /\ m = 3 => s = TerminalCleanup
  BY <1>0, StepHere
<1>2. /\ MayRecord(s) /\ marker' = [marker EXCEPT ![s] = Payload(s)]
      /\ StepDone(s, out[s].result) /\ out' = out
  BY <1>1 DEF RecordMarker
<1>3. s \in Terminal /\ s \notin Gates /\ ~Ambiguous
  BY <1>1, <1>2, TerminalNames DEF MayRecord
<1>4. FailedBound(m, f)
  BY <1>0, <1>1 DEF WalkInv, FailedInv
<1>5. \A a : a # s => marker'[a] = marker[a] \/ a \notin Steps
  BY <1>2 DEF DiskOK
<1>6. FailedBound(m, f)'
  <2>1. Prefix(f) \subseteq Gates /\ m \in Nat
    BY <1>1 DEF Prefix
  <2>2. \A a \in Prefix(f) : out'[a] = out[a] /\ marker'[a] = marker[a]
    BY <1>2, <1>3, <1>5, <2>1 DEF Steps
  <2>3. m > 1 => out'[PublicFailure] = out[PublicFailure]
                 /\ marker'[PublicFailure] = marker[PublicFailure]
    BY <1>1, <1>2, <1>5, TerminalNames DEF Steps
  <2>4. m > 2 => out'[FinalEvidence] = out[FinalEvidence]
                 /\ marker'[FinalEvidence] = marker[FinalEvidence]
    BY <1>1, <1>2, <1>5, TerminalNames DEF Steps
  <2> QED
    BY <1>4, <2>1, <2>2, <2>3, <2>4, FailedFrame
<1>7. marker'[s] = [a \in UnderOf(s) |-> out'[a]] /\ Recordable(s)'
  BY <1>1, <1>2 DEF DiskOK, Payload, MayRecord, Recordable, LockedBasis
<1>8. s = PublicFailure => Bound(s, {PublicFailure} \cup Under[f])'
  BY <1>3, <1>4, <1>7, FailedUnder DEF Bound
<1>9. s = FinalEvidence => Bound(s, {FinalEvidence, PublicFailure} \cup Prefix(f))'
  BY <1>3, <1>4, <1>7, FailedUnder DEF Bound
<1> QED
  BY <1>0, <1>2, <1>6, <1>8, <1>9, FailedStepDone

(* record, wherever it runs *)
LEMMA RecordWalk ==
    ASSUME DiskOK, ProcessOK, WalkInv, OnlyDomainsFail, RecordMarker
    PROVE  WalkInv'
<1>1. phase = "record"
  BY DEF RecordMarker
<1>2. Name(Here) \/ At("ensure-workers")
  BY <1>1 DEF WalkInv, PhaseInv
<1>3. prog \in {"main", "failed"}
  BY DEF ProcessOK
<1> QED
  BY <1>1, <1>2, <1>3, RecordMain, RecordWorkers, RecordFailed

-----------------------------------------------------------------------------
(*                      The invariant through skipping                       *)

(* A passing publication that verifies binds every gate on the disk. *)
LEMMA SkippedEvidence ==
    ASSUME NEW n, MainBound(n, {}), MainPassed(n, NoStep), Gates \subseteq CalledBefore(n),
           MarkersAreMaps, PublishedInv, Valid(FinalEvidence)
    PROVE  /\ Bound(FinalEvidence, {FinalEvidence} \cup Gates)
           /\ out[FinalEvidence].result = "passed"
<1> DEFINE U == {FinalEvidence} \cup Gates
<1>1. FailedMarks = {}
  BY NoFailedMarks
<1>2. UnderOf(FinalEvidence) = U /\ DepsOf(FinalEvidence) = Gates
  BY <1>1, PassedUnder
<1>3. Local(FinalEvidence)
  BY <1>2 DEF Valid, Verify
<1>4. /\ DOMAIN marker[FinalEvidence] = U /\ Recordable(FinalEvidence)
      /\ marker[FinalEvidence][FinalEvidence] = out[FinalEvidence]
      /\ \A d \in Gates : marker[d] = Narrow(marker[FinalEvidence], Under[d])
  BY <1>2, <1>3, UnderOfGate DEF Local
<1>5. ASSUME NEW d \in Gates PROVE marker[FinalEvidence][d] = out[d]
  <2>1. marker[d] = [a \in Under[d] |-> out[a]] /\ d \in Under[d]
    BY UnderSelf DEF MainBound, AllBound, Bound
  <2> QED
    BY <1>4, <2>1 DEF Narrow
<1>6. marker[FinalEvidence] = [a \in U |-> marker[FinalEvidence][a]]
  BY <1>4 DEF MarkersAreMaps, Steps, Terminal
<1>7. Bound(FinalEvidence, U)
  BY <1>4, <1>5, <1>6 DEF Bound
<1>8. out[FinalEvidence].result = "passed"
  BY <1>1, <1>4, PublishedIsTruthful DEF Recordable
<1> QED
  BY <1>7, <1>8

(* A cleanup that verifies binds that publication. *)
LEMMA SkippedCleanup ==
    ASSUME NEW n, MainBound(n, {}), MainPassed(n, NoStep),
           Gates \cup {FinalEvidence} \subseteq CalledBefore(n),
           MarkersAreMaps, Valid(TerminalCleanup)
    PROVE  Bound(TerminalCleanup, {TerminalCleanup, FinalEvidence} \cup Gates)
<1> DEFINE U == {TerminalCleanup, FinalEvidence} \cup Gates
           V == {FinalEvidence} \cup Gates
<1>1. FailedMarks = {}
  BY NoFailedMarks
<1>2. /\ UnderOf(TerminalCleanup) = U /\ UnderOf(FinalEvidence) = V
      /\ DepsOf(TerminalCleanup) = {FinalEvidence}
  BY <1>1, PassedUnder, UnderOfTerminal
<1>3. Local(TerminalCleanup)
  BY <1>2 DEF Valid, Verify
<1>4. /\ DOMAIN marker[TerminalCleanup] = U /\ Recordable(TerminalCleanup)
      /\ marker[TerminalCleanup][TerminalCleanup] = out[TerminalCleanup]
      /\ marker[FinalEvidence] = Narrow(marker[TerminalCleanup], V)
  BY <1>2, <1>3 DEF Local
<1>5. marker[FinalEvidence] = [a \in V |-> out[a]]
  BY DEF MainBound, Bound
<1>6. \A a \in V : marker[TerminalCleanup][a] = out[a]
  <2> SUFFICES ASSUME NEW a \in V PROVE marker[TerminalCleanup][a] = out[a]
    OBVIOUS
  <2>1. marker[FinalEvidence][a] = marker[TerminalCleanup][a]
    BY <1>4 DEF Narrow
  <2> QED
    BY <1>5, <2>1
<1>7. marker[TerminalCleanup] = [a \in U |-> marker[TerminalCleanup][a]]
  BY <1>4 DEF MarkersAreMaps, Steps, Terminal
<1> QED
  BY <1>4, <1>6, <1>7 DEF Bound

(* run_step finds a valid marker in the main script *)
LEMMA SkipMain ==
    ASSUME ProcessOK, WalkInv, OnlyDomainsFail, MarkersAreMaps, PublishedInv,
           prog = "main", NEW s, Skip(s)
    PROVE  WalkInv'
<1>0. PICK m, n : m = pc /\ n = m + 1
  OBVIOUS
<1>1. /\ Name(s) /\ phase = "check" /\ Valid(s) /\ StepDone(s, out[s].result)
      /\ out' = out /\ marker' = marker
  BY DEF Skip, disk, records
<1>2. /\ m \in Nat /\ s \in Steps /\ Running /\ ~At("finish-failed")
      /\ ~At("ensure-workers") /\ m \in Called
      /\ s = Script[m].step /\ s \in Gates \cup {FinalEvidence, TerminalCleanup}
  BY <1>0, <1>1, StepHere
<1>3. failedStep = NoStep /\ Torn = {}
  BY <1>2, NoFailureYet DEF Torn
<1>4. MainBound(m, {}) /\ MainPassed(m, NoStep)
  BY <1>0, <1>2, <1>3 DEF WalkInv, MainInv
<1>5. MainBound(m, {})' /\ MainPassed(m, NoStep)'
  <2>1. Closed((CalledBefore(m) \cap Gates) \ {})
    BY <1>2, BeforeClosed
  <2> QED
    BY <1>1, <1>2, <1>4, <2>1, MainFrame, PassedFrame
<1>6. Local(s) /\ Recordable(s)
  <2>1. s \in UnderOf(s)
    BY <1>2, UnderOfGate, UnderSelf, UnderOfTerminal DEF EvidenceUnder
  <2> QED
    BY <1>1, <2>1 DEF Valid, Verify, Local
<1>7. s \in Gates => Bound(s, Under[s])
  <2> SUFFICES ASSUME s \in Gates PROVE Bound(s, Under[s])
    OBVIOUS
  <2>1. UNION {Under[d] : d \in Deps[s]} \subseteq CalledBefore(m) \cap Gates
    BY <1>2, OrderAssumption, UnderSelf
  <2>2. AllBound(CalledBefore(m) \cap Gates)
    BY <1>4 DEF MainBound, AllBound
  <2> QED
    BY <1>6, <2>1, <2>2, ValidBound
<1>8. s = FinalEvidence => /\ Bound(s, {FinalEvidence} \cup Gates)
                           /\ out[s].result = "passed"
  <2>1. s = FinalEvidence => Gates \subseteq CalledBefore(m)
    BY <1>2, OrderAssumption
  <2> QED
    BY <1>1, <1>4, <2>1, SkippedEvidence
<1>9. s = TerminalCleanup => Bound(s, {TerminalCleanup, FinalEvidence} \cup Gates)
  <2>1. s = TerminalCleanup => Gates \cup {FinalEvidence} \subseteq CalledBefore(m)
    BY <1>2, OrderAssumption
  <2> QED
    BY <1>1, <1>4, <2>1, SkippedCleanup
<1>10. \A U : Bound(s, U) => Bound(s, U)'
  BY <1>1 DEF Bound, Recordable, LockedBasis
<1>11. s \notin DomainSteps => out'[s].result = "passed"
  <2>1. s \notin DomainSteps \cup {FinalEvidence} => out[s].result # "failed"
    BY <1>2 DEF OnlyDomainsFail
  <2> QED
    BY <1>1, <1>6, <1>8, <2>1 DEF Recordable
<1>12. s \in DomainSteps => out'[s].result \in {"passed", "failed"}
  BY <1>1, <1>6 DEF Recordable
<1>13. StepDone(s, out'[s].result)
  BY <1>1
<1>14. MainBound(pc, {}) /\ MainPassed(pc, NoStep)
  BY <1>0, <1>4
<1> QED
  BY <1>0, <1>1, <1>5, <1>7, <1>8, <1>9, <1>10, <1>11, <1>12, <1>13, <1>14, MainStepDone

(* run_step finds a valid marker while a failure is published *)
LEMMA SkipFailed ==
    ASSUME ProcessOK, WalkInv, MarkersAreMaps, prog = "failed", NEW s, Skip(s)
    PROVE  WalkInv'
<1>0. PICK m, f : m = pc /\ f = failedStep
  OBVIOUS
<1>1. /\ Name(s) /\ phase = "check" /\ Valid(s) /\ StepDone(s, out[s].result)
      /\ out' = out /\ marker' = marker
  BY DEF Skip, disk, records
<1>2. /\ m \in 1..3 /\ s \in Steps /\ Running
      /\ m = 1 => s = PublicFailure
      /\ m = 2 => s = FinalEvidence
      /\ m = 3 => s = TerminalCleanup
  BY <1>0, <1>1, StepHere
<1>3. s \in Terminal /\ ~Ambiguous
  BY <1>1, <1>2, TerminalNames DEF Valid
<1>4. FailedBound(m, f)
  BY <1>0, <1>2 DEF WalkInv, FailedInv
<1>5. FailedBound(m, f)'
  BY <1>1, <1>2, <1>4, FailedFrame
<1>6. /\ FailedMarks = {f}
      /\ UnderOf(PublicFailure) = {PublicFailure} \cup Under[f]
      /\ UnderOf(FinalEvidence) = {FinalEvidence, PublicFailure} \cup Prefix(f)
      /\ DepsOf(FinalEvidence) = Prefix(f) \cup {PublicFailure}
  BY <1>3, <1>4, FailedUnder
<1>7. f \in DomainSteps /\ f \in Prefix(f) /\ Prefix(f) \subseteq Gates
      /\ Closed(Prefix(f)) /\ AllBound(Prefix(f))
  BY <1>4, PrefixClosed DEF FailedBound, Prefix
<1>8. s # TerminalCleanup => Local(s)
  BY <1>1, <1>2, <1>6 DEF Valid, Verify
<1>9. marker[s] = [a \in DOMAIN marker[s] |-> marker[s][a]]
  BY <1>2 DEF MarkersAreMaps
<1>10. s = PublicFailure => Bound(s, {PublicFailure} \cup Under[f])
  <2> SUFFICES ASSUME s = PublicFailure PROVE Bound(s, {PublicFailure} \cup Under[f])
    OBVIOUS
  <2>1. /\ DOMAIN marker[s] = {PublicFailure} \cup Under[f] /\ Recordable(s)
        /\ marker[s][s] = out[s]
        /\ marker[f] = Narrow(marker[s], Under[f])
    BY <1>6, <1>7, <1>8, UnderOfGate, UnderOfTerminal, TerminalNames DEF Local
  <2>2. marker[f] = [a \in Under[f] |-> out[a]]
    BY <1>7 DEF AllBound, Bound
  <2>3. \A a \in Under[f] : marker[s][a] = out[a]
    <3> SUFFICES ASSUME NEW a \in Under[f] PROVE marker[s][a] = out[a]
      OBVIOUS
    <3>1. marker[f][a] = marker[s][a]
      BY <2>1 DEF Narrow
    <3> QED
      BY <2>2, <3>1
  <2> QED
    BY <1>9, <2>1, <2>3 DEF Bound
<1>11. s = FinalEvidence => Bound(s, {FinalEvidence, PublicFailure} \cup Prefix(f))
  <2> SUFFICES ASSUME s = FinalEvidence
               PROVE  Bound(s, {FinalEvidence, PublicFailure} \cup Prefix(f))
    OBVIOUS
  <2>1. /\ DOMAIN marker[s] = {FinalEvidence, PublicFailure} \cup Prefix(f)
        /\ Recordable(s) /\ marker[s][s] = out[s]
        /\ \A d \in Prefix(f) \cup {PublicFailure} :
              marker[d] = Narrow(marker[s], UnderOf(d))
    BY <1>6, <1>8, TerminalNames DEF Local
  <2>2. m > 1
    BY <1>2, TerminalNames
  <2>3. marker[PublicFailure] = [a \in {PublicFailure} \cup Under[f] |-> out[a]]
    BY <1>4, <2>2 DEF FailedBound, Bound
  <2>4. marker[s][PublicFailure] = out[PublicFailure]
    <3>1. marker[PublicFailure][PublicFailure] = marker[s][PublicFailure]
      BY <1>6, <2>1 DEF Narrow
    <3> QED
      BY <2>3, <3>1
  <2>5. \A a \in Prefix(f) : marker[s][a] = out[a]
    <3> SUFFICES ASSUME NEW a \in Prefix(f) PROVE marker[s][a] = out[a]
      OBVIOUS
    <3>1. a \in Gates /\ a \in Under[a] /\ UnderOf(a) = Under[a]
      BY <1>7, UnderSelf, UnderOfGate
    <3>4. marker[a] = Narrow(marker[s], Under[a])
      BY <2>1, <3>1
    <3>2. marker[a][a] = marker[s][a]
      BY <3>1, <3>4 DEF Narrow
    <3>3. marker[a] = [b \in Under[a] |-> out[b]]
      BY <1>7 DEF AllBound, Bound
    <3> QED
      BY <3>1, <3>2, <3>3
  <2> QED
    BY <1>9, <2>1, <2>4, <2>5 DEF Bound
<1>12. \A U : Bound(s, U) => Bound(s, U)'
  BY <1>1 DEF Bound, Recordable, LockedBasis
<1> QED
  BY <1>0, <1>1, <1>5, <1>10, <1>11, <1>12, FailedStepDone

-----------------------------------------------------------------------------
(*                  The invariant through the other actions                  *)

(* The steps that execute a command *)
LEMMA CommandWalk ==
    ASSUME DiskOK, ProcessOK, WalkInv,
           \/ \E s \in AlwaysSteps : RunAlways(s)
           \/ \E s \in Gates : RunGate(s) \/ KeepEvidence(s) \/ RefuseOutput(s)
           \/ VerifyMatrixLive \/ MatrixDrift \/ BuildWorkers \/ LockMatrix
           \/ ResolvePublicFailure \/ CleanUp
    PROVE  WalkInv'
<1>1. PICK s \in Gates \cup {PublicFailure, TerminalCleanup} :
        \/ RunAlways(s) \/ RunGate(s) \/ KeepEvidence(s) \/ RefuseOutput(s)
        \/ s = "matrix-live-verification" /\ (VerifyMatrixLive \/ MatrixDrift)
        \/ s = "worker-images" /\ BuildWorkers
        \/ s = "matrix-lock" /\ LockMatrix
        \/ s = PublicFailure /\ ResolvePublicFailure
        \/ s = TerminalCleanup /\ CleanUp
  BY GatesAssumption
<1>2. /\ Executing(s) /\ \E c : out' = [out EXCEPT ![s] = c]
      /\ marker' = marker
      /\ ToRecord \/ Stop(4) \/ Stop(1)
  BY <1>1 DEF RunAlways, RunGate, KeepEvidence, RefuseOutput, VerifyMatrixLive,
     MatrixDrift, BuildWorkers, PushWorkers, LockMatrix, ResolvePublicFailure,
     CleanUp, records
<1>3. s \in Steps /\ s # FinalEvidence
  BY TerminalNames DEF Steps, Terminal
<1>4. \A a \in Steps \ {s} : out'[a] = out[a]
  BY <1>2 DEF DiskOK
<1> QED
  BY <1>2, <1>3, <1>4, ExecuteWalk, StopWalk

(* A publication says "failed" exactly while a failure is published. *)
LEMMA GenerateWalk ==
    ASSUME DiskOK, ProcessOK, WalkInv, GenerateEvidence
    PROVE  WalkInv'
<1> DEFINE result == IF FailedMarks = {} THEN "passed" ELSE "failed"
<1>1. Executing(FinalEvidence) /\ FinalEvidence \in Steps /\ marker' = marker
  BY DEF GenerateEvidence, Steps, Terminal
<1>2. CASE ~PublicationAllowed
  <2>1. Stop(1)
    BY <1>2 DEF GenerateEvidence
  <2> QED
    BY <2>1, StopWalk
<1>3. CASE PublicationAllowed
  <2>1. /\ out' = [out EXCEPT ![FinalEvidence] = Content(inv, LockedBasis, result, TRUE)]
        /\ named' = Tree /\ ToRecord
    BY <1>3 DEF GenerateEvidence
  <2>2. \A a \in Steps \ {FinalEvidence} : out'[a] = out[a]
    BY <2>1 DEF DiskOK
  <2>3. Tree' = Tree
    <3>1. \A a \in Gates \cup {PublicFailure} : a \in Steps \ {FinalEvidence}
      BY TerminalNames DEF Steps, Terminal
    <3> QED
      BY <1>1, <2>2, <3>1 DEF Tree
  <2>4. Name(FinalEvidence) /\ Running /\ ~At("finish-failed") /\ ~At("ensure-workers")
    BY <1>1, StepHere DEF Executing
  <2>5. prog = "main" => FailedMarks = {}
    <3> SUFFICES ASSUME prog = "main" PROVE FailedMarks = {}
      OBVIOUS
    <3>1. Gates \subseteq CalledBefore(pc)
      BY <2>4, StepHere, OrderAssumption
    <3>2. MainBound(pc, {}) /\ MainPassed(pc, NoStep)
      BY <2>4, NoFailureYet DEF WalkInv, MainInv, Torn
    <3> QED
      BY <3>1, <3>2, NoFailedMarks
  <2>6. prog = "failed" => FailedMarks # {}
    <3> SUFFICES ASSUME prog = "failed" PROVE FailedMarks # {}
      OBVIOUS
    <3>1. FailedBound(pc, failedStep) /\ ~Ambiguous
      BY <1>3, <2>4 DEF WalkInv, FailedInv, PublicationAllowed
    <3>2. PICK n, f : n = pc /\ f = failedStep
      OBVIOUS
    <3> QED
      BY <3>1, <3>2, FailedUnder
  <2>7. out'[FinalEvidence].result = IF prog = "main" THEN "passed" ELSE "failed"
    BY <1>1, <2>1, <2>5, <2>6 DEF DiskOK, ProcessOK, Content
  <2> QED
    BY <1>1, <2>1, <2>2, <2>3, <2>7, ExecuteWalk
<1> QED
  BY <1>2, <1>3

(* The workers are rebuilt after their step: their marker is torn until it   *)
(* is recorded again, and nothing asked for before rests on it.              *)
LEMMA RebuildWalk ==
    ASSUME DiskOK, ProcessOK, WalkInv, RebuildWorkers
    PROVE  WalkInv'
<1> DEFINE w == "worker-images"
<1>0. PICK m : m = pc
  OBVIOUS
<1>1. /\ At("ensure-workers") /\ phase = "check" /\ ToRecord /\ marker' = marker
      /\ \E digest : out' = [out EXCEPT ![w] =
              Fresh(w, "passed", [NoBasis EXCEPT !.workers = digest], TRUE)]
  BY DEF RebuildWorkers, PushWorkers, records
<1>2. /\ m \in Nat /\ m \in DOMAIN Script \ Called /\ prog = "main" /\ Running
      /\ CalledBefore(m) \subseteq Gates /\ Script[m].op = "ensure-workers"
      /\ Here = Script[m].step
  BY <1>0, <1>1, CallHere
<1>3. w \in CalledBefore(m) /\ w \in Steps /\ Here = w
  BY <1>2, OrderAssumption, NamedGates
<1>4. failedStep = NoStep /\ Torn = {} /\ exit = NoExit
  BY <1>1, <1>2, NoFailureYet DEF Torn, WalkInv, PhaseInv, At
<1>5. MainBound(m, {}) /\ MainPassed(m, NoStep)
  BY <1>0, <1>2, <1>4 DEF WalkInv, MainInv
<1>6. \A a \in Steps \ {w} : out'[a] = out[a] /\ marker'[a] = marker[a]
  BY <1>1 DEF DiskOK
<1>7. out'[w].result = "passed"
  BY <1>1, <1>3 DEF DiskOK, Fresh, Content
<1>8. /\ phase' = "record" /\ pc' = m /\ prog' = "main" /\ failedStep' = NoStep
      /\ exit' = NoExit
  BY <1>0, <1>1, <1>2, <1>4 DEF ToRecord
<1>9. At("ensure-workers")' /\ Here' = w
  BY <1>0, <1>1, <1>2, <1>3, <1>8 DEF At, Running, Current, Here
<1>10. Closed((CalledBefore(m) \cap Gates) \ {w})
  <2>1. Closed(CalledBefore(m) \cap Gates)
    BY <1>2, BeforeClosed
  <2>2. \A g \in CalledBefore(m) \ {w} : w \notin Under[g]
    BY <1>2, OrderAssumption
  <2> QED
    BY <2>1, <2>2 DEF Closed
<1>11. MainBound(m, {w})
  BY <1>2, <1>5, TerminalNames DEF MainBound, AllBound
<1>12. MainBound(m, {w})'
  <2>1. \A a \in CalledBefore(m) \ {w} : out'[a] = out[a] /\ marker'[a] = marker[a]
    BY <1>2, <1>6 DEF Steps
  <2> QED
    BY <1>2, <1>10, <1>11, <2>1, MainFrame
<1>13. MainPassed(m, NoStep)'
  <2> SUFFICES ASSUME NEW g \in (CalledBefore(m) \cap Gates) \ {NoStep}
               PROVE  out'[g].result = "passed"
    BY DEF MainPassed
  <2> QED
    BY <1>5, <1>6, <1>7 DEF MainPassed, Steps
<1>14. MainInv' /\ FailedInv'
  <2>1. Torn' = {w}
    BY <1>8, <1>9 DEF Torn
  <2> QED
    BY <1>8, <1>12, <1>13, <2>1
       DEF MainInv, FailedInv, MainFailed, MainBound, MainPassed, AllBound
<1>15. PhaseInv' /\ FinishedInv'
  BY <1>2, <1>0, <1>8, <1>9, TerminalNames, NamedGates, GatesAssumption
     DEF PhaseInv, FinishedInv, NoExit, Running
<1> QED
  BY <1>14, <1>15 DEF WalkInv

(* reconcile judges the gates the run has passed valid, and so leaves them.  *)
LEMMA ReconcileWalk ==
    ASSUME DiskOK, ProcessOK, WalkInv, ReconcileStart \/ ReconcileMove
    PROVE  WalkInv'
<1>0. PICK m : m = pc
  OBVIOUS
<1>1. At("reconcile")
  BY DEF ReconcileStart, ReconcileMove
<1>2. /\ m \in Nat /\ prog = "main" /\ Running /\ CalledBefore(m) \subseteq Gates
      /\ ~At("finish-failed") /\ ~At("ensure-workers") /\ Script[m].op = "reconcile"
      /\ Here = Script[m].step /\ \A s : ~Name(s)
  BY <1>0, <1>1, CallHere DEF At, Current
<1>3. failedStep = NoStep /\ Torn = {} /\ exit = NoExit
  BY <1>2, NoFailureYet DEF Torn, WalkInv, PhaseInv
<1>4. MainBound(m, {}) /\ MainPassed(m, NoStep) /\ Closed((CalledBefore(m) \cap Gates) \ {})
  BY <1>0, <1>2, <1>3, BeforeClosed DEF WalkInv, MainInv
<1>5. /\ phase' = "move" /\ pc' = m /\ prog' = "main" /\ failedStep' = NoStep
      /\ exit' = NoExit
  BY <1>0, <1>2, <1>3 DEF ReconcileStart, ReconcileMove
<1>6. /\ todo' \cap CalledBefore(m) = {}
      /\ \A a \in CalledBefore(m) : out'[a] = out[a] /\ marker'[a] = marker[a]
  <2>1. CASE ReconcileStart
    <3>1. AllBound(CalledBefore(m) \cap Gates) /\ Closed(CalledBefore(m) \cap Gates)
      BY <1>2, <1>4, BeforeClosed DEF MainBound, AllBound
    <3>2. \A g \in CalledBefore(m) \cap Gates : Valid(g)
      BY <3>1, BoundValid
    <3>3. todo' \cap CalledBefore(m) = {}
      BY <1>2, <2>1, <3>2 DEF ReconcileStart, Invalid
    <3> QED
      BY <2>1, <3>3 DEF ReconcileStart, disk, records
  <2>2. CASE ReconcileMove
    <3>1. todo \cap CalledBefore(m) = {} /\ todo \subseteq Steps /\ todo # {}
      BY <1>0, <2>2 DEF WalkInv, PhaseInv, ProcessOK, ReconcileMove
    <3>2. First(todo) \in todo
      BY <3>1, FirstIn
    <3>3. First(todo) \notin CalledBefore(m) /\ todo' \cap CalledBefore(m) = {}
      BY <2>2, <3>1, <3>2 DEF ReconcileMove
    <3>4. \A a \in Steps : a # First(todo) => out'[a] = out[a] /\ marker'[a] = marker[a]
      BY <2>2 DEF ReconcileMove, DiskOK
    <3> QED
      BY <1>2, <3>3, <3>4 DEF Steps
  <2> QED
    BY <2>1, <2>2
<1>7. MainBound(m, {})' /\ MainPassed(m, NoStep)'
  BY <1>2, <1>4, <1>6, MainFrame, PassedFrame
<1>8. At("reconcile")' /\ Torn' = {}
  BY <1>0, <1>1, <1>2, <1>5 DEF At, Running, Current, Torn
<1>9. MainInv' /\ FailedInv'
  BY <1>5, <1>7, <1>8
     DEF MainInv, FailedInv, MainFailed, MainBound, MainPassed, AllBound
<1>10. PhaseInv' /\ FinishedInv'
  BY <1>0, <1>2, <1>5, <1>6, <1>8 DEF PhaseInv, FinishedInv, NoExit, Running
<1> QED
  BY <1>9, <1>10 DEF WalkInv

(* The calls between the steps *)
LEMMA CallWalk ==
    ASSUME DiskOK, ProcessOK, WalkInv,
           WorkersPresent \/ PreserveStaleMatrix \/ FinishFailed \/ ReconcileDone
    PROVE  WalkInv'
<1>1. PICK op \in {"reconcile", "ensure-workers", "preserve-matrix", "finish-failed"} :
        At(op) /\ (op = "ensure-workers" => WorkersPresent)
               /\ (op = "preserve-matrix" => PreserveStaleMatrix)
               /\ (op = "finish-failed" => FinishFailed)
               /\ (op = "reconcile" => ReconcileDone)
  BY DEF WorkersPresent, PreserveStaleMatrix, FinishFailed, ReconcileDone
<1>2. /\ prog = "main" /\ Running /\ pc \in DOMAIN Script \ Called
      /\ Script[pc].op = op /\ CalledBefore(pc) \subseteq Gates /\ \A s : ~Name(s)
  BY <1>1, CallHere
<1>3. phase # "record"
  <2>1. phase = "record" => op = "ensure-workers"
    BY <1>1, <1>2 DEF WalkInv, PhaseInv, At
  <2> QED
    BY <1>1, <2>1 DEF WorkersPresent
<1>4. \A a \in CalledBefore(pc) : out'[a] = out[a] /\ marker'[a] = marker[a]
  <2>1. CASE op # "preserve-matrix"
    BY <1>1, <2>1 DEF WorkersPresent, FinishFailed, ReconcileDone, disk, records
  <2>2. CASE op = "preserve-matrix"
    <3>1. "matrix-lock" \notin CalledBefore(pc)
      BY <1>2, <2>2, OrderAssumption, UnderSelf, GatesAssumption
    <3>2. \A a \in Steps : a # "matrix-lock" => out'[a] = out[a] /\ marker'[a] = marker[a]
      BY <1>1, <2>2 DEF PreserveStaleMatrix, DiskOK
    <3> QED
      BY <1>2, <3>1, <3>2 DEF Steps
  <2> QED
    BY <2>1, <2>2
<1>5. CASE failedStep = NoStep
  <2>1. Forward(failedStep)
    BY <1>1, <1>5 DEF WorkersPresent, PreserveStaleMatrix, FinishFailed, ReconcileDone
  <2> QED
    BY <1>1, <1>3, <1>4, <1>5, <2>1, CallForward
<1>6. CASE failedStep # NoStep
  <2>0. PICK m, f : m = pc /\ f = failedStep
    OBVIOUS
  <2>1. At("finish-failed")
    BY <1>2, <1>6, NoFailureYet
  <2>2. op = "finish-failed"
    BY <1>1, <2>1 DEF At
  <2>3. /\ prog' = "failed" /\ pc' = 1 /\ phase' = phase /\ failedStep' = f
        /\ exit' = exit /\ out' = out /\ marker' = marker
    BY <1>1, <1>6, <2>0, <2>2 DEF FinishFailed, disk, records
  <2>4. phase = "check"
    BY <1>2, <1>3, <2>1 DEF WalkInv, PhaseInv, ProcessOK, At
  <2>5. MainBound(m, {}) /\ MainPassed(m, f) /\ MainFailed(m, f)
    BY <1>2, <2>0, <2>4 DEF WalkInv, MainInv, Torn
  <2>6. FailedBound(1, f)
    BY <1>2, <1>6, <2>0, <2>5
       DEF MainBound, MainPassed, MainFailed, FailedBound, AllBound
  <2>7. FailedBound(1, f)'
    BY <2>3, <2>6, FailedFrame
  <2>8. MainInv' /\ FailedInv'
    BY <2>3, <2>7 DEF MainInv, FailedInv, FailedBound, AllBound
  <2>9. PhaseInv' /\ FinishedInv'
    BY <1>2, <2>3, <2>4 DEF WalkInv, PhaseInv, FinishedInv, NoExit, Running
  <2> QED
    BY <2>8, <2>9 DEF WalkInv
<1> QED
  BY <1>5, <1>6

(* A new invocation has asked for nothing yet. *)
LEMMA InvokeWalk ==
    ASSUME WalkInv, Invoke
    PROVE  WalkInv'
<1>1. /\ pc' = 1 /\ prog' = "main" /\ phase' = "check" /\ failedStep' = NoStep
      /\ exit' = NoExit
  BY DEF Invoke, WalkInv, PhaseInv
<1>2. MainBound(1, {})' /\ MainPassed(1, NoStep)' /\ MainFailed(1, NoStep)'
  BY BeforeEnds DEF MainBound, MainPassed, MainFailed, AllBound
<1>3. Torn' = {}
  BY <1>1 DEF Torn
<1>4. MainInv' /\ FailedInv'
  BY <1>1, <1>2, <1>3
     DEF MainInv, FailedInv, MainBound, MainPassed, MainFailed, AllBound
<1>5. PhaseInv' /\ FinishedInv'
  BY <1>1 DEF PhaseInv, FinishedInv, NoExit, Running
<1> QED
  BY <1>4, <1>5 DEF WalkInv

(* What happens around the runner leaves its walk alone. *)
LEMMA SameWalk ==
    ASSUME WalkInv, UNCHANGED <<disk, process>>
    PROVE  WalkInv'
<1>0. PICK n, f, t : n = pc /\ f = failedStep /\ t = Torn
  OBVIOUS
<1>1. /\ out' = out /\ marker' = marker /\ named' = named /\ pc' = n /\ prog' = prog
      /\ phase' = phase /\ todo' = todo /\ failedStep' = f /\ exit' = exit
      /\ through' = through
  BY <1>0 DEF disk, records, process
<1>2. \A s, U : Bound(s, U) => Bound(s, U)'
  BY <1>1 DEF Bound, Recordable, LockedBasis
<1>3. \A m, u : MainBound(m, u) => MainBound(m, u)'
  BY <1>1, <1>2 DEF MainBound, AllBound
<1>4. \A m, g : MainPassed(m, g) => MainPassed(m, g)'
  BY <1>1 DEF MainPassed
<1>5. \A m, g : MainFailed(m, g) => MainFailed(m, g)'
  BY <1>1 DEF MainFailed
<1>6. \A m, g : FailedBound(m, g) => FailedBound(m, g)'
  BY <1>1, <1>2 DEF FailedBound, AllBound
<1>7. Torn' = t
  BY <1>0, <1>1 DEF Torn, At, Running, Current
<1>8. MainInv'
  <2> SUFFICES ASSUME Running', prog' = "main"
               PROVE  (MainBound(n, t) /\ MainPassed(n, f) /\ MainFailed(n, f))'
    BY <1>1, <1>7 DEF MainInv, MainBound, MainPassed, MainFailed, AllBound
  <2>1. Running /\ prog = "main"
    BY <1>0, <1>1 DEF Running
  <2> QED
    BY <1>0, <1>3, <1>4, <1>5, <2>1 DEF WalkInv, MainInv
<1>9. FailedInv'
  <2> SUFFICES ASSUME Running', prog' = "failed" PROVE FailedBound(n, f)'
    BY <1>1 DEF FailedInv, FailedBound, AllBound
  <2> QED
    BY <1>0, <1>1, <1>6 DEF WalkInv, FailedInv, Running
<1>10. PhaseInv'
  BY <1>0, <1>1 DEF WalkInv, PhaseInv, Running, Name, At, Here, Current, Tree
<1>11. FinishedInv'
  BY <1>1, <1>3, <1>4 DEF WalkInv, FinishedInv
<1> QED
  BY <1>8, <1>9, <1>10, <1>11 DEF WalkInv

(* Every failure ends the runner. *)
LEMMA FailureWalk == ASSUME Failure PROVE WalkInv'
<1>1. \E code \in {1, 2, 3, 4, Killed} : Stop(code)
  BY DEF Failure, CommandDies, PushInterrupted, InvocationGuardFails, Crash,
     CrashMoving
<1> QED
  BY <1>1, StopWalk

(* Every step of the runner and of the world around it keeps the invariant.  *)
LEMMA NextWalk ==
    ASSUME DiskOK, ProcessOK, WalkInv, OnlyDomainsFail, MarkersAreMaps, PublishedInv,
           [Next]_vars
    PROVE  WalkInv'
<1>1. CASE Invoke
  BY <1>1, InvokeWalk
<1>2. CASE Proceed
  <2>1. CASE \E s \in Steps : Skip(s)
    BY <2>1, SkipMain, SkipFailed DEF ProcessOK
  <2>2. CASE RejectRecord \/ ReconcileRaises
    BY <2>2, StopWalk DEF RejectRecord, ReconcileRaises
  <2> QED
    BY <1>2, <2>1, <2>2, CommandWalk, GenerateWalk, RebuildWalk, ReconcileWalk,
       CallWalk, RecordWalk DEF Proceed
<1>3. CASE Failure
  BY <1>3, FailureWalk
<1>4. CASE World \/ UNCHANGED vars
  BY <1>4, SameWalk DEF World, HostChange, LoseVolume, vars
<1> QED
  BY <1>1, <1>2, <1>3, <1>4 DEF Next

-----------------------------------------------------------------------------
(*                  The other parts of the inductive invariant               *)

(* A marker is written whole, or removed. *)
LEMMA NextMaps ==
    ASSUME DiskOK, ProcessOK, MarkersAreMaps, WalkInv, [Next]_vars
    PROVE  MarkersAreMaps'
<1>1. CASE RecordMarker
  <2>1. marker' = [marker EXCEPT ![Here] = Payload(Here)]
    BY <1>1 DEF RecordMarker
  <2>2. Here \in Steps
    <3>1. Name(Here) \/ At("ensure-workers")
      BY <1>1 DEF RecordMarker, WalkInv, PhaseInv
    <3>2. At("ensure-workers") => Here \in Steps
      BY CallHere, OrderAssumption, NamedGates
    <3> QED
      BY <3>1, <3>2, StepHere
  <2> QED
    BY <2>1, <2>2, MapsKept
<1>2. CASE ReconcileMove
  <2>1. First(todo) \in Steps
    BY <1>2, FirstIn DEF ReconcileMove, ProcessOK
  <2> QED
    BY <1>2, <2>1, MapsKept DEF ReconcileMove
<1>3. CASE PreserveStaleMatrix
  BY <1>3, MapsKept, NamedGates DEF PreserveStaleMatrix
<1>4. CASE ~(RecordMarker \/ ReconcileMove \/ PreserveStaleMatrix)
  <2>1. marker' = marker
    <3>1. CASE Proceed
      BY <1>4, <3>1
         DEF Proceed, Skip, RunAlways, RunGate, KeepEvidence, RefuseOutput,
         VerifyMatrixLive, MatrixDrift, BuildWorkers, WorkersPresent, RebuildWorkers,
         PushWorkers, LockMatrix, ResolvePublicFailure, GenerateEvidence, CleanUp,
         RejectRecord, FinishFailed, ReconcileRaises, ReconcileStart, ReconcileDone,
         disk, records
    <3>2. CASE Failure
      BY <3>2 DEF Failure, CommandDies, PushInterrupted, InvocationGuardFails, Crash,
         CrashMoving, disk, records
    <3>3. CASE Invoke \/ World \/ UNCHANGED vars
      BY <3>3 DEF Invoke, World, HostChange, LoseVolume, vars, disk, records
    <3> QED
      BY <3>1, <3>2, <3>3 DEF Next
  <2> QED
    BY <2>1, MapsKept
<1> QED
  BY <1>1, <1>2, <1>3, <1>4

(* Steps other than those of a domain, and the publication, do not fail.     *)
LEMMA WriteOutcome ==
    ASSUME OnlyDomainsFail, DiskOK, NEW s, NEW c, out' = [out EXCEPT ![s] = c],
           \/ c.result # "failed"
           \/ s \in DomainSteps \cup {FinalEvidence}
           \/ c.result = out[s].result
    PROVE  OnlyDomainsFail'
BY DEF OnlyDomainsFail, DiskOK

(* ... which every action respects. *)
LEMMA NextOutcome ==
    ASSUME DiskOK, CountersOK, ProcessOK, OnlyDomainsFail, [Next]_vars
    PROVE  OnlyDomainsFail'
<1>1. /\ \A run, basis, sound : Content(run, basis, "passed", sound).result # "failed"
      /\ \A run, basis : Partial(run, basis).result # "failed"
      /\ \A s, basis, sound : Fresh(s, "passed", basis, sound).result # "failed"
      /\ NoOut.result # "failed"
  BY DEF Content, Partial, Fresh, NoOut
<1>2. \A s \in Steps : LogOnly(s).result = out[s].result
  BY DEF LogOnly, DiskOK, Contents
<1>3. out' = out => OnlyDomainsFail'
  BY DEF OnlyDomainsFail
<1>4. ASSUME NEW s \in Steps, RunAlways(s) \/ RunGate(s) \/ KeepEvidence(s)
                              \/ RefuseOutput(s) \/ Skip(s)
      PROVE  OnlyDomainsFail'
  <2>1. CASE RunAlways(s)
    BY <1>1, <2>1, WriteOutcome DEF RunAlways
  <2>2. CASE RunGate(s)
    <3>1. PICK result \in {"passed"} \cup (IF s \in DomainSteps THEN {"failed"} ELSE {}),
               basis \in {LockOf(s), out[s].basis}, sound \in BOOLEAN :
            out' = [out EXCEPT ![s] = Fresh(s, result, basis, sound)]
      BY <2>2, RunGateWrites
    <3>2. result = "passed" \/ s \in DomainSteps
      OBVIOUS
    <3> QED
      BY <1>1, <3>1, <3>2, WriteOutcome
  <2>3. CASE KeepEvidence(s)
    <3>1. PICK basis : out' = [out EXCEPT ![s] = [LogOnly(s) EXCEPT !.basis = basis]]
      BY <1>4, <2>3, KeepEvidenceWrites
    <3>2. [LogOnly(s) EXCEPT !.basis = basis].result = out[s].result
      BY <1>2 DEF LogOnly, DiskOK, Contents
    <3> QED
      BY <1>4, <3>1, <3>2, WriteOutcome
  <2>5. CASE RefuseOutput(s)
    BY <1>2, <2>5, WriteOutcome DEF RefuseOutput
  <2>4. CASE Skip(s)
    BY <1>3, <2>4 DEF Skip, disk
  <2> QED
    BY <1>4, <2>1, <2>2, <2>3, <2>4, <2>5
<1>5. CASE VerifyMatrixLive \/ MatrixDrift \/ BuildWorkers \/ RebuildWorkers
           \/ LockMatrix \/ ResolvePublicFailure \/ CleanUp
  <2>1. CASE VerifyMatrixLive
    BY <1>1, <2>1, WriteOutcome DEF VerifyMatrixLive
  <2>2. CASE MatrixDrift
    BY <1>1, <2>2, WriteOutcome DEF MatrixDrift
  <2>3. CASE PushWorkers
    <3>1. PICK digest \in NextDigests :
            out' = [out EXCEPT !["worker-images"] =
                      Fresh("worker-images", "passed",
                            [NoBasis EXCEPT !.workers = digest], TRUE)]
      BY <2>3 DEF PushWorkers
    <3> QED
      BY <1>1, <3>1, WriteOutcome
  <2>4. CASE LockMatrix
    <3>1. PICK c : out' = [out EXCEPT !["matrix-lock"] = c] /\ c.result # "failed"
      BY <1>1, <2>4 DEF LockMatrix
    <3> QED
      BY <3>1, WriteOutcome
  <2>5. CASE ResolvePublicFailure
    BY <1>1, <2>5, WriteOutcome DEF ResolvePublicFailure
  <2>6. CASE CleanUp
    BY <1>1, <2>6, WriteOutcome DEF CleanUp
  <2> QED
    BY <1>5, <2>1, <2>2, <2>3, <2>4, <2>5, <2>6 DEF BuildWorkers, RebuildWorkers
<1>6. CASE GenerateEvidence
  BY <1>6, WriteOutcome DEF GenerateEvidence
<1>7. CASE PreserveStaleMatrix \/ ReconcileMove
  BY <1>1, <1>3, <1>7, WriteOutcome DEF PreserveStaleMatrix, ReconcileMove
<1>8. CASE WorkersPresent \/ RecordMarker \/ RejectRecord \/ FinishFailed
           \/ ReconcileRaises \/ ReconcileStart \/ ReconcileDone
  BY <1>3, <1>8 DEF WorkersPresent, RecordMarker, RejectRecord, FinishFailed,
     ReconcileRaises, ReconcileStart, ReconcileDone, disk
<1>9. ASSUME NEW s \in Steps, CommandDies(s) PROVE OnlyDomainsFail'
  <2>1. PICK left \in Leftovers(s) : out' = [out EXCEPT ![s] = left]
    BY <1>9 DEF CommandDies
  <2>2. \/ left = out[s] \/ left = LogOnly(s)
        \/ \E run, basis : left = Partial(run, basis)
    BY DEF Leftovers
  <2>3. left.result # "failed" \/ left.result = out[s].result
    BY <1>1, <1>2, <2>2
  <2> QED
    BY <2>1, <2>3, WriteOutcome
<1>10. CASE PushInterrupted
  BY <1>2, <1>10, WriteOutcome, NamedGates DEF PushInterrupted
<1>11. CASE CrashMoving
  BY <1>1, <1>11, WriteOutcome DEF CrashMoving
<1>12. CASE InvocationGuardFails \/ Crash \/ Invoke \/ World \/ UNCHANGED vars
  BY <1>3, <1>12 DEF InvocationGuardFails, Crash, Invoke, World, HostChange,
     LoseVolume, vars, disk
<1>13. CASE Proceed
  BY <1>4, <1>5, <1>6, <1>7, <1>8, <1>13, NamedGates DEF Proceed
<1>14. CASE Failure
  BY <1>9, <1>10, <1>11, <1>12, <1>14 DEF Failure
<1> QED
  BY <1>12, <1>13, <1>14 DEF Next

-----------------------------------------------------------------------------
(*                  What evidence.json says, through a step                  *)

(* A step that writes nothing of the publication leaves what was said of it. *)
LEMMA PublishedFrame ==
    ASSUME PublishedInv, inv' = inv, named' = named,
           out'[FinalEvidence] = out[FinalEvidence],
           marker'[FinalEvidence] = marker[FinalEvidence],
           EvidenceAhead' => EvidenceAhead
    PROVE  PublishedInv'
<1>1. PICK m, U : m = marker[FinalEvidence] /\ U = DOMAIN m
  OBVIOUS
<1>2. Publishes(m) => Publishes(m)'
  BY DEF Publishes, Covered, FailedIn, Entry
<1>3. Publishes(m)' => Publishes(marker[FinalEvidence])'
  BY <1>1 DEF Publishes, Covered, FailedIn, Entry
<1> QED
  BY <1>1, <1>2, <1>3 DEF PublishedInv

(* Without its marker there is no publication to speak of. *)
LEMMA PublishedDropped ==
    ASSUME marker'[FinalEvidence] = NoMarker, out'[FinalEvidence].run <= inv'
    PROVE  PublishedInv'
BY DEF PublishedInv

(* A file of this invocation is not the one an older marker binds. *)
LEMMA PublishedWritten ==
    ASSUME PublishedInv, DiskOK, CountersOK, EvidenceAhead, inv' = inv,
           marker' = marker, out'[FinalEvidence].run = inv
    PROVE  PublishedInv'
<1> SUFFICES ASSUME marker[FinalEvidence] # NoMarker PROVE PublishedInv'
  BY DEF PublishedInv, CountersOK
<1>1. PICK r : r = marker[FinalEvidence][FinalEvidence].run
  OBVIOUS
<1>2. FinalEvidence \in DOMAIN marker[FinalEvidence] /\ FinalEvidence \in Steps
  BY DEF PublishedInv, Steps, Terminal
<1>3. r \in Nat /\ r < inv /\ inv \in Nat
  BY <1>1, <1>2 DEF PublishedInv, DiskOK, Contents, CountersOK
<1>4. marker'[FinalEvidence][FinalEvidence] # out'[FinalEvidence]
  BY <1>1, <1>3
<1> QED
  BY <1>1, <1>3, <1>4 DEF PublishedInv

(* A new invocation makes everything on the disk older. *)
LEMMA PublishedInvoke ==
    ASSUME PublishedInv, DiskOK, CountersOK, Invoke
    PROVE  PublishedInv'
<1>1. /\ out' = out /\ marker' = marker /\ named' = named /\ inv' = inv + 1
      /\ inv \in Nat
  BY DEF Invoke, disk, records, CountersOK
<1>2. out[FinalEvidence].run \in Nat
  BY DEF DiskOK, Contents, Steps, Terminal
<1>3. PICK m, U : m = marker[FinalEvidence] /\ U = DOMAIN m
  OBVIOUS
<1>4. m # NoMarker => m[FinalEvidence].run \in Nat
  BY <1>3 DEF PublishedInv, DiskOK, Contents, Steps, Terminal
<1>5. Publishes(m) => Publishes(m)'
  BY <1>1 DEF Publishes, Covered, FailedIn, Entry
<1>6. Publishes(m)' => Publishes(marker[FinalEvidence])'
  BY <1>1, <1>3 DEF Publishes, Covered, FailedIn, Entry
<1> QED
  BY <1>1, <1>2, <1>3, <1>4, <1>5, <1>6 DEF PublishedInv

(* The publication is asked for once in an invocation. *)
LEMMA AheadBefore ==
    ASSUME ProcessOK,
           \/ pc' = pc /\ prog' = prog
           \/ \E code : Stop(code)
           \/ Running /\ \E failed : Forward(failed)
           \/ FinishFailed
    PROVE  EvidenceAhead' => EvidenceAhead
<1> SUFFICES ASSUME EvidenceAhead' PROVE EvidenceAhead
  OBVIOUS
<1>1. CASE pc' = pc /\ prog' = prog
  BY <1>1 DEF EvidenceAhead, Running, CalledBefore
<1>2. ASSUME NEW code, Stop(code) PROVE EvidenceAhead
  BY <1>2 DEF Stop, EvidenceAhead, Running
<1>3. ASSUME NEW failed, Forward(failed), Running PROVE EvidenceAhead
  <2>1. CASE pc = Len(Current)
    BY <1>2, <1>3, <2>1 DEF Forward
  <2>2. CASE pc # Len(Current)
    <3>0. PICK m, n : m = pc /\ n = m + 1
      OBVIOUS
    <3>1. pc' = n /\ prog' = prog
      BY <1>3, <2>2, <3>0 DEF Forward
    <3>2. CASE prog = "main"
      <4>1. m \in DOMAIN Script
        BY <1>3, <3>0, <3>2, ScriptAssumption DEF ProcessOK, Current, Running
      <4>2. CalledBefore(m) \subseteq CalledBefore(n)
        BY <3>0, <4>1, BeforeNext
      <4>3. FinalEvidence \notin CalledBefore(n)
        BY <3>1, <3>2 DEF EvidenceAhead, CalledBefore
      <4> QED
        BY <1>3, <3>0, <3>2, <4>2, <4>3 DEF EvidenceAhead
    <3>3. CASE prog = "failed"
      <4>1. m \in 0..3
        BY <3>0, <3>3, CurrentType DEF ProcessOK, Current
      <4> QED
        BY <1>3, <3>0, <3>1, <3>3, <4>1 DEF EvidenceAhead
    <3> QED
      BY <3>2, <3>3 DEF ProcessOK
  <2> QED
    BY <2>1, <2>2
<1>4. CASE FinishFailed
  <2>1. Running /\ prog = "main" /\ CalledBefore(pc) \subseteq Gates
    BY <1>4, CallHere DEF FinishFailed
  <2> QED
    BY <2>1, TerminalNames DEF EvidenceAhead
<1> QED
  BY <1>1, <1>2, <1>3, <1>4

(* What is recorded of a full publication is what evidence.json names. *)
LEMMA RecordedPassed ==
    ASSUME DiskOK, NEW n, MainBound(n, {}), MainPassed(n, NoStep), Gates \subseteq CalledBefore(n),
           named = Tree, out[FinalEvidence].result = "passed"
    PROVE  Publishes(Payload(FinalEvidence))
<1>0. PICK m : m = Payload(FinalEvidence)
  OBVIOUS
<1>1. UnderOf(FinalEvidence) = {FinalEvidence} \cup Gates
  BY NoFailedMarks, PassedUnder
<1>2. m = [a \in {FinalEvidence} \cup Gates |-> out[a]]
  BY <1>0, <1>1 DEF Payload
<1>3. Covered(m) = Gates
  BY <1>2, TerminalNames DEF Covered
<1>4. FailedIn(m) = {}
  <2> SUFFICES ASSUME NEW d \in DomainSteps, d \in Gates PROVE m[d].result # "failed"
    BY <1>3 DEF FailedIn
  <2>1. out[d].result = "passed"
    BY GatesAssumption DEF MainPassed
  <2> QED
    BY <1>2, <2>1
<1>5. ASSUME NEW s \in Gates PROVE named[s] = Entry(m, s, Under[s])
  <2>1. Under[s] \subseteq Gates /\ s \in Steps
    BY UnderSelf DEF Steps
  <2>2. marker[s] = [a \in Under[s] |-> out[a]]
    BY DEF MainBound, AllBound, Bound
  <2>3. marker[s] = [a \in Under[s] |-> m[a]]
    BY <1>2, <2>1, <2>2
  <2>4. named[s] = [marker |-> marker[s], out |-> out[s]]
    BY DEF Tree
  <2> QED
    BY <1>2, <2>3, <2>4 DEF Entry
<1>6. m[FinalEvidence].result = "passed"
  BY <1>2
<1>7. PublicFailure \notin Gates
  BY TerminalNames
<1> QED
  BY <1>0, <1>3, <1>4, <1>5, <1>6, <1>7 DEF Publishes

(* So is what is recorded of the publication of a failure. *)
LEMMA RecordedFailed ==
    ASSUME DiskOK, NEW n \in Nat, n > 1, NEW f, FailedBound(n, f), ~Ambiguous,
           named = Tree, out[FinalEvidence].result = "failed"
    PROVE  Publishes(Payload(FinalEvidence))
<1>0. PICK m, P : m = Payload(FinalEvidence) /\ P = Prefix(f)
  OBVIOUS
<1>1. UnderOf(FinalEvidence) = {FinalEvidence, PublicFailure} \cup P
  BY <1>0, FailedUnder
<1>2. m = [a \in {FinalEvidence, PublicFailure} \cup P |-> out[a]]
  BY <1>0, <1>1 DEF Payload
<1>3. f \in DomainSteps /\ f \in P /\ P \subseteq Gates /\ \A g \in P : Under[g] \subseteq P
  BY <1>0, PrefixClosed DEF FailedBound, Closed
<1>4. Covered(m) = {PublicFailure} \cup P
  BY <1>2, <1>3, TerminalNames DEF Covered
<1>5. FailedIn(m) = {f}
  <2>1. \A d \in P : m[d] = out[d]
    BY <1>2
  <2>2. \A d \in P \ {f} : out[d].result = "passed"
    BY <1>0 DEF FailedBound
  <2>3. out[f].result = "failed"
    BY DEF FailedBound
  <2>4. PublicFailure \notin DomainSteps
    BY GatesAssumption, TerminalNames
  <2> QED
    BY <1>3, <1>4, <2>1, <2>2, <2>3, <2>4 DEF FailedIn
<1>6. ASSUME NEW s \in P PROVE named[s] = Entry(m, s, Under[s])
  <2>1. Under[s] \subseteq P /\ s \in Gates
    BY <1>3
  <2>2. marker[s] = [a \in Under[s] |-> out[a]]
    BY <1>0 DEF FailedBound, AllBound, Bound
  <2>3. marker[s] = [a \in Under[s] |-> m[a]]
    BY <1>2, <2>1, <2>2
  <2>4. named[s] = [marker |-> marker[s], out |-> out[s]]
    BY <2>1 DEF Tree
  <2> QED
    BY <1>2, <2>3, <2>4 DEF Entry
<1>7. named[PublicFailure] = Entry(m, PublicFailure, {PublicFailure} \cup Under[f])
  <2>1. Under[f] \subseteq P
    BY <1>3
  <2>2. marker[PublicFailure] = [a \in {PublicFailure} \cup Under[f] |-> out[a]]
    BY DEF FailedBound, Bound
  <2>3. marker[PublicFailure] = [a \in {PublicFailure} \cup Under[f] |-> m[a]]
    BY <1>2, <2>1, <2>2
  <2>4. named[PublicFailure] = [marker |-> marker[PublicFailure], out |-> out[PublicFailure]]
    BY DEF Tree
  <2> QED
    BY <1>2, <2>3, <2>4 DEF Entry
<1>8. m[FinalEvidence].result = "failed"
  BY <1>2
<1>9. Covered(m) \cap Gates = P
  BY <1>3, <1>4, TerminalNames
<1> QED
  BY <1>0, <1>3, <1>5, <1>6, <1>7, <1>8, <1>9 DEF Publishes

(* record, at the publication *)
LEMMA PublishedRecord ==
    ASSUME PublishedInv, DiskOK, CountersOK, ProcessOK, WalkInv, RecordMarker
    PROVE  PublishedInv'
<1>1. /\ out' = out /\ named' = named /\ inv' = inv /\ phase = "record"
      /\ marker' = [marker EXCEPT ![Here] = Payload(Here)]
      /\ MayRecord(Here) /\ StepDone(Here, out[Here].result) /\ Running
  BY DEF RecordMarker, budget
<1>2. PICK failed : Stop(0) \/ Forward(failed)
  BY <1>1 DEF StepDone
<1>3. EvidenceAhead' => EvidenceAhead
  BY <1>1, <1>2, AheadBefore
<1>4. CASE Here # FinalEvidence
  <2>1. marker'[FinalEvidence] = marker[FinalEvidence]
    BY <1>1, <1>4 DEF DiskOK, Steps, Terminal
  <2> QED
    BY <1>1, <1>3, <2>1, PublishedFrame
<1>5. CASE Here = FinalEvidence
  <2>0. PICK m, e : m = pc /\ e = Payload(FinalEvidence)
    OBVIOUS
  <2>1. Name(FinalEvidence)
    <3>1. Name(Here) \/ At("ensure-workers")
      BY <1>1 DEF WalkInv, PhaseInv
    <3>2. At("ensure-workers") => Here \in Gates
      BY CallHere, OrderAssumption, GatesAssumption
    <3> QED
      BY <1>5, <3>1, <3>2, TerminalNames
  <2>2. named = Tree
        /\ out[FinalEvidence].result = IF prog = "main" THEN "passed" ELSE "failed"
    BY <1>1, <1>5 DEF WalkInv, PhaseInv
  <2>3. ASSUME prog = "main" PROVE Publishes(e) /\ ~EvidenceAhead'
    <3>1. m \in Called /\ Script[m].step = FinalEvidence /\ m \in DOMAIN Script
          /\ ~At("finish-failed") /\ ~At("ensure-workers")
      BY <2>0, <2>1, <2>3, StepHere
    <3>2. CalledBefore(m) = Gates /\ failedStep = NoStep /\ Torn = {}
      BY <1>1, <2>3, <3>1, OrderAssumption, NoFailureYet DEF Torn
    <3>3. MainBound(m, {}) /\ MainPassed(m, NoStep)
      BY <1>1, <2>0, <2>3, <3>2 DEF WalkInv, MainInv
    <3>4. Publishes(e)
      BY <2>0, <2>2, <2>3, <3>2, <3>3, RecordedPassed
    <3>5. ~EvidenceAhead'
      <4>1. CASE Stop(0)
        BY <4>1 DEF Stop, EvidenceAhead, Running
      <4>2. CASE Forward(failed) /\ pc # Len(Current)
        <5>0. PICK n : n = m + 1
          OBVIOUS
        <5>1. pc' = n /\ prog' = "main"
          BY <2>0, <2>3, <4>2, <5>0 DEF Forward
        <5>2. FinalEvidence \in CalledBefore(n)
          BY <3>1, <5>0, BeforeNext
        <5> QED
          BY <5>1, <5>2 DEF EvidenceAhead, CalledBefore
      <4>3. CASE Forward(failed) /\ pc = Len(Current)
        BY <4>3 DEF Forward, Stop, EvidenceAhead, Running
      <4> QED
        BY <1>2, <4>1, <4>2, <4>3
    <3> QED
      BY <3>4, <3>5
  <2>4. ASSUME prog = "failed" PROVE Publishes(e) /\ ~EvidenceAhead'
    <3>1. m = 2 /\ ~Ambiguous
      BY <1>1, <1>5, <2>0, <2>1, <2>4, StepHere, TerminalNames DEF MayRecord
    <3>2. FailedBound(m, failedStep)
      BY <1>1, <2>0, <2>4 DEF WalkInv, FailedInv
    <3>3. Publishes(e)
      BY <2>0, <2>2, <2>4, <3>1, <3>2, RecordedFailed
    <3>4. ~EvidenceAhead'
      BY <1>2, <2>0, <2>4, <3>1 DEF Forward, Stop, EvidenceAhead, Running
    <3> QED
      BY <3>3, <3>4
  <2>5. Publishes(e) /\ ~EvidenceAhead'
    BY <2>3, <2>4 DEF ProcessOK
  <2>6. marker'[FinalEvidence] = e /\ FinalEvidence \in DOMAIN e
        /\ e[FinalEvidence] = out[FinalEvidence]
    <3>1. FinalEvidence \in UnderOf(FinalEvidence) /\ FinalEvidence \in Steps
      BY UnderOfTerminal DEF EvidenceUnder, Steps, Terminal
    <3> QED
      BY <1>1, <1>5, <2>0, <3>1 DEF DiskOK, Payload
  <2>7. Publishes(e)'
    BY <1>1, <2>5 DEF Publishes, Covered, FailedIn, Entry
  <2>8. Publishes(marker[FinalEvidence])'
    BY <2>6, <2>7 DEF Publishes, Covered, FailedIn, Entry
  <2> QED
    BY <1>1, <2>2, <2>5, <2>6, <2>8 DEF PublishedInv
<1> QED
  BY <1>4, <1>5

(* Every step keeps what was said of the publication. *)
LEMMA NextPublished ==
    ASSUME PublishedInv, DiskOK, CountersOK, ProcessOK, WalkInv, [Next]_vars
    PROVE  PublishedInv'
<1>1. FinalEvidence \in Steps /\ FinalEvidence \notin Gates
  BY TerminalNames DEF Steps, Terminal
<1>2. ASSUME inv' = inv, named' = named,
             marker'[FinalEvidence] = marker[FinalEvidence],
             \/ out' = out
             \/ \E s \in Steps \ {FinalEvidence} : \E c : out' = [out EXCEPT ![s] = c],
             \/ pc' = pc /\ prog' = prog
             \/ \E code : Stop(code)
             \/ Running /\ \E failed : Forward(failed)
             \/ FinishFailed
      PROVE  PublishedInv'
  <2>1. out'[FinalEvidence] = out[FinalEvidence]
    <3>1. ASSUME NEW s \in Steps \ {FinalEvidence}, NEW c, out' = [out EXCEPT ![s] = c]
          PROVE  out'[FinalEvidence] = out[FinalEvidence]
      BY <1>1, <3>1 DEF DiskOK
    <3> QED
      BY <1>2, <3>1
  <2>2. EvidenceAhead' => EvidenceAhead
    BY <1>2, AheadBefore
  <2> QED
    BY <1>2, <2>1, <2>2, PublishedFrame
<1>3. ASSUME NEW s \in Steps, Skip(s) PROVE PublishedInv'
  <2>1. Running /\ ((\E code : Stop(code)) \/ \E failed : Forward(failed))
    BY <1>3 DEF Skip, StepDone, Name
  <2> QED
    BY <1>2, <1>3, <2>1 DEF Skip, disk, records, budget
<1>4. ASSUME NEW s \in Gates,
             RunAlways(s) \/ RunGate(s) \/ KeepEvidence(s) \/ RefuseOutput(s)
      PROVE  PublishedInv'
  <2>1. s \in Steps \ {FinalEvidence}
    BY <1>1, NamedGates
  <2>2. /\ \E c : out' = [out EXCEPT ![s] = c]
        /\ ToRecord \/ \E code : Stop(code)
        /\ marker' = marker /\ named' = named /\ inv' = inv
    <3>1. CASE RunAlways(s)
      BY <3>1 DEF RunAlways, records, budget
    <3>2. CASE RunGate(s)
      <4>1. PICK result, basis, sound :
              out' = [out EXCEPT ![s] = Fresh(s, result, basis, sound)]
        BY <3>2, RunGateWrites
      <4> QED
        BY <3>2, <4>1 DEF RunGate, records
    <3>3. CASE KeepEvidence(s)
      <4>1. PICK basis : out' = [out EXCEPT ![s] = [LogOnly(s) EXCEPT !.basis = basis]]
        BY <3>3 DEF KeepEvidence
      <4> QED
        BY <3>3, <4>1 DEF KeepEvidence, records, budget
    <3>4. CASE RefuseOutput(s)
      BY <3>4 DEF RefuseOutput, records, budget
    <3> QED
      BY <1>4, <3>1, <3>2, <3>3, <3>4
  <2>3. ToRecord => pc' = pc /\ prog' = prog
    BY DEF ToRecord
  <2> QED
    BY <1>2, <2>1, <2>2, <2>3
<1>5. CASE VerifyMatrixLive \/ MatrixDrift \/ PushWorkers \/ LockMatrix
           \/ ResolvePublicFailure \/ CleanUp
  <2>1. /\ \E s \in Steps \ {FinalEvidence} : \E c : out' = [out EXCEPT ![s] = c]
        /\ ToRecord \/ \E code : Stop(code)
        /\ marker' = marker /\ named' = named /\ inv' = inv
    <3>1. {"worker-images", "matrix-lock", "matrix-live-verification", PublicFailure,
           TerminalCleanup} \subseteq Steps \ {FinalEvidence}
      BY <1>1, NamedGates, GatesAssumption, TerminalNames DEF Terminal
    <3>2. CASE VerifyMatrixLive
      BY <3>1, <3>2 DEF VerifyMatrixLive, records, budget
    <3>3. CASE MatrixDrift
      BY <3>1, <3>3 DEF MatrixDrift, records, budget
    <3>4. CASE PushWorkers
      <4>1. PICK digest \in NextDigests :
              out' = [out EXCEPT !["worker-images"] =
                        Fresh("worker-images", "passed",
                              [NoBasis EXCEPT !.workers = digest], TRUE)]
        BY <3>4 DEF PushWorkers
      <4> QED
        BY <3>1, <3>4, <4>1 DEF PushWorkers, records, budget
    <3>5. CASE LockMatrix
      BY <3>1, <3>5 DEF LockMatrix, records, budget
    <3>6. CASE ResolvePublicFailure
      BY <3>1, <3>6 DEF ResolvePublicFailure, records, budget
    <3>7. CASE CleanUp
      BY <3>1, <3>7 DEF CleanUp, records, budget
    <3> QED
      BY <1>5, <3>2, <3>3, <3>4, <3>5, <3>6, <3>7
  <2>2. ToRecord => pc' = pc /\ prog' = prog
    BY DEF ToRecord
  <2> QED
    BY <1>2, <2>1, <2>2
<1>6. CASE WorkersPresent \/ PreserveStaleMatrix
  <2>1. Running /\ Forward(failedStep) /\ named' = named /\ inv' = inv
    BY <1>6 DEF WorkersPresent, PreserveStaleMatrix, At, disk, records, budget
  <2>2. \/ out' = out
        \/ \E s \in Steps \ {FinalEvidence} : \E c : out' = [out EXCEPT ![s] = c]
    BY <1>1, <1>6, GatesAssumption, NamedGates
       DEF WorkersPresent, PreserveStaleMatrix, disk
  <2>3. marker'[FinalEvidence] = marker[FinalEvidence]
    BY <1>1, <1>6, GatesAssumption
       DEF WorkersPresent, PreserveStaleMatrix, disk, records, DiskOK
  <2> QED
    BY <1>2, <2>1, <2>2, <2>3
<1>7. CASE GenerateEvidence
  <2>1. Name(FinalEvidence)
    BY <1>7 DEF GenerateEvidence, Executing
  <2>2. EvidenceAhead
    BY <2>1, StepHere, TerminalNames DEF EvidenceAhead, ProcessOK
  <2>3. out'[FinalEvidence].run = inv /\ marker' = marker /\ inv' = inv
    BY <1>1, <1>7 DEF GenerateEvidence, Content, LogOnly, DiskOK, Contents, budget
  <2> QED
    BY <2>2, <2>3, PublishedWritten
<1>8. CASE RejectRecord \/ ReconcileRaises \/ Crash \/ InvocationGuardFails
  BY <1>2, <1>8
     DEF RejectRecord, ReconcileRaises, Crash, InvocationGuardFails, disk, records, budget
<1>9. CASE FinishFailed
  BY <1>2, <1>9 DEF FinishFailed, disk, records, budget
<1>10. CASE ReconcileStart \/ HostChange \/ LoseVolume \/ UNCHANGED vars
  BY <1>2, <1>10
     DEF ReconcileStart, HostChange, LoseVolume, vars, disk, records, budget, process
<1>11. CASE ReconcileDone
  BY <1>2, <1>11 DEF ReconcileDone, At, disk, records, budget
<1>12. CASE ReconcileMove
  <2>1. First(todo) \in Steps
    BY <1>12, FirstIn DEF ReconcileMove, ProcessOK
  <2>2. /\ out' = [out EXCEPT ![First(todo)] = NoOut]
        /\ marker' = [marker EXCEPT ![First(todo)] = NoMarker]
        /\ named' = IF First(todo) = FinalEvidence THEN NoMarker ELSE named
        /\ pc' = pc /\ prog' = prog /\ inv' = inv
    BY <1>12 DEF ReconcileMove, budget
  <2>3. CASE First(todo) = FinalEvidence
    <3>1. marker'[FinalEvidence] = NoMarker /\ out'[FinalEvidence].run <= inv'
      BY <1>1, <2>2, <2>3 DEF DiskOK, NoOut, Content, CountersOK
    <3> QED
      BY <3>1, PublishedDropped
  <2>4. CASE First(todo) # FinalEvidence
    BY <1>1, <1>2, <2>1, <2>2, <2>4 DEF DiskOK
  <2> QED
    BY <2>3, <2>4
<1>13. CASE CrashMoving
  <2>1. /\ marker' = marker /\ inv' = inv
        /\ \E code : Stop(code)
    BY <1>13 DEF CrashMoving
  <2>2. CASE phase = "move" /\ todo # {} /\ First(todo) = FinalEvidence
             /\ out' = [out EXCEPT ![FinalEvidence] = NoOut]
    <3>1. out'[FinalEvidence] = NoOut /\ NoOut.run = 0 /\ NoOut.result = "absent"
      BY <1>1, <2>2 DEF DiskOK, NoOut, Content
    <3>2. ~EvidenceAhead'
      BY <2>1 DEF Stop, EvidenceAhead, Running
    <3> QED
      BY <2>1, <3>1, <3>2 DEF PublishedInv, CountersOK
  <2>3. CASE phase = "move" /\ todo # {} /\ First(todo) # FinalEvidence
             /\ out' = [out EXCEPT ![First(todo)] = NoOut] /\ named' = named
    <3>1. First(todo) \in Steps
      BY <2>3, FirstIn DEF ProcessOK
    <3> QED
      BY <1>2, <2>1, <2>3, <3>1
  <2>4. CASE out' = [out EXCEPT !["matrix-lock"] = NoOut] /\ named' = named
    BY <1>1, <1>2, <2>1, <2>4, GatesAssumption, NamedGates
  <2> QED
    BY <1>13, <2>2, <2>3, <2>4 DEF CrashMoving
<1>14. ASSUME NEW s \in Steps, CommandDies(s) PROVE PublishedInv'
  <2>1. PICK left \in Leftovers(s) : out' = [out EXCEPT ![s] = left]
    BY <1>14 DEF CommandDies
  <2>2. /\ marker' = marker /\ inv' = inv /\ named' = named
        /\ \E code : Stop(code)
        /\ Name(s)
    BY <1>14 DEF CommandDies, Executing, records
  <2>3. CASE s # FinalEvidence
    BY <1>2, <2>1, <2>2, <2>3
  <2>4. CASE s = FinalEvidence
    <3>1. EvidenceAhead
      BY <2>2, <2>4, StepHere, TerminalNames DEF EvidenceAhead, ProcessOK
    <3>2. left.run = inv
      <4>1. /\ s # "matrix-live-verification" /\ s # "registry-bootstrap"
            /\ s # "gpu-runtime-preflight"
        BY <2>4 DEF FinalEvidence
      <4>2. left = LogOnly(s) \/ left = Partial(inv, NoBasis)
            \/ \E basis : left = Partial(inv, basis)
        BY <4>1 DEF Leftovers
      <4> QED
        BY <4>2 DEF LogOnly, Partial, Content, DiskOK, Contents
    <3>3. out'[FinalEvidence].run = inv
      BY <1>1, <2>1, <2>4, <3>2 DEF DiskOK
    <3> QED
      BY <2>2, <3>1, <3>3, PublishedWritten
  <2> QED
    BY <2>3, <2>4
<1>15. CASE PushInterrupted
  BY <1>1, <1>2, <1>15, GatesAssumption, NamedGates DEF PushInterrupted, records
<1>16. CASE Invoke
  BY <1>16, PublishedInvoke
<1>17. CASE RecordMarker
  BY <1>17, PublishedRecord
<1>18. CASE Proceed
  BY <1>3, <1>4, <1>5, <1>6, <1>7, <1>8, <1>9, <1>10, <1>11, <1>12, <1>17, <1>18,
     GatesAssumption DEF Proceed, BuildWorkers, RebuildWorkers
<1>19. CASE Failure
  BY <1>8, <1>13, <1>14, <1>15, <1>19 DEF Failure
<1> QED
  BY <1>10, <1>16, <1>18, <1>19 DEF Next, World

-----------------------------------------------------------------------------
(*                  What is bound behind the runner verifies                 *)

(* Behind a runner that asked for the publication, it verifies. *)
LEMMA EvidenceValid ==
    ASSUME NEW n \in Nat, MainBound(n, {}), MainPassed(n, NoStep),
           FinalEvidence \in CalledBefore(n)
    PROVE  Local(FinalEvidence) /\ Valid(FinalEvidence)
<1>1. Gates \subseteq CalledBefore(n)
  BY BeforeClosed
<1>2. FailedMarks = {} /\ ~Ambiguous
  BY <1>1, NoFailedMarks
<1>3. UnderOf(FinalEvidence) = {FinalEvidence} \cup Gates /\ DepsOf(FinalEvidence) = Gates
  BY <1>2, PassedUnder
<1>4. AllBound(Gates) /\ Closed(Gates)
  BY <1>1, UnderSelf DEF MainBound, AllBound, Closed
<1>5. marker[FinalEvidence] = [a \in {FinalEvidence} \cup Gates |-> out[a]]
      /\ Recordable(FinalEvidence)
  BY DEF MainBound, Bound
<1>6. \A d \in Gates : marker[d] = Narrow(marker[FinalEvidence], UnderOf(d))
  <2> SUFFICES ASSUME NEW d \in Gates
               PROVE  marker[d] = Narrow(marker[FinalEvidence], UnderOf(d))
    OBVIOUS
  <2>1. UnderOf(d) = Under[d] /\ Under[d] \subseteq Gates
    BY UnderOfGate, UnderSelf
  <2>2. marker[d] = [a \in Under[d] |-> out[a]]
    BY <1>4 DEF AllBound, Bound
  <2> QED
    BY <1>5, <2>1, <2>2 DEF Narrow
<1>7. marker[FinalEvidence] # NoMarker
  BY <1>5 DEF NoMarker
<1>8. Local(FinalEvidence)
  BY <1>3, <1>5, <1>6, <1>7 DEF Local
<1>9. \A g \in Gates : Local(g)
  BY <1>4, BoundValid
<1> QED
  BY <1>2, <1>3, <1>7, <1>8, <1>9 DEF Valid, Verify

(* ... and so does the cleanup. *)
LEMMA CleanupValid ==
    ASSUME NEW n \in Nat, MainBound(n, {}), MainPassed(n, NoStep),
           TerminalCleanup \in CalledBefore(n)
    PROVE  Valid(TerminalCleanup)
<1> DEFINE U == {TerminalCleanup, FinalEvidence} \cup Gates
<1>1. Gates \subseteq CalledBefore(n) /\ FinalEvidence \in CalledBefore(n)
  BY BeforeClosed
<1>2. FailedMarks = {} /\ ~Ambiguous
  BY <1>1, NoFailedMarks
<1>3. /\ UnderOf(TerminalCleanup) = U
      /\ DepsOf(TerminalCleanup) = {FinalEvidence}
      /\ UnderOf(FinalEvidence) = {FinalEvidence} \cup Gates
  BY <1>2, PassedUnder, UnderOfTerminal
<1>4. Local(FinalEvidence)
  BY <1>1, EvidenceValid
<1>5. \A g \in Gates : Local(g)
  <2>1. AllBound(Gates) /\ Closed(Gates)
    BY <1>1, UnderSelf DEF MainBound, AllBound, Closed
  <2> QED
    BY <2>1, BoundValid
<1>6. marker[TerminalCleanup] = [a \in U |-> out[a]] /\ Recordable(TerminalCleanup)
  BY DEF MainBound, Bound
<1>7. marker[FinalEvidence] = [a \in {FinalEvidence} \cup Gates |-> out[a]]
  BY <1>1 DEF MainBound, Bound
<1>8. marker[FinalEvidence] = Narrow(marker[TerminalCleanup], UnderOf(FinalEvidence))
  BY <1>3, <1>6, <1>7 DEF Narrow
<1>9. marker[TerminalCleanup] # NoMarker
  BY <1>6 DEF NoMarker
<1>10. Local(TerminalCleanup)
  BY <1>3, <1>6, <1>8, <1>9 DEF Local
<1> QED
  BY <1>2, <1>3, <1>4, <1>5, <1>9, <1>10 DEF Valid, Verify

(* While a failure is published, the gates it covers verify ... *)
LEMMA FailedGatesValid ==
    ASSUME NEW n \in Nat, NEW f, FailedBound(n, f)
    PROVE  \A g \in Prefix(f) : Local(g) /\ Valid(g)
<1>1. AllBound(Prefix(f)) /\ Closed(Prefix(f))
  BY PrefixClosed DEF FailedBound
<1> QED
  BY <1>1, BoundValid

(* ... its resolution verifies ... *)
LEMMA FailureValid ==
    ASSUME NEW n \in Nat, NEW f, FailedBound(n, f), ~Ambiguous, n > 1
    PROVE  Local(PublicFailure) /\ Valid(PublicFailure)
<1> DEFINE U == {PublicFailure} \cup Under[f]
<1>1. f \in Prefix(f) /\ f \in Gates /\ Under[f] \subseteq Prefix(f) /\ f \in Under[f]
  BY PrefixClosed, GatesAssumption, UnderSelf DEF FailedBound, Closed
<1>2. FailedMarks = {f} /\ UnderOf(PublicFailure) = U
      /\ DepsOf(PublicFailure) = {f} /\ UnderOf(f) = Under[f]
  BY <1>1, FailedUnder, UnderOfTerminal, UnderOfGate
<1>3. marker[PublicFailure] = [a \in U |-> out[a]] /\ Recordable(PublicFailure)
  BY DEF FailedBound, Bound
<1>4. marker[f] = [a \in Under[f] |-> out[a]]
  BY <1>1 DEF FailedBound, AllBound, Bound
<1>5. marker[f] = Narrow(marker[PublicFailure], UnderOf(f))
  BY <1>2, <1>3, <1>4 DEF Narrow
<1>6. marker[PublicFailure] # NoMarker
  BY <1>3 DEF NoMarker
<1>7. Local(PublicFailure)
  BY <1>2, <1>3, <1>5, <1>6 DEF Local
<1> QED
  BY <1>1, <1>2, <1>6, <1>7, FailedGatesValid DEF Valid, Verify

(* ... and then its evidence. *)
LEMMA FailedEvidenceValid ==
    ASSUME NEW n \in Nat, NEW f, FailedBound(n, f), ~Ambiguous, n > 2
    PROVE  Valid(FinalEvidence)
<1> DEFINE P == Prefix(f)
           U == {FinalEvidence, PublicFailure} \cup P
<1>1. f \in P /\ f \in Gates /\ P \subseteq Gates /\ \A g \in P : Under[g] \subseteq P
  BY PrefixClosed, GatesAssumption DEF FailedBound, Closed
<1>2. /\ UnderOf(FinalEvidence) = U /\ DepsOf(FinalEvidence) = P \cup {PublicFailure}
      /\ UnderOf(PublicFailure) = {PublicFailure} \cup Under[f]
  BY FailedUnder
<1>3. marker[FinalEvidence] = [a \in U |-> out[a]] /\ Recordable(FinalEvidence)
  BY DEF FailedBound, Bound
<1>4. \A d \in P : marker[d] = Narrow(marker[FinalEvidence], UnderOf(d))
  <2> SUFFICES ASSUME NEW d \in P
               PROVE  marker[d] = Narrow(marker[FinalEvidence], UnderOf(d))
    OBVIOUS
  <2>1. UnderOf(d) = Under[d] /\ Under[d] \subseteq U
    BY <1>1, UnderOfGate
  <2>2. marker[d] = [a \in Under[d] |-> out[a]]
    BY DEF FailedBound, AllBound, Bound
  <2> QED
    BY <1>3, <2>1, <2>2 DEF Narrow
<1>5. marker[PublicFailure] = Narrow(marker[FinalEvidence], UnderOf(PublicFailure))
  <2>1. marker[PublicFailure] = [a \in {PublicFailure} \cup Under[f] |-> out[a]]
    BY DEF FailedBound, Bound
  <2>2. {PublicFailure} \cup Under[f] \subseteq U
    BY <1>1
  <2> QED
    BY <1>2, <1>3, <2>1, <2>2 DEF Narrow
<1>6. marker[FinalEvidence] # NoMarker
  BY <1>3 DEF NoMarker
<1>7. Local(FinalEvidence)
  BY <1>2, <1>3, <1>4, <1>5, <1>6 DEF Local
<1>8. \A g \in P : Local(g)
  BY FailedGatesValid
<1>9. Local(PublicFailure)
  BY FailureValid
<1> QED
  BY <1>2, <1>6, <1>7, <1>8, <1>9 DEF Valid, Verify

(* So whatever is recorded finds the steps it rests on valid. *)
LEMMA WalkRecords ==
    ASSUME ProcessOK, WalkInv, phase = "record", ~Ambiguous
    PROVE  \A d \in DepsOf(Here) : Valid(d)
<1>0. PICK n, f : n = pc /\ f = failedStep
  OBVIOUS
<1>1. Running
  BY DEF WalkInv, PhaseInv
<1>2. CASE At("ensure-workers")
  <2>1. /\ prog = "main" /\ n \in DOMAIN Script \ Called /\ Here = Script[n].step
        /\ Script[n].op = "ensure-workers" /\ CalledBefore(n) \subseteq Gates
    BY <1>0, <1>2, CallHere
  <2>2. Here = "worker-images" /\ "worker-images" \in CalledBefore(n)
    BY <2>1, OrderAssumption
  <2>3. PICK T : T = (CalledBefore(n) \cap Gates) \ Torn
    OBVIOUS
  <2>4. Closed(T) /\ AllBound(T) /\ T = CalledBefore(n) \ {"worker-images"}
    BY <1>0, <1>1, <1>2, <2>1, <2>3, TornClosed DEF WalkInv, MainInv, MainBound, Torn
  <2>5. Deps["worker-images"] \subseteq CalledBefore(n) \ {"worker-images"}
    <3>1. PICK j \in Called : j < n /\ Script[j].step = "worker-images"
      BY <2>2 DEF CalledBefore
    <3>2. /\ "worker-images" \notin CalledBefore(j)
          /\ UNION {Under[d] : d \in Deps["worker-images"]} \subseteq CalledBefore(j)
      BY <3>1, OrderAssumption, GatesAssumption
    <3>3. \A d \in Deps["worker-images"] : d \in Under[d]
      BY UnderSelf, GatesAssumption
    <3>4. CalledBefore(j) \subseteq CalledBefore(n)
      <4>1. Called \subseteq Nat /\ n \in Nat
        BY <2>1, ScriptAssumption DEF Called
      <4>2. \A k \in Called : k < j => k < n
        BY <3>1, <4>1
      <4> QED
        BY <4>2 DEF CalledBefore
    <3> QED
      BY <3>2, <3>3, <3>4
  <2>6. DepsOf("worker-images") = Deps["worker-images"]
    BY UnderOfGate, GatesAssumption
  <2> QED
    BY <2>2, <2>4, <2>5, <2>6, BoundValid
<1>3. CASE Name(Here) /\ prog = "main"
  <2>0. PICK s : s = Here
    OBVIOUS
  <2>1. /\ n \in Called /\ n \in Nat /\ n \in DOMAIN Script /\ s = Script[n].step
        /\ s \in Gates \cup {FinalEvidence, TerminalCleanup}
        /\ ~At("ensure-workers") /\ ~At("finish-failed")
    BY <1>0, <1>3, <2>0, StepHere
  <2>2. f = NoStep /\ Torn = {}
    BY <1>0, <1>1, <1>3, <2>1, NoFailureYet DEF Torn
  <2>3. MainBound(n, {}) /\ MainPassed(n, NoStep)
    BY <1>0, <1>1, <1>3, <2>2 DEF WalkInv, MainInv
  <2>4. CASE s \in Gates
    <3>1. PICK T : T = CalledBefore(n) \cap Gates
      OBVIOUS
    <3>2. Closed(T) /\ AllBound(T)
      BY <2>1, <2>3, <3>1, BeforeClosed DEF MainBound
    <3>3. UNION {Under[d] : d \in Deps[s]} \subseteq CalledBefore(n)
      BY <2>1, <2>4, OrderAssumption
    <3>4. DepsOf(s) \subseteq T
      BY <2>4, <3>1, <3>3, UnderOfGate, UnderSelf
    <3> QED
      BY <2>0, <3>2, <3>4, BoundValid
  <2>5. CASE s = FinalEvidence
    <3>1. CalledBefore(n) = Gates
      BY <2>1, <2>5, OrderAssumption
    <3>2. DepsOf(s) = Gates
      BY <2>3, <2>5, <3>1, NoFailedMarks, PassedUnder
    <3>3. AllBound(Gates) /\ Closed(Gates)
      BY <2>3, <3>1, UnderSelf DEF MainBound, AllBound, Closed
    <3> QED
      BY <2>0, <3>2, <3>3, BoundValid
  <2>6. CASE s = TerminalCleanup
    <3>1. FinalEvidence \in CalledBefore(n)
      BY <2>1, <2>6, OrderAssumption
    <3> QED
      BY <2>0, <2>1, <2>3, <2>6, <3>1, EvidenceValid, UnderOfTerminal
  <2> QED
    BY <2>1, <2>4, <2>5, <2>6
<1>4. CASE Name(Here) /\ prog = "failed"
  <2>1. /\ n \in 1..3
        /\ n = 1 => Here = PublicFailure
        /\ n = 2 => Here = FinalEvidence
        /\ n = 3 => Here = TerminalCleanup
    BY <1>0, <1>4, StepHere
  <2>2. FailedBound(n, f) /\ n \in Nat
    BY <1>0, <1>1, <1>4, <2>1 DEF WalkInv, FailedInv
  <2>3. f \in Prefix(f)
    BY <2>2, PrefixClosed DEF FailedBound
  <2>4. CASE n = 1
    <3>1. DepsOf(Here) = {f}
      BY <2>1, <2>2, <2>4, FailedUnder, UnderOfTerminal
    <3> QED
      BY <2>2, <2>3, <3>1, FailedGatesValid
  <2>5. CASE n = 2
    <3>1. DepsOf(Here) = Prefix(f) \cup {PublicFailure}
      BY <2>1, <2>2, <2>5, FailedUnder
    <3> QED
      BY <2>2, <2>5, <3>1, FailedGatesValid, FailureValid
  <2>6. CASE n = 3
    BY <2>1, <2>2, <2>6, FailedEvidenceValid, UnderOfTerminal
  <2> QED
    BY <2>1, <2>4, <2>5, <2>6
<1> QED
  BY <1>2, <1>3, <1>4 DEF WalkInv, PhaseInv, ProcessOK

(* A full run that exits 0 has everything bound, and passed. *)
LEMMA WalkCompletes == ASSUME WalkInv PROVE CompleteRunIsValid
<1> SUFFICES ASSUME exit = 0, through = NoStep
             PROVE  \A s \in Gates \cup {FinalEvidence, TerminalCleanup} :
                       Valid(s) /\ out[s].result = "passed"
  BY DEF CompleteRunIsValid
<1>1. PICK n : n = Len(Script) + 1
  OBVIOUS
<1>2. n \in Nat /\ CalledBefore(n) = Gates \cup {FinalEvidence, TerminalCleanup}
  BY <1>1, BeforeEnds, ScriptAssumption
<1>3. MainBound(n, {}) /\ MainPassed(n, NoStep)
  BY <1>1 DEF WalkInv, FinishedInv
<1>4. AllBound(Gates) /\ Closed(Gates)
  BY <1>2, <1>3, UnderSelf DEF MainBound, AllBound, Closed
<1>5. \A g \in Gates : Valid(g) /\ out[g].result = "passed"
  BY <1>2, <1>3, <1>4, BoundValid, GatesAssumption DEF MainPassed
<1>6. Valid(FinalEvidence) /\ Valid(TerminalCleanup)
  BY <1>2, <1>3, EvidenceValid, CleanupValid
<1>7. out[FinalEvidence].result = "passed" /\ out[TerminalCleanup].result = "passed"
  BY <1>2, <1>3 DEF MainBound
<1> QED
  BY <1>5, <1>6, <1>7

-----------------------------------------------------------------------------
(*                        Computed under one lock                            *)

(* What a gate that keeps nothing is about to record was computed from the   *)
(* lock on the disk, and so was what its marker binds, unless a command of   *)
(* it failed unnoticed.                                                      *)
LockRecord(s) ==
    s \in LockBound \ Keeping => (out[s].sound => out[s].basis = LockedBasis)

LockMark(m, g) ==
    /\ g \in DOMAIN m
    /\ m[g].sound => m[g].basis = m["matrix-lock"].basis

LockMarks == \A g \in LockBound \ Keeping : marker[g] # NoMarker => LockMark(marker[g], g)

LockInv == LockMarks /\ (phase = "record" => LockRecord(Here))

(* Markers are left, or moved aside, by everything but record. *)
LEMMA LockFrame ==
    ASSUME LockMarks,
           \A g \in Gates : marker'[g] = marker[g] \/ marker'[g] = NoMarker
    PROVE  LockMarks'
<1> SUFFICES ASSUME NEW g \in LockBound \ Keeping, marker'[g] # NoMarker
             PROVE  LockMark(marker'[g], g)
  BY DEF LockMarks, LockBound
<1>1. g \in Gates
  BY DEF LockBound
<1>2. marker'[g] = marker[g]
  BY <1>1
<1> QED
  BY <1>2 DEF LockMarks

(* A command that is executed writes what record will find. *)
LEMMA LockExecute ==
    ASSUME LockInv, ProcessOK, NEW s, Executing(s), ToRecord, marker' = marker,
           s \in LockBound \ Keeping => (out'[s].sound => out'[s].basis = LockedBasis),
           s \in LockBound \ Keeping => out'["matrix-lock"] = out["matrix-lock"]
    PROVE  LockInv'
<1>1. LockMarks'
  BY LockFrame DEF LockInv
<1>2. s = Here /\ Here' = Here
  BY StepHere DEF Executing, ToRecord, Here, Current
<1>3. LockRecord(s)'
  BY DEF LockRecord, LockedBasis
<1>4. LockRecord(Here)'
  BY <1>2, <1>3 DEF LockRecord, LockBound
<1> QED
  BY <1>1, <1>4 DEF LockInv

(* record binds the lock it finds. *)
LEMMA LockRecorded ==
    ASSUME LockInv, DiskOK, ProcessOK, WalkInv, RecordMarker
    PROVE  LockMarks'
<1>0. PICK s : s = Here
  OBVIOUS
<1>1. /\ out' = out /\ marker' = [marker EXCEPT ![s] = Payload(s)] /\ LockRecord(s)
  BY <1>0 DEF RecordMarker, LockInv
<1> SUFFICES ASSUME NEW g \in LockBound \ Keeping, marker'[g] # NoMarker
             PROVE  LockMark(marker'[g], g)
  BY DEF LockMarks, LockBound
<1>2. g \in Gates /\ "matrix-lock" \in Under[g] /\ g \in Under[g] /\ g \in Steps
  BY UnderSelf DEF LockBound, Steps
<1>3. CASE g = s
  <2>1. marker'[g] = [a \in Under[g] |-> out[a]]
    BY <1>1, <1>2, <1>3, UnderOfGate DEF Payload, DiskOK
  <2>2. marker'[g][g] = out[g] /\ marker'[g]["matrix-lock"] = out["matrix-lock"]
    BY <1>2, <2>1
  <2> QED
    BY <1>1, <1>2, <1>3, <2>1, <2>2 DEF LockRecord, LockedBasis, LockMark
<1>4. CASE g # s
  BY <1>1, <1>2, <1>4 DEF DiskOK, LockInv, LockMarks
<1> QED
  BY <1>3, <1>4

(* Every step keeps the lock invariant. *)
LEMMA NextLock ==
    ASSUME LockInv, DiskOK, ProcessOK, WalkInv, [Next]_vars
    PROVE  LockInv'
<1>1. /\ "matrix-lock" \in Steps /\ Gates \subseteq Steps
      /\ \A g \in LockBound : g \in Gates /\ g # "matrix-lock" /\ "matrix-lock" \in Under[g]
      /\ \A s \in Terminal : s \notin LockBound
  BY NamedGates, GatesAssumption DEF LockBound
<1>2. /\ \A s \in AlwaysSteps : s \in LockBound => s = "matrix-live-verification"
      /\ "worker-images" \in LockBound => "worker-images" = "matrix-live-verification"
  BY DepsAssumption DEF LockBound
<1>3. ASSUME \A g \in Gates : marker'[g] = marker[g] \/ marker'[g] = NoMarker,
             phase' # "record"
      PROVE  LockInv'
  BY <1>3, LockFrame DEF LockInv
<1>4. ASSUME NEW code, Stop(code) PROVE phase' # "record"
  BY <1>4 DEF Stop
<1>5. ASSUME NEW failed, Forward(failed) PROVE phase' # "record"
  BY <1>5 DEF Forward, Stop
<1>6. ASSUME NEW s, NEW result, StepDone(s, result) PROVE phase' # "record"
  BY <1>4, <1>5, <1>6 DEF StepDone
<1>7. ASSUME NEW s \in Steps, Skip(s) PROVE LockInv'
  BY <1>3, <1>6, <1>7 DEF Skip, disk, records
<1>8. ASSUME NEW s \in Gates,
             RunAlways(s) \/ RunGate(s) \/ KeepEvidence(s) \/ RefuseOutput(s)
      PROVE  LockInv'
  <2>1. s \in Steps
    BY <1>1
  <2>2. CASE RunAlways(s)
    <3>1. s \notin LockBound
      BY <1>2, <2>2 DEF RunAlways
    <3> QED
      BY <2>2, <3>1, LockExecute DEF RunAlways, records
  <2>3. CASE RunGate(s)
    <3>1. PICK result \in {"passed", "failed"}, basis \in {LockOf(s), out[s].basis},
               sound \in BOOLEAN :
            /\ out' = [out EXCEPT ![s] = Fresh(s, result, basis, sound)]
            /\ basis # LockOf(s) => ~sound
      BY <2>3, RunGateWrites
    <3>2. Executing(s) /\ ToRecord /\ marker' = marker
      BY <2>3 DEF RunGate, records
    <3>3. out'[s].sound = sound /\ out'[s].basis = basis
      BY <2>1, <3>1 DEF DiskOK, Fresh, Content
    <3>4. s \in LockBound => out'["matrix-lock"] = out["matrix-lock"]
      BY <1>1, <2>1, <3>1 DEF DiskOK
    <3>5. s \in LockBound => (out'[s].sound => out'[s].basis = LockedBasis)
      BY <3>1, <3>3 DEF LockOf
    <3> QED
      BY <3>2, <3>4, <3>5, LockExecute
  <2>4. CASE KeepEvidence(s)
    <3>1. s \in Keeping /\ Executing(s) /\ marker' = marker
      BY <2>4 DEF KeepEvidence, Kept, records
    <3>2. CASE ToRecord
      BY <3>1, <3>2, LockExecute
    <3>3. CASE Stop(4)
      BY <1>3, <1>4, <3>1, <3>3
    <3> QED
      BY <2>4, <3>2, <3>3 DEF KeepEvidence
  <2>5. CASE RefuseOutput(s)
    BY <1>3, <1>4, <2>5 DEF RefuseOutput, records
  <2> QED
    BY <1>8, <2>2, <2>3, <2>4, <2>5
<1>9. CASE VerifyMatrixLive
  <2>1. out' = [out EXCEPT !["matrix-live-verification"] =
                  Fresh("matrix-live-verification", "passed", LockedBasis, TRUE)]
        /\ Executing("matrix-live-verification") /\ ToRecord /\ marker' = marker
    BY <1>9 DEF VerifyMatrixLive, records
  <2>2. /\ out'["matrix-live-verification"].basis = LockedBasis
        /\ out'["matrix-lock"] = out["matrix-lock"]
    BY <1>1, <2>1, NamedGates DEF DiskOK, Fresh, Content
  <2> QED
    BY <2>1, <2>2, LockExecute
<1>10. ASSUME NEW s \in {"worker-images", "matrix-lock", FinalEvidence} \cup Terminal,
              Executing(s), ToRecord, marker' = marker
       PROVE  LockInv'
  <2>1. s \notin LockBound
    BY <1>1, <1>2 DEF Terminal
  <2> QED
    BY <1>10, <2>1, LockExecute
<1>11. CASE RebuildWorkers
  <2>1. At("ensure-workers") /\ ToRecord /\ marker' = marker
    BY <1>11 DEF RebuildWorkers, PushWorkers, records
  <2>2. Here = "worker-images"
    BY <2>1, CallHere, OrderAssumption
  <2>3. Here' = Here
    BY <2>1 DEF ToRecord, Here, Current
  <2>4. LockMarks' /\ LockRecord(Here)'
    BY <1>2, <2>1, <2>2, <2>3, LockFrame DEF LockInv, LockRecord, LockBound
  <2> QED
    BY <2>4 DEF LockInv
<1>12. CASE BuildWorkers \/ LockMatrix \/ ResolvePublicFailure \/ CleanUp
  BY <1>10, <1>12
     DEF BuildWorkers, PushWorkers, LockMatrix, ResolvePublicFailure, CleanUp, records,
     Terminal
<1>13. CASE GenerateEvidence
  <2>1. Executing(FinalEvidence) /\ marker' = marker /\ (ToRecord \/ Stop(1))
    BY <1>13 DEF GenerateEvidence
  <2> QED
    BY <1>3, <1>4, <1>10, <2>1
<1>14. CASE MatrixDrift \/ WorkersPresent \/ RejectRecord \/ ReconcileRaises
            \/ ReconcileDone \/ ReconcileStart
  BY <1>3, <1>4, <1>5, <1>14
     DEF MatrixDrift, WorkersPresent, RejectRecord, ReconcileRaises, ReconcileDone,
     ReconcileStart, disk, records
<1>15. CASE PreserveStaleMatrix
  <2>1. /\ marker' = [marker EXCEPT !["matrix-lock"] = NoMarker] \/ marker' = marker
        /\ Forward(failedStep)
    BY <1>15 DEF PreserveStaleMatrix
  <2>2. \A g \in Gates : marker'[g] = marker[g] \/ marker'[g] = NoMarker
    BY <1>1, <2>1 DEF DiskOK
  <2> QED
    BY <1>3, <1>5, <2>1, <2>2
<1>16. CASE ReconcileMove
  BY <1>3, <1>16 DEF ReconcileMove, DiskOK
<1>17. CASE RecordMarker
  <2>1. phase' # "record"
    BY <1>6, <1>17 DEF RecordMarker
  <2> QED
    BY <1>17, <2>1, LockRecorded DEF LockInv
<1>18. CASE FinishFailed
  <2>1. At("finish-failed") /\ marker' = marker
    BY <1>18 DEF FinishFailed, disk, records
  <2>2. phase # "record"
    BY <2>1, CallHere DEF WalkInv, PhaseInv, At
  <2>3. phase' # "record"
    BY <1>5, <1>18, <2>2 DEF FinishFailed
  <2> QED
    BY <1>3, <2>1, <2>3
<1>19. CASE Failure
  <2>1. marker' = marker /\ \E code : Stop(code)
    BY <1>19 DEF Failure, CommandDies, PushInterrupted, InvocationGuardFails, Crash,
       CrashMoving, disk, records
  <2> QED
    BY <1>3, <1>4, <2>1
<1>20. CASE Invoke
  <2>1. marker' = marker /\ phase' # "record"
    BY <1>20 DEF Invoke, disk, records, WalkInv, PhaseInv
  <2> QED
    BY <1>3, <2>1
<1>21. CASE HostChange \/ LoseVolume \/ UNCHANGED vars
  <2>1. UNCHANGED <<disk, process>>
    BY <1>21 DEF HostChange, LoseVolume, vars, process
  <2> QED
    BY <2>1 DEF LockInv, LockMarks, LockRecord, LockBound, LockedBasis, Here, Current,
       disk, records, process
<1>22. CASE Proceed
  BY <1>7, <1>8, <1>9, <1>11, <1>12, <1>13, <1>14, <1>15, <1>16, <1>17, <1>18, <1>22,
     GatesAssumption DEF Proceed
<1> QED
  BY <1>19, <1>20, <1>21, <1>22 DEF Next, World

-----------------------------------------------------------------------------
(*                             The inductive invariant                       *)

RunnerInv ==
    /\ DiskOK /\ CountersOK /\ ProcessOK
    /\ MarkersAreMaps
    /\ OnlyDomainsFail
    /\ WalkInv
    /\ PublishedInv
    /\ LockInv

(* It holds at the start and through every step. *)
LEMMA RunnerInvariant == Spec => []RunnerInv
<1>1. Init => RunnerInv
  <2> SUFFICES ASSUME Init PROVE RunnerInv
    OBVIOUS
  <2>1. DiskOK /\ CountersOK /\ ProcessOK
    BY InitType, TypeParts
  <2>2. out = [s \in Steps |-> NoOut] /\ marker = [s \in Steps |-> NoMarker]
    BY DEF Init
  <2>3. NoOut.result = "absent" /\ NoOut.run = 0
    BY DEF NoOut, Content
  <2>4. MarkersAreMaps
    BY <2>2 DEF MarkersAreMaps, NoMarker
  <2>5. OnlyDomainsFail
    BY <2>2, <2>3 DEF OnlyDomainsFail
  <2>6. WalkInv
    BY DEF Init, WalkInv, MainInv, FailedInv, PhaseInv, FinishedInv, Running, NoExit
  <2>7. PublishedInv
    <3>1. FinalEvidence \in Steps /\ inv = 0
      BY DEF Init, Steps, Terminal
    <3> QED
      BY <2>2, <2>3, <3>1 DEF PublishedInv
  <2>8. LockInv
    BY <2>2 DEF Init, LockInv, LockMarks, LockBound, Steps
  <2> QED
    BY <2>1, <2>4, <2>5, <2>6, <2>7, <2>8 DEF RunnerInv
<1>2. RunnerInv /\ TypeOK' /\ [Next]_vars => RunnerInv'
  <2> SUFFICES ASSUME RunnerInv, TypeOK', [Next]_vars PROVE RunnerInv'
    OBVIOUS
  <2> USE DEF RunnerInv
  <2>1. DiskOK' /\ CountersOK' /\ ProcessOK'
    BY DEF TypeOK, DiskOK, CountersOK, ProcessOK
  <2>2. MarkersAreMaps'
    BY NextMaps
  <2>3. OnlyDomainsFail'
    BY NextOutcome
  <2>4. WalkInv'
    BY NextWalk
  <2>5. PublishedInv'
    BY NextPublished
  <2>6. LockInv'
    BY NextLock
  <2> QED
    BY <2>1, <2>2, <2>3, <2>4, <2>5, <2>6
<1> QED
  BY <1>1, <1>2, TypeCorrect, PTL DEF Spec

(* A full run that exits 0 leaves, for every gate, the publication and the   *)
(* cleanup, a marker that verifies and a passed outcome: whatever crashed,   *)
(* was skipped, was moved or was rebuilt in this and in earlier invocations  *)
(* (run_gpu_qualification.sh from its first run_step to "COMPLETE").         *)
THEOREM CompletionIsValid == Spec => []CompleteRunIsValid
<1>1. RunnerInv => CompleteRunIsValid
  BY WalkCompletes DEF RunnerInv
<1> QED
  BY <1>1, RunnerInvariant, PTL

(* qualification_state.py record never meets a dependency that does not      *)
(* verify, unless the markers tell of two failures: the order of the script  *)
(* is one the gate table allows, in a resumed run as in a first one.         *)
THEOREM RecordedInOrder == Spec => []RecordsInOrder
<1>1. RunnerInv => RecordsInOrder
  BY WalkRecords DEF RunnerInv, RecordsInOrder
<1> QED
  BY <1>1, RunnerInvariant, PTL

(* As long as its marker verifies, evidence.json names the very files and    *)
(* markers of the gates it publishes, and says "failed" exactly when one of  *)
(* them failed: no crash between the files and the marker, and no later      *)
(* invocation, makes an old publication pass for one of new evidence.        *)
THEOREM PublicationIsTruthful == Spec => []PublicationTruthful
<1>1. RunnerInv => PublicationTruthful
  BY PublishedIsTruthful DEF RunnerInv, PublicationTruthful
<1> QED
  BY <1>1, RunnerInvariant, PTL

(* A gate whose command keeps nothing it finds, and none of whose            *)
(* sub-commands failed unnoticed, never verifies against another lock than   *)
(* the one it was computed from, whatever volume was lost, rebuilt or torn   *)
(* between two steps.                                                        *)
THEOREM OneLock == Spec => []ComputedUnderOneLock
<1>1. RunnerInv => ComputedUnderOneLock
  <2> SUFFICES ASSUME RunnerInv, NEW g \in LockBound \ Keeping, Valid(g), out[g].sound
               PROVE  out[g].basis = marker[g]["matrix-lock"].basis
    BY DEF ComputedUnderOneLock
  <2>1. g \in Gates /\ g \in UnderOf(g)
    BY UnderOfGate, UnderSelf DEF LockBound
  <2>2. Local(g)
    BY <2>1 DEF Valid, Verify
  <2> QED
    BY <2>2 DEF Local, RunnerInv, LockInv, LockMarks, LockMark
<1> QED
  BY <1>1, RunnerInvariant, PTL

-----------------------------------------------------------------------------
(*        As long as the registry volume lasts: what reconcile keeps         *)

(* What holds of a gate as soon as it holds of the gates asked for before it *)
(* holds of all: of the gates of B one is asked for first.                   *)
LEMMA FirstAsked ==
    ASSUME NEW B, B \subseteq Gates, B # {}
    PROVE  \E g \in B : /\ \A d \in Deps[g] : d \notin B /\ Under[d] \cap B = {}
                        /\ g \notin UNION {Under[d] : d \in Deps[g]}
<1> DEFINE T == {i \in Called : Script[i].step \in B}
<1>1. Len(Script) \in Nat /\ Called \subseteq 1..Len(Script)
  BY ScriptAssumption DEF Called
<1>2. T # {} /\ T \subseteq 1..Len(Script)
  <2>1. PICK b \in B : b \in {Script[i].step : i \in Called}
    BY OrderAssumption
  <2> QED
    BY <1>1, <2>1
<1>3. PICK x \in T : \A j \in T : x <= j
  <2> HIDE DEF T
  <2> QED
    BY <1>1, <1>2, LeastOf
<1>4. PICK g : g = Script[x].step
  OBVIOUS
<1>5. g \in B /\ g \in Gates /\ x \in Called
  BY <1>3, <1>4
<1>6. g \notin CalledBefore(x) /\ UNION {Under[d] : d \in Deps[g]} \subseteq CalledBefore(x)
  BY <1>4, <1>5, OrderAssumption
<1>7. CalledBefore(x) \cap B = {}
  <2> SUFFICES ASSUME NEW b \in CalledBefore(x), b \in B PROVE FALSE
    OBVIOUS
  <2>1. PICK j \in Called : j < x /\ b = Script[j].step
    BY DEF CalledBefore
  <2> QED
    BY <1>1, <1>2, <1>3, <2>1
<1>8. \A d \in Deps[g] : d \in Under[d]
  BY <1>5, UnderSelf
<1> QED
  BY <1>5, <1>6, <1>7, <1>8

(* What a gate rests on is closed. *)
LEMMA UnderClosed == \A g \in Gates : Closed(Under[g])
<1> DEFINE B == {g \in Gates : ~Closed(Under[g])}
<1> SUFFICES ASSUME B # {} PROVE FALSE
  OBVIOUS
<1>1. PICK g \in B : \A d \in Deps[g] : d \notin B
  <2>1. B \subseteq Gates
    OBVIOUS
  <2> HIDE DEF B
  <2> QED
    BY <2>1, FirstAsked
<1>2. g \in Gates /\ Under[g] \subseteq Gates
  BY UnderSelf
<1>3. \A d \in Deps[g] : Closed(Under[d])
  BY <1>1, <1>2, UnderSelf
<1>4. ASSUME NEW b \in Under[g] PROVE Under[b] \subseteq Under[g]
  <2>1. CASE b = g
    BY <2>1
  <2>2. CASE b # g
    <3>1. PICK d \in Deps[g] : b \in Under[d]
      BY <1>2, <2>2, UnderSelf
    <3>2. Under[b] \subseteq Under[d]
      BY <1>3, <3>1 DEF Closed
    <3> QED
      BY <1>2, <3>1, <3>2, UnderSelf
  <2> QED
    BY <2>1, <2>2
<1>5. Closed(Under[g])
  BY <1>2, <1>4 DEF Closed
<1> QED
  BY <1>5

(* Verification visits the step itself and what its dependencies visit. *)
LEMMA UnderOfDeps ==
    ASSUME NEW s \in Steps
    PROVE  /\ UnderOf(s) = {s} \cup UNION {UnderOf(d) : d \in DepsOf(s)}
           /\ DepsOf(s) \subseteq Steps
<1>1. /\ FailedMarks \subseteq DomainSteps /\ DomainSteps \subseteq Gates
      /\ EvidenceGates \subseteq Gates
      /\ Gates \subseteq Steps /\ Terminal \subseteq Steps
  BY GatesAssumption, NamedGates DEF FailedMarks, EvidenceGates, Prefix
<1>2. \A S : S \subseteq Gates => {UnderOf(g) : g \in S} = {Under[g] : g \in S}
  <2> SUFFICES ASSUME NEW S, S \subseteq Gates
               PROVE  {UnderOf(g) : g \in S} = {Under[g] : g \in S}
    OBVIOUS
  <2>1. \A g \in S : UnderOf(g) = Under[g]
    BY UnderOfGate
  <2> QED
    BY <2>1
<1>3. CASE s \in Gates
  <2>1. UnderOf(s) = Under[s] /\ DepsOf(s) = Deps[s] /\ Deps[s] \subseteq Gates
    BY <1>3, UnderOfGate, UnderSelf
  <2>2. {UnderOf(d) : d \in DepsOf(s)} = {Under[d] : d \in Deps[s]}
    BY <1>2, <2>1
  <2> QED
    BY <1>1, <1>3, <2>1, <2>2, UnderSelf
<1>4. CASE s = PublicFailure
  <2>1. {UnderOf(d) : d \in FailedMarks} = {Under[d] : d \in FailedMarks}
    BY <1>1, <1>2
  <2> QED
    BY <1>1, <1>4, <2>1, UnderOfTerminal
<1>5. CASE s = TerminalCleanup
  <2>1. {UnderOf(d) : d \in DepsOf(s)} = {EvidenceUnder}
    BY <1>5, UnderOfTerminal
  <2>2. UNION {EvidenceUnder} = EvidenceUnder
    OBVIOUS
  <2> QED
    BY <1>1, <1>5, <2>1, <2>2, UnderOfTerminal DEF Terminal
<1>6. CASE s = FinalEvidence
  <2>1. {UnderOf(g) : g \in EvidenceGates} = {Under[g] : g \in EvidenceGates}
    BY <1>1, <1>2
  <2>2. CASE FailedMarks = {}
    <3>1. DepsOf(s) = EvidenceGates
      BY <1>6, <2>2, UnderOfTerminal DEF EvidenceGates
    <3>2. EvidenceUnder = {FinalEvidence} \cup UNION {Under[g] : g \in EvidenceGates}
      BY <2>2 DEF EvidenceUnder
    <3> QED
      BY <1>1, <1>6, <2>1, <3>1, <3>2, UnderOfTerminal
  <2>3. CASE FailedMarks # {}
    <3>1. DepsOf(s) = EvidenceGates \cup {PublicFailure}
      BY <1>6, <2>3, UnderOfTerminal
    <3>2. FailedMarks \subseteq EvidenceGates
      BY <1>1, <2>3, PrefixClosed DEF EvidenceGates
    <3>3. UnderOf(PublicFailure) = {PublicFailure} \cup UNION {Under[d] : d \in FailedMarks}
      BY UnderOfTerminal
    <3>4. UNION {UnderOf(d) : d \in DepsOf(s)}
             = UnderOf(PublicFailure) \cup UNION {UnderOf(g) : g \in EvidenceGates}
      BY <3>1
    <3>5. UNION {UnderOf(d) : d \in DepsOf(s)}
             = {PublicFailure} \cup UNION {Under[g] : g \in EvidenceGates}
      BY <2>1, <3>2, <3>3, <3>4
    <3>6. EvidenceUnder = {FinalEvidence} \cup {PublicFailure}
                            \cup UNION {Under[g] : g \in EvidenceGates}
      BY <2>3 DEF EvidenceUnder
    <3> QED
      BY <1>1, <1>6, <3>1, <3>5, <3>6, UnderOfTerminal DEF Terminal
  <2> QED
    BY <2>2, <2>3
<1> QED
  BY <1>3, <1>4, <1>5, <1>6 DEF Steps, Terminal

(* It visits nothing more from a step it visits. *)
LEMMA UnderOfClosed ==
    ASSUME NEW s \in Steps, NEW a \in UnderOf(s)
    PROVE  UnderOf(a) \subseteq UnderOf(s)
<1>1. \A g \in Gates : /\ UnderOf(g) = Under[g] /\ Under[g] \subseteq Gates
                       /\ \A b \in Under[g] : UnderOf(b) \subseteq UnderOf(g)
  BY UnderClosed, UnderOfGate, UnderSelf DEF Closed
<1>2. FailedMarks \subseteq Gates /\ EvidenceGates \subseteq Gates
  BY GatesAssumption DEF FailedMarks, EvidenceGates, Prefix
<1>3. ASSUME NEW S, S \subseteq Gates, NEW b \in UNION {UnderOf(g) : g \in S}
      PROVE  UnderOf(b) \subseteq UNION {UnderOf(g) : g \in S}
  BY <1>1, <1>3
<1>4. CASE s \in Gates
  BY <1>1, <1>4
<1>5. ASSUME NEW b \in UnderOf(PublicFailure)
      PROVE  UnderOf(b) \subseteq UnderOf(PublicFailure)
  <2>1. UnderOf(PublicFailure) = {PublicFailure} \cup UNION {UnderOf(d) : d \in FailedMarks}
    BY UnderOfDeps, UnderOfTerminal, NamedGates DEF Terminal
  <2> QED
    BY <1>2, <1>3, <2>1
<1>6. ASSUME NEW b \in UnderOf(FinalEvidence)
      PROVE  UnderOf(b) \subseteq UnderOf(FinalEvidence)
  <2>1. UnderOf(FinalEvidence) = {FinalEvidence} \cup UNION {UnderOf(d) : d \in DepsOf(FinalEvidence)}
    BY UnderOfDeps, NamedGates DEF Terminal
  <2>2. \A d \in DepsOf(FinalEvidence) : d \in Gates \/ d = PublicFailure
    BY <1>2, UnderOfTerminal
  <2>3. CASE b = FinalEvidence
    BY <2>3
  <2>4. CASE b # FinalEvidence
    <3>1. PICK d \in DepsOf(FinalEvidence) : b \in UnderOf(d)
      BY <2>1, <2>4, <1>6
    <3>2. UnderOf(b) \subseteq UnderOf(d)
      BY <1>1, <1>5, <2>2, <3>1
    <3> QED
      BY <2>1, <3>1, <3>2
  <2> QED
    BY <2>3, <2>4
<1>7. CASE s = TerminalCleanup
  <2>1. UnderOf(TerminalCleanup) = {TerminalCleanup} \cup UnderOf(FinalEvidence)
    BY UnderOfTerminal
  <2> QED
    BY <1>6, <1>7, <2>1
<1> QED
  BY <1>4, <1>5, <1>6, <1>7 DEF Steps, Terminal

(* A step whose marker verifies locally binds the disk when what it rests on *)
(* does.                                                                     *)
LEMMA LocalBound ==
    ASSUME MarkersAreMaps, NEW s \in Steps, Local(s),
           \A d \in DepsOf(s) : Bound(d, UnderOf(d))
    PROVE  Bound(s, UnderOf(s))
<1>1. /\ UnderOf(s) = {s} \cup UNION {UnderOf(d) : d \in DepsOf(s)}
      /\ DOMAIN marker[s] = UnderOf(s) /\ marker[s][s] = out[s] /\ Recordable(s)
      /\ \A d \in DepsOf(s) : marker[d] = Narrow(marker[s], UnderOf(d))
  BY UnderOfDeps DEF Local
<1>2. ASSUME NEW a \in UnderOf(s) PROVE marker[s][a] = out[a]
  <2>1. CASE a = s
    BY <1>1, <2>1
  <2>2. CASE a # s
    <3>1. PICK d \in DepsOf(s) : a \in UnderOf(d)
      BY <1>1, <1>2, <2>2
    <3>2. marker[d] = [b \in UnderOf(d) |-> out[b]]
      BY <3>1 DEF Bound
    <3>3. marker[d] = [b \in UnderOf(d) |-> marker[s][b]]
      BY <1>1, <3>1 DEF Narrow
    <3> QED
      BY <3>1, <3>2, <3>3
  <2> QED
    BY <2>1, <2>2
<1> QED
  BY <1>1, <1>2 DEF Bound, MarkersAreMaps

(* Gates that verify bind the disk: verify_marker, whose recursion compares  *)
(* each marker with those below it, has then compared it with every file.    *)
LEMMA VerifiedBound ==
    ASSUME MarkersAreMaps, NEW W, Closed(W), \A g \in W : Local(g)
    PROVE  AllBound(W)
<1> DEFINE B == {g \in W : ~Bound(g, Under[g])}
<1> SUFFICES ASSUME B # {} PROVE FALSE
  BY DEF AllBound
<1>1. PICK g \in B : \A d \in Deps[g] : d \notin B
  <2>1. B \subseteq Gates
    BY DEF Closed
  <2> HIDE DEF B
  <2> QED
    BY <2>1, FirstAsked
<1>2. g \in W /\ g \in Gates /\ g \in Steps /\ UnderOf(g) = Under[g] /\ DepsOf(g) = Deps[g]
  BY UnderOfGate DEF Closed
<1>3. ASSUME NEW d \in Deps[g] PROVE Bound(d, UnderOf(d))
  <2>1. d \in Gates /\ d \in Under[d] /\ Under[d] \subseteq Under[g]
    BY <1>2, UnderSelf
  <2>2. d \in W
    BY <1>2, <2>1 DEF Closed
  <2>3. UnderOf(d) = Under[d]
    BY <2>1, UnderOfGate
  <2> QED
    BY <1>1, <2>2, <2>3
<1>4. Bound(g, Under[g])
  BY <1>2, <1>3, LocalBound
<1> QED
  BY <1>4

(* ... and so does every step that verifies. *)
LEMMA ValidBinds ==
    ASSUME MarkersAreMaps, NEW s \in Steps, Verify({s})
    PROVE  Bound(s, UnderOf(s))
<1>1. \A a \in UnderOf(s) : Local(a)
  BY DEF Verify
<1>2. ASSUME NEW t \in Steps, \A a \in UnderOf(t) : Local(a)
      PROVE  /\ Local(t)
             /\ \A d \in DepsOf(t) : d \in Steps /\ \A a \in UnderOf(d) : Local(a)
  BY <1>2, UnderOfDeps
<1>3. ASSUME NEW g \in Gates, \A a \in UnderOf(g) : Local(a)
      PROVE  Bound(g, UnderOf(g))
  <2>1. Closed(Under[g]) /\ UnderOf(g) = Under[g] /\ g \in Under[g]
    BY UnderClosed, UnderOfGate, UnderSelf
  <2>2. AllBound(Under[g])
    BY <1>3, <2>1, VerifiedBound
  <2> QED
    BY <2>1, <2>2 DEF AllBound
<1>4. FailedMarks \subseteq Gates /\ EvidenceGates \subseteq Gates
  BY GatesAssumption DEF FailedMarks, EvidenceGates, Prefix
<1>5. ASSUME \A a \in UnderOf(PublicFailure) : Local(a)
      PROVE  Bound(PublicFailure, UnderOf(PublicFailure))
  <2>1. PublicFailure \in Steps /\ \A d \in DepsOf(PublicFailure) : d \in Gates
    BY <1>4, UnderOfTerminal, NamedGates DEF Terminal
  <2> QED
    BY <1>2, <1>3, <1>5, <2>1, LocalBound
<1>6. ASSUME \A a \in UnderOf(FinalEvidence) : Local(a)
      PROVE  Bound(FinalEvidence, UnderOf(FinalEvidence))
  <2>1. /\ FinalEvidence \in Steps
        /\ \A d \in DepsOf(FinalEvidence) : d \in Gates \/ d = PublicFailure
    BY <1>4, UnderOfTerminal, NamedGates DEF Terminal
  <2> QED
    BY <1>2, <1>3, <1>5, <1>6, <2>1, LocalBound
<1>7. ASSUME \A a \in UnderOf(TerminalCleanup) : Local(a)
      PROVE  Bound(TerminalCleanup, UnderOf(TerminalCleanup))
  <2>1. TerminalCleanup \in Steps /\ DepsOf(TerminalCleanup) = {FinalEvidence}
    BY UnderOfTerminal, NamedGates DEF Terminal
  <2> QED
    BY <1>2, <1>6, <1>7, <2>1, LocalBound
<1> QED
  BY <1>1, <1>3, <1>5, <1>6, <1>7 DEF Steps, Terminal

(* The step that observes the host, and the steps every invocation repeats   *)
(* after reconcile.                                                          *)
Probe == "gpu-runtime-preflight"
Late == AlwaysSteps \ {Probe}
Marked(s) == marker[s] # NoMarker

(* A marker is outdated when a repeated step tells something else than what  *)
(* the marker rests on: the probe saw the host change, or a late step has    *)
(* left other files.                                                         *)
HostMoved(m) ==
    /\ Probe \in AlwaysSteps \cap DOMAIN m
    /\ Marked(Probe)
    /\ m[Probe].basis.host < marker[Probe][Probe].basis.host
Drifted(m) == \E a \in Late \cap DOMAIN m : out[a] # m[a]
Outdated(m) == HostMoved(m) \/ Drifted(m)

(* All that s rests on is still there as its marker binds it, the files of   *)
(* the repeated steps excepted.                                              *)
Rests(s) ==
    \A b \in UnderOf(s) : /\ marker[b] = Narrow(marker[s], UnderOf(b))
                          /\ b \notin AlwaysSteps => out[b] = marker[s][b]

(* What a marker, or the disk, can tell of a gate that was recorded *)
Shape(m, b) ==
    /\ m[b].result \in {"passed", "failed"}
    /\ b = "core-qualification" /\ m[b].result = "failed" =>
          m[b].basis = m["matrix-lock"].basis
    /\ b = "matrix-lock" => m[b].basis.workers = m["worker-images"].basis.workers
    /\ b \in AlwaysSteps /\ b = "registry-bootstrap" =>
          m[b] = Content(0, NoBasis, "passed", TRUE)
    /\ b \in AlwaysSteps /\ b = "matrix-live-verification" =>
          m[b] = Content(0, m["matrix-lock"].basis, "passed", TRUE)
    /\ b \in AlwaysSteps /\ b = Probe =>
          \E h \in 0..host : m[b] = Content(0, [NoBasis EXCEPT !.host = h], "passed", TRUE)

(* The markers as they are on the disk *)
MarksInv ==
    /\ \A g \in Gates : Marked(g) => /\ DOMAIN marker[g] = Under[g]
                                     /\ \A b \in Under[g] : Shape(marker[g], b)
    /\ DOMAIN marker[PublicFailure] # {PublicFailure}
    /\ Marked("worker-images") =>
          /\ volume # 0
          /\ marker["worker-images"]["worker-images"].basis.workers = volume

(* A gate that was recorded is outdated, or rests on what it was recorded on. *)
RestInv == \A g \in Gates : Marked(g) => Outdated(marker[g]) \/ Rests(g)

(* From reconcile on, what is not to be moved stands: it binds the disk with *)
(* everything below it, and no step without a marker has files.              *)
Ordered == phase = "move" \/ (Running /\ (prog = "failed" \/ pc > ReconcileIndex))
Standing == {s \in Steps \ todo : Marked(s)}
StandingInv ==
    /\ \A s \in Standing : UnderOf(s) \subseteq Standing /\ Bound(s, UnderOf(s))
    /\ PublicFailure \in Standing => FailedMarks # {}
    /\ \A s \in (Steps \ todo) \ Standing :
          out[s] = NoOut \/ (phase = "record" /\ s = Here)
    /\ phase = "record" /\ Here \in Standing => Here \in AlwaysSteps

FirmInv ==
    /\ phase # "move" => todo = {}
    /\ Ordered => StandingInv
    /\ phase = "move" => \A g \in todo \cap Gates : Marked(g) => Outdated(marker[g])

(* What was executed and is recorded next *)
RecordInv ==
    phase = "record" =>
        /\ ~At("ensure-workers")
        /\ Here \in Gates => Shape(out, Here)
        /\ Here = Probe /\ Here \in AlwaysSteps /\ Marked(Probe) =>
              marker[Probe][Probe].basis.host <= out[Probe].basis.host
        /\ Here = "worker-images" => volume # 0 /\ volume = out[Here].basis.workers
        /\ Here \in Gates \ AlwaysSteps /\ Marked(Here) => Outdated(marker[Here])

(* There is one failure, and the domain steps before it that were recorded   *)
(* under other observations, or are gone, leave it outdated.                 *)
FailInv ==
    /\ ~Ambiguous
    /\ \A e \in FailedMarks : \A d \in (Prefix(e) \cap DomainSteps) \ {e} :
          \/ Outdated(marker[e])
          \/ Marked(d) /\ \A a \in AlwaysSteps : marker[d][a] = marker[e][a]

DiskInv == MarksInv /\ RestInv /\ FailInv

(* A host that changed again leaves what was recorded as it was. *)
LEMMA ShapeFrame ==
    ASSUME NEW m, NEW b, Shape(m, b), host \in Nat, host' \in Nat, host <= host'
    PROVE  Shape(m, b)'
<1>1. 0..host \subseteq 0..host'
  OBVIOUS
<1> QED
  BY <1>1 DEF Shape

(* Markers that are left alone or removed tell what they told. *)
LEMMA MarksKept ==
    ASSUME MarksInv, CountersOK, CountersOK', host <= host',
           \A s \in Steps : marker'[s] = marker[s] \/ marker'[s] = NoMarker,
           volume' = volume \/ ~Marked("worker-images")
    PROVE  MarksInv'
<1>1. host \in Nat /\ host' \in Nat
  BY DEF CountersOK
<1>2. DOMAIN NoMarker = {}
  BY DEF NoMarker
<1>3. "worker-images" \in Steps /\ PublicFailure \in Steps /\ Gates \subseteq Steps
  BY NamedGates DEF Terminal
<1>4. ASSUME NEW g \in Gates, marker'[g] # NoMarker
      PROVE  DOMAIN marker'[g] = Under[g] /\ \A b \in Under[g] : Shape(marker[g], b)'
  <2>1. marker'[g] = marker[g] /\ Marked(g)
    BY <1>3, <1>4 DEF Marked
  <2>2. PICK m : m = marker[g]
    OBVIOUS
  <2>3. \A b \in Under[g] : Shape(m, b)
    BY <2>1, <2>2 DEF MarksInv
  <2>4. \A b \in Under[g] : Shape(m, b)'
    BY <1>1, <2>3, ShapeFrame
  <2>5. ASSUME NEW b \in Under[g] PROVE Shape(marker[g], b)'
    <3>1. m = marker'[g] /\ Shape(m, b)'
      BY <2>1, <2>2, <2>4
    <3> QED
      BY <3>1 DEF Shape
  <2> QED
    BY <2>1, <2>5 DEF MarksInv
<1>5. DOMAIN marker'[PublicFailure] # {PublicFailure}
  BY <1>2, <1>3 DEF MarksInv
<1>6. marker'["worker-images"] # NoMarker =>
         /\ volume' # 0
         /\ marker'["worker-images"]["worker-images"].basis.workers = volume'
  BY <1>3 DEF MarksInv, Marked
<1> QED
  BY <1>4, <1>5, <1>6 DEF MarksInv, Marked

(* A marker stays outdated unless a late step heals it. *)
LEMMA OutdatedKept ==
    ASSUME NEW m, Outdated(m), marker'[Probe] = marker[Probe],
           \A a \in DOMAIN m : m[a].result \in {"passed", "failed"},
           \A a \in Late : \/ out'[a] = out[a]
                           \/ out'[a].result \notin {"passed", "failed"}
                           \/ a \notin DOMAIN m
    PROVE  Outdated(m)'
<1>1. CASE HostMoved(m)
  BY <1>1 DEF HostMoved, Outdated, Marked
<1>2. CASE Drifted(m)
  BY <1>2 DEF Drifted, Outdated
<1> QED
  BY <1>1, <1>2 DEF Outdated

(* A gate visits the same gates whatever the markers say. *)
LEMMA UnderOfGateNext == \A g \in Gates : UnderOf(g)' = Under[g]
<1> SUFFICES ASSUME NEW g \in Gates PROVE UnderOf(g)' = Under[g]
  OBVIOUS
<1>1. g # PublicFailure /\ g # FinalEvidence /\ g # TerminalCleanup
  BY TerminalNames
<1> QED
  BY <1>1 DEF UnderOf

(* A step rewrites its own files: what rests on the old ones is outdated, so *)
(* whatever was known of the markers still is.                               *)
LEMMA DiskWrite ==
    ASSUME DiskInv, CountersOK, CountersOK', host' = host, NEW s, marker' = marker,
           \A a \in Steps \ {s} : out'[a] = out[a],
           volume' = volume \/ ~Marked("worker-images"),
           s \in Late => \/ out'[s] = out[s]
                         \/ out'[s].result \notin {"passed", "failed"}
                         \/ \A g \in Gates : Marked(g) => s \notin Under[g],
           s \in Gates \ AlwaysSteps =>
              \A g \in Gates : Marked(g) /\ s \in Under[g] => Outdated(marker[g])
    PROVE  /\ DiskInv'
           /\ \A g \in Gates : Marked(g) /\ Outdated(marker[g]) => Outdated(marker[g])'
<1>0. AlwaysSteps \subseteq Gates /\ Gates \subseteq Steps
  BY GatesAssumption, NamedGates
<1>1. MarksInv'
  <2>1. host <= host'
    BY DEF CountersOK
  <2> QED
    BY <2>1, MarksKept DEF DiskInv
<1>2. ASSUME NEW g \in Gates, Marked(g), Outdated(marker[g]) PROVE Outdated(marker[g])'
  <2>1. PICK m : m = marker[g]
    OBVIOUS
  <2>2. DOMAIN m = Under[g] /\ \A a \in Under[g] : m[a].result \in {"passed", "failed"}
    BY <1>2, <2>1 DEF DiskInv, MarksInv, Shape
  <2>3. \A a \in Late : \/ out'[a] = out[a]
                        \/ out'[a].result \notin {"passed", "failed"}
                        \/ a \notin DOMAIN m
    BY <1>0, <1>2, <2>2 DEF Late
  <2>4. Outdated(m)'
    BY <1>2, <2>1, <2>2, <2>3, OutdatedKept
  <2> QED
    BY <2>1, <2>4 DEF Outdated, HostMoved, Drifted, Marked
<1>3. RestInv'
  <2> SUFFICES ASSUME NEW g \in Gates, marker'[g] # NoMarker, ~Outdated(marker[g])'
               PROVE  Rests(g)'
    BY DEF RestInv, Marked
  <2>1. Marked(g) /\ ~Outdated(marker[g])
    BY <1>2 DEF Marked
  <2>2. Rests(g)
    BY <2>1 DEF DiskInv, RestInv
  <2>3. UnderOf(g) = Under[g] /\ UnderOf(g)' = Under[g] /\ Under[g] \subseteq Gates
    BY UnderOfGate, UnderOfGateNext, UnderSelf
  <2>4. \A b \in Under[g] : UnderOf(b) = Under[b] /\ UnderOf(b)' = Under[b]
    BY <2>3, UnderOfGate, UnderOfGateNext
  <2>5. ASSUME NEW b \in Under[g], b \notin AlwaysSteps PROVE out'[b] = out[b]
    BY <1>0, <2>1, <2>3, <2>5
  <2> QED
    BY <2>2, <2>3, <2>4, <2>5 DEF Rests
<1>4. FailInv'
  <2>1. FailedMarks' = FailedMarks /\ FailedMarks \subseteq Gates
    BY GatesAssumption DEF FailedMarks
  <2>2. \A e \in FailedMarks : Marked(e)
    BY DEF FailedMarks, Marked
  <2> QED
    BY <1>2, <2>1, <2>2 DEF DiskInv, FailInv, Ambiguous, Marked
<1> QED
  BY <1>1, <1>2, <1>3, <1>4 DEF DiskInv

(* What stands verifies. *)
LEMMA StandingValid ==
    ASSUME StandingInv, ~Ambiguous, NEW s \in Standing
    PROVE  Valid(s)
<1>1. ASSUME NEW a \in Standing PROVE Local(a)
  <2>1. a \in Steps /\ marker[a] # NoMarker
    BY DEF Standing, Marked
  <2>2. UnderOf(a) = {a} \cup UNION {UnderOf(d) : d \in DepsOf(a)} /\ DepsOf(a) \subseteq Steps
    BY <2>1, UnderOfDeps
  <2>3. marker[a] = [b \in UnderOf(a) |-> out[b]] /\ Recordable(a) /\ UnderOf(a) \subseteq Standing
    BY DEF StandingInv, Bound
  <2>4. ASSUME NEW d \in DepsOf(a) PROVE marker[d] = Narrow(marker[a], UnderOf(d))
    <3>1. d \in UnderOf(d) /\ UnderOf(d) \subseteq UnderOf(a)
      BY <2>2, UnderOfDeps
    <3>2. marker[d] = [b \in UnderOf(d) |-> out[b]]
      BY <2>3, <3>1 DEF StandingInv, Bound
    <3> QED
      BY <2>3, <3>1, <3>2 DEF Narrow
  <2> QED
    BY <2>1, <2>2, <2>3, <2>4 DEF Local
<1>2. UnderOf(s) \subseteq Standing
  BY DEF StandingInv
<1> QED
  BY <1>1, <1>2 DEF Valid, Verify, Standing, Marked

(* Where reconcile stands in the script, and what comes after it *)
LEMMA ReconcilePlace ==
    /\ ReconcileIndex \in DOMAIN Script \ Called
    /\ ReconcileIndex \in 1..Len(Script) /\ Len(Script) \in Nat
    /\ Script[ReconcileIndex].op = "reconcile"
    /\ CalledBefore(ReconcileIndex) \subseteq Gates
    /\ \A i \in DOMAIN Script : Script[i].op = "reconcile" => i = ReconcileIndex
    /\ \A i \in Called : \/ i < ReconcileIndex
                         \/ i > ReconcileIndex
    /\ \A i \in Called : i < ReconcileIndex => Script[i].step \in CalledBefore(ReconcileIndex)
<1>1. \E i \in DOMAIN Script : Script[i].op = "reconcile"
  BY ReconcileAssumption
<1>2. ReconcileIndex \in DOMAIN Script /\ Script[ReconcileIndex].op = "reconcile"
  BY <1>1 DEF ReconcileIndex
<1>3. DOMAIN Script = 1..Len(Script) /\ Len(Script) \in Nat /\ Called \subseteq DOMAIN Script
  BY ScriptAssumption DEF Called
<1>4. ReconcileIndex \notin Called
  BY <1>2 DEF Called
<1>5. CalledBefore(ReconcileIndex) \subseteq Gates
  BY <1>2, <1>4, OrderAssumption
<1>6. \A i \in DOMAIN Script : Script[i].op = "reconcile" => i = ReconcileIndex
  BY <1>2, ReconcileAssumption
<1>7. \A i \in Called : \/ i < ReconcileIndex
                         \/ i > ReconcileIndex
  BY <1>2, <1>3, <1>4
<1>8. \A i \in Called : i < ReconcileIndex => Script[i].step \in CalledBefore(ReconcileIndex)
  BY DEF CalledBefore
<1> QED
  BY <1>2, <1>3, <1>4, <1>5, <1>6, <1>7, <1>8

(* A step is asked for by one item only. *)
LEMMA AskedOnce ==
    \A i, j \in Called : Script[i].step = Script[j].step => i = j
<1> SUFFICES ASSUME NEW i \in Called, NEW j \in Called, Script[i].step = Script[j].step, i < j
             PROVE  FALSE
  <2>1. Called \subseteq Nat
    BY ScriptAssumption DEF Called
  <2> QED
    BY <2>1
<1>1. Script[i].step \in CalledBefore(j)
  BY DEF CalledBefore
<1> QED
  BY <1>1, OrderAssumption

(* The steps that come after reconcile, and the probe, which comes before *)
LEMMA AskedAfter ==
    ASSUME ProcessOK, phase # "move", NEW s, Name(s)
    PROVE  /\ s \in DomainSteps \cup {"worker-images", "matrix-lock"} \cup Late \cup Terminal
                 => Ordered
           /\ s \in AlwaysSteps /\ s = Probe => ~Ordered
           /\ ~Ordered => /\ prog = "main" /\ pc \in Called /\ s = Script[pc].step
                          /\ pc < ReconcileIndex /\ s \in Gates
                          /\ s \in CalledBefore(ReconcileIndex)
<1>1. CASE prog = "failed"
  <2>1. Ordered
    BY <1>1 DEF Ordered, Name
  <2>2. s \in Terminal
    <3>1. pc = 1 \/ pc = 2 \/ pc = 3
      BY <1>1, StepHere
    <3> QED
      BY <1>1, <3>1, StepHere DEF Terminal
  <2>3. s \notin AlwaysSteps
    BY <2>2, GatesAssumption
  <2> QED
    BY <2>1, <2>3
<1>2. CASE prog = "main"
  <2>1. pc \in Called /\ pc \in DOMAIN Script /\ pc \in Nat /\ s = Script[pc].step
    BY <1>2, StepHere
  <2>2. ReconcileIndex \in Nat /\ (pc < ReconcileIndex \/ pc > ReconcileIndex)
    BY <2>1, ReconcilePlace
  <2>3. Ordered <=> pc > ReconcileIndex
    BY <1>2 DEF Ordered, Name, ProcessOK
  <2>4. pc < ReconcileIndex => s \in CalledBefore(ReconcileIndex) /\ s \in Gates
    BY <2>1, ReconcilePlace
  <2>5. CASE s \in DomainSteps \cup {"worker-images", "matrix-lock"}
    <3>1. pc > ReconcileIndex
      BY <2>1, <2>5, ReconcileAssumption
    <3>2. s \notin AlwaysSteps
      BY <2>5, GatesAssumption, ReconcileAssumption
    <3> QED
      BY <2>2, <2>3, <3>1, <3>2
  <2>6. CASE s \in Terminal
    <3>1. s \notin Gates /\ s \notin AlwaysSteps
      BY <2>6, GatesAssumption
    <3> QED
      BY <2>2, <2>3, <2>4, <3>1
  <2>7. CASE s \in Late
    <3>1. s \in AlwaysSteps /\ s # Probe
      BY <2>7 DEF Late
    <3>2. s \notin CalledBefore(ReconcileIndex)
      BY <3>1, ReconcileAssumption DEF Probe
    <3> QED
      BY <2>2, <2>3, <2>4, <3>1, <3>2
  <2>8. CASE s \in AlwaysSteps /\ s = Probe
    <3>1. s \in CalledBefore(ReconcileIndex)
      BY <2>8, ReconcileAssumption DEF Probe
    <3>2. PICK j \in Called : j < ReconcileIndex /\ s = Script[j].step
      BY <3>1 DEF CalledBefore
    <3>3. pc < ReconcileIndex
      BY <2>1, <3>2, AskedOnce
    <3>4. ~Ordered
      BY <2>1, <2>2, <2>3, <3>3
    <3>5. s \notin DomainSteps \cup {"worker-images", "matrix-lock"} \cup Late \cup Terminal
      BY <2>8, GatesAssumption DEF Late, Probe
    <3> QED
      BY <1>2, <2>1, <2>4, <3>3, <3>4, <3>5
  <2> QED
    BY <1>2, <2>1, <2>2, <2>3, <2>4, <2>5, <2>6, <2>7, <2>8
<1> QED
  BY <1>1, <1>2 DEF ProcessOK

(* run_step executes a step when its marker does not verify. *)
LEMMA ExecutingInvalid ==
    ASSUME ProcessOK, NEW s, s \notin AlwaysSteps, Executing(s)
    PROVE  ~Valid(s)
<1>1. Name(s)
  BY DEF Executing
<1>2. CASE prog = "main"
  <2>1. Current = Script /\ pc \in DOMAIN Script /\ s = Script[pc].step
    BY <1>1, <1>2, StepHere DEF Current
  <2>2. Current[pc].op = "step"
    BY <1>1, <2>1, ScriptAssumption DEF Name
  <2> QED
    BY <2>2 DEF Executing
<1>3. CASE prog = "failed"
  <2>1. Current = FailureScript /\ pc \in 1..3
    BY <1>1, <1>3, StepHere DEF Current
  <2>2. Current[pc].op = "step"
    BY <2>1 DEF FailureScript, Item
  <2> QED
    BY <2>2 DEF Executing
<1> QED
  BY <1>2, <1>3 DEF ProcessOK

(* After reconcile it has no marker then, and no marker rests on it. *)
LEMMA ExecutingUnmarked ==
    ASSUME ProcessOK, FirmInv, FailInv, Ordered, NEW s \in Steps, s \notin AlwaysSteps,
           Executing(s)
    PROVE  ~Marked(s) /\ s \notin Standing /\ out[s] = NoOut
<1>1. phase = "check" /\ todo = {} /\ StandingInv /\ ~Ambiguous
  BY DEF Executing, FirmInv, FailInv
<1>2. ~Valid(s)
  BY ExecutingInvalid
<1>3. s \notin Standing
  BY <1>1, <1>2, StandingValid
<1>4. ~Marked(s)
  BY <1>1, <1>3 DEF Standing
<1> QED
  BY <1>1, <1>3, <1>4 DEF StandingInv

(* A step that an invocation executes again is below none but outdated       *)
(* markers: before reconcile because everything it rests on was just walked. *)
LEMMA ExecutedCaused ==
    ASSUME RunnerInv, DiskInv, FirmInv, NEW s \in Gates \ AlwaysSteps, Executing(s),
           NEW g \in Gates, Marked(g), s \in Under[g]
    PROVE  Outdated(marker[g])
<1>1. ProcessOK /\ WalkInv /\ FailInv
  BY DEF RunnerInv, DiskInv
<1>2. Name(s) /\ phase = "check" /\ todo = {} /\ ~Ambiguous
  BY <1>1 DEF Executing, FirmInv, FailInv
<1>3. ~Valid(s)
  BY <1>1, ExecutingInvalid
<1>4. s \in Steps /\ g \in Steps /\ UnderOf(g) = Under[g]
  BY UnderOfGate
<1>5. CASE Ordered
  <2>1. g \in Standing /\ StandingInv
    BY <1>2, <1>4, <1>5 DEF Standing, FirmInv
  <2>2. s \in Standing
    BY <1>4, <2>1 DEF StandingInv
  <2> QED
    BY <1>2, <1>3, <2>1, <2>2, StandingValid
<1>6. CASE ~Ordered
  <2>1. prog = "main" /\ pc \in Called /\ s = Script[pc].step
    BY <1>1, <1>2, <1>6, AskedAfter
  <2>2. Torn = {} /\ Running
    BY <1>1, <1>2, StepHere DEF Torn
  <2>3. AllBound(CalledBefore(pc) \cap Gates)
    BY <1>1, <2>1, <2>2 DEF WalkInv, MainInv, MainBound
  <2>4. UNION {Under[d] : d \in Deps[s]} \subseteq CalledBefore(pc) \cap Gates
    BY <2>1, OrderAssumption, UnderSelf
  <2> SUFFICES ASSUME ~Outdated(marker[g]) PROVE FALSE
    OBVIOUS
  <2>5. Rests(g)
    BY DEF DiskInv, RestInv
  <2>6. PICK m : m = marker[g]
    OBVIOUS
  <2>7. /\ Closed(Under[s]) /\ Under[s] \subseteq Under[g] /\ s \in Under[s]
        /\ \A b \in Under[s] : b \in Gates /\ b \in Under[b] /\ UnderOf(b) = Under[b]
    BY UnderClosed, UnderSelf, UnderOfGate DEF Closed
  <2>8. \A b \in Under[s] : marker[b] = [a \in Under[b] |-> m[a]]
    BY <1>4, <2>5, <2>6, <2>7 DEF Rests, Narrow
  <2>9. ASSUME NEW b \in Under[s], b # s PROVE Bound(b, Under[b])
    <3>1. b \in CalledBefore(pc) \cap Gates
      BY <2>4, <2>9, UnderSelf
    <3> QED
      BY <2>3, <3>1 DEF AllBound
  <2>10. ASSUME NEW b \in Under[s] PROVE out[b] = m[b]
    <3>1. CASE b = s
      BY <1>4, <2>5, <2>6, <3>1 DEF Rests
    <3>2. CASE b # s
      <4>1. marker[b] = [a \in Under[b] |-> out[a]]
        BY <2>9, <3>2 DEF Bound
      <4> QED
        BY <2>7, <2>8, <4>1
    <3> QED
      BY <3>1, <3>2
  <2>11. Bound(s, Under[s])
    <3>1. marker[s] = [a \in Under[s] |-> out[a]]
      BY <2>7, <2>8, <2>10
    <3>2. Shape(m, s)
      BY <2>6 DEF DiskInv, MarksInv
    <3>3. s = "core-qualification" => "matrix-lock" \in Under[s]
      BY DepsAssumption
    <3>4. Recordable(s)
      BY <2>7, <2>10, <3>2, <3>3 DEF Recordable, Shape, LockedBasis
    <3> QED
      BY <3>1, <3>4 DEF Bound
  <2>12. AllBound(Under[s])
    BY <2>9, <2>11 DEF AllBound
  <2>13. Valid(s)
    BY <2>7, <2>12, BoundValid
  <2> QED
    BY <1>3, <2>13
<1> QED
  BY <1>5, <1>6

(* What verification visits depends on the failures that are marked.         *)
LEMMA UnderOfSame ==
    ASSUME FailedMarks' = FailedMarks
    PROVE  \A s \in Steps : UnderOf(s)' = UnderOf(s)
<1>1. EvidenceGates' = EvidenceGates
  BY DEF EvidenceGates
<1>2. EvidenceUnder' = EvidenceUnder
  BY <1>1 DEF EvidenceUnder
<1> QED
  BY <1>2 DEF UnderOf

(* ... and so on the markers of the domain steps alone. *)
LEMMA UnderOfFrame ==
    ASSUME \A s \in DomainSteps : marker'[s] = marker[s]
    PROVE  FailedMarks' = FailedMarks /\ \A s \in Steps : UnderOf(s)' = UnderOf(s)
<1>1. FailedMarks' = FailedMarks
  BY DEF FailedMarks
<1> QED
  BY <1>1, UnderOfSame

(* A step that stands binds the same when nothing below it is written. *)
LEMMA StandingFrame ==
    ASSUME StandingInv, NEW s \in Standing, marker'[s] = marker[s],
           \A a \in UnderOf(s) : out'[a] = out[a]
    PROVE  Bound(s, UnderOf(s)) /\ \A U : U = UnderOf(s) => Bound(s, U)'
<1>1. s \in Steps /\ Bound(s, UnderOf(s))
  BY DEF StandingInv, Standing
<1>2. s \in UnderOf(s)
  BY <1>1, UnderOfDeps
<1>3. s = "core-qualification" => "matrix-lock" \in UnderOf(s)
  <2> SUFFICES ASSUME s = "core-qualification" PROVE "matrix-lock" \in UnderOf(s)
    OBVIOUS
  <2>1. s \in Gates
    BY <1>1, TerminalNames DEF Steps
  <2> QED
    BY <2>1, UnderOfGate, DepsAssumption
<1> SUFFICES ASSUME NEW U, U = UnderOf(s) PROVE Bound(s, U)'
  BY <1>1
<1>4. Bound(s, U) /\ s \in U /\ \A a \in U : out'[a] = out[a]
  BY <1>1, <1>2
<1>5. s = "core-qualification" => "matrix-lock" \in U
  BY <1>3
<1> QED
  BY <1>4, <1>5, BoundFrame

(* When no marker changes and nothing of what stands is written, it stands   *)
(* on; but a step about to be recorded may have written its files.           *)
LEMMA StandingKept ==
    ASSUME StandingInv, \A s \in Steps : marker'[s] = marker[s], todo' = todo,
           \A s \in Standing : \A a \in UnderOf(s) : out'[a] = out[a],
           \A s \in (Steps \ todo) \ Standing :
              out'[s] = NoOut \/ (phase' = "record" /\ s = Here'),
           phase' = "record" /\ Here' \in Standing => Here' \in AlwaysSteps
    PROVE  StandingInv'
<1>1. Standing' = Standing
  BY DEF Standing, Marked
<1>2. FailedMarks' = FailedMarks /\ \A s \in Standing : UnderOf(s)' = UnderOf(s)
  BY UnderOfFrame, NamedGates DEF Standing
<1>3. ASSUME NEW s \in Standing PROVE UnderOf(s)' \subseteq Standing /\ Bound(s, UnderOf(s))'
  <2>1. PICK U : U = UnderOf(s)
    OBVIOUS
  <2>2. Bound(s, U)'
    <3>1. s \in Steps
      BY DEF Standing
    <3> QED
      BY <2>1, <3>1, StandingFrame
  <2>3. U \subseteq Standing
    BY <2>1 DEF StandingInv
  <2> QED
    BY <1>2, <2>1, <2>2, <2>3 DEF Bound
<1> QED
  BY <1>1, <1>2, <1>3 DEF StandingInv

(* A command is executed, and its step is recorded next. *)
LEMMA ExecuteFirm ==
    ASSUME RunnerInv, CountersOK', DiskInv, FirmInv, NEW s \in Steps, Executing(s), ToRecord,
           marker' = marker, host' = host, \A a \in Steps \ {s} : out'[a] = out[a],
           volume' = volume \/ s = "worker-images",
           s \in Late /\ Marked(s) => out'[s] = out[s],
           s \in Gates => Shape(out, s)',
           s = "worker-images" =>
              volume' # 0 /\ volume' = out'["worker-images"].basis.workers,
           s \in AlwaysSteps /\ s = Probe /\ Marked(Probe) =>
              marker[Probe][Probe].basis.host <= out'[Probe].basis.host
    PROVE  DiskInv' /\ FirmInv' /\ RecordInv'
<1>1. ProcessOK /\ CountersOK /\ FailInv /\ Gates \subseteq Steps /\ AlwaysSteps \subseteq Gates
  BY NamedGates, GatesAssumption DEF RunnerInv, DiskInv
<1>2. Name(s) /\ phase = "check" /\ todo = {} /\ s = Here /\ Running /\ ~At("ensure-workers")
  BY <1>1, StepHere DEF Executing, FirmInv
<1>3. /\ phase' = "record" /\ pc' = pc /\ prog' = prog /\ todo' = {}
      /\ Here' = s /\ Running' /\ ~At("ensure-workers")'
  BY <1>2 DEF ToRecord, Here, Current, Running, At
<1>4. Ordered' <=> Ordered
  BY <1>2, <1>3 DEF Ordered
<1>5. s \in Late \cup {"worker-images"} => Ordered
  BY <1>1, <1>2, AskedAfter
<1>6. Ordered => StandingInv /\ (s \notin AlwaysSteps => ~Marked(s) /\ s \notin Standing)
  BY <1>1, ExecutingUnmarked DEF FirmInv
<1>7. "worker-images" \notin AlwaysSteps
  BY ReconcileAssumption
<1>8. ASSUME s \in Late, NEW g \in Gates, Marked(g), s \in Under[g] PROVE out'[s] = out[s]
  <2>1. g \in Standing /\ StandingInv
    BY <1>1, <1>2, <1>5, <1>6, <1>8 DEF Standing
  <2>2. s \in Standing
    BY <1>8, <2>1, UnderOfGate DEF StandingInv
  <2> QED
    BY <1>8, <2>2 DEF Standing
<1>9. ASSUME s \in Gates \ AlwaysSteps, NEW g \in Gates, Marked(g), s \in Under[g]
      PROVE  Outdated(marker[g])
  BY <1>9, ExecutedCaused
<1>10. /\ DiskInv'
       /\ \A g \in Gates : Marked(g) /\ Outdated(marker[g]) => Outdated(marker[g])'
  <2>1. volume' = volume \/ ~Marked("worker-images")
    BY <1>5, <1>6, <1>7
  <2>2. s \in Late => out'[s] = out[s] \/ \A g \in Gates : Marked(g) => s \notin Under[g]
    BY <1>8
  <2> QED
    BY <1>1, <1>9, <2>1, <2>2, DiskWrite
<1>11. ASSUME Ordered PROVE StandingInv'
  <2>1. StandingInv
    BY <1>6, <1>11
  <2>2. ASSUME NEW b \in Standing, NEW a \in UnderOf(b) PROVE out'[a] = out[a]
    <3>1. a \in Standing /\ a \in Steps
      BY <2>1 DEF StandingInv, Standing
    <3>2. CASE a = s
      <4>1. s \in AlwaysSteps /\ Marked(s)
        BY <1>6, <1>11, <3>1, <3>2 DEF Standing
      <4>2. s # Probe
        BY <1>1, <1>2, <1>11, <4>1, AskedAfter
      <4> QED
        BY <3>2, <4>1, <4>2 DEF Late
    <3> QED
      BY <3>1, <3>2
  <2>3. \A x \in (Steps \ todo) \ Standing : out'[x] = NoOut \/ (phase' = "record" /\ x = Here')
    BY <1>2, <1>3, <2>1 DEF StandingInv
  <2>4. Here' \in Standing => Here' \in AlwaysSteps
    BY <1>3, <1>6, <1>11
  <2>5. todo' = todo
    BY <1>2, <1>3
  <2> QED
    BY <2>1, <2>2, <2>3, <2>4, <2>5, StandingKept
<1>12. FirmInv'
  BY <1>3, <1>4, <1>11 DEF FirmInv
<1>13. RecordInv'
  <2>1. s \in Gates \ AlwaysSteps /\ Marked(s) => Outdated(marker[s])'
    BY <1>9, <1>10, UnderSelf
  <2>2. PICK x : x = s /\ x = Here'
    BY <1>3
  <2>3. x \in Gates => Shape(out, x)'
    BY <2>2
  <2>4. x \in Gates \ AlwaysSteps /\ Marked(x) => Outdated(marker[x])'
    BY <2>1, <2>2
  <2>5. Here' \in Gates => Shape(out, Here)'
    BY <2>2, <2>3 DEF Shape
  <2>6. Here' \in Gates \ AlwaysSteps /\ marker'[Here'] # NoMarker => Outdated(marker[Here])'
    BY <2>2, <2>4 DEF Outdated, HostMoved, Drifted, Marked
  <2>7. Here' = Probe /\ Here' \in AlwaysSteps /\ marker'[Probe] # NoMarker =>
              marker'[Probe][Probe].basis.host <= out'[Probe].basis.host
    BY <1>3 DEF Marked
  <2>8. Here' = "worker-images" => volume' # 0 /\ volume' = out'[Here'].basis.workers
    BY <1>3
  <2> QED
    BY <1>3, <2>5, <2>6, <2>7, <2>8 DEF RecordInv, Marked
<1> QED
  BY <1>10, <1>12, <1>13

(* A runner that is gone has nothing standing or to be moved. *)
LEMMA StopFirm ==
    ASSUME NEW code, Stop(code)
    PROVE  FirmInv' /\ RecordInv'
<1>1. phase' = "check" /\ todo' = {} /\ pc' = 0
  BY DEF Stop
<1> QED
  BY <1>1 DEF FirmInv, RecordInv, Ordered, Running

(* Nothing that the markers tell changes when nothing is written. *)
LEMMA DiskSame ==
    ASSUME DiskInv, CountersOK, CountersOK', UNCHANGED <<out, volume>>,
           \A s \in Steps : marker'[s] = marker[s], host <= host'
    PROVE  DiskInv' /\ \A m : Outdated(m)' <=> Outdated(m)
<1>0. Gates \subseteq Steps /\ AlwaysSteps \subseteq Steps
  BY NamedGates
<1>1. MarksInv'
  BY MarksKept DEF DiskInv
<1>2. \A m : Outdated(m)' <=> Outdated(m)
  BY <1>0 DEF Outdated, HostMoved, Drifted, Marked
<1>3. ASSUME NEW g \in Gates, Outdated(marker[g]) PROVE Outdated(marker[g])'
  BY <1>0, <1>3 DEF Outdated, HostMoved, Drifted, Marked
<1>4. \A g \in Gates : UnderOf(g)' = UnderOf(g) /\ \A b \in UnderOf(g) : UnderOf(b)' = UnderOf(b)
  BY UnderOfGate, UnderOfGateNext, UnderSelf
<1>5. RestInv'
  <2> SUFFICES ASSUME NEW g \in Gates, marker'[g] # NoMarker, ~Outdated(marker[g])'
               PROVE  Rests(g)'
    BY DEF RestInv, Marked
  <2>1. Rests(g)
    BY <1>0, <1>3 DEF DiskInv, RestInv, Marked
  <2>2. UnderOf(g) \subseteq Steps
    BY <1>0, UnderOfType
  <2> QED
    BY <1>0, <1>4, <2>1, <2>2 DEF Rests
<1>6. FailInv'
  <2>1. FailedMarks' = FailedMarks /\ FailedMarks \subseteq Gates
    BY GatesAssumption, UnderOfFrame, NamedGates DEF FailedMarks
  <2>2. \A e \in FailedMarks : Outdated(marker[e]) => Outdated(marker[e])'
    BY <1>3, <2>1
  <2>3. \A x \in FailedMarks \cup DomainSteps : marker'[x] = marker[x]
    BY <2>1, NamedGates
  <2>4. ~Ambiguous'
    BY <2>1 DEF DiskInv, FailInv, Ambiguous
  <2>5. ASSUME NEW e \in FailedMarks, NEW d \in (Prefix(e) \cap DomainSteps) \ {e}
        PROVE  \/ Outdated(marker[e])'
               \/ marker'[d] # NoMarker /\ \A a \in AlwaysSteps : marker'[d][a] = marker'[e][a]
    BY <2>2, <2>3 DEF DiskInv, FailInv, Marked
  <2> QED
    BY <2>1, <2>4, <2>5 DEF FailInv, Marked
<1> QED
  BY <1>1, <1>2, <1>5, <1>6 DEF DiskInv

(* The runner moves on, and nothing is written. *)
LEMMA ForwardFirm ==
    ASSUME RunnerInv, CountersOK', DiskInv, FirmInv, NEW f, Forward(f),
           UNCHANGED <<out, marker, volume, host>>,
           todo = {}, phase # "record", phase = "move" \/ ~At("reconcile"), Running
    PROVE  DiskInv' /\ FirmInv' /\ RecordInv'
<1>1. DiskInv'
  BY DiskSame DEF RunnerInv, CountersOK
<1>2. CASE \E code : Stop(code)
  BY <1>1, <1>2, StopFirm
<1>3. CASE ~ \E code : Stop(code)
  <2>1. pc' = pc + 1 /\ phase' = "check" /\ prog' = prog /\ todo' = {}
    BY <1>3 DEF Forward
  <2>2. Ordered' => Ordered
    <3>1. CASE phase = "move" \/ prog = "failed"
      BY <3>1 DEF Ordered
    <3>2. CASE prog = "main" /\ ~At("reconcile")
      <4>1. Current = Script /\ pc \in Nat /\ ReconcileIndex \in Nat
        BY <3>2, ReconcilePlace DEF Current, RunnerInv, ProcessOK
      <4>2. pc # ReconcileIndex
        BY <3>2, <4>1, ReconcilePlace DEF At
      <4>3. Ordered' => pc + 1 > ReconcileIndex
        BY <2>1, <3>2 DEF Ordered
      <4> QED
        BY <4>1, <4>2, <4>3 DEF Ordered
    <3> QED
      BY <3>1, <3>2 DEF RunnerInv, ProcessOK
  <2>3. StandingInv => StandingInv'
    <3> SUFFICES ASSUME StandingInv PROVE StandingInv'
      OBVIOUS
    <3>1. \A s \in (Steps \ todo) \ Standing : out'[s] = NoOut
      BY DEF StandingInv
    <3> QED
      BY <2>1, <3>1, StandingKept
  <2>4. FirmInv' /\ RecordInv'
    BY <2>1, <2>2, <2>3 DEF FirmInv, RecordInv
  <2> QED
    BY <1>1, <2>4
<1> QED
  BY <1>2, <1>3

(* A command ends the runner: a gate that is not repeated was executed, so   *)
(* the markers above it are outdated; a late step is left as it was or torn. *)
LEMMA StopWriteFirm ==
    ASSUME RunnerInv, CountersOK', DiskInv, FirmInv, NEW s \in Steps, NEW code, Stop(code),
           marker' = marker, host' = host, \A a \in Steps \ {s} : out'[a] = out[a],
           volume' = volume \/ ~Marked("worker-images"),
           s \in Late => out'[s] = out[s] \/ out'[s].result \notin {"passed", "failed"},
           s \in Gates \ AlwaysSteps => Executing(s)
    PROVE  DiskInv' /\ FirmInv' /\ RecordInv'
<1>1. ASSUME s \in Gates \ AlwaysSteps, NEW g \in Gates, Marked(g), s \in Under[g]
      PROVE  Outdated(marker[g])
  BY <1>1, ExecutedCaused
<1>2. DiskInv'
  BY <1>1, DiskWrite DEF RunnerInv
<1> QED
  BY <1>2, StopFirm

(* At a call that is no step, the runner is neither recording nor moving,    *)
(* but for the calls that do.                                                *)
LEMMA CallCheck ==
    ASSUME RunnerInv, RecordInv,
           NEW op \in {"ensure-workers", "preserve-matrix", "finish-failed"}, At(op)
    PROVE  phase = "check" /\ ~At("reconcile")
<1>1. ProcessOK /\ PhaseInv
  BY DEF RunnerInv, WalkInv
<1>2. \A s : ~Name(s)
  BY <1>1, CallHere
<1>3. ~At("reconcile")
  BY DEF At
<1>4. phase # "record"
  BY <1>1, <1>2 DEF PhaseInv, RecordInv
<1> QED
  BY <1>1, <1>3, <1>4 DEF PhaseInv, ProcessOK

(* ensure_worker_registry finds the workers its marker tells of. *)
LEMMA WorkersThere ==
    ASSUME RunnerInv, DiskInv, RecordInv, At("ensure-workers")
    PROVE  volume # 0
<1>1. ProcessOK /\ WalkInv /\ phase = "check"
  BY CallCheck DEF RunnerInv
<1>2. prog = "main" /\ pc \in DOMAIN Script \ Called /\ Script[pc].op = "ensure-workers" /\ Running
  BY <1>1, CallHere
<1>3. "worker-images" \in CalledBefore(pc) /\ "worker-images" \in Gates
  BY <1>2, OrderAssumption, GatesAssumption
<1>4. Torn = {}
  BY <1>1 DEF Torn
<1>5. Bound("worker-images", Under["worker-images"])
  BY <1>1, <1>2, <1>3, <1>4 DEF WalkInv, MainInv, MainBound, AllBound
<1>6. Marked("worker-images")
  BY <1>3, <1>5, UnderSelf DEF Bound, Marked, NoMarker
<1> QED
  BY <1>6 DEF DiskInv, MarksInv

(* preserve_stale_matrix never finds a stale lock while the volume lasts: a  *)
(* lock that stands was computed for the workers that stand.                 *)
LEMMA NeverStale ==
    ASSUME RunnerInv, DiskInv, FirmInv, RecordInv, At("preserve-matrix")
    PROVE  ~MatrixIsStale
<1>1. ProcessOK /\ phase = "check" /\ todo = {}
  BY CallCheck DEF RunnerInv, FirmInv
<1>2. prog = "main" /\ pc \in DOMAIN Script /\ Script[pc].op = "preserve-matrix" /\ Running
  BY <1>1, CallHere
<1>3. Ordered
  BY <1>2, ReconcileAssumption DEF Ordered
<1>4. StandingInv
  BY <1>3 DEF FirmInv
<1>5. "matrix-lock" \in Gates /\ "matrix-lock" \in Steps
      /\ UnderOf("matrix-lock") = Under["matrix-lock"]
      /\ "worker-images" \in Under["matrix-lock"] /\ "matrix-lock" \in Under["matrix-lock"]
  BY GatesAssumption, UnderOfGate, UnderSelf, ReconcileAssumption
<1>6. CASE Marked("matrix-lock")
  <2>1. "matrix-lock" \in Standing
    BY <1>1, <1>5, <1>6 DEF Standing
  <2>2. marker["matrix-lock"] = [a \in Under["matrix-lock"] |-> out[a]]
    BY <1>4, <1>5, <2>1 DEF StandingInv, Bound
  <2>3. Shape(marker["matrix-lock"], "matrix-lock")
    BY <1>5, <1>6 DEF DiskInv, MarksInv
  <2>4. out["matrix-lock"].basis.workers = out["worker-images"].basis.workers
    BY <1>5, <2>2, <2>3 DEF Shape
  <2> QED
    BY <2>4 DEF MatrixIsStale, LockedBasis
<1>7. CASE ~Marked("matrix-lock")
  <2>1. "matrix-lock" \notin Standing
    BY <1>7 DEF Standing
  <2>2. out["matrix-lock"] = NoOut
    BY <1>1, <1>4, <1>5, <2>1 DEF StandingInv
  <2> QED
    BY <2>2 DEF MatrixIsStale, LockedBasis, NoOut, Content
<1> QED
  BY <1>6, <1>7

(* A late step that has a marker binds the disk when it is executed again. *)
LEMMA LateMarked ==
    ASSUME RunnerInv, DiskInv, FirmInv, NEW s \in Late, Executing(s), Marked(s)
    PROVE  /\ marker[s] = [a \in Under[s] |-> out[a]]
           /\ Shape(marker[s], s) /\ s \in Under[s]
<1>1. ProcessOK /\ phase = "check" /\ Name(s) /\ todo = {}
  BY DEF RunnerInv, Executing, FirmInv
<1>2. Ordered
  BY <1>1, AskedAfter
<1>3. s \in Gates /\ s \in Steps /\ UnderOf(s) = Under[s] /\ s \in Under[s]
  BY GatesAssumption, UnderOfGate, UnderSelf DEF Late
<1>4. s \in Standing /\ StandingInv
  BY <1>1, <1>2, <1>3 DEF Standing, FirmInv
<1> QED
  BY <1>3, <1>4 DEF StandingInv, Bound, DiskInv, MarksInv

(* The repeated steps *)
LEMMA AlwaysFirm ==
    ASSUME RunnerInv, CountersOK', DiskInv, FirmInv, NEW s, RunAlways(s)
    PROVE  DiskInv' /\ FirmInv' /\ RecordInv'
<1> DEFINE basis == IF s = Probe THEN [NoBasis EXCEPT !.host = host] ELSE NoBasis
           c == Content(0, basis, "passed", TRUE)
<1>1. /\ s \in AlwaysSteps /\ s # "matrix-live-verification" /\ Executing(s) /\ ToRecord
      /\ out' = [out EXCEPT ![s] = c] /\ marker' = marker /\ host' = host /\ volume' = volume
  BY DEF RunAlways, Fresh, records, world, Probe
<1>2. s \in Gates /\ s \in Steps /\ s # "worker-images" /\ s # "matrix-lock"
      /\ s # "core-qualification" /\ (s # Probe => s = "registry-bootstrap")
  BY <1>1, GatesAssumption, NamedGates, ReconcileAssumption DEF Probe
<1>3. out'[s] = c /\ \A a \in Steps \ {s} : out'[a] = out[a]
  BY <1>1, <1>2 DEF RunnerInv, DiskOK
<1>4. host \in Nat /\ host \in 0..host
  BY DEF RunnerInv, CountersOK
<1>5. s # Probe => c = Content(0, NoBasis, "passed", TRUE)
  OBVIOUS
<1>6. s = Probe => c = Content(0, [NoBasis EXCEPT !.host = host], "passed", TRUE)
  OBVIOUS
<1>7. c.result = "passed"
  BY DEF Content
<1> HIDE DEF c
<1>8. Shape(out, s)'
  BY <1>1, <1>2, <1>3, <1>4, <1>5, <1>6, <1>7 DEF Shape, Probe
<1>9. s \in Late /\ Marked(s) => out'[s] = out[s]
  <2> SUFFICES ASSUME s \in Late, Marked(s) PROVE out[s] = c
    BY <1>3
  <2>1. s = "registry-bootstrap"
    BY <1>2 DEF Late
  <2>2. out[s] = marker[s][s] /\ Shape(marker[s], s)
    BY <1>1, LateMarked
  <2> QED
    BY <1>1, <1>5, <2>1, <2>2 DEF Shape, Probe
<1>10. s = Probe /\ Marked(Probe) =>
          marker[Probe][Probe].basis.host <= out'[Probe].basis.host
  <2> SUFFICES ASSUME s = Probe, Marked(s) PROVE marker[s][s].basis.host <= out'[s].basis.host
    OBVIOUS
  <2>1. Shape(marker[s], s)
    BY <1>2, UnderSelf DEF DiskInv, MarksInv
  <2>2. PICK h \in 0..host :
           marker[s][s] = Content(0, [NoBasis EXCEPT !.host = h], "passed", TRUE)
    BY <1>1, <2>1 DEF Shape
  <2>3. marker[s][s].basis.host = h
    BY <2>2 DEF Content, NoBasis
  <2>4. out'[s].basis.host = host
    BY <1>3, <1>6 DEF Content, NoBasis
  <2> QED
    BY <1>4, <2>3, <2>4
<1> QED
  BY <1>1, <1>2, <1>3, <1>8, <1>9, <1>10, ExecuteFirm

(* verify_matrix_live, and a drift it finds *)
LEMMA LiveFirm ==
    ASSUME RunnerInv, CountersOK', DiskInv, FirmInv, VerifyMatrixLive \/ MatrixDrift
    PROVE  DiskInv' /\ FirmInv' /\ RecordInv'
<1> DEFINE s == "matrix-live-verification"
<1>1. /\ s \in Gates /\ s \in Steps /\ "matrix-lock" \in Steps /\ "matrix-lock" \in Under[s]
      /\ s \notin DomainSteps \/ s \notin AlwaysSteps
  BY GatesAssumption, NamedGates, ReconcileAssumption
<1>2. CASE MatrixDrift
  <2>1. /\ Executing(s) /\ out' = [out EXCEPT ![s] = Partial(0, NoBasis)] /\ Stop(4)
        /\ marker' = marker /\ host' = host /\ volume' = volume
    BY <1>2 DEF MatrixDrift, records, world
  <2>2. out'[s] = Partial(0, NoBasis) /\ \A a \in Steps \ {s} : out'[a] = out[a]
    BY <1>1, <2>1 DEF RunnerInv, DiskOK
  <2>3. out'[s].result \notin {"passed", "failed"}
    BY <2>2 DEF Partial, Content
  <2> QED
    BY <1>1, <2>1, <2>2, <2>3, StopWriteFirm
<1>3. CASE VerifyMatrixLive
  <2> DEFINE c == Fresh(s, "passed", LockedBasis, TRUE)
  <2>1. /\ Executing(s) /\ out' = [out EXCEPT ![s] = c] /\ ToRecord
        /\ marker' = marker /\ host' = host /\ volume' = volume
    BY <1>3 DEF VerifyMatrixLive, records, world
  <2>2. out'[s] = c /\ \A a \in Steps \ {s} : out'[a] = out[a]
    BY <1>1, <2>1 DEF RunnerInv, DiskOK
  <2>3. out'["matrix-lock"].basis = LockedBasis
    BY <1>1, <2>2 DEF LockedBasis
  <2>4. c.result = "passed"
        /\ (s \in AlwaysSteps => c = Content(0, LockedBasis, "passed", TRUE))
    BY DEF Fresh, Content
  <2> HIDE DEF c
  <2>5. Shape(out, s)'
    BY <2>2, <2>3, <2>4 DEF Shape, Probe
  <2>6. s \in Late /\ Marked(s) => out'[s] = out[s]
    <3> SUFFICES ASSUME s \in Late, Marked(s) PROVE out[s] = c
      BY <2>2
    <3>1. marker[s] = [a \in Under[s] |-> out[a]] /\ Shape(marker[s], s) /\ s \in Under[s]
      BY <2>1, LateMarked
    <3>2. s \in AlwaysSteps
      BY DEF Late
    <3> QED
      BY <1>1, <2>4, <3>1, <3>2 DEF Shape, LockedBasis
  <2> QED
    BY <1>1, <2>1, <2>2, <2>5, <2>6, ExecuteFirm DEF Probe
<1> QED
  BY <1>2, <1>3

(* The commands of the ordinary gates *)
LEMMA GateFirm ==
    ASSUME RunnerInv, CountersOK', DiskInv, FirmInv, NEW s \in Gates,
           RunGate(s) \/ KeepEvidence(s) \/ RefuseOutput(s)
    PROVE  DiskInv' /\ FirmInv' /\ RecordInv'
<1>1. s \in Steps /\ "matrix-lock" \in Steps /\ s \in Under[s] /\ ProcessOK
  BY NamedGates, UnderSelf DEF RunnerInv
<1>2. /\ Executing(s) /\ s \notin AlwaysSteps /\ marker' = marker /\ host' = host /\ volume' = volume
  BY ReconcileAssumption DEF RunGate, KeepEvidence, RefuseOutput, Kept, Refused, Ordinary,
     records, world
<1>3. s # Probe \/ s \notin AlwaysSteps
  BY <1>2
<1>4. s = "core-qualification" => "matrix-lock" \in Under[s] /\ s # "matrix-lock"
  BY DepsAssumption
<1>5. ASSUME NEW c, out' = [out EXCEPT ![s] = c]
      PROVE  out'[s] = c /\ \A a \in Steps \ {s} : out'[a] = out[a]
  BY <1>1, <1>5 DEF RunnerInv, DiskOK
<1>6. CASE RunGate(s)
  <2>1. PICK result \in {"passed", "failed"}, basis \in {LockOf(s), out[s].basis},
             sound \in BOOLEAN :
           /\ out' = [out EXCEPT ![s] = Fresh(s, result, basis, sound)]
           /\ basis # LockOf(s) => s \in Masking
    BY <1>6, RunGateWrites
  <2> DEFINE c == Fresh(s, result, basis, sound)
  <2>2. s # "worker-images" /\ s # "matrix-lock" /\ ToRecord
    BY <1>6 DEF RunGate, Ordinary
  <2>3. out'[s] = c /\ \A a \in Steps \ {s} : out'[a] = out[a]
    BY <1>5, <2>1
  <2>4. c.result = result /\ (s \in LockBound \ Masking => c.basis = LockedBasis)
    BY <2>1 DEF Fresh, Content, LockOf
  <2>5. s = "core-qualification" => s \in LockBound \ Masking
    BY <1>4, GatesAssumption DEF LockBound
  <2>6. out'["matrix-lock"].basis = LockedBasis
    BY <1>1, <2>2, <2>3 DEF LockedBasis
  <2> HIDE DEF c
  <2>7. Shape(out, s)'
    BY <1>2, <2>2, <2>3, <2>4, <2>5, <2>6 DEF Shape
  <2> QED
    BY <1>1, <1>2, <2>2, <2>3, <2>7, ExecuteFirm DEF Late
<1>7. CASE KeepEvidence(s)
  <2>1. DiskOK
    BY DEF RunnerInv
  <2>2. PICK basis :
          /\ out' = [out EXCEPT ![s] = [LogOnly(s) EXCEPT !.basis = basis]]
          /\ s # "plugin-build" => out' = [out EXCEPT ![s] = LogOnly(s)]
    BY <1>1, <1>7, <2>1, KeepEvidenceWrites
  <2>3. /\ out'[s] = [LogOnly(s) EXCEPT !.basis = basis]
        /\ s # "plugin-build" => out'[s] = LogOnly(s)
        /\ \A a \in Steps \ {s} : out'[a] = out[a]
    BY <1>5, <2>2
  <2>4. /\ out'[s].result = out[s].result
        /\ s # "plugin-build" => out'[s].basis = out[s].basis
    <3>1. /\ LogOnly(s).result = out[s].result /\ LogOnly(s).basis = out[s].basis
          /\ [LogOnly(s) EXCEPT !.basis = basis].result = LogOnly(s).result
      BY <1>1, <2>1 DEF LogOnly, DiskOK, Contents
    <3> QED
      BY <2>3, <3>1
  <2>5. CASE ~Recordable(s)
    <3>1. Stop(4)
      BY <1>7, <2>5 DEF KeepEvidence
    <3> QED
      BY <1>1, <1>2, <2>3, <3>1, StopWriteFirm DEF Late
  <2>6. CASE Recordable(s)
    <3>1. ToRecord /\ out[s].result \in {"passed", "failed"}
      BY <1>7, <2>6 DEF KeepEvidence, Kept
    <3>2. ~Ordered
      <4>1. Ordered => out[s] = NoOut
        BY <1>1, <1>2, ExecutingUnmarked DEF DiskInv
      <4> QED
        BY <3>1, <4>1 DEF NoOut, Content
    <3>3. s # "worker-images" /\ s # "matrix-lock"
      BY <1>1, <1>2, <3>2, AskedAfter DEF Executing
    <3>4. s = "core-qualification" /\ out[s].result = "failed" =>
             out[s].basis = out["matrix-lock"].basis /\ out'["matrix-lock"] = out["matrix-lock"]
      BY <1>1, <1>4, <2>3, <2>6 DEF Recordable, LockedBasis
    <3>5. Shape(out, s)'
      BY <1>2, <2>3, <2>4, <3>1, <3>3, <3>4 DEF Shape
    <3> QED
      BY <1>1, <1>2, <2>3, <3>1, <3>3, <3>5, ExecuteFirm DEF Late
  <2> QED
    BY <2>5, <2>6
<1>8. CASE RefuseOutput(s)
  <2>1. out'[s] = LogOnly(s) /\ (\A a \in Steps \ {s} : out'[a] = out[a]) /\ \E code : Stop(code)
    BY <1>5, <1>8 DEF RefuseOutput
  <2> QED
    BY <1>1, <1>2, <2>1, StopWriteFirm DEF Late
<1> QED
  BY <1>6, <1>7, <1>8

(* The workers, their lock and the terminal steps *)
LEMMA FixedFirm ==
    ASSUME RunnerInv, CountersOK', DiskInv, FirmInv,
           BuildWorkers \/ LockMatrix \/ ResolvePublicFailure \/ GenerateEvidence \/ CleanUp
    PROVE  DiskInv' /\ FirmInv' /\ RecordInv'
<1>1. /\ {"worker-images", "matrix-lock"} \subseteq Steps
      /\ {"worker-images", "matrix-lock"} \subseteq Gates
      /\ "worker-images" \notin AlwaysSteps /\ "matrix-lock" \notin AlwaysSteps
      /\ ProcessOK
  BY NamedGates, GatesAssumption, ReconcileAssumption DEF RunnerInv
<1>2. ASSUME NEW s \in Steps, NEW c, out' = [out EXCEPT ![s] = c]
      PROVE  out'[s] = c /\ \A a \in Steps \ {s} : out'[a] = out[a]
  BY <1>2 DEF RunnerInv, DiskOK
<1>3. CASE BuildWorkers
  <2> DEFINE s == "worker-images"
  <2>1. PICK digest \in NextDigests :
           /\ volume' = digest
           /\ out' = [out EXCEPT ![s] = Fresh(s, "passed", [NoBasis EXCEPT !.workers = digest], TRUE)]
           /\ ToRecord /\ UNCHANGED <<records, host, budget>>
    BY <1>3 DEF BuildWorkers, PushWorkers
  <2>2. digest # 0
    BY BoundAssumption DEF NextDigests
  <2>3. out'[s] = Fresh(s, "passed", [NoBasis EXCEPT !.workers = digest], TRUE)
        /\ \A a \in Steps \ {s} : out'[a] = out[a]
    BY <1>1, <1>2, <2>1
  <2>4. out'[s].result = "passed" /\ out'[s].basis.workers = digest
    BY <2>3 DEF Fresh, Content, NoBasis
  <2>5. Executing(s) /\ marker' = marker /\ host' = host
    BY <1>3, <2>1 DEF BuildWorkers, records
  <2>6. Shape(out, s)'
    BY <1>1, <2>4 DEF Shape
  <2> QED
    BY <1>1, <2>1, <2>2, <2>3, <2>4, <2>5, <2>6, ExecuteFirm DEF Late
<1>4. CASE LockMatrix
  <2> DEFINE s == "matrix-lock"
  <2> DEFINE basis == IF LockedBasis # NoBasis THEN LockedBasis
                      ELSE [workers |-> volume, host |-> host, at |-> inv]
  <2>1. /\ Executing(s) /\ out' = [out EXCEPT ![s] = Fresh(s, "passed", basis, TRUE)]
        /\ ToRecord /\ marker' = marker /\ host' = host /\ volume' = volume
    BY <1>4 DEF LockMatrix, records, world
  <2>2. out'[s] = Fresh(s, "passed", basis, TRUE) /\ \A a \in Steps \ {s} : out'[a] = out[a]
    BY <1>1, <1>2, <2>1
  <2>3. Name(s) /\ phase = "check" /\ Ordered
    BY <1>1, <2>1, AskedAfter DEF Executing
  <2>4. out[s] = NoOut
    BY <1>1, <2>1, <2>3, ExecutingUnmarked DEF DiskInv
  <2>5. out'[s].result = "passed" /\ out'[s].basis.workers = volume
    BY <2>2, <2>4 DEF Fresh, Content, LockedBasis, NoOut
  <2>6. prog = "main" /\ pc \in Called /\ s = Script[pc].step /\ Running
    <3>1. prog # "failed"
      <4>1. s \notin Terminal
        BY <1>1, GatesAssumption
      <4>2. prog = "failed" => s \in Terminal
        BY <1>1, <2>3, StepHere DEF Terminal
      <4> QED
        BY <4>1, <4>2
    <3> QED
      BY <1>1, <2>3, <3>1, StepHere DEF ProcessOK
  <2>7. Torn = {}
    BY <2>3 DEF Torn
  <2>8. AllBound(CalledBefore(pc) \cap Gates)
    BY <2>6, <2>7 DEF RunnerInv, WalkInv, MainInv, MainBound
  <2>9. "worker-images" \in CalledBefore(pc)
    <3>1. "worker-images" \in UNION {Under[d] : d \in Deps[s]}
      BY <1>1, UnderSelf, ReconcileAssumption
    <3> QED
      BY <1>1, <2>6, <3>1, OrderAssumption
  <2>10. Bound("worker-images", Under["worker-images"]) /\ "worker-images" \in Under["worker-images"]
    BY <1>1, <2>8, <2>9, UnderSelf DEF AllBound
  <2>11. /\ Marked("worker-images")
         /\ marker["worker-images"]["worker-images"] = out["worker-images"]
    BY <2>10 DEF Bound, Marked, NoMarker
  <2>12. out["worker-images"].basis.workers = volume
    BY <2>11 DEF DiskInv, MarksInv
  <2>13. out'["worker-images"] = out["worker-images"]
    BY <1>1, <2>2
  <2>14. Shape(out, s)'
    BY <1>1, <2>5, <2>12, <2>13 DEF Shape
  <2> QED
    BY <1>1, <2>1, <2>2, <2>14, ExecuteFirm DEF Late
<1>5. ASSUME NEW s \in Terminal, NEW c, Executing(s), out' = [out EXCEPT ![s] = c],
             marker' = marker, host' = host, volume' = volume,
             ToRecord \/ \E code : Stop(code)
      PROVE  DiskInv' /\ FirmInv' /\ RecordInv'
  <2>1. s \in Steps /\ s \notin Gates /\ s \notin AlwaysSteps /\ s # "worker-images"
    BY <1>1, GatesAssumption, NamedGates
  <2>2. \A a \in Steps \ {s} : out'[a] = out[a]
    BY <1>2, <1>5, <2>1
  <2>3. CASE ToRecord
    BY <1>5, <2>1, <2>2, <2>3, ExecuteFirm DEF Late
  <2>4. CASE \E code : Stop(code)
    BY <1>5, <2>1, <2>2, <2>4, StopWriteFirm DEF Late
  <2> QED
    BY <1>5, <2>3, <2>4
<1>6. CASE ResolvePublicFailure \/ CleanUp
  BY <1>5, <1>6 DEF ResolvePublicFailure, CleanUp, records, world, Terminal
<1>7. CASE GenerateEvidence
  <2>1. \E c : out' = [out EXCEPT ![FinalEvidence] = c]
    BY <1>7 DEF GenerateEvidence
  <2> QED
    BY <1>5, <1>7, <2>1 DEF GenerateEvidence, world, Terminal
<1> QED
  BY <1>3, <1>4, <1>6, <1>7

(* A step whose verification succeeds has bound everything below it. *)
LEMMA VerifiedBelow ==
    ASSUME MarkersAreMaps, NEW s \in Steps, Verify(DepsOf(s))
    PROVE  \A a \in UnderOf(s) \ {s} :
              a \in Steps /\ Marked(a) /\ Bound(a, UnderOf(a)) /\ UnderOf(a) \subseteq UnderOf(s)
<1> SUFFICES ASSUME NEW a \in UnderOf(s) \ {s}
             PROVE  a \in Steps /\ Marked(a) /\ Bound(a, UnderOf(a)) /\ UnderOf(a) \subseteq UnderOf(s)
  OBVIOUS
<1>1. UnderOf(s) = {s} \cup UNION {UnderOf(d) : d \in DepsOf(s)} /\ DepsOf(s) \subseteq Steps
  BY UnderOfDeps
<1>2. PICK d \in DepsOf(s) : a \in UnderOf(d)
  BY <1>1
<1>3. d \in Steps /\ UnderOf(a) \subseteq UnderOf(d) /\ UnderOf(d) \subseteq UnderOf(s)
  BY <1>1, <1>2, UnderOfClosed
<1>4. a \in Steps /\ a \in UnderOf(a)
  BY <1>2, <1>3, UnderOfType, UnderOfDeps
<1>5. \A x \in UnderOf(d) : Local(x)
  BY <1>2 DEF Verify
<1>6. Verify({a}) /\ Local(a)
  BY <1>2, <1>3, <1>5 DEF Verify
<1>7. Bound(a, UnderOf(a))
  BY <1>4, <1>6, ValidBinds
<1> QED
  BY <1>3, <1>4, <1>6, <1>7 DEF Local, Marked

(* What a marker tells of a gate is told by the files below that gate. *)
LEMMA ShapeAgree ==
    ASSUME NEW b \in Gates, NEW m1, NEW m2, Shape(m1, b), \A a \in Under[b] : m1[a] = m2[a]
    PROVE  Shape(m2, b)
<1>1. /\ b \in Under[b]
      /\ b = "core-qualification" => "matrix-lock" \in Under[b]
      /\ b = "matrix-lock" => "worker-images" \in Under[b]
      /\ b = "matrix-live-verification" => "matrix-lock" \in Under[b]
  BY UnderSelf, DepsAssumption, ReconcileAssumption
<1> QED
  BY <1>1 DEF Shape

(* A gate that binds the disk with everything below it is not outdated. *)
LEMMA BoundCurrent ==
    ASSUME DiskInv, CountersOK, NEW g \in Gates, Marked(g), Bound(g, Under[g]),
           Probe \in AlwaysSteps \cap Under[g] => marker[Probe][Probe] = out[Probe]
    PROVE  ~Outdated(marker[g])
<1>1. DOMAIN marker[g] = Under[g] /\ \A a \in Under[g] : marker[g][a] = out[a]
  BY DEF Bound
<1>2. ~Drifted(marker[g])
  BY <1>1 DEF Drifted
<1>3. ~HostMoved(marker[g])
  <2> SUFFICES ASSUME HostMoved(marker[g]) PROVE FALSE
    OBVIOUS
  <2>1. Probe \in AlwaysSteps \cap Under[g]
    BY <1>1 DEF HostMoved
  <2>2. PICK h \in 0..host :
           marker[g][Probe] = Content(0, [NoBasis EXCEPT !.host = h], "passed", TRUE)
    BY <2>1 DEF DiskInv, MarksInv, Shape
  <2>3. marker[g][Probe].basis.host \in Nat
    BY <2>2 DEF Content, NoBasis, CountersOK
  <2>4. marker[Probe][Probe] = marker[g][Probe]
    BY <1>1, <2>1
  <2> QED
    BY <2>3, <2>4 DEF HostMoved
<1> QED
  BY <1>2, <1>3 DEF Outdated

(* While a domain step is recorded no other one has failed: finish_failed    *)
(* would have ended the run, and a failure from an earlier invocation was    *)
(* moved, with what it rests on, before anything was executed again.         *)
LEMMA RecordAlone ==
    ASSUME RunnerInv, DiskInv, FirmInv, Ordered, phase = "record",
           NEW s \in DomainSteps, Name(s), ~Marked(s)
    PROVE  FailedMarks = {}
<1> SUFFICES ASSUME NEW e \in FailedMarks PROVE FALSE
  OBVIOUS
<1>1. ProcessOK /\ WalkInv /\ todo = {} /\ StandingInv /\ CountersOK
  BY DEF RunnerInv, FirmInv
<1>2. e \in DomainSteps /\ Marked(e) /\ marker[e][e].result = "failed"
  BY DEF FailedMarks, Marked
<1>3. e \in Gates /\ e \in Steps /\ s \in Gates /\ e # s /\ UnderOf(e) = Under[e] /\ e \in Under[e]
  BY <1>2, GatesAssumption, UnderOfGate, UnderSelf
<1>4. e \in Standing
  BY <1>1, <1>2, <1>3 DEF Standing
<1>5. Bound(e, Under[e]) /\ Under[e] \subseteq Standing
  BY <1>1, <1>3, <1>4 DEF StandingInv
<1>6. out[e].result = "failed"
  BY <1>2, <1>3, <1>5 DEF Bound
<1>7. prog = "main" /\ pc \in Called /\ s = Script[pc].step /\ Running /\ pc \in Nat
  <2>1. prog = "failed" => s \in Terminal
    BY <1>1, StepHere DEF Terminal
  <2>2. s \notin Terminal
    BY <1>3, GatesAssumption
  <2> QED
    BY <1>1, <2>1, <2>2, StepHere DEF ProcessOK
<1>8. failedStep = NoStep
  BY <1>1, <1>7, NoFailureYet, StepHere
<1>9. e \notin CalledBefore(pc)
  <2> SUFFICES ASSUME e \in CalledBefore(pc) PROVE FALSE
    OBVIOUS
  <2>1. MainPassed(pc, NoStep)
    BY <1>1, <1>7, <1>8 DEF WalkInv, MainInv
  <2>2. e # NoStep
    BY <1>3, GatesAssumption
  <2> QED
    BY <1>3, <1>6, <2>1, <2>2 DEF MainPassed
<1>10. s \in Prefix(e)
  <2>1. PICK j \in Called : e = Script[j].step
    <3>1. e \in {Script[i].step : i \in Called}
      BY <1>3, OrderAssumption
    <3> QED
      BY <3>1
  <2>2. j \in Nat /\ j # pc /\ ~(j < pc)
    <3>1. Called \subseteq Nat
      BY ScriptAssumption DEF Called
    <3> QED
      BY <1>3, <1>7, <1>9, <2>1, <3>1 DEF CalledBefore
  <2>3. s \in CalledBefore(j)
    BY <1>7, <2>1, <2>2 DEF CalledBefore
  <2>4. Prefix(e) = CalledBefore(j) \cup {e}
    BY <1>2, <2>1, OrderAssumption
  <2> QED
    BY <2>3, <2>4
<1>11. Outdated(marker[e])
  BY <1>3, <1>10 DEF DiskInv, FailInv
<1>12. Probe \in AlwaysSteps \cap Under[e] => marker[Probe][Probe] = out[Probe]
  <2> SUFFICES ASSUME Probe \in AlwaysSteps, Probe \in Under[e]
               PROVE  marker[Probe][Probe] = out[Probe]
    OBVIOUS
  <2>1. Probe \in Standing /\ Probe \in Gates
    BY <1>5, GatesAssumption
  <2>2. Bound(Probe, Under[Probe]) /\ Probe \in Under[Probe]
    BY <1>1, <2>1, UnderOfGate, UnderSelf DEF StandingInv
  <2> QED
    BY <2>2 DEF Bound
<1> QED
  BY <1>1, <1>2, <1>3, <1>5, <1>11, <1>12, BoundCurrent

(* What record writes keeps every marker outdated that was: the probe only   *)
(* ever records a newer host.                                                *)
LEMMA RecordOutdates ==
    ASSUME DiskInv, RecordInv, CountersOK, phase = "record", MarkersAreMaps,
           NEW s \in Steps, s = Here, out' = out, marker' = [marker EXCEPT ![s] = Payload(s)],
           NEW g \in Gates, Marked(g), NEW m, m = marker[g], Outdated(m)
    PROVE  Outdated(m)'
<1>1. \A x \in Steps : marker'[x] = IF x = s THEN Payload(s) ELSE marker[x]
  BY DEF MarkersAreMaps
<1>2. CASE Drifted(m)
  BY <1>2 DEF Drifted, Outdated
<1>3. CASE HostMoved(m) /\ s # Probe
  <2>1. Probe \in Steps
    BY <1>3, NamedGates DEF HostMoved
  <2>2. marker'[Probe] = marker[Probe]
    BY <1>1, <1>3, <2>1
  <2> QED
    BY <1>3, <2>2 DEF HostMoved, Outdated, Marked
<1>4. CASE HostMoved(m) /\ s = Probe
  <2>1. Probe \in AlwaysSteps /\ Probe \in Gates /\ Marked(Probe)
    BY <1>4, GatesAssumption DEF HostMoved
  <2>2. Probe \in Under[Probe] /\ UnderOf(Probe) = Under[Probe] /\ Probe \in Under[g]
    BY <1>4, <2>1, UnderSelf, UnderOfGate DEF HostMoved, DiskInv, MarksInv
  <2>3. marker'[Probe] = [a \in Under[Probe] |-> out[a]]
    BY <1>1, <1>4, <2>2 DEF Payload
  <2>4. marker[Probe][Probe].basis.host <= out[Probe].basis.host
    BY <1>4, <2>1 DEF RecordInv
  <2>5. Shape(m, Probe) /\ Shape(marker[Probe], Probe) /\ Shape(out, Probe)
    BY <1>4, <2>1, <2>2 DEF DiskInv, MarksInv, RecordInv
  <2>6. ASSUME NEW c, NEW h \in 0..host, c = Content(0, [NoBasis EXCEPT !.host = h], "passed", TRUE)
        PROVE  c.basis.host \in Nat
    BY <2>6 DEF Content, NoBasis, CountersOK
  <2>7. /\ m[Probe].basis.host \in Nat /\ marker[Probe][Probe].basis.host \in Nat
        /\ out[Probe].basis.host \in Nat
    BY <2>1, <2>5, <2>6 DEF Shape
  <2>8. m[Probe].basis.host < out[Probe].basis.host
    BY <1>4, <2>4, <2>7 DEF HostMoved
  <2>9. marker'[Probe] # NoMarker /\ marker'[Probe][Probe] = out[Probe]
    BY <2>2, <2>3 DEF NoMarker
  <2> QED
    BY <1>4, <2>8, <2>9 DEF HostMoved, Outdated, Marked
<1> QED
  BY <1>2, <1>3, <1>4 DEF Outdated

(* record writes a marker: what was not outdated still rests on it. *)
LEMMA RecordRests ==
    ASSUME RunnerInv, DiskInv, FirmInv, RecordInv, RecordMarker, NEW s, s = Here,
           ~(s \in AlwaysSteps /\ Ordered /\ Marked(s)),
           NEW g \in Gates, Marked(g), g # s
    PROVE  Outdated(marker[g])' \/ Rests(g)'
<1>1. /\ ProcessOK /\ CountersOK /\ MarkersAreMaps /\ WalkInv /\ phase = "record" /\ todo = {}
      /\ MayRecord(s) /\ out' = out /\ marker' = [marker EXCEPT ![s] = Payload(s)]
  BY DEF RunnerInv, FirmInv, RecordMarker
<1>2. Name(s)
  BY <1>1 DEF WalkInv, PhaseInv, RecordInv
<1>3. s \in Steps /\ g \in Steps
  BY <1>1, <1>2, StepHere, NamedGates
<1>4. \A x \in Steps : marker'[x] = IF x = s THEN Payload(s) ELSE marker[x]
  BY <1>1 DEF MarkersAreMaps
<1>5. PICK m : m = marker[g]
  OBVIOUS
<1>6. m = marker'[g]
  BY <1>3, <1>4, <1>5
<1> SUFFICES ASSUME ~Outdated(m)' PROVE Rests(g)'
  BY <1>6 DEF Outdated, HostMoved, Drifted
<1>7. ~Outdated(m)
  BY <1>1, <1>3, <1>5, RecordOutdates
<1>8. Rests(g)
  BY <1>5, <1>7 DEF DiskInv, RestInv
<1>9. /\ UnderOf(g) = Under[g] /\ UnderOf(g)' = Under[g] /\ Under[g] \subseteq Gates
      /\ DOMAIN m = Under[g]
      /\ \A b \in Under[g] : UnderOf(b) = Under[b] /\ UnderOf(b)' = Under[b] /\ b \in Steps
  BY <1>5, UnderOfGate, UnderOfGateNext, UnderSelf DEF DiskInv, MarksInv
<1>10. \A b \in Under[g] : /\ marker[b] = Narrow(m, Under[b])
                           /\ b \notin AlwaysSteps => out[b] = m[b]
  BY <1>5, <1>8, <1>9 DEF Rests
<1>11. CASE s \notin Under[g]
  BY <1>1, <1>4, <1>6, <1>9, <1>10, <1>11 DEF Rests
<1>12. CASE s \in Under[g]
  <2>1. /\ s \in Gates /\ s \in Under[s] /\ Under[s] \subseteq Under[g]
        /\ UnderOf(s) = Under[s] /\ DepsOf(s) = Deps[s]
    BY <1>9, <1>12, UnderSelf, UnderClosed, UnderOfGate DEF Closed
  <2>2. marker[s] = [a \in Under[s] |-> m[a]]
    BY <1>10, <1>12 DEF Narrow
  <2>3. Marked(s)
    BY <2>1, <2>2 DEF Marked, NoMarker
  <2>4. ~Ordered /\ (s \in AlwaysSteps => s = Probe)
    <3>1. s \in Standing
      BY <1>1, <1>3, <2>3 DEF Standing
    <3>2. ~Ordered
      BY <1>1, <2>3, <3>1 DEF FirmInv, StandingInv
    <3> QED
      BY <1>1, <1>2, <3>2, AskedAfter DEF Late
  <2>5. s \in AlwaysSteps /\ s = Probe
    <3> SUFFICES ASSUME s \notin AlwaysSteps PROVE FALSE
      BY <2>4
    <3>1. Outdated(marker[s])
      BY <1>1, <2>1, <2>3 DEF RecordInv
    <3>2. Outdated(m)
      BY <1>9, <2>1, <2>2, <3>1 DEF Outdated, HostMoved, Drifted
    <3> QED
      BY <1>7, <3>2
  <2>6. m[s] = out[s]
    <3>1. Shape(m, s) /\ Shape(out, s)
      BY <1>1, <1>5, <1>12, <2>1 DEF DiskInv, MarksInv, RecordInv
    <3>2. PICK h \in 0..host : m[s] = Content(0, [NoBasis EXCEPT !.host = h], "passed", TRUE)
      BY <2>5, <3>1 DEF Shape
    <3>3. PICK k \in 0..host : out[s] = Content(0, [NoBasis EXCEPT !.host = k], "passed", TRUE)
      BY <2>5, <3>1 DEF Shape
    <3>4. m[s].basis.host = h /\ out[s].basis.host = k
      BY <3>2, <3>3 DEF Content, NoBasis
    <3>5. marker[s][s] = m[s]
      BY <2>1, <2>2
    <3>6. h <= k
      BY <1>1, <2>3, <2>5, <3>4, <3>5 DEF RecordInv
    <3>7. marker'[s] = [a \in Under[s] |-> out[a]]
      BY <1>3, <1>4, <2>1 DEF Payload
    <3>8. marker'[s] # NoMarker /\ marker'[s][s] = out[s]
      BY <2>1, <3>7 DEF NoMarker
    <3>9. ~(h < k)
      BY <1>9, <1>12, <2>5, <3>4, <3>8 DEF Outdated, HostMoved, Marked
    <3>10. h = k
      BY <1>1, <3>6, <3>9 DEF CountersOK
    <3> QED
      BY <3>2, <3>3, <3>10
  <2>7. \A a \in Under[s] : out[a] = m[a]
    <3> SUFFICES ASSUME NEW a \in Under[s], a # s PROVE out[a] = m[a]
      BY <2>6
    <3>1. Bound(a, UnderOf(a))
      BY <1>1, <1>3, <2>1, VerifiedBelow DEF MayRecord
    <3>2. a \in Under[g] /\ UnderOf(a) = Under[a] /\ a \in Under[a]
      BY <1>9, <2>1, UnderSelf
    <3>3. marker[a] = [x \in Under[a] |-> out[x]] /\ marker[a] = [x \in Under[a] |-> m[x]]
      BY <1>10, <3>1, <3>2 DEF Bound, Narrow
    <3> QED
      BY <3>2, <3>3
  <2>8. marker'[s] = Narrow(m, Under[s])
    BY <1>3, <1>4, <2>1, <2>7 DEF Payload, Narrow
  <2> QED
    BY <1>1, <1>4, <1>6, <1>9, <1>10, <2>6, <2>8 DEF Rests
<1> QED
  BY <1>11, <1>12

(* record leaves the markers on the disk true. *)
LEMMA RecordMarks ==
    ASSUME RunnerInv, CountersOK', DiskInv, FirmInv, RecordInv, RecordMarker
    PROVE  MarksInv'
<1>0. PICK s : s = Here
  OBVIOUS
<1>1. /\ ProcessOK /\ CountersOK /\ MarkersAreMaps /\ WalkInv /\ phase = "record" /\ MayRecord(s)
      /\ out' = out /\ volume' = volume /\ host' = host
      /\ marker' = [marker EXCEPT ![s] = Payload(s)]
  BY <1>0 DEF RunnerInv, RecordMarker, world
<1>2. Name(s)
  BY <1>0, <1>1 DEF WalkInv, PhaseInv, RecordInv
<1>3. s \in Steps /\ Gates \subseteq Steps /\ "worker-images" \in Gates
      /\ PublicFailure \in Steps
  BY <1>1, <1>2, StepHere, NamedGates, GatesAssumption DEF Terminal
<1>4. \A x \in Steps : marker'[x] = IF x = s THEN Payload(s) ELSE marker[x]
  BY <1>1 DEF MarkersAreMaps
<1>5. ASSUME NEW m, NEW b, Shape(m, b) PROVE Shape(m, b)'
  BY <1>1, <1>5, ShapeFrame DEF CountersOK
<1>6. ASSUME NEW g \in Gates, marker'[g] # NoMarker
      PROVE  DOMAIN marker'[g] = Under[g] /\ \A b \in Under[g] : Shape(marker[g], b)'
  <2>1. PICK m : m = marker'[g]
    OBVIOUS
  <2>2. ASSUME NEW b \in Under[g] PROVE Shape(m, b)
    <3>1. CASE g # s
      <4>1. m = marker[g] /\ Marked(g)
        BY <1>3, <1>4, <1>6, <2>1, <3>1 DEF Marked
      <4> QED
        BY <4>1 DEF DiskInv, MarksInv
    <3>2. CASE g = s
      <4>1. UnderOf(g) = Under[g] /\ b \in Gates /\ g \in Gates /\ b \in Steps
        BY <1>3, UnderOfGate, UnderSelf
      <4>2. m = [a \in Under[g] |-> out[a]]
        BY <1>3, <1>4, <2>1, <3>2, <4>1 DEF Payload
      <4>3. CASE b = s
        <5>1. Shape(out, b)
          BY <1>0, <1>1, <1>3, <3>2, <4>3 DEF RecordInv
        <5>2. \A a \in Under[b] : out[a] = m[a]
          BY <3>2, <4>2, <4>3
        <5> QED
          BY <4>1, <5>1, <5>2, ShapeAgree
      <4>4. CASE b # s
        <5>1. Marked(b) /\ Bound(b, Under[b]) /\ Under[b] \subseteq Under[g]
          BY <1>1, <1>3, <3>2, <4>1, <4>4, VerifiedBelow, UnderOfGate DEF MayRecord
        <5>2. Shape(marker[b], b)
          BY <4>1, <5>1, UnderSelf DEF DiskInv, MarksInv
        <5>3. \A a \in Under[b] : marker[b][a] = m[a]
          BY <4>2, <5>1 DEF Bound
        <5> QED
          BY <4>1, <5>2, <5>3, ShapeAgree
      <4> QED
        BY <4>3, <4>4
    <3> QED
      BY <3>1, <3>2
  <2>3. ASSUME NEW b \in Under[g] PROVE Shape(marker[g], b)'
    <3>1. Shape(m, b)'
      BY <1>5, <2>2
    <3> QED
      BY <2>1, <3>1 DEF Shape
  <2>4. DOMAIN marker'[g] = Under[g]
    <3>1. CASE g # s
      BY <1>3, <1>4, <1>6, <3>1 DEF DiskInv, MarksInv, Marked
    <3>2. CASE g = s
      BY <1>3, <1>4, <3>2, UnderOfGate DEF Payload
    <3> QED
      BY <3>1, <3>2
  <2> QED
    BY <2>3, <2>4
<1>7. DOMAIN marker'[PublicFailure] # {PublicFailure}
  <2>1. CASE s # PublicFailure
    BY <1>3, <1>4, <2>1 DEF DiskInv, MarksInv
  <2>2. CASE s = PublicFailure
    <3>1. prog = "failed"
      BY <1>1, <1>2, <2>2, StepHere, TerminalNames DEF ProcessOK
    <3>2. FailedBound(pc, failedStep) /\ ~Ambiguous
      BY <1>1, <1>2, <3>1, StepHere DEF WalkInv, FailedInv, DiskInv, FailInv
    <3>3. UnderOf(s) = {PublicFailure} \cup Under[failedStep] /\ failedStep \in Gates
      BY <2>2, <3>2, FailedUnder, GatesAssumption DEF FailedBound
    <3>4. failedStep \in Under[failedStep] /\ failedStep # PublicFailure
      BY <3>3, UnderSelf, TerminalNames
    <3>5. DOMAIN marker'[s] = UnderOf(s)
      BY <1>3, <1>4 DEF Payload
    <3> QED
      BY <2>2, <3>3, <3>4, <3>5
  <2> QED
    BY <2>1, <2>2
<1>8. marker'["worker-images"] # NoMarker =>
         volume' # 0 /\ marker'["worker-images"]["worker-images"].basis.workers = volume'
  <2>1. CASE s # "worker-images"
    BY <1>1, <1>3, <1>4, <2>1 DEF DiskInv, MarksInv, Marked
  <2>2. CASE s = "worker-images"
    <3>1. marker'[s] = [a \in Under[s] |-> out[a]] /\ s \in Under[s]
      BY <1>3, <1>4, <2>2, UnderOfGate, UnderSelf DEF Payload
    <3> QED
      BY <1>0, <1>1, <2>2, <3>1 DEF RecordInv
  <2> QED
    BY <2>1, <2>2
<1> QED
  BY <1>6, <1>7, <1>8 DEF MarksInv, Marked

(* It leaves at most one failure. *)
LEMMA RecordFailure ==
    ASSUME RunnerInv, DiskInv, FirmInv, RecordInv, RecordMarker, NEW s, s = Here,
           ~(s \in AlwaysSteps /\ Ordered /\ Marked(s))
    PROVE  /\ FailInv'
           /\ s \notin DomainSteps => FailedMarks' = FailedMarks
           /\ s \in DomainSteps => FailedMarks = {}
<1>1. /\ ProcessOK /\ CountersOK /\ MarkersAreMaps /\ WalkInv /\ phase = "record" /\ todo = {}
      /\ MayRecord(s) /\ out' = out /\ marker' = [marker EXCEPT ![s] = Payload(s)]
  BY DEF RunnerInv, RecordMarker, FirmInv
<1>2. Name(s)
  BY <1>1 DEF WalkInv, PhaseInv, RecordInv
<1>3. s \in Steps /\ DomainSteps \subseteq Steps /\ DomainSteps \subseteq Gates
  BY <1>1, <1>2, StepHere, NamedGates, GatesAssumption
<1>4. \A x \in Steps : marker'[x] = IF x = s THEN Payload(s) ELSE marker[x]
  BY <1>1 DEF MarkersAreMaps
<1>5. CASE s \notin DomainSteps
  <2>1. \A d \in DomainSteps : marker'[d] = marker[d]
    BY <1>3, <1>4, <1>5
  <2>2. FailedMarks' = FailedMarks /\ ~Ambiguous'
    BY <2>1 DEF FailedMarks, DiskInv, FailInv, Ambiguous
  <2>3. ASSUME NEW e \in FailedMarks, Outdated(marker[e]) PROVE Outdated(marker[e])'
    <3>1. PICK m : m = marker[e]
      OBVIOUS
    <3>2. e \in Gates /\ Marked(e) /\ m = marker'[e]
      BY <1>3, <2>1, <3>1 DEF FailedMarks, Marked
    <3>3. Outdated(m)'
      BY <1>1, <1>3, <2>3, <3>1, <3>2, RecordOutdates
    <3> QED
      BY <3>2, <3>3 DEF Outdated, HostMoved, Drifted
  <2>4. ASSUME NEW e \in FailedMarks, NEW d \in (Prefix(e) \cap DomainSteps) \ {e}
        PROVE  \/ Outdated(marker[e])'
               \/ marker'[d] # NoMarker /\ \A a \in AlwaysSteps : marker'[d][a] = marker'[e][a]
    <3>1. e \in DomainSteps
      BY DEF FailedMarks
    <3> QED
      BY <2>1, <2>3, <3>1 DEF DiskInv, FailInv, Marked
  <2> QED
    BY <1>5, <2>2, <2>4 DEF FailInv, Marked
<1>6. CASE s \in DomainSteps
  <2>1. Ordered
    BY <1>1, <1>2, <1>6, AskedAfter
  <2>2. s \notin AlwaysSteps /\ s \in Gates
    BY <1>6, GatesAssumption
  <2>3. ~Marked(s)
    BY <1>1, <1>3, <2>1, <2>2 DEF FirmInv, StandingInv, Standing
  <2>4. FailedMarks = {}
    BY <1>1, <1>2, <1>6, <2>1, <2>3, RecordAlone
  <2>5. FailedMarks' \subseteq {s}
    BY <1>3, <1>4, <2>4 DEF FailedMarks
  <2>6. prog = "main" /\ pc \in Called /\ s = Script[pc].step /\ Running
    <3>1. prog = "failed" => s \in Terminal
      BY <1>1, <1>2, StepHere DEF Terminal
    <3>2. s \notin Terminal
      BY <2>2, GatesAssumption
    <3> QED
      BY <1>1, <1>2, <3>1, <3>2, StepHere DEF ProcessOK
  <2>7. Prefix(s) = CalledBefore(pc) \cup {s}
    BY <1>6, <2>6, OrderAssumption
  <2>8. Torn = {}
    BY <1>1, <1>2, <2>6, StepHere DEF Torn
  <2>9. AllBound(CalledBefore(pc) \cap Gates)
    BY <1>1, <2>6, <2>8 DEF WalkInv, MainInv, MainBound
  <2>10. marker'[s] = [a \in Under[s] |-> out[a]] /\ AlwaysSteps \subseteq Under[s]
    BY <1>3, <1>4, <1>6, <2>2, UnderOfGate, ReconcileAssumption DEF Payload
  <2>11. ASSUME NEW d \in (Prefix(s) \cap DomainSteps) \ {s}
         PROVE  marker'[d] # NoMarker /\ \A a \in AlwaysSteps : marker'[d][a] = marker'[s][a]
    <3>1. d \in CalledBefore(pc) \cap Gates /\ AlwaysSteps \subseteq Under[d] /\ d \in Under[d]
      BY <1>3, <2>7, UnderSelf, ReconcileAssumption
    <3>2. marker'[d] = [a \in Under[d] |-> out[a]]
      BY <1>3, <1>4, <2>9, <3>1 DEF AllBound, Bound
    <3> QED
      BY <2>10, <3>1, <3>2 DEF NoMarker
  <2> QED
    BY <1>6, <2>4, <2>5, <2>11 DEF FailInv, Ambiguous, Marked
<1> QED
  BY <1>5, <1>6

(* With no failure left, a terminal step that stands rests on all gates. *)
LEMMA NoTerminalStands ==
    ASSUME StandingInv, FailedMarks = {}, NEW g \in Gates, g \notin Standing
    PROVE  Standing \cap Terminal = {}
<1>1. PublicFailure \notin Standing
  BY DEF StandingInv
<1>2. FinalEvidence \notin Standing /\ TerminalCleanup \notin Standing
  BY PassedUnder DEF StandingInv
<1> QED
  BY <1>1, <1>2 DEF Terminal

(* After reconcile, what record writes stands with the rest. *)
LEMMA RecordStands ==
    ASSUME RunnerInv, DiskInv, FirmInv, RecordInv, RecordMarker, Ordered, NEW s, s = Here,
           ~(s \in AlwaysSteps /\ Marked(s)), phase' = "check", todo' = {}
    PROVE  StandingInv'
<1>1. /\ ProcessOK /\ CountersOK /\ MarkersAreMaps /\ WalkInv /\ phase = "record" /\ todo = {}
      /\ MayRecord(s) /\ out' = out /\ marker' = [marker EXCEPT ![s] = Payload(s)] /\ StandingInv
  BY DEF RunnerInv, RecordMarker, FirmInv
<1>2. Name(s)
  BY <1>1 DEF WalkInv, PhaseInv, RecordInv
<1>3. s \in Steps /\ DomainSteps \subseteq Steps /\ DomainSteps \subseteq Gates
  BY <1>1, <1>2, StepHere, NamedGates, GatesAssumption
<1>4. \A x \in Steps : marker'[x] = IF x = s THEN Payload(s) ELSE marker[x]
  BY <1>1 DEF MarkersAreMaps
<1>5. ~Marked(s) /\ s \notin Standing
  BY <1>1, <1>3 DEF StandingInv, Standing
<1>6. s \in UnderOf(s) /\ \A b \in Standing : UnderOf(b) \subseteq Standing /\ b \in Steps
  BY <1>1, <1>3, UnderOfDeps DEF StandingInv, Standing
<1>7. marker'[s] # NoMarker
  <2>1. DOMAIN marker'[s] = UnderOf(s)
    BY <1>3, <1>4 DEF Payload
  <2> QED
    BY <1>6, <2>1 DEF NoMarker
<1>8. Standing' = Standing \cup {s}
  BY <1>1, <1>3, <1>4, <1>7 DEF Standing, Marked
<1>9. /\ s \notin DomainSteps => FailedMarks' = FailedMarks
      /\ s \in DomainSteps => FailedMarks = {}
  BY <1>5, RecordFailure
<1>10. \A b \in Standing \cup {s} : UnderOf(b)' = UnderOf(b)
  <2>1. CASE s \notin DomainSteps
    <3>1. \A d \in DomainSteps : marker'[d] = marker[d]
      BY <1>3, <1>4, <2>1
    <3> QED
      BY <1>3, <1>6, <3>1, UnderOfFrame
  <2>2. CASE s \in DomainSteps
    <3>1. Standing \cap Terminal = {}
      BY <1>1, <1>3, <1>5, <1>9, <2>2, NoTerminalStands
    <3>2. \A b \in Standing \cup {s} : b \in Gates
      BY <1>3, <1>6, <2>2, <3>1 DEF Steps
    <3> QED
      BY <3>2, UnderOfGate, UnderOfGateNext
  <2> QED
    BY <2>1, <2>2
<1>11. ASSUME NEW b \in Standing
       PROVE  UnderOf(b)' \subseteq Standing' /\ Bound(b, UnderOf(b))'
  <2>1. Bound(b, UnderOf(b)) /\ marker'[b] = marker[b]
    BY <1>1, <1>4, <1>5, <1>6 DEF StandingInv
  <2> QED
    BY <1>1, <1>6, <1>8, <1>10, <2>1 DEF Bound, Recordable, LockedBasis
<1>12. UnderOf(s)' \subseteq Standing' /\ Bound(s, UnderOf(s))'
  <2>1. UnderOf(s) \subseteq Standing \cup {s}
    BY <1>1, <1>3, VerifiedBelow DEF MayRecord, Standing
  <2>2. marker'[s] = [a \in UnderOf(s) |-> out[a]] /\ Recordable(s)
    BY <1>1, <1>3, <1>4 DEF Payload, MayRecord
  <2> QED
    BY <1>1, <1>8, <1>10, <2>1, <2>2 DEF Bound, Recordable, LockedBasis
<1>13. PublicFailure \in Standing' => FailedMarks' # {}
  <2>1. CASE PublicFailure \in Standing
    BY <1>1, <1>9, <2>1 DEF StandingInv
  <2>2. CASE s = PublicFailure
    <3>1. prog = "failed"
      BY <1>1, <1>2, <2>2, StepHere, TerminalNames DEF ProcessOK
    <3>2. FailedBound(pc, failedStep) /\ ~Ambiguous
      BY <1>1, <1>2, <3>1, StepHere DEF WalkInv, FailedInv, DiskInv, FailInv
    <3>3. FailedMarks = {failedStep}
      BY <3>2, FailedUnder
    <3>4. s \notin DomainSteps
      BY <1>3, <2>2, TerminalNames
    <3> QED
      BY <1>9, <3>3, <3>4
  <2> QED
    BY <1>8, <2>1, <2>2
<1>14. \A x \in (Steps \ todo') \ Standing' : out'[x] = NoOut
  BY <1>1, <1>8 DEF StandingInv
<1> QED
  BY <1>8, <1>11, <1>12, <1>13, <1>14 DEF StandingInv

(* record, as a whole *)
LEMMA RecordFirm ==
    ASSUME RunnerInv, CountersOK', DiskInv, FirmInv, RecordInv, RecordMarker
    PROVE  DiskInv' /\ FirmInv' /\ RecordInv'
<1>0. PICK s : s = Here
  OBVIOUS
<1>1. /\ ProcessOK /\ CountersOK /\ MarkersAreMaps /\ WalkInv /\ phase = "record" /\ todo = {}
      /\ MayRecord(s) /\ out' = out /\ volume' = volume /\ host' = host
      /\ marker' = [marker EXCEPT ![s] = Payload(s)] /\ StepDone(s, out[s].result)
  BY <1>0 DEF RunnerInv, RecordMarker, FirmInv, world
<1>2. Name(s)
  BY <1>0, <1>1 DEF WalkInv, PhaseInv, RecordInv
<1>3. s \in Steps
  BY <1>1, <1>2, StepHere
<1>4. \A x \in Steps : marker'[x] = IF x = s THEN Payload(s) ELSE marker[x]
  BY <1>1 DEF MarkersAreMaps
<1>5. CASE s \in AlwaysSteps /\ Ordered /\ Marked(s)
  <2>1. s \in Standing /\ StandingInv
    BY <1>1, <1>3, <1>5 DEF Standing, FirmInv
  <2>2. \A x \in Steps : marker'[x] = marker[x]
    BY <1>3, <1>4, <2>1 DEF StandingInv, Bound, Payload
  <2>3. DiskInv'
    BY <1>1, <2>2, DiskSame DEF CountersOK
  <2>4. ASSUME phase' = "check", todo' = todo PROVE StandingInv'
    <3>1. \A x \in (Steps \ todo) \ Standing : out'[x] = NoOut
      BY <1>0, <1>1, <2>1 DEF StandingInv
    <3> QED
      BY <1>1, <2>1, <2>2, <2>4, <3>1, StandingKept
  <2> QED
    <3>1. CASE \E code : Stop(code)
      BY <2>3, <3>1, StopFirm
    <3>2. CASE ~ \E code : Stop(code)
      <4>1. phase' = "check" /\ todo' = {} /\ todo' = todo
        BY <1>1, <3>2 DEF StepDone, Forward
      <4> QED
        BY <2>3, <2>4, <4>1 DEF FirmInv, RecordInv
    <3> QED
      BY <3>1, <3>2
<1>6. CASE ~(s \in AlwaysSteps /\ Ordered /\ Marked(s))
  <2>1. MarksInv'
    BY RecordMarks
  <2>2. FailInv'
    BY <1>0, <1>6, RecordFailure
  <2>3. RestInv'
    <3> SUFFICES ASSUME NEW g \in Gates, marker'[g] # NoMarker
                 PROVE  Outdated(marker[g])' \/ Rests(g)'
      BY DEF RestInv, Marked
    <3>1. CASE g # s
      <4>1. Marked(g)
        BY <1>4, <3>1, NamedGates DEF Marked
      <4> QED
        BY <1>0, <1>6, <3>1, <4>1, RecordRests
    <3>2. CASE g = s
      <4>1. UnderOf(s) = Under[s] /\ UnderOf(s)' = Under[s] /\ s \in Under[s]
        BY <3>2, UnderOfGate, UnderOfGateNext, UnderSelf
      <4>2. marker'[s] = [a \in Under[s] |-> out[a]]
        BY <1>3, <1>4, <4>1 DEF Payload
      <4>3. ASSUME NEW b \in Under[s] PROVE marker'[b] = Narrow(marker'[s], UnderOf(b)')
        <5>1. b \in Gates /\ UnderOf(b) = Under[b] /\ UnderOf(b)' = Under[b] /\ b \in Steps
          BY <3>2, UnderSelf, UnderOfGate, UnderOfGateNext
        <5>2. CASE b = s
          BY <4>2, <5>1, <5>2 DEF Narrow
        <5>3. CASE b # s
          <6>1. Bound(b, Under[b]) /\ Under[b] \subseteq Under[s]
            BY <1>1, <1>3, <4>1, <5>1, <5>3, VerifiedBelow DEF MayRecord
          <6> QED
            BY <1>4, <4>2, <5>1, <5>3, <6>1 DEF Narrow, Bound
        <5> QED
          BY <5>2, <5>3
      <4> QED
        BY <1>1, <3>2, <4>1, <4>2, <4>3 DEF Rests
    <3> QED
      BY <3>1, <3>2
  <2>4. DiskInv'
    BY <2>1, <2>2, <2>3 DEF DiskInv
  <2>5. CASE \E code : Stop(code)
    BY <2>4, <2>5, StopFirm
  <2>6. CASE ~ \E code : Stop(code)
    <3>1. phase' = "check" /\ todo' = {} /\ pc' = pc + 1 /\ prog' = prog
      BY <1>1, <2>6 DEF StepDone, Forward
    <3>2. Ordered' => Ordered
      <4>1. CASE prog = "failed"
        BY <1>2, <4>1 DEF Ordered, Name
      <4>2. CASE prog = "main"
        <5>1. pc \in Nat /\ pc \in Called /\ ReconcileIndex \in Nat
          BY <1>1, <1>2, <4>2, StepHere, ReconcilePlace
        <5>2. pc < ReconcileIndex \/ pc > ReconcileIndex
          BY <5>1, ReconcilePlace
        <5>3. Ordered' => pc + 1 > ReconcileIndex
          BY <3>1, <4>2 DEF Ordered
        <5> QED
          BY <1>2, <5>1, <5>2, <5>3 DEF Ordered, Name
      <4> QED
        BY <1>1, <4>1, <4>2 DEF ProcessOK
    <3>3. Ordered => StandingInv'
      BY <1>0, <1>6, <3>1, RecordStands
    <3> QED
      BY <2>4, <3>1, <3>2, <3>3 DEF FirmInv, RecordInv
  <2> QED
    BY <2>5, <2>6
<1> QED
  BY <1>5, <1>6

(* Where reconcile is called *)
LEMMA ReconcileHere ==
    ASSUME ProcessOK, At("reconcile")
    PROVE  /\ prog = "main" /\ pc = ReconcileIndex /\ Running /\ pc \in Nat
           /\ Probe \in AlwaysSteps => Probe \in CalledBefore(pc)
<1>1. prog = "main" /\ Running /\ pc \in DOMAIN Script /\ pc \in Nat /\ Script[pc].op = "reconcile"
  BY CallHere
<1>2. pc = ReconcileIndex
  BY <1>1, ReconcilePlace
<1> QED
  BY <1>1, <1>2, ReconcileAssumption DEF Probe

(* A recorded gate that does not verify when reconcile begins is outdated:   *)
(* the probe has just been recorded again, and nothing else is missing.      *)
LEMMA ReconcileInvalid ==
    ASSUME RunnerInv, DiskInv, At("reconcile"), phase = "check",
           NEW g \in Gates, Marked(g), ~Valid(g)
    PROVE  Outdated(marker[g])
<1> SUFFICES ASSUME ~Outdated(marker[g]) PROVE FALSE
  OBVIOUS
<1>1. /\ prog = "main" /\ Running /\ Torn = {}
      /\ Probe \in AlwaysSteps => Probe \in CalledBefore(pc)
  BY ReconcileHere DEF RunnerInv, Torn
<1>2. AllBound(CalledBefore(pc) \cap Gates)
  BY <1>1 DEF RunnerInv, WalkInv, MainInv, MainBound
<1>3. Rests(g) /\ AlwaysSteps \subseteq Gates
  BY GatesAssumption DEF DiskInv, RestInv
<1>4. PICK m : m = marker[g]
  OBVIOUS
<1>5. /\ Closed(Under[g]) /\ Under[g] \subseteq Gates /\ g \in Under[g] /\ UnderOf(g) = Under[g]
      /\ \A b \in Under[g] : /\ b \in Under[b] /\ UnderOf(b) = Under[b]
                             /\ Under[b] \subseteq Under[g]
  BY UnderClosed, UnderSelf, UnderOfGate DEF Closed
<1>6. DOMAIN m = Under[g] /\ \A b \in Under[g] : Shape(m, b)
  BY <1>4 DEF DiskInv, MarksInv
<1>7. \A b \in Under[g] : marker[b] = [a \in Under[b] |-> m[a]]
  BY <1>3, <1>4, <1>5 DEF Rests, Narrow
<1>8. ASSUME NEW b \in Under[g] PROVE out[b] = m[b]
  <2>1. CASE b \notin AlwaysSteps
    BY <1>3, <1>4, <1>5, <2>1 DEF Rests
  <2>2. CASE b \in Late
    BY <1>4, <1>6, <2>2 DEF Outdated, Drifted
  <2>3. CASE b = Probe /\ b \in AlwaysSteps
    <3>1. marker[b] = [a \in Under[b] |-> out[a]]
      BY <1>1, <1>2, <1>3, <2>3 DEF AllBound, Bound
    <3> QED
      BY <1>5, <1>7, <3>1
  <2> QED
    BY <2>1, <2>2, <2>3 DEF Late
<1>9. ASSUME NEW b \in Under[g] PROVE Bound(b, Under[b])
  <2>1. marker[b] = [a \in Under[b] |-> out[a]]
    BY <1>5, <1>7, <1>8
  <2>2. b = "core-qualification" => "matrix-lock" \in Under[g]
    BY <1>5, DepsAssumption
  <2>3. Recordable(b)
    BY <1>6, <1>8, <2>2 DEF Recordable, Shape, LockedBasis
  <2> QED
    BY <2>1, <2>3 DEF Bound
<1>10. Valid(g)
  BY <1>5, <1>9, BoundValid DEF AllBound
<1> QED
  BY <1>10

(* reconcile has judged the markers. *)
LEMMA ReconcileStartFirm ==
    ASSUME RunnerInv, CountersOK', DiskInv, FirmInv, ReconcileStart
    PROVE  DiskInv' /\ FirmInv' /\ RecordInv'
<1> DEFINE S == {s \in Steps : Valid(s)}
<1>1. /\ phase = "check" /\ At("reconcile") /\ ~Ambiguous /\ phase' = "move" /\ todo' = Invalid
      /\ out' = out /\ marker' = marker /\ volume' = volume /\ host' = host
  BY DEF ReconcileStart, disk, records, world
<1>2. DiskInv' /\ \A m : Outdated(m)' <=> Outdated(m)
  BY <1>1, DiskSame DEF RunnerInv, CountersOK
<1>3. FailedMarks' = FailedMarks /\ \A s \in Steps : UnderOf(s)' = UnderOf(s)
  BY <1>1, UnderOfFrame
<1>4. \A s \in S : Marked(s) /\ Verify({s})
  BY DEF Valid, Marked
<1>5. Standing' = S
  BY <1>1 DEF Standing, Invalid, Marked, Valid
<1>6. ASSUME NEW s \in S PROVE UnderOf(s) \subseteq S /\ Bound(s, UnderOf(s))
  <2>1. UnderOf(s) \subseteq Steps /\ \A a \in UnderOf(s) : UnderOf(a) \subseteq UnderOf(s)
    BY UnderOfType, UnderOfClosed
  <2>2. \A a \in UnderOf(s) : Local(a)
    BY <1>4 DEF Verify
  <2>3. \A a \in UnderOf(s) : Verify({a}) /\ marker[a] # NoMarker
    BY <2>1, <2>2 DEF Verify, Local
  <2>4. UnderOf(s) \subseteq S
    BY <1>1, <2>1, <2>3 DEF Valid
  <2>5. Bound(s, UnderOf(s))
    BY <1>4, ValidBinds DEF RunnerInv
  <2> QED
    BY <2>4, <2>5
<1>7. PublicFailure \in S => FailedMarks # {}
  <2> SUFFICES ASSUME PublicFailure \in S, FailedMarks = {} PROVE FALSE
    OBVIOUS
  <2>1. UnderOf(PublicFailure) = {PublicFailure}
    BY UnderOfTerminal
  <2>2. DOMAIN marker[PublicFailure] = {PublicFailure}
    BY <1>6, <2>1 DEF Bound
  <2> QED
    BY <2>2 DEF DiskInv, MarksInv
<1>8. \A s \in (Steps \ Invalid) \ S : out[s] = NoOut
  BY DEF Invalid
<1>9. ASSUME NEW s \in S PROVE UnderOf(s)' \subseteq S /\ Bound(s, UnderOf(s))'
  BY <1>1, <1>3, <1>6 DEF Bound, Recordable, LockedBasis
<1> HIDE DEF S
<1>10. StandingInv'
  BY <1>1, <1>3, <1>5, <1>7, <1>8, <1>9 DEF StandingInv
<1>11. ASSUME NEW g \in Invalid \cap Gates, Marked(g) PROVE Outdated(marker[g])
  BY <1>1, <1>11, ReconcileInvalid DEF Invalid
<1>12. FirmInv'
  <2>1. ASSUME NEW g \in Invalid \cap Gates, marker'[g] # NoMarker PROVE Outdated(marker[g])'
    <3>1. PICK m : m = marker[g]
      OBVIOUS
    <3>2. Outdated(m)'
      BY <1>1, <1>2, <1>11, <2>1, <3>1 DEF Marked
    <3>3. m = marker'[g]
      BY <1>1, <3>1
    <3> QED
      BY <3>2, <3>3 DEF Outdated, HostMoved, Drifted
  <2> QED
    BY <1>1, <1>10, <2>1 DEF FirmInv, Marked
<1> QED
  BY <1>1, <1>2, <1>12 DEF RecordInv

(* What reconcile moves is below nothing that stands, and what it is below   *)
(* was outdated already.                                                     *)
LEMMA ReconcileMoveFirm ==
    ASSUME RunnerInv, CountersOK', DiskInv, FirmInv, ReconcileMove
    PROVE  DiskInv' /\ FirmInv' /\ RecordInv'
<1>0. PICK t : t = First(todo)
  OBVIOUS
<1>1. /\ phase = "move" /\ At("reconcile") /\ todo # {} /\ phase' = "move" /\ todo' = todo \ {t}
      /\ out' = [out EXCEPT ![t] = NoOut] /\ marker' = [marker EXCEPT ![t] = NoMarker]
      /\ volume' = volume /\ host' = host
  BY <1>0 DEF ReconcileMove, world
<1>2. ProcessOK /\ CountersOK /\ MarkersAreMaps /\ DiskOK /\ todo \subseteq Steps /\ PhaseInv
  BY DEF RunnerInv, WalkInv, ProcessOK
<1>3. t \in todo /\ t \in Steps
  BY <1>0, <1>1, <1>2, FirstIn
<1>4. StandingInv /\ t \notin Standing
  BY <1>1, <1>3 DEF FirmInv, Ordered, Standing
<1>5. /\ \A x \in Steps : marker'[x] = IF x = t THEN NoMarker ELSE marker[x]
      /\ \A x \in Steps : out'[x] = IF x = t THEN NoOut ELSE out[x]
  BY <1>1, <1>2 DEF MarkersAreMaps, DiskOK
<1>6. Gates \subseteq Steps /\ AlwaysSteps \subseteq Gates /\ DomainSteps \subseteq Gates
  BY NamedGates, GatesAssumption
<1>7. Probe \in AlwaysSteps => marker'[Probe] = marker[Probe]
  BY <1>1, <1>2, <1>3, <1>5, <1>6, ReconcileHere DEF PhaseInv
<1>8. MarksInv'
  BY <1>1, <1>2, <1>5, MarksKept DEF CountersOK, DiskInv
<1>9. ASSUME NEW g \in Gates, Marked(g), NEW m, m = marker[g], Outdated(m)
      PROVE  Outdated(m)'
  <2>1. CASE HostMoved(m)
    BY <1>7, <2>1 DEF HostMoved, Outdated, Marked
  <2>2. CASE Drifted(m)
    <3>1. PICK a \in Late \cap DOMAIN m : out[a] # m[a]
      BY <2>2 DEF Drifted
    <3>2. m[a].result \in {"passed", "failed"}
      BY <1>9, <3>1 DEF DiskInv, MarksInv, Shape
    <3>3. out'[a] # m[a]
      BY <1>5, <1>6, <3>1, <3>2 DEF Late, NoOut, Content
    <3> QED
      BY <3>1, <3>3 DEF Drifted, Outdated
  <2> QED
    BY <1>9, <2>1, <2>2 DEF Outdated
<1>10. ASSUME NEW g \in Gates, g # t, Outdated(marker[g]), Marked(g) PROVE Outdated(marker[g])'
  <2>1. PICK m : m = marker[g]
    OBVIOUS
  <2>2. Outdated(m)' /\ m = marker'[g]
    BY <1>5, <1>6, <1>9, <1>10, <2>1
  <2> QED
    BY <2>2 DEF Outdated, HostMoved, Drifted
<1>11. RestInv'
  <2> SUFFICES ASSUME NEW g \in Gates, marker'[g] # NoMarker, ~Outdated(marker[g])'
               PROVE  Rests(g)'
    BY DEF RestInv, Marked
  <2>1. g # t /\ Marked(g) /\ ~Outdated(marker[g])
    BY <1>5, <1>6, <1>10 DEF Marked
  <2>2. g \in Standing /\ Rests(g)
    BY <1>1, <1>6, <2>1 DEF FirmInv, Standing, DiskInv, RestInv
  <2>3. UnderOf(g) = Under[g] /\ UnderOf(g)' = Under[g] /\ Under[g] \subseteq Gates
    BY UnderOfGate, UnderOfGateNext, UnderSelf
  <2>4. t \notin Under[g]
    BY <1>4, <2>2, <2>3 DEF StandingInv
  <2>5. \A b \in Under[g] : UnderOf(b) = Under[b] /\ UnderOf(b)' = Under[b]
    BY <2>3, UnderOfGate, UnderOfGateNext
  <2>6. \A b \in Under[g] : marker'[b] = marker[b] /\ out'[b] = out[b]
    BY <1>5, <1>6, <2>3, <2>4
  <2>7. marker'[g] = marker[g]
    BY <1>5, <1>6, <2>1
  <2> QED
    BY <2>2, <2>3, <2>5, <2>6, <2>7 DEF Rests
<1>12. FailedMarks' = FailedMarks \ {t}
  BY <1>5, <1>6 DEF FailedMarks
<1>13. FailInv'
  <2>1. ~Ambiguous'
    BY <1>12 DEF DiskInv, FailInv, Ambiguous
  <2>2. ASSUME NEW e \in FailedMarks \ {t}, NEW d \in (Prefix(e) \cap DomainSteps) \ {e}
        PROVE  \/ Outdated(marker[e])'
               \/ marker'[d] # NoMarker /\ \A a \in AlwaysSteps : marker'[d][a] = marker'[e][a]
    <3>1. e \in Gates /\ e \in DomainSteps /\ Marked(e) /\ d \in Gates /\ e # t
      BY <1>6 DEF FailedMarks, Marked
    <3>2. CASE Outdated(marker[e])
      BY <1>10, <3>1, <3>2
    <3>3. CASE ~Outdated(marker[e])
      <4>1. Marked(d) /\ \A a \in AlwaysSteps : marker[d][a] = marker[e][a]
        BY <3>3 DEF DiskInv, FailInv
      <4>2. d # t
        <5> SUFFICES ASSUME d = t PROVE FALSE
          OBVIOUS
        <5>1. Outdated(marker[d])
          BY <1>1, <1>3, <3>1, <4>1 DEF FirmInv
        <5>2. AlwaysSteps \subseteq DOMAIN marker[e] /\ AlwaysSteps \subseteq DOMAIN marker[d]
          BY <3>1, <4>1, ReconcileAssumption DEF DiskInv, MarksInv
        <5>3. HostMoved(marker[d]) => HostMoved(marker[e])
          BY <4>1, <5>2 DEF HostMoved
        <5>4. Drifted(marker[d]) => Drifted(marker[e])
          BY <4>1, <5>2 DEF Drifted, Late
        <5> QED
          BY <3>3, <5>1, <5>3, <5>4 DEF Outdated
      <4> QED
        BY <1>5, <1>6, <3>1, <4>1, <4>2 DEF Marked
    <3> QED
      BY <3>2, <3>3
  <2> QED
    BY <1>12, <2>1, <2>2 DEF FailInv, Marked
<1>14. Standing' = Standing
  BY <1>1, <1>3, <1>5 DEF Standing, Marked
<1>15. ASSUME NEW s \in Standing, s \in Terminal PROVE FailedMarks' = FailedMarks
  <2>1. \A d \in FailedMarks : d \in Under[d] /\ d \in Prefix(d)
    BY <1>6, UnderSelf, PrefixClosed DEF FailedMarks
  <2>2. FailedMarks \subseteq UNION {Under[d] : d \in FailedMarks}
    BY <2>1
  <2>3. FailedMarks \subseteq EvidenceUnder
    <3>1. \A d \in FailedMarks : d \in EvidenceGates
      BY <2>1 DEF EvidenceGates
    <3> QED
      BY <2>1, <3>1 DEF EvidenceUnder
  <2>4. FailedMarks \subseteq UnderOf(s)
    BY <1>15, <2>2, <2>3, UnderOfTerminal, TerminalNames
  <2> QED
    BY <1>4, <1>12, <2>4 DEF StandingInv
<1>16. ASSUME NEW s \in Standing PROVE UnderOf(s)' = UnderOf(s)
  <2>1. s \in Steps
    BY DEF Standing
  <2>2. CASE s \in Gates
    BY <2>2, UnderOfGate, UnderOfGateNext
  <2>3. CASE s \in Terminal
    BY <1>15, <2>1, <2>3, UnderOfSame
  <2> QED
    BY <2>1, <2>2, <2>3 DEF Steps
<1>17. ASSUME NEW s \in Standing PROVE UnderOf(s)' \subseteq Standing /\ Bound(s, UnderOf(s))'
  <2>1. PICK U : U = UnderOf(s)
    OBVIOUS
  <2>2. U \subseteq Standing
    BY <1>4, <2>1 DEF StandingInv
  <2>3. \A a \in U : out'[a] = out[a]
    BY <1>4, <1>5, <2>2 DEF Standing
  <2>4. marker'[s] = marker[s]
    BY <1>4, <1>5 DEF Standing
  <2>5. Bound(s, U)'
    BY <1>4, <2>1, <2>3, <2>4, StandingFrame
  <2> QED
    BY <1>16, <2>1, <2>2, <2>5 DEF Bound
<1>18. PublicFailure \in Standing => FailedMarks' # {}
  BY <1>4, <1>15 DEF StandingInv, Terminal
<1>19. \A s \in (Steps \ todo') \ Standing : out'[s] = NoOut
  BY <1>1, <1>4, <1>5 DEF StandingInv
<1>20. StandingInv'
  BY <1>1, <1>14, <1>17, <1>18, <1>19 DEF StandingInv
<1>21. \A g \in todo' \cap Gates : marker'[g] # NoMarker => Outdated(marker[g])'
  BY <1>1, <1>5, <1>6, <1>10 DEF FirmInv, Marked
<1> QED
  BY <1>1, <1>8, <1>11, <1>13, <1>20, <1>21 DEF DiskInv, FirmInv, RecordInv, Marked

(* The runner ends and writes nothing. *)
LEMMA StopSame ==
    ASSUME RunnerInv, CountersOK', DiskInv, NEW code, Stop(code), UNCHANGED <<disk, world>>
    PROVE  DiskInv' /\ FirmInv' /\ RecordInv'
<1>1. out' = out /\ marker' = marker /\ volume' = volume /\ host' = host
  BY DEF disk, records, world
<1>2. DiskInv'
  BY <1>1, DiskSame DEF RunnerInv, CountersOK
<1> QED
  BY <1>2, StopFirm

(* A command, or the runner itself, dies. *)
LEMMA FailureFirm ==
    ASSUME RunnerInv, CountersOK', DiskInv, FirmInv, RecordInv, Failure
    PROVE  DiskInv' /\ FirmInv' /\ RecordInv'
<1>1. /\ ProcessOK /\ DiskOK /\ PhaseInv /\ CountersOK /\ Gates \subseteq Steps
      /\ "worker-images" \in Steps /\ "worker-images" \in Gates
      /\ "worker-images" \notin AlwaysSteps /\ "matrix-lock" \in Steps
  BY NamedGates, GatesAssumption, ReconcileAssumption DEF RunnerInv, WalkInv
<1>2. ASSUME NEW s \in Steps, NEW c, out' = [out EXCEPT ![s] = c]
      PROVE  out'[s] = c /\ \A a \in Steps \ {s} : out'[a] = out[a]
  BY <1>1, <1>2 DEF DiskOK
<1>3. ASSUME NEW s \in Steps, CommandDies(s) PROVE DiskInv' /\ FirmInv' /\ RecordInv'
  <2>1. PICK left \in Leftovers(s) : out' = [out EXCEPT ![s] = left]
    BY <1>3 DEF CommandDies
  <2>2. PICK code \in {1, 3, 4, Killed} : Stop(code)
    BY <1>3 DEF CommandDies
  <2>3. Executing(s) /\ marker' = marker /\ host' = host /\ volume' = volume
    BY <1>3 DEF CommandDies, records, world
  <2>4. out'[s] = left /\ \A a \in Steps \ {s} : out'[a] = out[a]
    BY <1>2, <2>1
  <2>5. ASSUME s \in Late PROVE out'[s] = out[s] \/ out'[s].result \notin {"passed", "failed"}
    <3>1. s = "registry-bootstrap" \/ s = "matrix-live-verification"
      BY <2>5, ReconcileAssumption DEF Late, Probe
    <3>2. s # "core-qualification" /\ s # TerminalCleanup /\ s # "worker-images" /\ s # "matrix-lock"
          /\ s # "gpu-runtime-preflight"
      BY <2>5, <3>1, ReconcileAssumption DEF Late, TerminalCleanup
    <3>3. CASE s = "registry-bootstrap"
      BY <2>4, <3>2, <3>3 DEF Leftovers
    <3>4. CASE s = "matrix-live-verification"
      <4>1. left = Partial(0, NoBasis)
        BY <3>2, <3>4 DEF Leftovers
      <4> QED
        BY <2>4, <4>1 DEF Partial, Content
    <3> QED
      BY <3>1, <3>3, <3>4
  <2> QED
    BY <2>2, <2>3, <2>4, <2>5, StopWriteFirm
<1>4. CASE PushInterrupted
  <2> DEFINE s == "worker-images"
  <2>1. Executing(s)
    BY <1>4, WorkersThere DEF PushInterrupted
  <2>2. PICK code \in {1, 4, Killed} : Stop(code)
    BY <1>4 DEF PushInterrupted
  <2>3. /\ marker' = marker /\ host' = host /\ out'[s] = LogOnly(s)
        /\ \A a \in Steps \ {s} : out'[a] = out[a]
    BY <1>1, <1>2, <1>4 DEF PushInterrupted, records
  <2>4. Name(s) /\ phase = "check"
    BY <2>1 DEF Executing
  <2>5. Ordered
    BY <1>1, <2>4, AskedAfter
  <2>6. ~Marked(s)
    BY <1>1, <2>1, <2>5, ExecutingUnmarked DEF DiskInv
  <2> QED
    BY <1>1, <2>1, <2>2, <2>3, <2>6, StopWriteFirm DEF Late
<1>5. CASE InvocationGuardFails \/ Crash
  BY <1>5, StopSame DEF InvocationGuardFails, Crash
<1>6. CASE CrashMoving
  <2>1. Stop(Killed) /\ marker' = marker /\ volume' = volume /\ host' = host
    BY <1>6 DEF CrashMoving, world
  <2>2. phase = "move" /\ todo # {} /\ out' = [out EXCEPT ![First(todo)] = NoOut]
    BY <1>6, NeverStale DEF CrashMoving
  <2>3. PICK t : t = First(todo)
    OBVIOUS
  <2>4. t \in todo /\ t \in Steps
    BY <1>1, <2>2, <2>3, FirstIn DEF ProcessOK
  <2>5. out'[t] = NoOut /\ \A a \in Steps \ {t} : out'[a] = out[a]
    BY <1>2, <2>2, <2>3, <2>4
  <2>6. ASSUME NEW g \in Gates, Marked(g), t \in Under[g] PROVE Outdated(marker[g])
    <3>1. CASE g \in todo
      BY <2>2, <2>6, <3>1 DEF FirmInv
    <3>2. CASE g \notin todo
      <4>1. g \in Standing /\ StandingInv
        BY <1>1, <2>2, <2>6, <3>2 DEF FirmInv, Ordered, Standing
      <4>2. t \in Standing
        BY <2>6, <4>1, UnderOfGate DEF StandingInv
      <4> QED
        BY <2>4, <4>2 DEF Standing
    <3> QED
      BY <3>1, <3>2
  <2>7. out'[t].result \notin {"passed", "failed"}
    BY <2>5 DEF NoOut, Content
  <2>8. DiskInv'
    BY <1>1, <2>1, <2>5, <2>6, <2>7, DiskWrite
  <2> QED
    BY <2>1, <2>8, StopFirm
<1> QED
  BY <1>3, <1>4, <1>5, <1>6 DEF Failure

(* The calls that write nothing while the volume lasts *)
LEMMA CallFirm ==
    ASSUME RunnerInv, CountersOK', DiskInv, FirmInv, RecordInv,
           \/ \E s \in Steps : Skip(s)
           \/ WorkersPresent \/ RebuildWorkers \/ PreserveStaleMatrix
           \/ RejectRecord \/ FinishFailed \/ ReconcileRaises \/ ReconcileDone
    PROVE  DiskInv' /\ FirmInv' /\ RecordInv'
<1>1. /\ ProcessOK /\ WalkInv /\ PhaseInv /\ CountersOK
  BY DEF RunnerInv, WalkInv
<1>2. ASSUME NEW op \in {"ensure-workers", "preserve-matrix", "finish-failed"}, At(op)
      PROVE  phase = "check" /\ todo = {} /\ ~At("reconcile") /\ Running
  BY <1>2, CallCheck DEF FirmInv, At
<1>3. ASSUME NEW s \in Steps, Skip(s) PROVE DiskInv' /\ FirmInv' /\ RecordInv'
  <2>1. Name(s) /\ phase = "check" /\ StepDone(s, out[s].result) /\ UNCHANGED <<disk, world, budget>>
    BY <1>3 DEF Skip
  <2>2. ~At("reconcile") /\ Running /\ todo = {}
    BY <1>1, <2>1, StepHere DEF FirmInv
  <2>3. CASE Stop(0)
    BY <2>1, <2>3, StopSame
  <2>4. CASE \E f : Forward(f)
    <3>1. out' = out /\ marker' = marker /\ volume' = volume /\ host' = host
      BY <2>1 DEF disk, records, world
    <3> QED
      BY <2>1, <2>2, <2>4, <3>1, ForwardFirm
  <2> QED
    BY <2>1, <2>3, <2>4 DEF StepDone
<1>4. CASE WorkersPresent
  <2>1. /\ At("ensure-workers") /\ Forward(failedStep)
        /\ out' = out /\ marker' = marker /\ volume' = volume /\ host' = host
    BY <1>4 DEF WorkersPresent, disk, records, world
  <2> QED
    BY <1>2, <2>1, ForwardFirm
<1>5. CASE RebuildWorkers
  BY <1>5, WorkersThere DEF RebuildWorkers
<1>6. CASE PreserveStaleMatrix
  <2>1. At("preserve-matrix") /\ ~MatrixIsStale
    BY <1>6, NeverStale DEF PreserveStaleMatrix
  <2>2. Forward(failedStep) /\ out' = out /\ marker' = marker /\ volume' = volume /\ host' = host
    BY <1>6, <2>1 DEF PreserveStaleMatrix, world
  <2> QED
    BY <1>2, <2>1, <2>2, ForwardFirm
<1>7. CASE RejectRecord \/ ReconcileRaises
  BY <1>7, StopSame DEF RejectRecord, ReconcileRaises
<1>8. CASE ReconcileDone
  <2>1. /\ phase = "move" /\ todo = {} /\ Running /\ Forward(failedStep)
        /\ out' = out /\ marker' = marker /\ volume' = volume /\ host' = host
    BY <1>8 DEF ReconcileDone, disk, records, world, At
  <2> QED
    BY <2>1, ForwardFirm
<1>9. CASE FinishFailed
  <2>1. /\ At("finish-failed")
        /\ out' = out /\ marker' = marker /\ volume' = volume /\ host' = host
    BY <1>9 DEF FinishFailed, disk, records, world
  <2>2. CASE failedStep = NoStep
    <3>1. Forward(failedStep)
      BY <1>9, <2>2 DEF FinishFailed
    <3> QED
      BY <1>2, <2>1, <3>1, ForwardFirm
  <2>3. CASE failedStep # NoStep
    <3>1. prog' = "failed" /\ pc' = 1 /\ phase' = phase /\ todo' = todo
      BY <1>9, <2>3 DEF FinishFailed
    <3>2. phase = "check" /\ todo = {} /\ Running /\ prog = "main" /\ pc \in Nat
      BY <1>1, <1>2, <2>1, CallHere
    <3>3. failedStep \in DomainSteps /\ CalledBefore(pc) = Prefix(failedStep)
      BY <1>1, <2>3, <3>2 DEF WalkInv, MainInv, MainFailed
    <3>4. PICK j \in Called : j < pc /\ Script[j].step = failedStep
      <4>1. failedStep \in CalledBefore(pc)
        BY <3>3, PrefixClosed
      <4> QED
        BY <4>1 DEF CalledBefore
    <3>5. j > ReconcileIndex /\ j \in Nat /\ ReconcileIndex \in Nat
      BY <3>3, <3>4, ReconcileAssumption, ScriptAssumption, ReconcilePlace DEF Called
    <3>6. Ordered
      BY <3>2, <3>4, <3>5 DEF Ordered
    <3>7. StandingInv /\ \A s \in (Steps \ todo) \ Standing : out'[s] = NoOut
      BY <2>1, <3>2, <3>6 DEF FirmInv, StandingInv
    <3>8. StandingInv'
      BY <2>1, <3>1, <3>2, <3>7, StandingKept
    <3>9. DiskInv'
      BY <1>1, <2>1, DiskSame DEF CountersOK
    <3> QED
      BY <3>1, <3>2, <3>8, <3>9 DEF FirmInv, RecordInv
  <2> QED
    BY <2>2, <2>3
<1> QED
  BY <1>3, <1>4, <1>5, <1>6, <1>7, <1>8, <1>9

(* A new invocation finds the disk as the last one left it. *)
LEMMA InvokeFirm ==
    ASSUME RunnerInv, CountersOK', DiskInv, FirmInv, Invoke
    PROVE  DiskInv' /\ FirmInv' /\ RecordInv'
<1>1. phase = "check" /\ prog = "main" /\ todo = {}
  BY DEF Invoke, RunnerInv, WalkInv, PhaseInv, FirmInv
<1>2. /\ out' = out /\ marker' = marker /\ volume' = volume /\ host' = host
      /\ pc' = 1 /\ phase' = phase /\ prog' = prog /\ todo' = todo
  BY DEF Invoke, disk, records, world
<1>3. DiskInv'
  BY <1>2, DiskSame DEF RunnerInv, CountersOK
<1>4. ~Ordered'
  BY <1>1, <1>2, ReconcilePlace DEF Ordered
<1> QED
  BY <1>1, <1>2, <1>3, <1>4 DEF FirmInv, RecordInv

(* Nothing of this concerns a host that changes while the runner waits. *)
LEMMA IdleFirm ==
    ASSUME RunnerInv, CountersOK', DiskInv, FirmInv, RecordInv,
           UNCHANGED <<disk, volume, process>>, host <= host'
    PROVE  DiskInv' /\ FirmInv' /\ RecordInv'
<1>1. /\ out' = out /\ marker' = marker /\ volume' = volume
      /\ pc' = pc /\ phase' = phase /\ prog' = prog /\ todo' = todo /\ Here' = Here
      /\ \A op : At(op)' <=> At(op)
  BY DEF disk, records, process, Here, At, Running, Current
<1>2. DiskInv' /\ \A m : Outdated(m)' <=> Outdated(m)
  BY <1>1, DiskSame DEF RunnerInv
<1>3. Ordered' <=> Ordered
  BY <1>1 DEF Ordered, Running
<1>4. StandingInv => StandingInv'
  <2> SUFFICES ASSUME StandingInv PROVE StandingInv'
    OBVIOUS
  <2>1. \A s \in (Steps \ todo) \ Standing : out'[s] = NoOut \/ (phase' = "record" /\ s = Here')
    BY <1>1 DEF StandingInv
  <2>2. phase' = "record" /\ Here' \in Standing => Here' \in AlwaysSteps
    BY <1>1 DEF StandingInv
  <2> QED
    BY <1>1, <2>1, <2>2, StandingKept
<1>5. ASSUME NEW g, Outdated(marker[g]) PROVE Outdated(marker[g])'
  <2>1. PICK m : m = marker[g]
    OBVIOUS
  <2>2. Outdated(m)' /\ m = marker'[g]
    BY <1>1, <1>2, <1>5, <2>1
  <2> QED
    BY <2>2 DEF Outdated, HostMoved, Drifted
<1>6. FirmInv'
  BY <1>1, <1>3, <1>4, <1>5 DEF FirmInv, Marked
<1>7. RecordInv'
  <2> SUFFICES ASSUME phase = "record" PROVE RecordInv'
    BY <1>1 DEF RecordInv
  <2>1. PICK x : x = Here
    OBVIOUS
  <2>2. PICK m : m = out
    OBVIOUS
  <2>3. x \in Gates => Shape(m, x)
    BY <2>1, <2>2 DEF RecordInv
  <2>4. x \in Gates => Shape(m, x)'
    BY <2>3, ShapeFrame DEF RunnerInv, CountersOK
  <2>5. Here' \in Gates => Shape(out, Here)'
    BY <1>1, <2>1, <2>2, <2>4 DEF Shape
  <2>6. x \in Gates \ AlwaysSteps /\ Marked(x) => Outdated(marker[x])'
    BY <1>5, <2>1 DEF RecordInv
  <2>7. Here' \in Gates \ AlwaysSteps /\ marker'[Here'] # NoMarker => Outdated(marker[Here])'
    BY <1>1, <2>1, <2>6 DEF Outdated, HostMoved, Drifted, Marked
  <2> QED
    BY <1>1, <2>5, <2>7 DEF RecordInv, Marked
<1> QED
  BY <1>2, <1>6, <1>7

(* Only a lost volume is counted as a loss. *)
LEMMA LossesKept ==
    ASSUME [Next]_vars, ~LoseVolume
    PROVE  losses' = losses
<1>1. CASE UNCHANGED vars \/ Invoke \/ HostChange
  BY <1>1 DEF vars, budget, Invoke, HostChange
<1>2. CASE Proceed
  BY <1>2 DEF Proceed, Skip, RunAlways, RunGate, KeepEvidence, RefuseOutput, VerifyMatrixLive,
     MatrixDrift, BuildWorkers, WorkersPresent, RebuildWorkers, PushWorkers, PreserveStaleMatrix,
     LockMatrix, ResolvePublicFailure, GenerateEvidence, CleanUp, RecordMarker, RejectRecord,
     FinishFailed, ReconcileRaises, ReconcileStart, ReconcileMove, ReconcileDone, budget
<1>3. CASE Failure
  BY <1>3 DEF Failure, CommandDies, PushInterrupted, InvocationGuardFails, Crash, CrashMoving,
     budget
<1> QED
  BY <1>1, <1>2, <1>3 DEF Next, World

(* As long as the volume lasts, what was recorded stays or is outdated, and  *)
(* what follows reconcile finds nothing but what stands.                     *)
IntactInv == Intact => DiskInv /\ FirmInv /\ RecordInv

LEMMA InitIntact == Init => IntactInv
<1> SUFFICES ASSUME Init PROVE DiskInv /\ FirmInv /\ RecordInv
  BY DEF IntactInv
<1>1. \A s \in Steps : ~Marked(s)
  BY DEF Init, Marked
<1>2. Gates \subseteq Steps /\ DomainSteps \subseteq Steps /\ PublicFailure \in Steps
      /\ "worker-images" \in Steps /\ DOMAIN NoMarker = {}
  BY NamedGates DEF Terminal, NoMarker
<1>3. FailedMarks = {}
  BY <1>1, <1>2 DEF FailedMarks, Marked
<1>4. DOMAIN marker[PublicFailure] = {}
  BY <1>2 DEF Init
<1>5. DiskInv
  BY <1>1, <1>2, <1>3, <1>4 DEF DiskInv, MarksInv, RestInv, FailInv, Ambiguous
<1>6. FirmInv /\ RecordInv
  BY DEF Init, FirmInv, RecordInv, Ordered, Running
<1> QED
  BY <1>5, <1>6

LEMMA NextIntact ==
    ASSUME RunnerInv, CountersOK', IntactInv, [Next]_vars
    PROVE  IntactInv'
<1> SUFFICES ASSUME losses' = 0 PROVE DiskInv' /\ FirmInv' /\ RecordInv'
  BY DEF IntactInv, Intact
<1>1. ~LoseVolume
  BY DEF LoseVolume, RunnerInv, CountersOK
<1>2. DiskInv /\ FirmInv /\ RecordInv
  BY <1>1, LossesKept DEF IntactInv, Intact
<1>3. CASE Invoke
  BY <1>2, <1>3, InvokeFirm
<1>4. CASE Failure
  BY <1>2, <1>4, FailureFirm
<1>5. CASE HostChange \/ UNCHANGED vars
  <2>1. UNCHANGED <<disk, volume, process>> /\ host <= host'
    BY <1>5 DEF HostChange, vars, world, RunnerInv, CountersOK
  <2> QED
    BY <1>2, <2>1, IdleFirm
<1>6. CASE Proceed
  <2>1. CASE \E s \in AlwaysSteps : RunAlways(s)
    BY <1>2, <2>1, AlwaysFirm
  <2>2. CASE \E s \in Gates : RunGate(s) \/ KeepEvidence(s) \/ RefuseOutput(s)
    BY <1>2, <2>2, GateFirm
  <2>3. CASE VerifyMatrixLive \/ MatrixDrift
    BY <1>2, <2>3, LiveFirm
  <2>4. CASE BuildWorkers \/ LockMatrix \/ ResolvePublicFailure \/ GenerateEvidence \/ CleanUp
    BY <1>2, <2>4, FixedFirm
  <2>5. CASE RecordMarker
    BY <1>2, <2>5, RecordFirm
  <2>6. CASE ReconcileStart
    BY <1>2, <2>6, ReconcileStartFirm
  <2>7. CASE ReconcileMove
    BY <1>2, <2>7, ReconcileMoveFirm
  <2>8. CASE \/ \E s \in Steps : Skip(s)
             \/ WorkersPresent \/ RebuildWorkers \/ PreserveStaleMatrix
             \/ RejectRecord \/ FinishFailed \/ ReconcileRaises \/ ReconcileDone
    BY <1>2, <2>8, CallFirm
  <2> QED
    BY <1>6, <2>1, <2>2, <2>3, <2>4, <2>5, <2>6, <2>7, <2>8 DEF Proceed
<1> QED
  BY <1>1, <1>3, <1>4, <1>5, <1>6 DEF Next, World

(* The stronger invariant of a run that lost no volume *)
LEMMA IntactInvariant == Spec => [](RunnerInv /\ IntactInv)
<1>1. Init => IntactInv
  BY InitIntact
<1>2. RunnerInv /\ RunnerInv' /\ IntactInv /\ [Next]_vars => IntactInv'
  BY NextIntact DEF RunnerInv
<1> QED
  BY <1>1, <1>2, RunnerInvariant, PTL DEF Spec

(* A run never retains two terminal failures, as long as the registry volume *)
(* lasts: _failed_step_from_markers never raises.                            *)
THEOREM OneFailure == Spec => []AtMostOneFailure
<1>1. RunnerInv /\ IntactInv => AtMostOneFailure
  BY DEF IntactInv, AtMostOneFailure, DiskInv, FailInv
<1> QED
  BY <1>1, IntactInvariant, PTL

(* A step executed after reconcile finds none of its own files in its way.   *)
THEOREM RerunsStartClean == Spec => RerunStartsClean
<1>1. ASSUME RunnerInv, IntactInv,
             NEW s \in Steps \ AlwaysSteps, Intact, Executing(s),
             prog = "failed" \/ pc > ReconcileIndex
      PROVE  out[s] = NoOut
  <2>1. Ordered /\ ProcessOK /\ FirmInv /\ FailInv
    BY <1>1 DEF Ordered, Executing, Name, IntactInv, DiskInv, RunnerInv
  <2> QED
    BY <1>1, <2>1, ExecutingUnmarked
<1>2. RunnerInv /\ IntactInv =>
         [\A s \in Steps \ AlwaysSteps :
            /\ Intact
            /\ Executing(s)
            /\ prog = "failed" \/ pc > ReconcileIndex
            /\ out'[s] # out[s]
            => out[s] = NoOut]_vars
  BY <1>1
<1> QED
  BY <1>2, IntactInvariant, PTL DEF RerunStartsClean

(* What outdates a marker shows on the disk once the probe is recorded. *)
LEMMA OutdatedCause ==
    ASSUME DiskInv, CountersOK, NEW g \in Gates, Marked(g), Outdated(marker[g]),
           Probe \in AlwaysSteps \cap Under[g] => marker[Probe][Probe] = out[Probe]
    PROVE  \E a \in Under[g] \cap AlwaysSteps : out[a] # marker[g][a]
<1>1. DOMAIN marker[g] = Under[g] /\ \A b \in Under[g] : Shape(marker[g], b)
  BY DEF DiskInv, MarksInv
<1>2. CASE Drifted(marker[g])
  BY <1>1, <1>2 DEF Drifted, Late
<1>3. CASE HostMoved(marker[g])
  <2>1. Probe \in Under[g] \cap AlwaysSteps /\ Marked(Probe)
        /\ marker[g][Probe].basis.host < marker[Probe][Probe].basis.host
    BY <1>1, <1>3 DEF HostMoved
  <2>2. PICK h \in 0..host :
           marker[g][Probe] = Content(0, [NoBasis EXCEPT !.host = h], "passed", TRUE)
    BY <1>1, <2>1 DEF Shape
  <2>3. marker[g][Probe].basis.host \in Nat
    BY <2>2 DEF Content, NoBasis, CountersOK
  <2>4. marker[g][Probe] # out[Probe]
    BY <2>1, <2>3
  <2> QED
    BY <2>1, <2>4
<1> QED
  BY <1>2, <1>3 DEF Outdated

(* reconcile moves the marker of a gate, or its step is recorded again. *)
LEMMA RecordCaused ==
    ASSUME RunnerInv, DiskInv, FirmInv, RecordInv, RecordMarker,
           NEW g \in Gates, Marked(g), marker'[g] # marker[g]
    PROVE  \E a \in Under[g] \cap AlwaysSteps : out[a] # marker[g][a]
<1>1. /\ ProcessOK /\ CountersOK /\ MarkersAreMaps /\ phase = "record" /\ todo = {}
      /\ MayRecord(Here) /\ marker' = [marker EXCEPT ![Here] = Payload(Here)]
  BY DEF RunnerInv, RecordMarker, FirmInv
<1>2. Name(Here)
  BY <1>1 DEF RunnerInv, WalkInv, PhaseInv, RecordInv
<1>3. g \in Steps /\ UnderOf(g) = Under[g] /\ g \in Under[g]
  BY UnderOfGate, UnderSelf
<1>4. g = Here /\ marker'[g] = [a \in Under[g] |-> out[a]]
  <2>1. g = Here
    BY <1>1, <1>3 DEF MarkersAreMaps
  <2> QED
    BY <1>1, <1>3, <2>1 DEF MarkersAreMaps, Payload
<1>5. CASE g \in Late
  <2>1. g \in Standing /\ StandingInv
    BY <1>1, <1>2, <1>3, <1>4, <1>5, AskedAfter DEF FirmInv, Standing
  <2>2. marker[g] = [a \in Under[g] |-> out[a]]
    BY <1>3, <2>1 DEF StandingInv, Bound
  <2> QED
    BY <1>4, <2>2
<1>6. CASE g = Probe /\ g \in AlwaysSteps
  <2> SUFFICES ASSUME \A a \in Under[g] \cap AlwaysSteps : out[a] = marker[g][a] PROVE FALSE
    OBVIOUS
  <2>1. DOMAIN marker[g] = Under[g] /\ \A b \in Under[g] : Shape(marker[g], b)
    BY DEF DiskInv, MarksInv
  <2>2. ~Drifted(marker[g])
    BY <2>1 DEF Drifted, Late
  <2>3. ~HostMoved(marker[g])
    <3>1. PICK h \in 0..host :
             marker[g][g] = Content(0, [NoBasis EXCEPT !.host = h], "passed", TRUE)
      BY <1>3, <1>6, <2>1 DEF Shape
    <3>2. marker[g][g].basis.host \in Nat
      BY <3>1 DEF Content, NoBasis, CountersOK
    <3> QED
      BY <1>6, <3>2 DEF HostMoved
  <2>4. Rests(g)
    BY <2>2, <2>3 DEF DiskInv, RestInv, Outdated
  <2>5. \A a \in Under[g] : out[a] = marker[g][a]
    BY <1>3, <2>4 DEF Rests
  <2>6. marker[g] = [a \in Under[g] |-> marker[g][a]]
    BY <1>1, <1>3, <2>1 DEF MarkersAreMaps
  <2> QED
    BY <1>4, <2>5, <2>6
<1>7. CASE g \notin AlwaysSteps
  <2>1. Outdated(marker[g])
    BY <1>1, <1>4, <1>7 DEF RecordInv
  <2>2. ASSUME Probe \in AlwaysSteps \cap Under[g] PROVE marker[Probe][Probe] = out[Probe]
    <3>1. Probe \in UnderOf(g) \ {g} /\ Probe \in Gates
      BY <1>3, <1>7, <2>2, GatesAssumption
    <3>2. Bound(Probe, Under[Probe])
      BY <1>1, <1>3, <1>4, <3>1, VerifiedBelow, UnderOfGate DEF MayRecord
    <3> QED
      BY <3>1, <3>2, UnderSelf DEF Bound
  <2> QED
    BY <1>1, <2>1, <2>2, OutdatedCause
<1> QED
  BY <1>5, <1>6, <1>7 DEF Late

LEMMA MoveCaused ==
    ASSUME RunnerInv, DiskInv, FirmInv, ReconcileMove,
           NEW g \in Gates, Marked(g), marker'[g] # marker[g]
    PROVE  \E a \in Under[g] \cap AlwaysSteps : out[a] # marker[g][a]
<1>1. /\ phase = "move" /\ At("reconcile") /\ todo # {}
      /\ marker' = [marker EXCEPT ![First(todo)] = NoMarker]
  BY DEF ReconcileMove
<1>2. ProcessOK /\ CountersOK /\ MarkersAreMaps /\ todo \subseteq Steps
  BY DEF RunnerInv, ProcessOK
<1>3. g = First(todo) /\ g \in todo
  <2>1. First(todo) \in todo
    BY <1>1, <1>2, FirstIn
  <2>2. g \in Steps
    BY NamedGates
  <2> QED
    BY <1>1, <1>2, <2>1, <2>2 DEF MarkersAreMaps
<1>4. Outdated(marker[g])
  BY <1>1, <1>3 DEF FirmInv
<1>5. ASSUME Probe \in AlwaysSteps PROVE marker[Probe][Probe] = out[Probe]
  <2>1. Torn = {} /\ prog = "main" /\ Running /\ Probe \in CalledBefore(pc) \cap Gates
    BY <1>1, <1>2, <1>5, ReconcileHere, GatesAssumption DEF Torn
  <2>2. Bound(Probe, Under[Probe])
    BY <2>1 DEF RunnerInv, WalkInv, MainInv, MainBound, AllBound
  <2> QED
    BY <2>1, <2>2, UnderSelf DEF Bound
<1> QED
  BY <1>2, <1>4, <1>5, OutdatedCause

(* Nothing else changes a marker. *)
LEMMA MarkersChange ==
    ASSUME [Next]_vars
    PROVE  marker' = marker \/ RecordMarker \/ PreserveStaleMatrix \/ ReconcileMove
<1>1. CASE UNCHANGED vars \/ Invoke \/ World
  BY <1>1 DEF vars, disk, records, Invoke, World, HostChange, LoseVolume
<1>2. CASE Proceed
  BY <1>2 DEF Proceed, Skip, RunAlways, RunGate, KeepEvidence, RefuseOutput, VerifyMatrixLive,
     MatrixDrift, BuildWorkers, WorkersPresent, RebuildWorkers, PushWorkers,
     LockMatrix, ResolvePublicFailure, GenerateEvidence, CleanUp, RejectRecord,
     FinishFailed, ReconcileRaises, ReconcileStart, ReconcileDone, disk, records
<1>3. CASE Failure
  BY <1>3 DEF Failure, CommandDies, PushInterrupted, InvocationGuardFails, Crash, CrashMoving,
     disk, records
<1> QED
  BY <1>1, <1>2, <1>3 DEF Next

(* A gate, once recorded, keeps its marker through every later invocation,   *)
(* unless a repeated step observes, or left, something else than what the    *)
(* marker rests on.                                                          *)
THEOREM RepeatsAreCaused == Spec => RepeatedOnlyForCause
<1>1. ASSUME RunnerInv, IntactInv, [Next]_vars,
             NEW g \in Gates, Intact, marker[g] # NoMarker, marker'[g] # marker[g]
      PROVE  \E a \in Under[g] \cap AlwaysSteps : out[a] # marker[g][a]
  <2>1. DiskInv /\ FirmInv /\ RecordInv /\ Marked(g)
    BY <1>1 DEF IntactInv, Marked
  <2>2. CASE RecordMarker
    BY <1>1, <2>1, <2>2, RecordCaused
  <2>3. CASE PreserveStaleMatrix
    BY <1>1, <2>1, <2>3, NeverStale DEF PreserveStaleMatrix
  <2>4. CASE ReconcileMove
    BY <1>1, <2>1, <2>4, MoveCaused
  <2> QED
    BY <1>1, <2>2, <2>3, <2>4, MarkersChange
<1>2. RunnerInv /\ IntactInv /\ [Next]_vars =>
         [\A g \in Gates :
             Intact /\ marker[g] # NoMarker /\ marker'[g] # marker[g] =>
                \E a \in Under[g] \cap AlwaysSteps : out[a] # marker[g][a]]_vars
  BY <1>1
<1>3. Spec => [][Next]_vars
  BY DEF Spec
<1> QED
  BY <1>2, <1>3, IntactInvariant, PTL DEF RepeatedOnlyForCause

-----------------------------------------------------------------------------
(***************************************************************************)
(* As long as the registry volume lasts, a recorded publication stands,    *)
(* unless what every invocation repeats tells something new: nothing it    *)
(* names is written, recorded or moved beside it.                          *)
(***************************************************************************)

(* The files evidence.json names, when its marker is m: those on the disk,   *)
(* and of the repeated steps those m binds.                                  *)
Inventory(m) ==
    [s \in Gates \cup {PublicFailure} |->
        [marker |-> marker[s], out |-> IF s \in AlwaysSteps THEN m[s] ELSE out[s]]]

(* A publication stands when all it rests on is there as it binds it, and    *)
(* nothing else has appeared.                                                *)
EvidenceStands(m) ==
    /\ DOMAIN m = UnderOf(FinalEvidence)
    /\ \A b \in UnderOf(FinalEvidence) \ {FinalEvidence} :
          /\ marker[b] = Narrow(m, UnderOf(b))
          /\ b \notin AlwaysSteps => out[b] = m[b]
    /\ named = Inventory(m)
    /\ \A s \in Gates \cup {PublicFailure} : ~Marked(s) => out[s] = NoOut
    /\ FailedMarks = {} => ~Marked(PublicFailure)
    /\ \A s \in Gates : Marked(s) =>
          \A a \in AlwaysSteps \cap Under[s] : marker[s][a] = m[a]

EvidenceKept(m) ==
    /\ FinalEvidence \in DOMAIN m
    /\ \A a \in DOMAIN m : m[a].result \in {"passed", "failed"}
    /\ m[FinalEvidence] = out[FinalEvidence] => Outdated(m) \/ EvidenceStands(m)

(* A recorded publication stands, is outdated or was written over. *)
EvidenceInv == Marked(FinalEvidence) => EvidenceKept(marker[FinalEvidence])

(* reconcile moves what is there, and a publication only when it is outdated. *)
MoveInv ==
    phase = "move" =>
        /\ \A s \in todo : out[s] # NoOut \/ Marked(s)
        /\ /\ FinalEvidence \in todo
           /\ Marked(FinalEvidence)
           /\ marker[FinalEvidence][FinalEvidence] = out[FinalEvidence]
           => Outdated(marker[FinalEvidence])

LEMMA KeptNext ==
    ASSUME NEW m, m = marker'[FinalEvidence], EvidenceKept(m)'
    PROVE  EvidenceInv'
BY DEF EvidenceInv, EvidenceKept, EvidenceStands, Inventory, Outdated, HostMoved, Drifted

(* What a publication covers: all gates, or those up to the one that failed. *)
LEMMA EvidenceCovers ==
    ASSUME ~Ambiguous
    PROVE  /\ FailedMarks = {} =>
                 /\ UnderOf(FinalEvidence) = {FinalEvidence} \cup Gates
                 /\ DepsOf(FinalEvidence) = Gates
           /\ \A e \in FailedMarks :
                 /\ FailedMarks = {e}
                 /\ UnderOf(PublicFailure) = {PublicFailure} \cup Under[e]
                 /\ UnderOf(FinalEvidence) = {FinalEvidence, PublicFailure} \cup Prefix(e)
                 /\ DepsOf(FinalEvidence) = Prefix(e) \cup {PublicFailure}
           /\ FinalEvidence \in UnderOf(FinalEvidence)
           /\ AlwaysSteps \subseteq UnderOf(FinalEvidence)
           /\ CalledBefore(ReconcileIndex) \subseteq UnderOf(FinalEvidence)
           /\ PublicFailure \in UnderOf(FinalEvidence) <=> FailedMarks # {}
           /\ UnderOf(FinalEvidence) \subseteq Gates \cup {PublicFailure, FinalEvidence}
<1>1. AlwaysSteps \subseteq Gates /\ CalledBefore(ReconcileIndex) \subseteq Gates
  BY GatesAssumption, ReconcilePlace
<1>2. ASSUME NEW e \in FailedMarks
      PROVE  /\ FailedMarks = {e}
             /\ UnderOf(PublicFailure) = {PublicFailure} \cup Under[e]
             /\ UnderOf(FinalEvidence) = {FinalEvidence, PublicFailure} \cup Prefix(e)
             /\ DepsOf(FinalEvidence) = Prefix(e) \cup {PublicFailure}
             /\ AlwaysSteps \subseteq Prefix(e) /\ CalledBefore(ReconcileIndex) \subseteq Prefix(e)
             /\ Prefix(e) \subseteq Gates
  <2>1. FailedMarks = {e} /\ e \in DomainSteps /\ e \in Gates
    BY GatesAssumption DEF Ambiguous, FailedMarks
  <2>2. e \in Prefix(e) /\ Closed(Prefix(e)) /\ Prefix(e) \subseteq Gates
    BY <2>1, PrefixClosed DEF Closed
  <2>3. EvidenceGates = Prefix(e)
    BY <2>1 DEF EvidenceGates
  <2>4. UNION {Under[g] : g \in Prefix(e)} = Prefix(e)
    BY <2>2, UnderSelf DEF Closed
  <2>5. EvidenceUnder = {FinalEvidence, PublicFailure} \cup Prefix(e)
    BY <2>1, <2>3, <2>4 DEF EvidenceUnder
  <2>6. UNION {Under[d] : d \in FailedMarks} = Under[e]
    BY <2>1
  <2>7. AlwaysSteps \subseteq Prefix(e)
    BY <2>1, <2>2, ReconcileAssumption DEF Closed
  <2>8. CalledBefore(ReconcileIndex) \subseteq Prefix(e)
    <3>1. PICK i \in Called : Script[i].step = e
      BY <2>1, OrderAssumption
    <3>2. i > ReconcileIndex /\ i \in Nat /\ ReconcileIndex \in Nat /\ Called \subseteq Nat
      BY <2>1, <3>1, ReconcileAssumption, ScriptAssumption, ReconcilePlace DEF Called
    <3>3. CalledBefore(ReconcileIndex) \subseteq CalledBefore(i)
      BY <3>2 DEF CalledBefore
    <3> QED
      BY <2>1, <3>1, <3>3, OrderAssumption
  <2> QED
    BY <2>1, <2>2, <2>3, <2>5, <2>6, <2>7, <2>8, UnderOfTerminal
<1>3. CASE FailedMarks = {}
  BY <1>1, <1>3, PassedUnder, TerminalNames
<1>4. CASE FailedMarks # {}
  <2>1. PICK e \in FailedMarks : TRUE
    BY <1>4
  <2> QED
    BY <1>2, <2>1
<1> QED
  BY <1>3, <1>4

(* A gate that is outdated outdates the publication that stands on it. *)
LEMMA OutdatedAbove ==
    ASSUME DiskInv, NEW m, EvidenceStands(m), NEW g \in Gates, Marked(g), Outdated(marker[g])
    PROVE  Outdated(m)
<1>1. AlwaysSteps \subseteq DOMAIN m
  BY EvidenceCovers DEF DiskInv, FailInv, EvidenceStands
<1>2. DOMAIN marker[g] = Under[g]
  BY DEF DiskInv, MarksInv
<1>3. \A a \in AlwaysSteps \cap Under[g] : marker[g][a] = m[a]
  BY DEF EvidenceStands
<1>4. HostMoved(marker[g]) => HostMoved(m)
  BY <1>1, <1>2, <1>3 DEF HostMoved
<1>5. Drifted(marker[g]) => Drifted(m)
  BY <1>1, <1>2, <1>3 DEF Drifted, Late
<1> QED
  BY <1>4, <1>5 DEF Outdated

(* What a publication that stands rests on has a marker. *)
LEMMA CoveredMarked ==
    ASSUME NEW m, EvidenceStands(m), NEW b \in UnderOf(FinalEvidence) \ {FinalEvidence}
    PROVE  b \in Steps /\ Marked(b)
<1>1. b \in Steps
  BY UnderOfType DEF Steps, Terminal
<1>2. marker[b] = Narrow(m, UnderOf(b)) /\ b \in UnderOf(b)
  BY <1>1, UnderOfDeps DEF EvidenceStands
<1> QED
  BY <1>1, <1>2 DEF Narrow, Marked, NoMarker

(* It still stands when nothing it names is written. *)
LEMMA EvidenceFrame ==
    ASSUME ~Ambiguous, NEW m, EvidenceStands(m), named' = named,
           \A s \in Gates \cup {PublicFailure} :
              marker'[s] = marker[s] /\ (s \notin AlwaysSteps => out'[s] = out[s])
    PROVE  EvidenceStands(m)'
<1>1. FailedMarks' = FailedMarks /\ \A s \in Steps : UnderOf(s)' = UnderOf(s)
  BY UnderOfFrame, GatesAssumption
<1>2. FinalEvidence \in Steps /\ PublicFailure \in Steps /\ Gates \subseteq Steps
  BY DEF Steps, Terminal
<1>3. UnderOf(FinalEvidence) \subseteq Gates \cup {PublicFailure, FinalEvidence}
  BY EvidenceCovers
<1>4. \A s \in AlwaysSteps : Marked(s)
  <2>1. \A s \in AlwaysSteps : s \in UnderOf(FinalEvidence) \ {FinalEvidence}
    BY EvidenceCovers, GatesAssumption, TerminalNames
  <2> QED
    BY <2>1, CoveredMarked
<1>5. Inventory(m)' = Inventory(m)
  BY DEF Inventory
<1>6. \A s \in Gates \cup {PublicFailure} : marker'[s] = NoMarker => out'[s] = NoOut
  BY <1>4 DEF EvidenceStands, Marked
<1>7. \A b \in UnderOf(FinalEvidence) \ {FinalEvidence} :
         /\ marker'[b] = Narrow(m, UnderOf(b)')
         /\ b \notin AlwaysSteps => out'[b] = m[b]
  BY <1>1, <1>2, <1>3 DEF EvidenceStands
<1> QED
  BY <1>1, <1>2, <1>5, <1>6, <1>7 DEF EvidenceStands, Marked, Narrow

(* While a publication is there, the script does not get beyond what it      *)
(* covers.                                                                   *)
LEMMA AskedBeside ==
    ASSUME RunnerInv, DiskInv, FirmInv, Ordered, phase # "move", Marked(FinalEvidence),
           NEW s \in Gates \cup {PublicFailure}, Name(s)
    PROVE  /\ s \in UnderOf(FinalEvidence) /\ s \in Standing
           /\ FinalEvidence \in Standing /\ StandingInv
<1>1. ProcessOK /\ WalkInv /\ todo = {} /\ StandingInv /\ ~Ambiguous
  BY DEF RunnerInv, FirmInv, DiskInv, FailInv
<1>2. FinalEvidence \in Standing /\ UnderOf(FinalEvidence) \subseteq Standing
  <2>1. FinalEvidence \in Standing
    BY <1>1 DEF Standing, Steps, Terminal
  <2> QED
    BY <1>1, <2>1 DEF StandingInv
<1> SUFFICES s \in UnderOf(FinalEvidence)
  BY <1>1, <1>2
<1>3. CASE s = PublicFailure
  <2>1. prog = "failed" /\ Running
    BY <1>1, <1>3, StepHere, TerminalNames DEF ProcessOK
  <2>2. FailedBound(pc, failedStep)
    BY <1>1, <2>1 DEF WalkInv, FailedInv
  <2> QED
    BY <1>1, <1>3, <2>2, FailedUnder
<1>4. CASE s \in Gates /\ FailedMarks = {}
  BY <1>1, <1>4, EvidenceCovers
<1>5. ASSUME s \in Gates, NEW e \in FailedMarks PROVE s \in UnderOf(FinalEvidence)
  <2>1. e \in DomainSteps /\ e \in Gates /\ marker[e][e].result = "failed"
    BY GatesAssumption DEF FailedMarks
  <2>2. UnderOf(FinalEvidence) = {FinalEvidence, PublicFailure} \cup Prefix(e) /\ e \in Prefix(e)
    BY <1>1, <2>1, EvidenceCovers, PrefixClosed
  <2>3. Bound(e, Under[e]) /\ e \in Under[e]
    BY <1>1, <1>2, <2>1, <2>2, UnderOfGate, UnderSelf DEF StandingInv
  <2>4. out[e].result = "failed"
    BY <2>1, <2>3 DEF Bound
  <2>5. prog = "main" /\ pc \in Called /\ s = Script[pc].step /\ Running /\ pc \in Nat
    <3>1. prog = "failed" => s \in Terminal
      BY <1>1, StepHere DEF Terminal
    <3>2. s \notin Terminal
      BY <1>5, GatesAssumption
    <3> QED
      BY <1>1, <3>1, <3>2, StepHere DEF ProcessOK
  <2>6. MainPassed(pc, NoStep)
    BY <1>1, <2>5, NoFailureYet, StepHere DEF WalkInv, MainInv
  <2>7. e \notin CalledBefore(pc)
    BY <2>1, <2>4, <2>6, GatesAssumption DEF MainPassed
  <2>8. PICK j \in Called : Script[j].step = e
    BY <2>1, OrderAssumption
  <2>9. j \in Nat /\ ~(j < pc)
    BY <2>5, <2>7, <2>8, ScriptAssumption DEF Called, CalledBefore
  <2>10. Prefix(e) = CalledBefore(j) \cup {e}
    BY <2>1, <2>8, OrderAssumption
  <2>11. s \in CalledBefore(j) \/ s = e
    BY <2>5, <2>8, <2>9 DEF CalledBefore
  <2> QED
    BY <2>2, <2>10, <2>11
<1> QED
  BY <1>3, <1>4, <1>5

(* Only what every invocation repeats is executed beside a publication that  *)
(* stands.                                                                   *)
LEMMA ExecutedBeside ==
    ASSUME RunnerInv, DiskInv, FirmInv, Marked(FinalEvidence),
           NEW m, m = marker[FinalEvidence], EvidenceStands(m), ~Outdated(m),
           NEW s \in Steps, Executing(s)
    PROVE  s \in AlwaysSteps \cup {TerminalCleanup}
<1> SUFFICES ASSUME s \notin AlwaysSteps, s # TerminalCleanup PROVE FALSE
  OBVIOUS
<1>1. ProcessOK /\ FailInv /\ ~Ambiguous /\ Name(s) /\ phase = "check"
  BY DEF RunnerInv, DiskInv, FailInv, Executing
<1>2. CASE Ordered
  <2>1. ~Marked(s) /\ s \notin Standing
    BY <1>1, <1>2, ExecutingUnmarked
  <2>2. s \in Gates \cup {PublicFailure}
    BY <2>1 DEF Steps, Terminal
  <2> QED
    BY <1>1, <1>2, <2>1, <2>2, AskedBeside
<1>3. CASE ~Ordered
  <2>1. s \in Gates /\ s \in CalledBefore(ReconcileIndex)
    BY <1>1, <1>3, AskedAfter
  <2>2. s \in UnderOf(FinalEvidence) \ {FinalEvidence}
    BY <1>1, <2>1, EvidenceCovers, TerminalNames
  <2>3. Marked(s)
    BY <2>2, CoveredMarked
  <2>4. Outdated(marker[s])
    BY <2>1, <2>3, ExecutedCaused, UnderSelf
  <2> QED
    BY <2>1, <2>3, <2>4, OutdatedAbove
<1> QED
  BY <1>2, <1>3

(* A command leaves a publication standing or outdated. *)
LEMMA EvidenceWrite ==
    ASSUME RunnerInv, DiskInv, FirmInv, EvidenceInv, NEW s \in Steps, Executing(s),
           marker' = marker, \A a \in Steps \ {s} : out'[a] = out[a],
           named' = named \/ s = FinalEvidence
    PROVE  EvidenceInv'
<1> SUFFICES ASSUME Marked(FinalEvidence) PROVE EvidenceInv'
  BY DEF EvidenceInv, Marked
<1>1. ProcessOK /\ FailInv /\ ~Ambiguous /\ Name(s) /\ phase = "check" /\ todo = {}
      /\ AlwaysSteps \subseteq Gates /\ Gates \cup {PublicFailure, FinalEvidence} \subseteq Steps
      /\ FinalEvidence \notin Gates
  BY GatesAssumption DEF RunnerInv, DiskInv, FailInv, FirmInv, Executing, Steps, Terminal
<1>2. s # FinalEvidence
  <2> SUFFICES ASSUME s = FinalEvidence PROVE FALSE
    OBVIOUS
  <2>1. Ordered
    BY <1>1, AskedAfter DEF Terminal
  <2> QED
    BY <1>1, <2>1, ExecutingUnmarked
<1>3. PICK m : m = marker[FinalEvidence]
  OBVIOUS
<1>4. EvidenceKept(m) /\ out'[FinalEvidence] = out[FinalEvidence] /\ named' = named
  BY <1>1, <1>2, <1>3 DEF EvidenceInv
<1>5. ASSUME m[FinalEvidence] = out[FinalEvidence], ~Outdated(m) PROVE EvidenceStands(m)'
  <2>1. EvidenceStands(m)
    BY <1>4, <1>5 DEF EvidenceKept
  <2>2. s \in AlwaysSteps \cup {TerminalCleanup}
    BY <1>3, <1>5, <2>1, ExecutedBeside
  <2>3. \A x \in Gates \cup {PublicFailure} : x \notin AlwaysSteps => out'[x] = out[x]
    BY <1>1, <2>2, TerminalNames
  <2> QED
    BY <1>1, <1>4, <2>1, <2>3, EvidenceFrame
<1>6. ASSUME Outdated(m) PROVE Outdated(m)'
  <2>1. CASE s \in Late
    <3>1. Ordered
      BY <1>1, <2>1, AskedAfter
    <3>2. FinalEvidence \in Standing /\ StandingInv
      BY <1>1, <3>1 DEF FirmInv, Standing
    <3>3. m = [a \in UnderOf(FinalEvidence) |-> out[a]]
      BY <1>3, <3>2 DEF StandingInv, Bound
    <3>4. HostMoved(m)
      BY <1>6, <3>3 DEF Outdated, Drifted
    <3> QED
      BY <3>4 DEF Outdated, HostMoved, Marked
  <2>2. CASE s \notin Late
    <3>1. \A a \in Late : out'[a] = out[a]
      BY <1>1, <2>2 DEF Late
    <3> QED
      BY <1>4, <1>6, <3>1, OutdatedKept DEF EvidenceKept
  <2> QED
    BY <2>1, <2>2
<1>7. EvidenceKept(m)'
  BY <1>4, <1>5, <1>6 DEF EvidenceKept
<1> QED
  BY <1>3, <1>7, KeptNext

(* Nothing changes for it when nothing is written. *)
LEMMA EvidenceSame ==
    ASSUME EvidenceInv, ~Ambiguous, UNCHANGED <<out, named>>,
           \A s \in Steps : marker'[s] = marker[s]
    PROVE  EvidenceInv'
<1>1. Gates \cup {PublicFailure, FinalEvidence} \subseteq Steps /\ AlwaysSteps \subseteq Steps
  BY NamedGates DEF Steps, Terminal
<1> SUFFICES ASSUME Marked(FinalEvidence) PROVE EvidenceInv'
  BY <1>1 DEF EvidenceInv, Marked
<1>2. PICK m : m = marker[FinalEvidence]
  OBVIOUS
<1>3. EvidenceKept(m) /\ m = marker'[FinalEvidence]
  BY <1>1, <1>2 DEF EvidenceInv
<1>4. Outdated(m) => Outdated(m)'
  BY <1>1 DEF Outdated, HostMoved, Drifted, Marked
<1>5. EvidenceStands(m) => EvidenceStands(m)'
  BY <1>1, EvidenceFrame
<1>6. EvidenceKept(m)'
  BY <1>3, <1>4, <1>5 DEF EvidenceKept
<1> QED
  BY <1>3, <1>6, KeptNext

(* What record writes keeps a publication outdated that was. *)
LEMMA RecordLeavesOutdated ==
    ASSUME DiskOK, DiskInv, RecordInv, phase = "record", MarkersAreMaps,
           NEW s \in Steps, s = Here, out' = out, marker' = [marker EXCEPT ![s] = Payload(s)],
           NEW e \in Steps, NEW m, m = marker[e], Outdated(m)
    PROVE  Outdated(m)'
<1>1. \A x \in Steps : marker'[x] = IF x = s THEN Payload(s) ELSE marker[x]
  BY DEF MarkersAreMaps
<1>2. CASE Drifted(m)
  BY <1>2 DEF Drifted, Outdated
<1>3. CASE HostMoved(m) /\ s # Probe
  <2>1. Probe \in Steps
    BY <1>3, NamedGates DEF HostMoved
  <2>2. marker'[Probe] = marker[Probe]
    BY <1>1, <1>3, <2>1
  <2> QED
    BY <1>3, <2>2 DEF HostMoved, Outdated, Marked
<1>4. CASE HostMoved(m) /\ s = Probe
  <2>1. Probe \in AlwaysSteps /\ Probe \in Gates /\ Marked(Probe) /\ Probe \in DOMAIN m
    BY <1>4, GatesAssumption DEF HostMoved
  <2>2. /\ Probe \in Under[Probe] /\ UnderOf(Probe) = Under[Probe]
        /\ DOMAIN marker[Probe] = Under[Probe] /\ Probe \in Steps
    BY <2>1, UnderSelf, UnderOfGate DEF DiskInv, MarksInv
  <2>3. marker'[Probe] = [a \in Under[Probe] |-> out[a]]
    BY <1>1, <1>4, <2>2 DEF Payload
  <2>4. marker[Probe][Probe].basis.host <= out[Probe].basis.host
    BY <1>4, <2>1 DEF RecordInv
  <2>5. /\ m[Probe] \in Contents /\ marker[Probe][Probe] \in Contents
        /\ out[Probe] \in Contents
    BY <2>1, <2>2 DEF DiskOK
  <2>6. m[Probe].basis.host < out[Probe].basis.host
    BY <1>4, <2>4, <2>5 DEF HostMoved, Contents, Basis
  <2>7. marker'[Probe] # NoMarker /\ marker'[Probe][Probe] = out[Probe]
    BY <2>2, <2>3 DEF NoMarker
  <2> QED
    BY <1>4, <2>6, <2>7 DEF HostMoved, Outdated, Marked
<1> QED
  BY <1>2, <1>3, <1>4 DEF Outdated

(* The publication that was just generated stands when it is recorded. *)
LEMMA RecordedStands ==
    ASSUME RunnerInv, DiskInv, FirmInv, RecordMarker, FinalEvidence = Here
    PROVE  EvidenceInv'
<1>1. /\ ProcessOK /\ MarkersAreMaps /\ PhaseInv /\ phase = "record" /\ todo = {} /\ ~Ambiguous
      /\ Verify(DepsOf(FinalEvidence)) /\ Recordable(FinalEvidence)
      /\ out' = out /\ named' = named
      /\ marker' = [marker EXCEPT ![FinalEvidence] = Payload(FinalEvidence)]
  BY DEF RunnerInv, WalkInv, FirmInv, DiskInv, FailInv, RecordMarker, MayRecord
<1>2. Name(FinalEvidence)
  <2>1. At("ensure-workers") => Here = "worker-images"
    BY <1>1, CallHere, OrderAssumption
  <2>2. FinalEvidence # "worker-images"
    BY GatesAssumption, TerminalNames
  <2> QED
    BY <1>1, <2>1, <2>2 DEF PhaseInv
<1>3. StandingInv
  <2>1. Ordered
    BY <1>1, <1>2, AskedAfter DEF Terminal
  <2> QED
    BY <2>1 DEF FirmInv
<1>4. /\ FinalEvidence \in Steps /\ Gates \cup {PublicFailure} \subseteq Steps
      /\ FinalEvidence \notin Gates \cup {PublicFailure} /\ DomainSteps \subseteq Gates
      /\ AlwaysSteps \subseteq Gates
  BY GatesAssumption, TerminalNames DEF Steps, Terminal
<1>5. /\ marker'[FinalEvidence] = Payload(FinalEvidence)
      /\ \A x \in Gates \cup {PublicFailure} : marker'[x] = marker[x]
  BY <1>1, <1>4 DEF MarkersAreMaps
<1>6. FailedMarks' = FailedMarks /\ \A x \in Steps : UnderOf(x)' = UnderOf(x)
  BY <1>4, <1>5, UnderOfFrame
<1>7. PICK m : m = Payload(FinalEvidence)
  OBVIOUS
<1>8. /\ m = [a \in UnderOf(FinalEvidence) |-> out[a]]
      /\ FinalEvidence \in UnderOf(FinalEvidence) /\ AlwaysSteps \subseteq UnderOf(FinalEvidence)
  BY <1>1, <1>7, EvidenceCovers DEF Payload
<1>9. \A b \in UnderOf(FinalEvidence) \ {FinalEvidence} :
         /\ b \in Gates \cup {PublicFailure} /\ UnderOf(b) \subseteq UnderOf(FinalEvidence)
         /\ Bound(b, UnderOf(b))
  BY <1>1, <1>4, VerifiedBelow, EvidenceCovers
<1>10. \A a \in DOMAIN m : m[a].result \in {"passed", "failed"}
  BY <1>1, <1>8, <1>9 DEF Bound, Recordable
<1>11. \A b \in UnderOf(FinalEvidence) \ {FinalEvidence} :
          marker'[b] = Narrow(m, UnderOf(b)') /\ out'[b] = m[b]
  <2> SUFFICES ASSUME NEW b \in UnderOf(FinalEvidence) \ {FinalEvidence}
               PROVE  marker'[b] = Narrow(m, UnderOf(b)') /\ out'[b] = m[b]
    OBVIOUS
  <2>1. marker[b] = [a \in UnderOf(b) |-> out[a]] /\ UnderOf(b)' = UnderOf(b)
        /\ marker'[b] = marker[b] /\ UnderOf(b) \subseteq UnderOf(FinalEvidence)
    BY <1>4, <1>5, <1>6, <1>9 DEF Bound
  <2> QED
    BY <1>1, <1>8, <2>1 DEF Narrow
<1>12. named' = Inventory(m)'
  <2>1. named = Tree
    BY <1>1 DEF PhaseInv
  <2>2. \A x \in Gates \cup {PublicFailure} :
           out[x] = IF x \in AlwaysSteps THEN m[x] ELSE out[x]
    BY <1>8
  <2> QED
    BY <1>1, <1>5, <2>1, <2>2 DEF Tree, Inventory
<1>13. \A x \in Gates \cup {PublicFailure} : marker'[x] = NoMarker => out'[x] = NoOut
  BY <1>1, <1>3, <1>4, <1>5 DEF StandingInv, Standing, Marked
<1>14. FailedMarks = {} => marker'[PublicFailure] = NoMarker
  BY <1>1, <1>3, <1>4, <1>5 DEF StandingInv, Standing, Marked
<1>15. ASSUME NEW x \in Gates, marker'[x] # NoMarker, NEW a \in AlwaysSteps \cap Under[x]
       PROVE  marker'[x][a] = m[a]
  <2>1. x \in Standing /\ UnderOf(x) = Under[x]
    BY <1>1, <1>4, <1>5, <1>15, UnderOfGate DEF Standing, Marked
  <2>2. marker[x] = [b \in Under[x] |-> out[b]]
    BY <1>3, <2>1 DEF StandingInv, Bound
  <2>3. marker'[x][a] = out[a]
    BY <1>5, <1>15, <2>2
  <2> QED
    BY <1>8, <2>3
<1>16. EvidenceStands(m)'
  BY <1>4, <1>6, <1>8, <1>11, <1>12, <1>13, <1>14, <1>15 DEF EvidenceStands, Marked
<1>17. EvidenceKept(m)' /\ m = marker'[FinalEvidence]
  BY <1>5, <1>7, <1>8, <1>10, <1>16 DEF EvidenceKept
<1> QED
  BY <1>17, KeptNext

(* record leaves a publication standing or outdated. *)
LEMMA EvidenceRecord ==
    ASSUME RunnerInv, DiskInv, FirmInv, RecordInv, EvidenceInv, RecordMarker
    PROVE  EvidenceInv'
<1>0. PICK s : s = Here
  OBVIOUS
<1>1. /\ ProcessOK /\ DiskOK /\ CountersOK /\ MarkersAreMaps /\ WalkInv
      /\ phase = "record" /\ todo = {} /\ ~Ambiguous /\ MayRecord(s)
      /\ out' = out /\ named' = named /\ marker' = [marker EXCEPT ![s] = Payload(s)]
  BY <1>0 DEF RunnerInv, FirmInv, DiskInv, FailInv, RecordMarker
<1>2. Name(s)
  BY <1>0, <1>1 DEF WalkInv, PhaseInv, RecordInv
<1>3. s \in Steps /\ Gates \cup {PublicFailure, FinalEvidence} \subseteq Steps
  BY <1>1, <1>2, StepHere DEF Steps, Terminal
<1>4. \A x \in Steps : marker'[x] = IF x = s THEN Payload(s) ELSE marker[x]
  BY <1>1 DEF MarkersAreMaps
<1>5. CASE s = FinalEvidence
  BY <1>0, <1>5, RecordedStands
<1>6. CASE s # FinalEvidence
  <2> SUFFICES ASSUME Marked(FinalEvidence) PROVE EvidenceInv'
    BY <1>3, <1>4, <1>6 DEF EvidenceInv, Marked
  <2>1. PICK m : m = marker[FinalEvidence]
    OBVIOUS
  <2>2. EvidenceKept(m) /\ m = marker'[FinalEvidence]
    BY <1>3, <1>4, <1>6, <2>1 DEF EvidenceInv
  <2>3. Outdated(m) => Outdated(m)'
    BY <1>0, <1>1, <1>3, <2>1, RecordLeavesOutdated
  <2>4. ASSUME EvidenceStands(m), ~Outdated(m)
        PROVE  Outdated(m)' \/ EvidenceStands(m)'
    <3>1. ASSUME marker'[s] = marker[s] \/ s = TerminalCleanup PROVE EvidenceStands(m)'
      <4>1. \A x \in Gates \cup {PublicFailure} : marker'[x] = marker[x]
        BY <1>3, <1>4, <3>1, TerminalNames
      <4> QED
        BY <1>1, <2>4, <4>1, EvidenceFrame
    <3>2. CASE s = TerminalCleanup
      BY <3>1, <3>2
    <3>3. CASE s \in Gates \cup {PublicFailure} /\ Ordered
      <4>1. s \in Standing /\ StandingInv
        BY <1>1, <1>2, <3>3, AskedBeside
      <4>2. s \in AlwaysSteps
        BY <1>0, <1>1, <4>1 DEF StandingInv
      <4>3. Bound(s, UnderOf(s))
        BY <4>1 DEF StandingInv
      <4>4. marker'[s] = marker[s]
        BY <1>3, <1>4, <4>3 DEF Bound, Payload
      <4> QED
        BY <3>1, <4>4
    <3>4. CASE s \in Gates \cup {PublicFailure} /\ ~Ordered
      <4>1. s \in Gates /\ s \in CalledBefore(ReconcileIndex) /\ (s \in AlwaysSteps => s = Probe)
        BY <1>1, <1>2, <3>4, AskedAfter DEF Late
      <4>2. s \in UnderOf(FinalEvidence) \ {FinalEvidence}
        BY <1>1, <1>6, <4>1, EvidenceCovers
      <4>3. /\ Marked(s) /\ UnderOf(s) = Under[s] /\ s \in Under[s] /\ Under[s] \subseteq Gates
            /\ Under[s] \subseteq UnderOf(FinalEvidence)
        BY <1>3, <2>4, <4>1, <4>2, CoveredMarked, UnderOfGate, UnderSelf, UnderOfClosed
      <4>4. marker[s] = [a \in Under[s] |-> m[a]]
        BY <2>4, <4>2, <4>3 DEF EvidenceStands, Narrow
      <4>5. s = Probe /\ s \in AlwaysSteps
        <5> SUFFICES ASSUME s \notin AlwaysSteps PROVE FALSE
          BY <4>1
        <5>1. Outdated(marker[s])
          BY <1>0, <1>1, <4>1, <4>3 DEF RecordInv
        <5> QED
          BY <2>4, <4>1, <4>3, <5>1, OutdatedAbove
      <4>6. \A a \in Under[s] \ {s} : out[a] = m[a]
        <5> SUFFICES ASSUME NEW a \in Under[s] \ {s} PROVE out[a] = m[a]
          OBVIOUS
        <5>1. Bound(a, UnderOf(a))
          BY <1>1, <1>3, <4>3, VerifiedBelow DEF MayRecord
        <5>2. a \in UnderOf(FinalEvidence) \ {FinalEvidence} /\ UnderOf(a) = Under[a]
              /\ a \in Under[a]
          BY <4>3, UnderOfGate, UnderSelf, TerminalNames
        <5>3. marker[a] = [x \in Under[a] |-> out[x]] /\ marker[a] = [x \in Under[a] |-> m[x]]
          BY <2>4, <5>1, <5>2 DEF Bound, EvidenceStands, Narrow
        <5> QED
          BY <5>2, <5>3
      <4>7. marker'[s] = [a \in Under[s] |-> out[a]]
        BY <1>3, <1>4, <4>3 DEF Payload
      <4>8. CASE out[s] = m[s]
        <5>1. \A a \in Under[s] : out[a] = m[a]
          BY <4>6, <4>8
        <5> QED
          BY <3>1, <4>4, <4>7, <5>1
      <4>9. CASE out[s] # m[s]
        <5>1. Shape(marker[s], s) /\ Shape(out, s) /\ marker[s][s] = m[s]
          BY <1>0, <1>1, <4>1, <4>3, <4>4 DEF DiskInv, MarksInv, RecordInv
        <5>2. PICK h \in 0..host : m[s] = Content(0, [NoBasis EXCEPT !.host = h], "passed", TRUE)
          BY <4>5, <5>1 DEF Shape
        <5>3. PICK k \in 0..host :
                 out[s] = Content(0, [NoBasis EXCEPT !.host = k], "passed", TRUE)
          BY <4>5, <5>1 DEF Shape
        <5>4. m[s].basis.host = h /\ out[s].basis.host = k /\ h # k
          <6>1. m[s].basis.host = h /\ out[s].basis.host = k
            BY <5>2, <5>3 DEF Content, NoBasis
          <6>2. h # k
            BY <4>9, <5>2, <5>3
          <6> QED
            BY <6>1, <6>2
        <5>5. h <= k
          BY <1>0, <1>1, <4>3, <4>5, <5>1, <5>4 DEF RecordInv
        <5>6. h < k
          BY <1>1, <5>4, <5>5 DEF CountersOK
        <5>7. marker'[s] # NoMarker /\ marker'[s][s] = out[s]
          BY <4>3, <4>7 DEF NoMarker
        <5>8. s \in DOMAIN m
          BY <2>4, <4>2 DEF EvidenceStands
        <5> QED
          BY <4>5, <5>4, <5>6, <5>7, <5>8 DEF Outdated, HostMoved, Marked
      <4> QED
        BY <4>8, <4>9
    <3> QED
      BY <1>3, <1>6, <3>2, <3>3, <3>4 DEF Steps, Terminal
  <2>5. EvidenceKept(m)'
    BY <1>1, <2>2, <2>3, <2>4 DEF EvidenceKept
  <2> QED
    BY <2>2, <2>5, KeptNext
<1> QED
  BY <1>5, <1>6

(* A publication that rests on what is there verifies. *)
LEMMA StandsVerified ==
    ASSUME MarkersAreMaps, NEW m, m = marker[FinalEvidence], EvidenceStands(m),
           \A b \in UnderOf(FinalEvidence) : out[b] = m[b] /\ Recordable(b)
    PROVE  Verify({FinalEvidence})
<1> SUFFICES ASSUME NEW b \in UnderOf(FinalEvidence) PROVE Local(b)
  BY DEF Verify
<1>1. FinalEvidence \in Steps
  BY DEF Steps, Terminal
<1>2. \A x \in UnderOf(FinalEvidence) :
         /\ x \in Steps /\ x \in UnderOf(x) /\ UnderOf(x) \subseteq UnderOf(FinalEvidence)
         /\ marker[x] = [y \in UnderOf(x) |-> m[y]]
  <2> SUFFICES ASSUME NEW x \in UnderOf(FinalEvidence)
               PROVE  /\ x \in Steps /\ x \in UnderOf(x)
                      /\ UnderOf(x) \subseteq UnderOf(FinalEvidence)
                      /\ marker[x] = [y \in UnderOf(x) |-> m[y]]
    OBVIOUS
  <2>1. x \in Steps /\ x \in UnderOf(x) /\ UnderOf(x) \subseteq UnderOf(FinalEvidence)
    BY <1>1, UnderOfType, UnderOfDeps, UnderOfClosed
  <2>2. CASE x = FinalEvidence
    BY <1>1, <2>1, <2>2 DEF MarkersAreMaps, EvidenceStands
  <2>3. CASE x # FinalEvidence
    <3>1. marker[x] = Narrow(m, UnderOf(x))
      BY <2>3 DEF EvidenceStands
    <3> QED
      BY <2>1, <3>1 DEF Narrow
  <2> QED
    BY <2>1, <2>2, <2>3
<1>3. marker[b] # NoMarker /\ DOMAIN marker[b] = UnderOf(b) /\ marker[b][b] = out[b]
  <2>1. marker[b] = [y \in UnderOf(b) |-> m[y]] /\ b \in UnderOf(b)
    BY <1>2
  <2>2. out[b] = m[b]
    OBVIOUS
  <2> QED
    BY <2>1, <2>2 DEF NoMarker
<1>4. ASSUME NEW d \in DepsOf(b) PROVE marker[d] = Narrow(marker[b], UnderOf(d))
  <2>1. d \in UnderOf(b) /\ UnderOf(d) \subseteq UnderOf(b)
    <3>1. /\ b \in Steps /\ d \in Steps
          /\ UnderOf(b) = {b} \cup UNION {UnderOf(x) : x \in DepsOf(b)}
      BY <1>2, UnderOfDeps
    <3>2. d \in UnderOf(d)
      BY <3>1, UnderOfDeps
    <3> QED
      BY <3>1, <3>2
  <2>2. marker[b] = [y \in UnderOf(b) |-> m[y]]
    BY <1>2
  <2>3. marker[d] = [y \in UnderOf(d) |-> m[y]]
    BY <1>2, <2>1
  <2> QED
    BY <2>1, <2>2, <2>3 DEF Narrow
<1> QED
  BY <1>3, <1>4 DEF Local

(* When reconcile begins, a publication that stands verifies. *)
LEMMA ReconcileSpares ==
    ASSUME RunnerInv, DiskInv, At("reconcile"), phase = "check",
           NEW m, m = marker[FinalEvidence], m # NoMarker, EvidenceKept(m),
           m[FinalEvidence] = out[FinalEvidence], ~Outdated(m)
    PROVE  Valid(FinalEvidence)
<1>1. EvidenceStands(m) /\ MarkersAreMaps /\ ~Ambiguous
  BY DEF EvidenceKept, RunnerInv, DiskInv, FailInv
<1>2. ASSUME NEW g \in UnderOf(FinalEvidence), g \in Gates
      PROVE  out[g] = m[g] /\ Recordable(g)
  <2>1. /\ g # FinalEvidence /\ g \in Steps /\ Marked(g)
        /\ marker[g] = Narrow(m, UnderOf(g)) /\ g \in UnderOf(g)
    BY <1>1, <1>2, CoveredMarked, UnderOfGate, UnderSelf, TerminalNames DEF EvidenceStands
  <2>2. Verify({g})
    BY <1>1, <1>2, <2>1, ReconcileInvalid, OutdatedAbove DEF Valid
  <2>3. Bound(g, UnderOf(g))
    BY <1>1, <2>1, <2>2, ValidBinds
  <2> QED
    BY <2>1, <2>3 DEF Bound, Narrow
<1>3. ASSUME NEW b \in UnderOf(FinalEvidence), b \in Terminal
      PROVE  out[b] = m[b] /\ Recordable(b)
  <2>1. out[b] = m[b]
    <3>1. b \notin AlwaysSteps
      BY <1>3, GatesAssumption
    <3> QED
      BY <1>1, <3>1 DEF EvidenceStands
  <2>2. m[b].result \in {"passed", "failed"} /\ b # "core-qualification"
    BY <1>1, <1>3, TerminalNames DEF EvidenceKept, EvidenceStands
  <2> QED
    BY <2>1, <2>2 DEF Recordable
<1>4. \A b \in UnderOf(FinalEvidence) : b \in Gates \/ b \in Terminal
  BY <1>1, EvidenceCovers DEF Terminal
<1>5. Verify({FinalEvidence})
  BY <1>1, <1>2, <1>3, <1>4, StandsVerified
<1> QED
  BY <1>1, <1>5 DEF Valid

(* reconcile has judged the publication. *)
LEMMA StartEvidence ==
    ASSUME RunnerInv, DiskInv, EvidenceInv, ReconcileStart
    PROVE  EvidenceInv' /\ MoveInv'
<1>1. /\ phase = "check" /\ At("reconcile") /\ ~Ambiguous /\ todo' = Invalid
      /\ out' = out /\ marker' = marker /\ named' = named
  BY DEF ReconcileStart, disk, records
<1>2. EvidenceInv'
  BY <1>1, EvidenceSame
<1>3. \A s \in todo' : out'[s] # NoOut \/ marker'[s] # NoMarker
  BY <1>1 DEF Invalid
<1>4. PICK m : m = marker[FinalEvidence]
  OBVIOUS
<1>5. ASSUME FinalEvidence \in Invalid, m # NoMarker, m[FinalEvidence] = out[FinalEvidence]
      PROVE  Outdated(m)
  BY <1>1, <1>4, <1>5, ReconcileSpares DEF Invalid, EvidenceInv, Marked
<1>6. Outdated(m) => Outdated(m)'
  BY <1>1 DEF Outdated, HostMoved, Drifted, Marked
<1>7. MoveInv'
  <2>1. m = marker'[FinalEvidence]
    BY <1>1, <1>4
  <2>2. ASSUME FinalEvidence \in todo', m # NoMarker, m[FinalEvidence] = out'[FinalEvidence]
        PROVE  Outdated(m)'
    BY <1>1, <1>5, <1>6, <2>2
  <2> QED
    BY <1>3, <2>1, <2>2 DEF MoveInv, Marked, Outdated, HostMoved, Drifted
<1> QED
  BY <1>2, <1>7

(* What reconcile moves leaves a marker outdated that was. *)
LEMMA MoveOutdates ==
    ASSUME RunnerInv, phase = "move", NEW t \in todo,
           out' = [out EXCEPT ![t] = NoOut],
           marker' = marker \/ marker' = [marker EXCEPT ![t] = NoMarker],
           NEW m, Outdated(m), \A a \in DOMAIN m : m[a].result \in {"passed", "failed"}
    PROVE  Outdated(m)'
<1>1. ProcessOK /\ MarkersAreMaps /\ DiskOK /\ PhaseInv /\ todo \subseteq Steps /\ AlwaysSteps \subseteq Steps
  BY NamedGates DEF RunnerInv, WalkInv, ProcessOK
<1>2. CASE HostMoved(m)
  <2>1. Probe \in AlwaysSteps /\ Probe \in Steps
    BY <1>1, <1>2 DEF HostMoved
  <2>2. Probe # t
    BY <1>1, <2>1, ReconcileHere DEF PhaseInv
  <2>3. marker'[Probe] = marker[Probe]
    BY <1>1, <2>1, <2>2 DEF MarkersAreMaps
  <2> QED
    BY <1>2, <2>3 DEF HostMoved, Outdated, Marked
<1>3. CASE Drifted(m)
  <2>1. PICK a \in Late \cap DOMAIN m : out[a] # m[a]
    BY <1>3 DEF Drifted
  <2>2. m[a].result \in {"passed", "failed"} /\ a \in Steps
    BY <1>1, <2>1 DEF Late
  <2>3. out'[a] # m[a]
    BY <1>1, <2>1, <2>2 DEF DiskOK, NoOut, Content
  <2> QED
    BY <2>1, <2>3 DEF Drifted, Outdated
<1> QED
  BY <1>2, <1>3 DEF Outdated

(* reconcile moves nothing that a publication which stands rests on. *)
LEMMA MoveEvidence ==
    ASSUME RunnerInv, DiskInv, FirmInv, EvidenceInv, MoveInv, phase = "move", todo # {},
           NEW t, t = First(todo), out' = [out EXCEPT ![t] = NoOut],
           marker' = marker \/ marker' = [marker EXCEPT ![t] = NoMarker],
           named' = IF t = FinalEvidence THEN NoMarker ELSE named
    PROVE  EvidenceInv'
<1>1. /\ ProcessOK /\ MarkersAreMaps /\ DiskOK /\ todo \subseteq Steps /\ ~Ambiguous
      /\ StandingInv
  BY DEF RunnerInv, ProcessOK, DiskInv, FailInv, FirmInv, Ordered
<1>2. t \in todo /\ t \in Steps /\ t \notin Standing
  BY <1>1, FirstIn DEF Standing
<1>3. /\ \A x \in Steps : marker'[x] = marker[x] \/ (x = t /\ marker'[x] = NoMarker)
      /\ \A x \in Steps : out'[x] = IF x = t THEN NoOut ELSE out[x]
      /\ Gates \cup {PublicFailure, FinalEvidence} \subseteq Steps
  BY <1>1, <1>2 DEF MarkersAreMaps, DiskOK, Steps, Terminal
<1> SUFFICES ASSUME marker'[FinalEvidence] # NoMarker PROVE EvidenceInv'
  BY DEF EvidenceInv, Marked
<1>4. PICK m : m = marker[FinalEvidence]
  OBVIOUS
<1>5. EvidenceKept(m) /\ m = marker'[FinalEvidence] /\ Marked(FinalEvidence)
  BY <1>3, <1>4 DEF EvidenceInv, Marked
<1>6. Outdated(m) => Outdated(m)'
  BY <1>2, <1>5, MoveOutdates DEF EvidenceKept
<1>7. ASSUME m[FinalEvidence] = out'[FinalEvidence], ~Outdated(m)
      PROVE  EvidenceStands(m)'
  <2>1. t # FinalEvidence
    <3>1. m[FinalEvidence].result \in {"passed", "failed"}
      BY <1>5 DEF EvidenceKept
    <3> QED
      BY <1>3, <1>7, <3>1 DEF NoOut, Content
  <2>2. m[FinalEvidence] = out[FinalEvidence] /\ named' = named
    BY <1>3, <1>7, <2>1
  <2>3. EvidenceStands(m)
    BY <1>5, <1>7, <2>2 DEF EvidenceKept
  <2>4. FinalEvidence \in Standing
    BY <1>3, <1>4, <1>5, <1>7, <2>2 DEF MoveInv, Standing
  <2>5. t \notin UnderOf(FinalEvidence)
    BY <1>1, <1>2, <2>4 DEF StandingInv
  <2>6. t \notin Gates \cup {PublicFailure}
    <3> SUFFICES ASSUME t \in Gates \cup {PublicFailure} PROVE FALSE
      OBVIOUS
    <3>1. Marked(t)
      BY <1>2, <2>3 DEF MoveInv, EvidenceStands
    <3>2. CASE t \in Gates
      BY <1>2, <1>7, <2>3, <3>1, <3>2, OutdatedAbove DEF FirmInv
    <3>3. CASE t = PublicFailure
      BY <1>1, <2>3, <2>5, <3>1, <3>3, EvidenceCovers DEF EvidenceStands
    <3> QED
      BY <3>2, <3>3
  <2>7. \A s \in Gates \cup {PublicFailure} : marker'[s] = marker[s] /\ out'[s] = out[s]
    BY <1>3, <2>6
  <2> QED
    BY <1>1, <2>2, <2>3, <2>7, EvidenceFrame
<1>8. EvidenceKept(m)'
  BY <1>5, <1>6, <1>7 DEF EvidenceKept
<1> QED
  BY <1>5, <1>8, KeptNext

(* ... and what is left to move is as it was judged. *)
LEMMA MoveLeft ==
    ASSUME RunnerInv, EvidenceInv, MoveInv, ReconcileMove
    PROVE  MoveInv'
<1>0. PICK t : t = First(todo)
  OBVIOUS
<1>1. /\ phase = "move" /\ todo # {} /\ todo' = todo \ {t}
      /\ out' = [out EXCEPT ![t] = NoOut] /\ marker' = [marker EXCEPT ![t] = NoMarker]
  BY <1>0 DEF ReconcileMove
<1>2. MarkersAreMaps /\ DiskOK /\ todo \subseteq Steps /\ t \in todo
  BY <1>0, <1>1, FirstIn DEF RunnerInv, ProcessOK
<1>3. \A x \in todo' : marker'[x] = marker[x] /\ out'[x] = out[x] /\ x \in todo
  BY <1>1, <1>2 DEF MarkersAreMaps, DiskOK
<1>4. PICK m : m = marker[FinalEvidence]
  OBVIOUS
<1>5. ASSUME FinalEvidence \in todo', marker'[FinalEvidence] # NoMarker,
             marker'[FinalEvidence][FinalEvidence] = out'[FinalEvidence]
      PROVE  Outdated(m)' /\ m = marker'[FinalEvidence]
  <2>1. Outdated(m) /\ m = marker'[FinalEvidence] /\ EvidenceKept(m)
    BY <1>1, <1>3, <1>4, <1>5 DEF MoveInv, Marked, EvidenceInv
  <2> QED
    BY <1>1, <1>2, <2>1, MoveOutdates DEF EvidenceKept
<1>6. \A s \in todo' : out'[s] # NoOut \/ marker'[s] # NoMarker
  BY <1>1, <1>3 DEF MoveInv, Marked
<1> QED
  BY <1>5, <1>6 DEF MoveInv, Marked, Outdated, HostMoved, Drifted

(* A step that executes a command leaves a publication standing or outdated. *)
LEMMA CommandEvidence ==
    ASSUME RunnerInv, DiskInv, FirmInv, EvidenceInv,
           \/ \E s \in AlwaysSteps : RunAlways(s)
           \/ \E s \in Gates : RunGate(s) \/ KeepEvidence(s) \/ RefuseOutput(s)
           \/ VerifyMatrixLive \/ MatrixDrift \/ BuildWorkers \/ LockMatrix
           \/ ResolvePublicFailure \/ GenerateEvidence \/ CleanUp
           \/ \E s \in Steps : CommandDies(s)
    PROVE  EvidenceInv' /\ phase' # "move"
<1>1. DiskOK /\ AlwaysSteps \subseteq Steps /\ Gates \subseteq Steps /\ Terminal \subseteq Steps
      /\ {"worker-images", "matrix-lock", "matrix-live-verification"} \subseteq Steps
  BY NamedGates DEF RunnerInv
<1> SUFFICES ASSUME NEW s \in Steps, Executing(s), marker' = marker,
                    \A a \in Steps \ {s} : out'[a] = out[a],
                    named' = named \/ s = FinalEvidence,
                    ToRecord \/ \E code : Stop(code)
             PROVE  EvidenceInv' /\ phase' # "move"
  <2>1. CASE \E s \in AlwaysSteps : RunAlways(s)
    BY <1>1, <2>1 DEF RunAlways, DiskOK, records
  <2>2. CASE \E s \in Gates : RunGate(s) \/ KeepEvidence(s) \/ RefuseOutput(s)
    BY <1>1, <2>2 DEF RunGate, KeepEvidence, RefuseOutput, DiskOK, records
  <2>3. CASE VerifyMatrixLive
    BY <1>1, <2>3 DEF VerifyMatrixLive, DiskOK, records
  <2>4. CASE MatrixDrift
    BY <1>1, <2>4 DEF MatrixDrift, DiskOK, records
  <2>5. CASE BuildWorkers
    BY <1>1, <2>5 DEF BuildWorkers, PushWorkers, DiskOK, records
  <2>6. CASE LockMatrix
    BY <1>1, <2>6 DEF LockMatrix, DiskOK, records
  <2>7. CASE ResolvePublicFailure \/ CleanUp
    BY <1>1, <2>7 DEF ResolvePublicFailure, CleanUp, DiskOK, records, Terminal
  <2>8. CASE GenerateEvidence
    BY <1>1, <2>8 DEF GenerateEvidence, DiskOK, Terminal
  <2>9. CASE \E s \in Steps : CommandDies(s)
    BY <1>1, <2>9 DEF CommandDies, DiskOK, records
  <2> QED
    BY <2>1, <2>2, <2>3, <2>4, <2>5, <2>6, <2>7, <2>8, <2>9
<1>2. EvidenceInv'
  BY EvidenceWrite
<1> QED
  BY <1>2 DEF ToRecord, Stop

(* So does every other step. *)
LEMMA NextEvidence ==
    ASSUME RunnerInv, DiskInv, FirmInv, RecordInv, EvidenceInv, MoveInv,
           [Next]_vars, ~LoseVolume
    PROVE  EvidenceInv' /\ MoveInv'
<1>1. ProcessOK /\ PhaseInv /\ ~Ambiguous
  BY DEF RunnerInv, WalkInv, DiskInv, FailInv
<1>2. ASSUME phase' # "move" PROVE MoveInv'
  BY <1>2 DEF MoveInv
<1>3. ASSUME UNCHANGED disk PROVE EvidenceInv'
  BY <1>1, <1>3, EvidenceSame DEF disk, records
<1>4. ASSUME NEW s, NEW r, StepDone(s, r) PROVE phase' # "move"
  BY <1>4 DEF StepDone, Stop, Forward
<1>5. ASSUME NEW f, Forward(f) PROVE phase' # "move"
  BY <1>5 DEF Stop, Forward
<1>6. ASSUME NEW code, Stop(code) PROVE phase' # "move"
  BY <1>6 DEF Stop
<1>7. CASE HostChange \/ UNCHANGED vars
  <2>1. UNCHANGED <<out, marker, named, phase, todo>>
    BY <1>7 DEF HostChange, vars, disk, records, process
  <2>2. MoveInv'
    BY <2>1 DEF MoveInv, Marked, Outdated, HostMoved, Drifted
  <2> QED
    BY <1>3, <2>1, <2>2 DEF disk, records
<1>8. CASE Invoke
  BY <1>1, <1>2, <1>3, <1>8 DEF Invoke, PhaseInv
<1>9. CASE Failure
  <2>1. CASE \E s \in Steps : CommandDies(s)
    BY <1>2, <2>1, CommandEvidence
  <2>2. CASE PushInterrupted
    <3>1. "worker-images" \in Steps /\ DiskOK
      BY NamedGates DEF RunnerInv
    <3>2. Executing("worker-images")
      BY <2>2, WorkersThere DEF PushInterrupted
    <3>3. /\ marker' = marker /\ named' = named
          /\ \A a \in Steps \ {"worker-images"} : out'[a] = out[a]
      BY <2>2, <3>1 DEF PushInterrupted, records, DiskOK
    <3>4. EvidenceInv'
      BY <3>1, <3>2, <3>3, EvidenceWrite
    <3> QED
      BY <1>2, <1>6, <2>2, <3>4 DEF PushInterrupted
  <2>3. CASE InvocationGuardFails \/ Crash
    BY <1>2, <1>3, <1>6, <2>3 DEF InvocationGuardFails, Crash
  <2>4. CASE CrashMoving
    <3>1. marker' = marker /\ phase' # "move"
      BY <1>6, <2>4 DEF CrashMoving
    <3>2. ~(At("preserve-matrix") /\ MatrixIsStale)
      BY NeverStale
    <3>3. EvidenceInv'
      BY <2>4, <3>1, <3>2, MoveEvidence DEF CrashMoving
    <3> QED
      BY <1>2, <3>1, <3>3
  <2> QED
    BY <1>9, <2>1, <2>2, <2>3, <2>4 DEF Failure
<1>10. CASE Proceed
  <2>1. CASE \/ \E s \in AlwaysSteps : RunAlways(s)
             \/ \E s \in Gates : RunGate(s) \/ KeepEvidence(s) \/ RefuseOutput(s)
             \/ VerifyMatrixLive \/ MatrixDrift \/ BuildWorkers \/ LockMatrix
             \/ ResolvePublicFailure \/ GenerateEvidence \/ CleanUp
    BY <1>2, <2>1, CommandEvidence
  <2>2. CASE \E s \in Steps : Skip(s)
    BY <1>2, <1>3, <1>4, <2>2 DEF Skip
  <2>3. CASE WorkersPresent
    BY <1>2, <1>3, <1>5, <2>3 DEF WorkersPresent
  <2>4. CASE RebuildWorkers
    BY <2>4, WorkersThere DEF RebuildWorkers
  <2>5. CASE PreserveStaleMatrix
    <3>1. UNCHANGED disk /\ Forward(failedStep)
      BY <2>5, NeverStale DEF PreserveStaleMatrix, disk, records
    <3> QED
      BY <1>2, <1>3, <1>5, <3>1
  <2>6. CASE RecordMarker
    BY <1>2, <1>4, <2>6, EvidenceRecord DEF RecordMarker
  <2>7. CASE RejectRecord \/ ReconcileRaises
    BY <1>2, <1>3, <1>6, <2>7 DEF RejectRecord, ReconcileRaises
  <2>8. CASE FinishFailed
    <3>1. phase = "check"
      BY <2>8, CallCheck DEF FinishFailed
    <3> QED
      BY <1>2, <1>3, <1>5, <2>8, <3>1 DEF FinishFailed
  <2>9. CASE ReconcileStart
    BY <2>9, StartEvidence
  <2>10. CASE ReconcileMove
    <3>1. EvidenceInv'
      BY <2>10, MoveEvidence DEF ReconcileMove
    <3> QED
      BY <2>10, <3>1, MoveLeft
  <2>11. CASE ReconcileDone
    BY <1>2, <1>3, <1>5, <2>11 DEF ReconcileDone
  <2> QED
    BY <1>10, <2>1, <2>2, <2>3, <2>4, <2>5, <2>6, <2>7, <2>8, <2>9, <2>10, <2>11 DEF Proceed
<1> QED
  BY <1>7, <1>8, <1>9, <1>10 DEF Next, World

(* As long as the volume lasts, a recorded publication stands, is outdated,  *)
(* or was written over.                                                      *)
LEMMA EvidenceInvariant ==
    Spec => [](/\ RunnerInv
               /\ IntactInv
               /\ Intact => EvidenceInv /\ MoveInv)
<1>1. Init => EvidenceInv /\ MoveInv
  BY DEF Init, EvidenceInv, MoveInv, Marked, Steps, Terminal
<1>2. ASSUME RunnerInv, CountersOK', IntactInv, Intact => EvidenceInv /\ MoveInv,
             [Next]_vars, Intact'
      PROVE  EvidenceInv' /\ MoveInv'
  <2>1. ~LoseVolume
    BY <1>2 DEF LoseVolume, Intact, RunnerInv, CountersOK
  <2>2. Intact
    BY <1>2, <2>1, LossesKept DEF Intact
  <2>3. DiskInv /\ FirmInv /\ RecordInv
    BY <1>2, <2>2 DEF IntactInv
  <2> QED
    BY <1>2, <2>1, <2>2, <2>3, NextEvidence
<1>3. /\ RunnerInv /\ IntactInv /\ (Intact => EvidenceInv /\ MoveInv)
      /\ [Next]_vars /\ RunnerInv'
      => (Intact => EvidenceInv /\ MoveInv)'
  BY <1>2 DEF RunnerInv
<1> QED
  BY <1>1, <1>3, IntactInvariant, PTL DEF Spec

-----------------------------------------------------------------------------
(***************************************************************************)
(* The command only adds to the runner: whatever is proved of the runner   *)
(* holds under it, and what it answers is true of the files it read,       *)
(* whoever else was at work on them.                                       *)
(***************************************************************************)

(* The command and its operator take no step on the state root that the      *)
(* runner could not take alone.                                              *)
LEMMA CommandStep == [CommandNext]_allVars => [Next]_vars
BY DEF CommandNext, Start, RunnerStep, Report, Around, allVars, Next, vars

(* FullQualificationRunner starts the script and waits: every behaviour of   *)
(* the command is one of the runner, so the theorems about the runner hold   *)
(* of it.                                                                    *)
THEOREM CommandRunsRunner == CommandSpec => Spec
<1>1. CommandInit => Init
  BY DEF CommandInit
<1> QED
  BY <1>1, CommandStep, PTL DEF CommandSpec, Spec

-----------------------------------------------------------------------------
(*                         The inductive invariant                           *)

(* The files evidence.json was written over: one of them is a recorded       *)
(* failure, or the audits had all succeeded.                                 *)
NamedSound ==
    named # NoMarker =>
        \/ \E d \in DomainSteps :
              named[d].marker # NoMarker /\ named[d].marker[d].result = "failed"
        \/ \A g \in Audited : named[g].out.sound

(* While the child of the command lives, there is nothing to answer. *)
ChildAwaited == asked => awaiting = NoExit

(* The tree shows the marker and the files of every gate. *)
LEMMA TreeEntry ==
    ASSUME NEW g \in Gates PROVE Tree[g].marker = marker[g] /\ Tree[g].out = out[g]
<1>1. Tree[g] = [marker |-> marker[g], out |-> out[g]]
  BY DEF Tree
<1> QED
  BY <1>1

(* What the tree shows at the moment of publication *)
LEMMA TreeSound ==
    ASSUME PublicationAllowed
    PROVE  \/ \E d \in DomainSteps :
                 Tree[d].marker # NoMarker /\ Tree[d].marker[d].result = "failed"
           \/ \A g \in Audited : Tree[g].out.sound
<1>1. CASE FailedMarks = {}
  <2>1. \A g \in Audited : out[g].sound
    BY <1>1 DEF PublicationAllowed
  <2>2. \A g \in Audited : Tree[g].out = out[g]
    BY TreeEntry, GatesAssumption
  <2> QED
    BY <2>1, <2>2, Zenon
<1>2. CASE FailedMarks # {}
  <2>1. PICK d \in DomainSteps : marker[d] # NoMarker /\ marker[d][d].result = "failed"
    BY <1>2 DEF FailedMarks
  <2>2. Tree[d].marker = marker[d]
    BY TreeEntry, GatesAssumption
  <2> QED
    BY <2>1, <2>2
<1> QED
  BY <1>1, <1>2

(* evidence.json is written by its gate alone, and moved by reconcile. *)
LEMMA NextNamed == ASSUME NamedSound, [Next]_vars PROVE NamedSound'
<1>1. CASE named' = named
  BY <1>1 DEF NamedSound
<1>2. CASE named' = NoMarker
  BY <1>2 DEF NamedSound
<1>3. CASE GenerateEvidence
  <2>1. CASE PublicationAllowed
    <3>1. PICK t : t = Tree
      OBVIOUS
    <3>2. named' = t
      BY <1>3, <2>1, <3>1 DEF GenerateEvidence
    <3> QED
      BY <2>1, <3>1, <3>2, TreeSound DEF NamedSound
  <2>2. CASE ~PublicationAllowed
    BY <1>1, <1>3, <2>2 DEF GenerateEvidence
  <2> QED
    BY <2>1, <2>2
<1>4. CASE ~GenerateEvidence
  <2>1. CASE Proceed
    BY <1>1, <1>2, <1>4, <2>1
       DEF Proceed, Skip, RunAlways, RunGate, KeepEvidence, RefuseOutput,
       VerifyMatrixLive, MatrixDrift, BuildWorkers, WorkersPresent, RebuildWorkers,
       PushWorkers, PreserveStaleMatrix, LockMatrix, ResolvePublicFailure, CleanUp,
       RecordMarker, RejectRecord, FinishFailed, ReconcileRaises, ReconcileStart,
       ReconcileMove, ReconcileDone, disk, records
  <2>2. CASE Failure
    BY <1>1, <1>2, <2>2
       DEF Failure, CommandDies, PushInterrupted, InvocationGuardFails, Crash,
       CrashMoving, disk, records
  <2>3. CASE Invoke \/ World \/ UNCHANGED vars
    BY <1>1, <2>3 DEF Invoke, World, HostChange, LoseVolume, vars, disk, records
  <2> QED
    BY <2>1, <2>2, <2>3 DEF Next
<1> QED
  BY <1>3, <1>4

(* Both, and what the runner keeps, hold whenever the command runs. *)
LEMMA CommandInvariant ==
    CommandSpec => [](OnlyDomainsFail /\ NamedSound /\ ChildAwaited)
<1>1. CommandInit => NamedSound /\ ChildAwaited
  BY DEF CommandInit, Init, NamedSound, ChildAwaited
<1>2. NamedSound /\ ChildAwaited /\ [CommandNext]_allVars => NamedSound' /\ ChildAwaited'
  <2> SUFFICES ASSUME NamedSound, ChildAwaited, [CommandNext]_allVars
               PROVE  NamedSound' /\ ChildAwaited'
    OBVIOUS
  <2>1. NamedSound'
    BY CommandStep, NextNamed
  <2>2. ChildAwaited'
    BY DEF ChildAwaited, CommandNext, Start, RunnerStep, Report, Around, command, allVars
  <2> QED
    BY <2>1, <2>2
<1>3. RunnerInv => OnlyDomainsFail
  BY DEF RunnerInv
<1> QED
  BY <1>1, <1>2, <1>3, CommandRunsRunner, RunnerInvariant, PTL DEF CommandSpec

-----------------------------------------------------------------------------
(*                            What is answered                               *)

(* A gate that verifies has passed, unless a marker tells of its failure. *)
LEMMA VerifiedPassed ==
    ASSUME OnlyDomainsFail, NEW g \in Gates, Local(g), g \notin FailedMarks
    PROVE  out[g].result = "passed"
<1>1. /\ marker[g] # NoMarker /\ marker[g][g] = out[g]
      /\ out[g].result \in {"passed", "failed"}
  BY DEF Local, Recordable
<1>2. CASE g \in DomainSteps
  BY <1>1, <1>2 DEF FailedMarks
<1>3. CASE g \notin DomainSteps
  <2>1. g \in Steps \ (DomainSteps \cup {FinalEvidence})
    BY <1>3, TerminalNames DEF Steps
  <2> QED
    BY <1>1, <2>1 DEF OnlyDomainsFail
<1> QED
  BY <1>2, <1>3

(* The validator accepts a passing publication only of passed gates ... *)
LEMMA PassedAnswer ==
    ASSUME OnlyDomainsFail, NamedSound, PublicationValid("passed")
    PROVE  /\ \A g \in Gates : out[g].result = "passed"
           /\ \A g \in Audited : out[g].sound
<1>1. FailedMarks = {} /\ named = Tree /\ Verify(Gates)
  BY PassedUnder DEF PublicationValid
<1>2. \A g \in Gates : Tree[g].marker = marker[g] /\ Tree[g].out = out[g]
  BY TreeEntry
<1>3. ASSUME NEW g \in Gates PROVE out[g].result = "passed"
  <2>1. g \in UnderOf(g)
    BY UnderOfGate, UnderSelf
  <2>2. Local(g)
    BY <1>1, <2>1 DEF Verify
  <2> QED
    BY <1>1, <2>2, VerifiedPassed
<1>4. ASSUME NEW d \in DomainSteps, Tree[d].marker # NoMarker,
             Tree[d].marker[d].result = "failed"
      PROVE  FALSE
  <2>1. Tree[d].marker = marker[d]
    BY <1>2, GatesAssumption
  <2>2. d \in FailedMarks
    BY <1>4, <2>1 DEF FailedMarks
  <2> QED
    BY <1>1, <2>2
<1>5. named # NoMarker
  <2>1. "matrix-lock" \in DOMAIN Tree
    BY GatesAssumption DEF Tree
  <2> QED
    BY <1>1, <2>1 DEF NoMarker
<1>6. \A g \in Audited : Tree[g].out.sound
  BY <1>1, <1>4, <1>5 DEF NamedSound
<1>7. \A g \in Audited : out[g].sound
  <2>1. \A g \in Audited : Tree[g].out = out[g]
    BY <1>2, GatesAssumption
  <2> QED
    BY <1>6, <2>1, Zenon
<1> QED
  BY <1>3, <1>7

(* ... and a failed one only of a failed gate after passed ones. *)
LEMMA FailedAnswer ==
    ASSUME OnlyDomainsFail, PublicationValid("failed"), StoredFailures = FailedMarks
    PROVE  \E d \in DomainSteps :
              /\ out[d].result = "failed"
              /\ \A g \in Prefix(d) \ {d} : out[g].result = "passed"
<1>1. FailedMarks # {} /\ ~Ambiguous /\ Verify(DepsOf(FinalEvidence))
  BY DEF PublicationValid
<1>2. PICK d \in FailedMarks : d \in DomainSteps /\ out[d].result = "failed"
  BY <1>1 DEF StoredFailures
<1>3. FailedMarks = {d}
  BY <1>1, <1>2 DEF Ambiguous
<1>4. Prefix(d) \subseteq DepsOf(FinalEvidence)
  BY <1>3, UnderOfTerminal DEF EvidenceGates
<1>5. ASSUME NEW g \in Prefix(d) \ {d} PROVE out[g].result = "passed"
  <2>1. g \in Gates /\ g \in UnderOf(g)
    BY UnderOfGate, UnderSelf DEF Prefix
  <2>2. Local(g)
    BY <1>1, <1>4, <2>1 DEF Verify
  <2> QED
    BY <1>3, <2>1, <2>2, VerifiedPassed
<1> QED
  BY <1>2, <1>5

(* "passed" is answered only over a state root in which every gate passed    *)
(* and the audits succeeded, "failed" only over a failed gate and passed     *)
(* ones before it, even when another runner works on the same files          *)
(* (FullQualificationRunner.run and publication.py).                         *)
THEOREM ReportIsTruthful == CommandSpec => ReportTruthful
<1> DEFINE Inv == OnlyDomainsFail /\ NamedSound /\ ChildAwaited
           Told == /\ Answering /\ reported' = "passed" =>
                        /\ \A g \in Gates : out[g].result = "passed"
                        /\ \A g \in Audited : out[g].sound
                   /\ Answering /\ reported' = "failed" =>
                        \E d \in DomainSteps :
                           /\ out[d].result = "failed"
                           /\ \A g \in Prefix(d) \ {d} : out[g].result = "passed"
<1>1. Inv /\ [CommandNext]_allVars => [Told]_allVars
  <2> SUFFICES ASSUME Inv, CommandNext PROVE Told
    OBVIOUS
  <2>1. CASE Report
    <3>1. reported' = Answer(awaiting)
      BY <2>1 DEF Report
    <3>2. Answer(awaiting) = "passed" => PublicationValid("passed")
      BY DEF Answer
    <3>3. Answer(awaiting) = "failed" =>
             PublicationValid("failed") /\ StoredFailures = FailedMarks
      BY DEF Answer
    <3> QED
      BY <3>1, <3>2, <3>3, PassedAnswer, FailedAnswer
  <2>2. CASE ~Report
    <3>1. ~Answering
      BY <2>2 DEF CommandNext, Start, RunnerStep, Around, command, ChildAwaited, Answering
    <3> QED
      BY <3>1
  <2> QED
    BY <2>1, <2>2
<1>2. CommandSpec => []Inv
  BY CommandInvariant
<1> QED
  BY <1>1, <1>2, PTL DEF CommandSpec, ReportTruthful

-----------------------------------------------------------------------------
(*                    What the validator of publication.py accepts           *)

(* A publication that verifies stands, and evidence.json names the files on  *)
(* the disk.                                                                 *)
LEMMA VerifiedStands ==
    ASSUME DiskOK, MarkersAreMaps, ~Ambiguous, EvidenceInv, Verify({FinalEvidence}),
           NEW m, m = marker[FinalEvidence]
    PROVE  EvidenceStands(m) /\ ~Outdated(m) /\ named = Tree
<1>1. FinalEvidence \in Steps /\ AlwaysSteps \subseteq Steps
      /\ FinalEvidence \in UnderOf(FinalEvidence) /\ AlwaysSteps \subseteq UnderOf(FinalEvidence)
  BY NamedGates, EvidenceCovers DEF Steps, Terminal
<1>2. \A a \in UnderOf(FinalEvidence) : Local(a)
  BY DEF Verify
<1>3. m = [a \in UnderOf(FinalEvidence) |-> out[a]] /\ Marked(FinalEvidence)
  BY <1>1, <1>2, ValidBinds DEF Bound, Local, Marked
<1>4. ~Outdated(m)
  <2>1. ~Drifted(m)
    BY <1>3 DEF Drifted
  <2>2. ~HostMoved(m)
    <3> SUFFICES ASSUME HostMoved(m) PROVE FALSE
      OBVIOUS
    <3>1. Probe \in AlwaysSteps /\ Probe \in Steps
      BY <1>1 DEF HostMoved
    <3>2. m[Probe] = out[Probe] /\ marker[Probe][Probe] = out[Probe]
      BY <1>1, <1>2, <1>3, <3>1 DEF Local
    <3>3. out[Probe].basis.host \in Nat
      BY <3>1 DEF DiskOK, Contents, Basis
    <3> QED
      BY <3>2, <3>3 DEF HostMoved
  <2> QED
    BY <2>1, <2>2 DEF Outdated
<1>5. m[FinalEvidence] = out[FinalEvidence] /\ EvidenceKept(m)
  BY <1>1, <1>3 DEF EvidenceInv
<1>6. EvidenceStands(m)
  BY <1>4, <1>5 DEF EvidenceKept
<1>7. named = Tree
  <2>1. \A x \in Gates \cup {PublicFailure} :
           (IF x \in AlwaysSteps THEN m[x] ELSE out[x]) = out[x]
    BY <1>1, <1>3
  <2> QED
    BY <1>6, <2>1 DEF EvidenceStands, Inventory, Tree
<1> QED
  BY <1>4, <1>6, <1>7

(* A run that completed is one the validator accepts ... *)
LEMMA CompletionAccepted ==
    ASSUME RunnerInv, DiskInv, EvidenceInv, exit = 0, through = NoStep
    PROVE  Answer(0) = "passed"
<1>1. DiskOK /\ MarkersAreMaps /\ ~Ambiguous
  BY DEF RunnerInv, DiskInv, FailInv
<1>2. \A s \in Gates \cup {FinalEvidence} : Valid(s) /\ out[s].result = "passed"
  BY WalkCompletes DEF RunnerInv, CompleteRunIsValid
<1>3. \A s \in Gates \cup {FinalEvidence} : Verify({s})
  BY <1>2 DEF Valid
<1>4. FailedMarks = {}
  <2> SUFFICES ASSUME NEW d \in FailedMarks PROVE FALSE
    OBVIOUS
  <2>1. d \in Gates /\ marker[d][d].result = "failed" /\ d \in UnderOf(d)
    BY GatesAssumption, UnderOfGate, UnderSelf DEF FailedMarks
  <2>2. Local(d)
    BY <1>3, <2>1 DEF Verify
  <2> QED
    BY <1>2, <2>1, <2>2 DEF Local
<1>5. Verify(DepsOf(FinalEvidence))
  <2>1. DepsOf(FinalEvidence) = Gates
    BY <1>4, PassedUnder
  <2> QED
    BY <1>3, <2>1 DEF Verify
<1>6. named = Tree
  BY <1>1, <1>3, VerifiedStands
<1> QED
  BY <1>1, <1>2, <1>4, <1>5, <1>6 DEF Answer, PublicationValid

(* ... and so is one that published a failure. *)
LEMMA FailureAccepted ==
    ASSUME RunnerInv, DiskInv, EvidenceInv, Valid(TerminalCleanup), FailedMarks # {}
    PROVE  Answer(1) = "failed"
<1>1. DiskOK /\ MarkersAreMaps /\ ~Ambiguous /\ PublishedInv
  BY DEF RunnerInv, DiskInv, FailInv
<1>2. UnderOf(TerminalCleanup) = {TerminalCleanup} \cup UnderOf(FinalEvidence)
  BY UnderOfTerminal
<1>3. Verify({FinalEvidence}) /\ FinalEvidence \in UnderOf(FinalEvidence)
  BY <1>1, <1>2, EvidenceCovers DEF Valid, Verify
<1>4. Valid(FinalEvidence)
  BY <1>1, <1>3 DEF Valid, Verify, Local
<1>5. out[FinalEvidence].result = "failed"
  BY <1>1, <1>4, PublishedIsTruthful
<1>6. Verify(DepsOf(FinalEvidence))
  <2>1. FinalEvidence \in Steps
    BY DEF Steps, Terminal
  <2>2. \A d \in DepsOf(FinalEvidence) : UnderOf(d) \subseteq UnderOf(FinalEvidence)
    BY <2>1, UnderOfDeps
  <2> QED
    BY <1>3, <2>2 DEF Verify
<1>7. PICK m : m = marker[FinalEvidence]
  OBVIOUS
<1>8. EvidenceStands(m) /\ ~Outdated(m) /\ named = Tree
  BY <1>1, <1>3, <1>7, VerifiedStands
<1>9. ASSUME NEW d \in DomainSteps
      PROVE  out[d].result = "failed" <=> d \in FailedMarks
  <2>1. d \in Gates /\ d \notin AlwaysSteps /\ d \in UnderOf(d)
    BY GatesAssumption, UnderOfGate, UnderSelf
  <2>2. CASE Marked(d)
    <3>1. Rests(d)
      BY <1>8, <2>1, <2>2, OutdatedAbove DEF DiskInv, RestInv
    <3>2. out[d] = marker[d][d]
      BY <2>1, <3>1 DEF Rests
    <3> QED
      BY <2>2, <3>2 DEF FailedMarks, Marked
  <2>3. CASE ~Marked(d)
    <3>1. out[d] = NoOut
      BY <1>8, <2>1, <2>3 DEF EvidenceStands
    <3> QED
      BY <2>3, <3>1 DEF FailedMarks, Marked, NoOut, Content
  <2> QED
    BY <2>2, <2>3
<1>10. StoredFailures = FailedMarks
  BY <1>9 DEF StoredFailures, FailedMarks
<1>11. PublicationValid("failed")
  BY <1>1, <1>5, <1>6, <1>8 DEF PublicationValid
<1> QED
  BY <1>10, <1>11 DEF Answer

(* While nobody touches the state root, the exit code the command has to     *)
(* answer is the one the runner left.                                        *)
LastExit == alone => ~Running /\ awaiting = exit

(* Only a live runner proceeds or fails. *)
LEMMA OnlyRunning == ASSUME Proceed \/ Failure, ProcessOK PROVE Running
<1>1. CASE Proceed
  BY <1>1 DEF Proceed, Skip, RunAlways, RunGate, KeepEvidence, RefuseOutput, VerifyMatrixLive,
     MatrixDrift, BuildWorkers, WorkersPresent, RebuildWorkers, PreserveStaleMatrix,
     LockMatrix, ResolvePublicFailure, GenerateEvidence, CleanUp, RecordMarker, RejectRecord,
     FinishFailed, ReconcileRaises, ReconcileStart, ReconcileMove, ReconcileDone,
     Executing, Name, At
<1>2. CASE Failure
  BY <1>2 DEF Failure, CommandDies, PushInterrupted, InvocationGuardFails, Crash, CrashMoving,
     Executing, Name, At, Running
<1> QED
  BY <1>1, <1>2

(* The command keeps that. *)
LEMMA ExitKept ==
    ASSUME ProcessOK, LastExit, [CommandNext]_allVars
    PROVE  LastExit'
<1> SUFFICES ASSUME alone' PROVE ~Running' /\ awaiting' = exit'
  BY DEF LastExit
<1>1. CASE RunnerStep
  <2>1. Running
    BY <1>1, OnlyRunning DEF RunnerStep
  <2>2. Running /\ pc' = 0 /\ asked
    BY <1>1, <2>1 DEF RunnerStep, LastExit
  <2> QED
    BY <1>1, <2>2 DEF RunnerStep, Running
<1>2. CASE Around \/ UNCHANGED allVars
  <2>1. UNCHANGED <<pc, exit, alone, awaiting>>
    BY <1>2 DEF Around, World, HostChange, LoseVolume, allVars, vars, command, process
  <2> QED
    BY <2>1 DEF LastExit, Running
<1>3. CASE Start \/ Report
  BY <1>3 DEF Start, Report
<1> QED
  BY <1>1, <1>2, <1>3 DEF CommandNext

(* When nobody else touches the state root, a full run that exits 0 is       *)
(* reported passed, and one that published a failure is reported failed, as  *)
(* long as the registry volume lasts: validate_publication accepts whatever  *)
(* the runner publishes.                                                     *)
THEOREM CompletionIsReported == CommandSpec => []CompletionReported
<1>1. CommandInit => LastExit
  BY DEF CommandInit, LastExit
<1>2. RunnerInv /\ LastExit /\ [CommandNext]_allVars => LastExit'
  BY ExitKept DEF RunnerInv
<1>3. /\ RunnerInv /\ IntactInv /\ (Intact => EvidenceInv /\ MoveInv) /\ LastExit
      => CompletionReported
  <2> SUFFICES ASSUME RunnerInv, DiskInv, EvidenceInv, LastExit, Intact, alone
               PROVE  /\ awaiting = 0 /\ through = NoStep => Answer(awaiting) = "passed"
                      /\ awaiting = 1 /\ Valid(TerminalCleanup) /\ FailedMarks # {} =>
                            Answer(awaiting) = "failed"
    BY DEF IntactInv, CompletionReported
  <2>1. awaiting = exit
    BY DEF LastExit
  <2>2. ASSUME exit = 0, through = NoStep PROVE Answer(0) = "passed"
    BY <2>2, CompletionAccepted
  <2>3. ASSUME Valid(TerminalCleanup), FailedMarks # {} PROVE Answer(1) = "failed"
    BY <2>3, FailureAccepted
  <2>4. /\ awaiting = 0 => Answer(awaiting) = Answer(0)
        /\ awaiting = 1 => Answer(awaiting) = Answer(1)
    OBVIOUS
  <2> QED
    BY <2>1, <2>2, <2>3, <2>4
<1> QED
  BY <1>1, <1>2, <1>3, CommandRunsRunner, EvidenceInvariant, PTL DEF CommandSpec
=============================================================================
