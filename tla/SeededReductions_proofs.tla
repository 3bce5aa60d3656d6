----------------------- MODULE SeededReductions_proofs -----------------------
(***************************************************************************)
(* The gates over the seeded failures, for any inputs, candidates, budgets *)
(* and bundle limits: what is published as prepared is of one run of its   *)
(* inputs, candidate for candidate, whatever the invocations before it     *)
(* left in the work directory.                                             *)
(***************************************************************************)
EXTENDS SeededReductions, FiniteSetTheorems, WellFoundedInduction, TLAPS

-----------------------------------------------------------------------------
(* The files of a seed, and what an invocation has staged.                   *)
Shapes ==
    /\ DOMAIN work = Seeds
    /\ \A s \in Seeds : work[s] = [session |-> work[s].session, candidate |-> work[s].candidate]
    /\ staged = [pairs |-> staged.pairs, held |-> staged.held, bundles |-> staged.bundles]
    /\ DOMAIN staged.held = Seeds /\ DOMAIN staged.bundles = Seeds

(* Both files of a seed are of these inputs and name the candidate in memory. *)
Linked(s) ==
    /\ work[s].session.revision = input.revision
    /\ work[s].session.final = work[s].candidate
    /\ staged.held[s] = work[s].candidate

(* Its session has completed; its candidate is not written yet.              *)
Completed(s) ==
    /\ work[s].session.revision = input.revision
    /\ work[s].session.final = staged.held[s]

(* A bundle that is staged was made from the candidate in memory.            *)
BundleLinked(s) ==
    staged.bundles[s] # NoBundle =>
        /\ staged.bundles[s].candidate = staged.held[s]
        /\ staged.bundles[s].failure = FailureOf[s]

StagedInv ==
    /\ pc = "G2-candidate" => Completed("G2")
    /\ pc \in {"G7", "G7-candidate", "export"} => Linked("G2")
    /\ pc = "G7-candidate" => Completed("G7")
    /\ pc = "export" => Linked("G7")
    /\ pc # "export" => \A s \in Seeds : staged.bundles[s] = NoBundle
    /\ \A s \in Seeds : BundleLinked(s)

PreparedInv == Shapes /\ StagedInv /\ PreparedLinked

(* A staging directory before anything was written to it. *)
LEMMA UnstagedShape ==
    /\ Unstaged = [pairs |-> Unstaged.pairs, held |-> Unstaged.held, bundles |-> Unstaged.bundles]
    /\ DOMAIN Unstaged.held = Seeds /\ DOMAIN Unstaged.bundles = Seeds
    /\ \A s \in Seeds : Unstaged.bundles[s] = NoBundle
BY DEF Unstaged

(* A work directory before any session. *)
LEMMA EmptyWorkShape ==
    /\ DOMAIN EmptyWork = Seeds
    /\ \A s \in Seeds :
          EmptyWork[s] = [session |-> EmptyWork[s].session, candidate |-> EmptyWork[s].candidate]
BY DEF EmptyWork

(* An invocation that ends stages nothing. *)
LEMMA EndedInv ==
    ASSUME PreparedInv, Ended, UNCHANGED <<work, prepared>>
    PROVE  PreparedInv'
<1>1. Shapes'
  BY UnstagedShape DEF Ended, PreparedInv, Shapes
<1>2. StagedInv'
  BY UnstagedShape DEF Ended, StagedInv, BundleLinked
<1>3. PreparedLinked'
  BY DEF PreparedInv, PreparedLinked
<1> QED
  BY <1>1, <1>2, <1>3 DEF PreparedInv

(* A step among those that stage and write nothing. *)
LEMMA AsideInv ==
    ASSUME PreparedInv, UNCHANGED <<work, prepared, staged>>,
           pc' \notin {"G2-candidate", "G7", "G7-candidate", "export"},
           \A s \in Seeds : staged.bundles[s] = NoBundle
    PROVE  PreparedInv'
<1>1. Shapes'
  BY DEF PreparedInv, Shapes
<1>2. StagedInv'
  BY DEF StagedInv, BundleLinked
<1>3. PreparedLinked'
  BY DEF PreparedInv, PreparedLinked
<1> QED
  BY <1>1, <1>2, <1>3 DEF PreparedInv

(* No step pairs files of two sessions or of other inputs. *)
LEMMA PreparedInvariant == Spec => []PreparedInv
<1>1. Init => PreparedInv
  <2> SUFFICES ASSUME Init PROVE PreparedInv
    OBVIOUS
  <2>1. Shapes
    BY UnstagedShape, EmptyWorkShape DEF Init, Shapes
  <2>2. StagedInv
    BY UnstagedShape DEF Init, StagedInv, BundleLinked
  <2>3. PreparedLinked
    BY DEF Init, PreparedLinked
  <2> QED
    BY <2>1, <2>2, <2>3 DEF PreparedInv
<1>2. PreparedInv /\ [Next]_vars => PreparedInv'
  <2> SUFFICES ASSUME PreparedInv, [Next]_vars PROVE PreparedInv'
    OBVIOUS
  <2>0. pc # "export" => \A s \in Seeds : staged.bundles[s] = NoBundle
    BY DEF PreparedInv, StagedInv
  <2>1. CASE InvokeRunner
    <3>1. /\ UNCHANGED staged /\ pc = "idle" /\ pc' = "gate"
          /\ work' = work \/ work' = EmptyWork
          /\ prepared' = prepared \/ prepared' = Nothing
      BY <2>1 DEF InvokeRunner, Reconciled
    <3>2. Shapes'
      BY <3>1, EmptyWorkShape DEF PreparedInv, Shapes
    <3>3. StagedInv'
      BY <3>1, <2>0 DEF StagedInv, BundleLinked
    <3>4. PreparedLinked'
      BY <3>1 DEF PreparedInv, PreparedLinked
    <3> QED
      BY <3>2, <3>3, <3>4 DEF PreparedInv
  <2>2. CASE InvokeDirectly
    BY <2>0, <2>2, AsideInv DEF InvokeDirectly, disk
  <2>3. CASE SkipGate
    <3>1. CASE Ended
      BY <2>3, <3>1, EndedInv DEF SkipGate, disk
    <3>2. CASE UNCHANGED <<pc, staged>>
      BY <2>0, <2>3, <3>2, AsideInv DEF SkipGate, disk
    <3> QED
      BY <2>3, <3>1, <3>2 DEF SkipGate
  <2>4. CASE RunGate
    <3>1. pc' \in {"prepare", "replay", "validate"}
      BY <2>4 DEF RunGate, Goto
    <3> QED
      BY <2>0, <2>4, <3>1, AsideInv DEF RunGate, Goto, disk
  <2>5. CASE Record
    <3>1. CASE Ended
      BY <2>5, <3>1, EndedInv DEF Record
    <3>2. CASE pc' = "gate" /\ UNCHANGED staged
      BY <2>0, <2>5, <3>2, AsideInv DEF Record
    <3> QED
      BY <2>5, <3>1, <3>2 DEF Record
  <2>6. CASE ReducePerformance
    <3>1. /\ pc = "prepare" /\ pc' = "G2" /\ UNCHANGED <<work, prepared>>
          /\ staged'.held = Unstaged.held /\ staged'.bundles = Unstaged.bundles
          /\ staged' = [pairs |-> staged'.pairs, held |-> staged'.held, bundles |-> staged'.bundles]
      BY <2>6 DEF ReducePerformance, Unstaged, disk
    <3>2. Shapes'
      BY <3>1, UnstagedShape DEF PreparedInv, Shapes
    <3>3. StagedInv'
      BY <3>1, UnstagedShape DEF StagedInv, BundleLinked
    <3>4. PreparedLinked'
      BY <3>1 DEF PreparedInv, PreparedLinked
    <3> QED
      BY <3>2, <3>3, <3>4 DEF PreparedInv
  <2>7. CASE ResumeG2
    <3>1. /\ pc = "G2" /\ pc' = "G7" /\ UNCHANGED <<input, work, prepared>>
          /\ G2Resumable /\ staged' = [staged EXCEPT !.held["G2"] = work["G2"].candidate]
      BY <2>7 DEF ResumeG2, disk
    <3>2. Shapes' /\ staged'.held["G2"] = work["G2"].candidate /\ staged'.bundles = staged.bundles
      BY <3>1 DEF PreparedInv, Shapes, Seeds
    <3>3. Linked("G2")'
      BY <3>1, <3>2 DEF Linked, G2Resumable
    <3>4. StagedInv'
      BY <2>0, <3>1, <3>2, <3>3 DEF StagedInv, BundleLinked
    <3>5. PreparedLinked'
      BY <3>1 DEF PreparedInv, PreparedLinked
    <3> QED
      BY <3>2, <3>4, <3>5 DEF PreparedInv
  <2>8. CASE PreserveStaleG2
    <3>1. /\ pc = "G2" /\ UNCHANGED <<pc, prepared, staged>>
          /\ \/ work' = [work EXCEPT !["G2"].candidate = NoCandidate]
             \/ work' = [work EXCEPT !["G2"].session = NoSession]
      BY <2>8 DEF PreserveStaleG2, run
    <3>2. Shapes'
      BY <3>1 DEF PreparedInv, Shapes
    <3>3. StagedInv'
      BY <2>0, <3>1 DEF StagedInv, BundleLinked
    <3>4. PreparedLinked'
      BY <3>1 DEF PreparedInv, PreparedLinked
    <3> QED
      BY <3>2, <3>3, <3>4 DEF PreparedInv
  <2>9. CASE ReduceG2
    <3>1. PICK final :
            /\ pc = "G2" /\ pc' = "G2-candidate" /\ UNCHANGED <<input, prepared>>
            /\ staged' = [staged EXCEPT !.held["G2"] = final]
            /\ work' = [work EXCEPT !["G2"].session = [revision |-> input.revision, final |-> final]]
      BY <2>9 DEF ReduceG2, ReduceSeed
    <3>2. /\ Shapes' /\ staged'.held["G2"] = final /\ staged'.bundles = staged.bundles
          /\ work'["G2"].session = [revision |-> input.revision, final |-> final]
      BY <3>1 DEF PreparedInv, Shapes, Seeds
    <3>3. Completed("G2")'
      BY <3>1, <3>2 DEF Completed
    <3>4. StagedInv'
      BY <2>0, <3>1, <3>2, <3>3 DEF StagedInv, BundleLinked
    <3>5. PreparedLinked'
      BY <3>1 DEF PreparedInv, PreparedLinked
    <3> QED
      BY <3>2, <3>4, <3>5 DEF PreparedInv
  <2>10. CASE ReduceG7
    <3>1. PICK final :
            /\ pc = "G7" /\ pc' = "G7-candidate" /\ UNCHANGED <<input, prepared>>
            /\ staged' = [staged EXCEPT !.held["G7"] = final]
            /\ work' = [work EXCEPT !["G7"].session = [revision |-> input.revision, final |-> final]]
      BY <2>10 DEF ReduceG7, ReduceSeed
    <3>2. /\ Shapes' /\ staged'.held["G7"] = final /\ staged'.bundles = staged.bundles
          /\ staged'.held["G2"] = staged.held["G2"] /\ work'["G2"] = work["G2"]
          /\ work'["G7"].session = [revision |-> input.revision, final |-> final]
      BY <3>1 DEF PreparedInv, Shapes, Seeds
    <3>3. Completed("G7")' /\ Linked("G2")'
      BY <3>1, <3>2 DEF Completed, Linked, PreparedInv, StagedInv
    <3>4. StagedInv'
      BY <2>0, <3>1, <3>2, <3>3 DEF StagedInv, BundleLinked
    <3>5. PreparedLinked'
      BY <3>1 DEF PreparedInv, PreparedLinked
    <3> QED
      BY <3>2, <3>4, <3>5 DEF PreparedInv
  <2>11. CASE WriteCandidate
    <3>0. UNCHANGED <<input, prepared, staged>>
      BY <2>11 DEF WriteCandidate, Goto
    <3>1. CASE pc = "G2-candidate"
      <4>1. pc' = "G7" /\ work' = [work EXCEPT !["G2"].candidate = staged.held["G2"]]
        BY <2>11, <3>1 DEF WriteCandidate, Goto
      <4>2. /\ Shapes' /\ work'["G2"].candidate = staged.held["G2"]
            /\ work'["G2"].session = work["G2"].session
        BY <3>0, <4>1 DEF PreparedInv, Shapes, Seeds
      <4>3. Linked("G2")'
        BY <3>0, <3>1, <4>2 DEF Linked, Completed, PreparedInv, StagedInv
      <4>4. StagedInv'
        BY <2>0, <3>0, <3>1, <4>1, <4>3 DEF StagedInv, BundleLinked
      <4> QED
        BY <3>0, <4>2, <4>4 DEF PreparedInv, PreparedLinked
    <3>2. CASE pc = "G7-candidate"
      <4>1. pc' = "export" /\ work' = [work EXCEPT !["G7"].candidate = staged.held["G7"]]
        BY <2>11, <3>2 DEF WriteCandidate, Goto
      <4>2. /\ Shapes' /\ work'["G7"].candidate = staged.held["G7"]
            /\ work'["G7"].session = work["G7"].session /\ work'["G2"] = work["G2"]
        BY <3>0, <4>1 DEF PreparedInv, Shapes, Seeds
      <4>3. Linked("G2")' /\ Linked("G7")'
        BY <3>0, <3>2, <4>2 DEF Linked, Completed, PreparedInv, StagedInv
      <4>4. StagedInv'
        BY <2>0, <3>0, <3>2, <4>1, <4>3 DEF StagedInv, BundleLinked
      <4> QED
        BY <3>0, <4>2, <4>4 DEF PreparedInv, PreparedLinked
    <3> QED
      BY <2>11, <3>1, <3>2 DEF WriteCandidate
  <2>12. CASE ExportSeed
    <3>1. PICK seed \in Seeds :
            /\ pc = "export" /\ UNCHANGED <<input, work, prepared, pc>>
            /\ staged' = [staged EXCEPT !.bundles[seed] =
                            Export(FailureOf[seed], staged.held[seed], PayloadFiles, NewNumber)]
      BY <2>12 DEF ExportSeed, disk
    <3>2. /\ Shapes' /\ staged'.held = staged.held
          /\ staged'.bundles[seed] = Export(FailureOf[seed], staged.held[seed], PayloadFiles, NewNumber)
          /\ \A s \in Seeds \ {seed} : staged'.bundles[s] = staged.bundles[s]
      BY <3>1 DEF PreparedInv, Shapes
    <3>3. \A s \in Seeds : BundleLinked(s)'
      BY <3>2 DEF BundleLinked, Export, PreparedInv, StagedInv
    <3>4. StagedInv'
      BY <3>1, <3>2, <3>3 DEF StagedInv, Linked, PreparedInv
    <3>5. PreparedLinked'
      BY <3>1 DEF PreparedInv, PreparedLinked
    <3> QED
      BY <3>2, <3>4, <3>5 DEF PreparedInv
  <2>13. CASE PublishPrepared
    <3>1. /\ pc = "export" /\ \A s \in Seeds : staged.bundles[s] # NoBundle
          /\ prepared' = [revision |-> input.revision, pairs |-> staged.pairs,
                          reductions |-> work, bundles |-> staged.bundles]
          /\ staged' = Unstaged /\ pc' \in {"record", "idle"} /\ UNCHANGED work
      BY <2>13 DEF PublishPrepared, Ended
    <3>2. \A s \in Seeds : Linked(s) /\ BundleLinked(s)
      BY <3>1 DEF PreparedInv, StagedInv, Seeds
    <3>3. PreparedLinked'
      BY <3>1, <3>2 DEF PreparedLinked, Linked, BundleLinked
    <3>4. Shapes'
      BY <3>1, UnstagedShape DEF PreparedInv, Shapes
    <3>5. StagedInv'
      BY <3>1, UnstagedShape DEF StagedInv, BundleLinked
    <3> QED
      BY <3>3, <3>4, <3>5 DEF PreparedInv
  <2>14. CASE StartReplay \/ PublishReplay \/ PrintResult \/ CheckReplay \/ Validate
    <3>1. /\ pc # "export" /\ UNCHANGED <<work, prepared, staged>>
          /\ pc' \in {"replaying", "printing", "check", "record"}
      BY <2>14 DEF StartReplay, PublishReplay, PrintResult, CheckReplay, Validate, Goto, disk
    <3> QED
      BY <2>0, <3>1, AsideInv
  <2>15. CASE Raise \/ BadTrial \/ BadReplay \/ Crash
    BY <2>15, EndedInv DEF Raise, BadTrial, BadReplay, Crash, disk
  <2>16. CASE Requalify
    BY <2>0, <2>16, AsideInv DEF Requalify, disk, run
  <2>17. CASE UNCHANGED vars
    <3>1. UNCHANGED <<input, work, prepared, staged, pc>>
      BY <2>17 DEF vars, disk, run
    <3> QED
      BY <3>1 DEF PreparedInv, Shapes, StagedInv, Linked, Completed, BundleLinked, PreparedLinked
  <2> QED
    BY <2>1, <2>2, <2>3, <2>4, <2>5, <2>6, <2>7, <2>8, <2>9, <2>10, <2>11, <2>12, <2>13, <2>14,
       <2>15, <2>16, <2>17 DEF Next, Step
<1> QED
  BY <1>1, <1>2, PTL DEF Spec

(* What is published as prepared is of one run of the GPU faults, and each   *)
(* bundle of the very candidate its session ended with.                      *)
THEOREM PreparedIsLinked == Spec => []PreparedLinked
<1>1. PreparedInv => PreparedLinked
  BY DEF PreparedInv
<1> QED
  BY <1>1, PreparedInvariant, PTL

-----------------------------------------------------------------------------
Preparing == {"prepare", "G2", "G2-candidate", "G7", "G7-candidate", "export"}
Replaying == {"replay", "replaying", "printing", "check"}

Prepared1 == <<input.revision, work, prepared>>
Replay(s) == <<markers[1], replayed[s]>>

(* The gates behind the runner stay recorded while it is in this one.        *)
GatesInv ==
    /\ gate \in 1..4 /\ DOMAIN markers = 1..4 /\ DOMAIN replayed = Seeds
    /\ pc \in Preparing \cup {"idle"} => gate = 1
    /\ pc \in Replaying => gate \in {2, 3}
    /\ pc = "validate" => gate = 4
    /\ gate # 1 => markers[1] = Prepared1
    /\ gate \in {3, 4} => markers[2] = Replay("G2")
    /\ gate = 4 => markers[3] = Replay("G7")

(* What is about to be recorded passed the assertions of its gate.           *)
RecordInv ==
    pc = "record" =>
        /\ gate = 1 => prepared.revision = input.revision
        /\ gate \in {2, 3} => replayed[Seed].result.bundle = prepared.bundles[Seed].number
        /\ gate = 4 => /\ validation.revision = prepared.revision
                       /\ \A s \in Seeds : validation.replays[s] = replayed[s].result

(* What a marker was recorded for agrees with itself, whatever became of it. *)
MarkersInv ==
    /\ markers[1] # NoMarker => markers[1][3].revision = markers[1][1]
    /\ \A g \in {2, 3} : markers[g] # NoMarker =>
          markers[g][2].result.bundle = markers[g][1][3].bundles[SeedOf[g]].number
    /\ markers[4] # NoMarker =>
          /\ markers[4][4].revision = markers[4][1][3].revision
          /\ markers[4][4].replays["G2"] = markers[4][2][2].result
          /\ markers[4][4].replays["G7"] = markers[4][3][2].result

ValidationInv == GatesInv /\ RecordInv /\ MarkersInv

(* What each of the four gates binds. *)
LEMMA Contents ==
    /\ Content(1) = Prepared1 /\ Content(2) = Replay("G2") /\ Content(3) = Replay("G7")
    /\ Content(4) = <<markers[1], markers[2], markers[3], validation>>
    /\ SeedOf[2] = "G2" /\ SeedOf[3] = "G7" /\ Len(Gates) = 4
BY DEF Content, Prepared1, Replay, SeedOf, Gates

(* When a marker verifies. *)
LEMMA RecordedIs ==
    /\ Recorded(1) <=> markers[1] = Prepared1
    /\ Recorded(2) <=> markers[1] = Prepared1 /\ markers[2] = Replay("G2")
    /\ Recorded(3) <=> markers[1] = Prepared1 /\ markers[3] = Replay("G7")
    /\ Recorded(4) <=> /\ markers[1] = Prepared1 /\ markers[2] = Replay("G2")
                       /\ markers[3] = Replay("G7") /\ markers[4] = Content(4)
<1>1. DirectDeps[1] \cup {1} = {1} /\ DirectDeps[2] \cup {2} = {1, 2}
      /\ DirectDeps[3] \cup {3} = {1, 3} /\ DirectDeps[4] \cup {4} = {1, 2, 3, 4}
  BY DEF DirectDeps
<1> QED
  BY <1>1, Contents DEF Recorded

(* An invocation that ends is in no gate. *)
LEMMA EndedGates ==
    ASSUME ValidationInv, Ended, UNCHANGED markers, DOMAIN replayed' = DOMAIN replayed
    PROVE  ValidationInv'
BY DEF Ended, ValidationInv, GatesInv, RecordInv, MarkersInv, Preparing, Replaying

(* No marker and no replay speaks of another preparation than the record. *)
LEMMA ValidationInvariant == Spec => []ValidationInv
<1>1. Init => ValidationInv
  BY DEF Init, ValidationInv, GatesInv, RecordInv, MarkersInv, Gates, EmptyReplays, NoMarker,
         Preparing, Replaying
<1>2. ValidationInv /\ [Next]_vars => ValidationInv'
  <2> SUFFICES ASSUME ValidationInv, [Next]_vars PROVE ValidationInv'
    OBVIOUS
  <2>1. CASE InvokeRunner
    <3>1. /\ pc' = "gate" /\ gate' = 1 /\ DOMAIN replayed' = Seeds /\ DOMAIN markers' = 1..4
          /\ \A g \in 1..4 : markers'[g] = markers[g] \/ markers'[g] = NoMarker
      BY <2>1 DEF InvokeRunner, Reconciled, Gates
    <3>2. MarkersInv'
      BY <3>1 DEF ValidationInv, MarkersInv
    <3> QED
      BY <3>1, <3>2 DEF ValidationInv, GatesInv, RecordInv, Preparing, Replaying
  <2>2. CASE InvokeDirectly
    BY <2>2 DEF InvokeDirectly, disk, ValidationInv, GatesInv, RecordInv, MarkersInv, Preparing,
                Replaying
  <2>3. CASE SkipGate
    <3>1. CASE Ended
      BY <2>3, <3>1, EndedGates DEF SkipGate, disk
    <3>2. CASE gate # 4 /\ gate' = gate + 1 /\ pc' = pc
      <4>1. pc = "gate" /\ Recorded(gate) /\ UNCHANGED <<input, work, prepared, replayed, markers>>
        BY <2>3 DEF SkipGate, disk
      <4>2. gate' \in 2..4 /\ gate \in 1..3
        BY <3>2 DEF ValidationInv, GatesInv
      <4>3. /\ markers[1] = Prepared1
            /\ gate = 2 => markers[2] = Replay("G2")
            /\ gate = 3 => markers[3] = Replay("G7")
        BY <4>1, <4>2, RecordedIs
      <4> QED
        BY <3>2, <4>1, <4>2, <4>3 DEF ValidationInv, GatesInv, RecordInv, MarkersInv, Preparing,
                                      Replaying, Prepared1, Replay
    <3> QED
      BY <2>3, <3>1, <3>2, Contents DEF SkipGate
  <2>4. CASE RunGate
    <3>1. /\ UNCHANGED <<input, work, prepared, replayed, markers, gate>>
          /\ gate = 1 => pc' = "prepare"
          /\ gate \in {2, 3} => pc' = "replay"
          /\ gate = 4 => pc' = "validate"
      BY <2>4 DEF RunGate, Goto, disk, ValidationInv, GatesInv
    <3> QED
      BY <3>1 DEF ValidationInv, GatesInv, RecordInv, MarkersInv, Preparing, Replaying, Prepared1,
                  Replay
  <2>5. CASE Record
    <3>1. /\ pc = "record" /\ markers' = [markers EXCEPT ![gate] = Content(gate)]
          /\ UNCHANGED <<input, work, prepared, replayed, validation>>
          /\ \/ gate = 4 /\ Ended
             \/ gate \in 1..3 /\ pc' = "gate" /\ gate' = gate + 1
      BY <2>5, Contents DEF Record, ValidationInv, GatesInv
    <3>2. DOMAIN markers' = 1..4 /\ markers'[gate] = Content(gate)
          /\ \A g \in 1..4 : g # gate => markers'[g] = markers[g]
      BY <3>1 DEF ValidationInv, GatesInv
    <3>3. MarkersInv'
      <4>1. CASE gate = 1
        BY <3>1, <3>2, <4>1, Contents DEF ValidationInv, RecordInv, MarkersInv, Prepared1
      <4>2. CASE gate \in {2, 3}
        BY <3>1, <3>2, <4>2, Contents DEF ValidationInv, GatesInv, RecordInv, MarkersInv, Prepared1,
                                          Replay, Seed
      <4>3. CASE gate = 4
        BY <3>1, <3>2, <4>3, Contents DEF ValidationInv, GatesInv, RecordInv, MarkersInv, Prepared1,
                                          Replay, Seeds
      <4> QED
        BY <4>1, <4>2, <4>3 DEF ValidationInv, GatesInv
    <3>4. GatesInv'
      <4>1. CASE gate = 4 /\ Ended
        BY <3>1, <3>2, <4>1 DEF Ended, ValidationInv, GatesInv, Preparing, Replaying
      <4>2. CASE gate \in 1..3 /\ pc' = "gate" /\ gate' = gate + 1
        BY <3>1, <3>2, <4>2, Contents DEF ValidationInv, GatesInv, Preparing, Replaying, Prepared1,
                                          Replay
      <4> QED
        BY <3>1, <4>1, <4>2
    <3>5. RecordInv'
      BY <3>1 DEF Ended, RecordInv
    <3> QED
      BY <3>3, <3>4, <3>5 DEF ValidationInv
  <2>6. CASE ReducePerformance \/ ResumeG2 \/ PreserveStaleG2 \/ ReduceG2 \/ ReduceG7
             \/ WriteCandidate \/ ExportSeed
    <3>1. /\ pc \in Preparing /\ pc' \in Preparing /\ UNCHANGED <<markers, replayed, gate>>
      BY <2>6 DEF ReducePerformance, ResumeG2, PreserveStaleG2, ReduceG2, ReduceG7, ReduceSeed,
                  WriteCandidate, ExportSeed, Goto, disk, run, Preparing
    <3> QED
      BY <3>1 DEF ValidationInv, GatesInv, RecordInv, MarkersInv, Preparing, Replaying
  <2>7. CASE PublishPrepared
    <3>1. /\ pc = "export" /\ prepared'.revision = input.revision
          /\ UNCHANGED <<input, replayed, markers>>
          /\ \/ pc' = "record" /\ gate' = gate
             \/ Ended
      BY <2>7 DEF PublishPrepared
    <3>2. CASE Ended
      BY <3>1, <3>2, EndedGates
    <3>3. CASE pc' = "record" /\ gate' = gate
      BY <3>1, <3>3 DEF ValidationInv, GatesInv, RecordInv, MarkersInv, Preparing, Replaying
    <3> QED
      BY <3>1, <3>2, <3>3
  <2>8. CASE StartReplay \/ PublishReplay \/ PrintResult
    <3>1. /\ pc \in Replaying /\ pc' \in Replaying
          /\ UNCHANGED <<input, work, prepared, markers, gate>>
          /\ DOMAIN replayed' = DOMAIN replayed
          /\ \A s \in Seeds : s # Seed => replayed'[s] = replayed[s]
      BY <2>8 DEF StartReplay, PublishReplay, PrintResult, Goto, Replaying, ValidationInv, GatesInv
    <3>2. gate \in {2, 3} /\ (gate = 3 => Seed = "G7")
      BY <3>1, Contents DEF ValidationInv, GatesInv, Seed
    <3> QED
      BY <3>1, <3>2 DEF ValidationInv, GatesInv, RecordInv, MarkersInv, Preparing, Replaying,
                        Prepared1, Replay, Seeds
  <2>9. CASE CheckReplay
    <3>1. /\ pc = "check" /\ pc' = "record" /\ ReplayStands(Seed)
          /\ UNCHANGED <<input, work, prepared, replayed, markers, gate>>
      BY <2>9 DEF CheckReplay, Goto, disk
    <3> QED
      BY <3>1 DEF ValidationInv, GatesInv, RecordInv, MarkersInv, Preparing, Replaying, Prepared1,
                  Replay, ReplayStands, Seed
  <2>10. CASE Validate
    <3>1. /\ pc = "validate" /\ pc' = "record"
          /\ UNCHANGED <<input, work, prepared, replayed, markers, gate>>
          /\ validation'.revision = prepared.revision
          /\ \A s \in Seeds : validation'.replays[s] = replayed[s].result
      BY <2>10 DEF Validate, Goto
    <3> QED
      BY <3>1 DEF ValidationInv, GatesInv, RecordInv, MarkersInv, Preparing, Replaying, Prepared1,
                  Replay
  <2>11. CASE Raise \/ BadTrial \/ BadReplay \/ Crash
    <3>1. Ended /\ UNCHANGED markers /\ DOMAIN replayed' = DOMAIN replayed
      BY <2>11 DEF Raise, BadTrial, BadReplay, Crash, disk
    <3> QED
      BY <3>1, EndedGates
  <2>12. CASE Requalify
    BY <2>12 DEF Requalify, disk, run, ValidationInv, GatesInv, RecordInv, MarkersInv, Preparing,
                 Replaying
  <2>13. CASE UNCHANGED vars
    BY <2>13 DEF vars, disk, run, ValidationInv, GatesInv, RecordInv, MarkersInv, Prepared1, Replay,
                 Seed
  <2> QED
    BY <2>1, <2>2, <2>3, <2>4, <2>5, <2>6, <2>7, <2>8, <2>9, <2>10, <2>11, <2>12, <2>13
       DEF Next, Step
<1> QED
  BY <1>1, <1>2, PTL DEF Spec

(* A validation the runner relies on is of the current inputs, and its       *)
(* replays are of the bundles that lie beside it.                            *)
THEOREM ValidationIsLinked == Spec => []ValidationLinked
<1>1. ASSUME ValidationInv, Recorded(4)
      PROVE  /\ validation.revision = input.revision
             /\ prepared.revision = input.revision
             /\ \A s \in Seeds : validation.replays[s].bundle = prepared.bundles[s].number
  <2>1. /\ markers[1] = Prepared1 /\ markers[2] = Replay("G2") /\ markers[3] = Replay("G7")
        /\ markers[4] = <<markers[1], markers[2], markers[3], validation>>
    BY <1>1, RecordedIs, Contents
  <2>2. \A g \in 1..4 : markers[g] # NoMarker
    BY <2>1 DEF Prepared1, Replay, NoMarker
  <2>3. prepared.revision = input.revision
    BY <1>1, <2>1, <2>2 DEF ValidationInv, MarkersInv, Prepared1
  <2>4. validation.revision = prepared.revision
        /\ validation.replays["G2"] = replayed["G2"].result
        /\ validation.replays["G7"] = replayed["G7"].result
    BY <1>1, <2>1, <2>2 DEF ValidationInv, MarkersInv, Prepared1, Replay
  <2>5. replayed["G2"].result.bundle = prepared.bundles["G2"].number
        /\ replayed["G7"].result.bundle = prepared.bundles["G7"].number
    BY <1>1, <2>1, <2>2, Contents DEF ValidationInv, MarkersInv, Prepared1, Replay
  <2> QED
    BY <2>3, <2>4, <2>5 DEF Seeds
<1>2. ValidationInv => ValidationLinked
  BY <1>1 DEF ValidationLinked
<1> QED
  BY <1>2, ValidationInvariant, PTL

-----------------------------------------------------------------------------
(* A set of numbers up to a bound has a least one. *)
LEMMA LeastNumber ==
    ASSUME NEW N \in Nat, NEW T, T \subseteq 0..N, T # {}
    PROVE  \E x \in T : \A m \in T : x <= m
<1> DEFINE R == StrictSubsetOrdering(0..N)
           V == {0..i : i \in T}
<1>1. IsFiniteSet(0..N)
  BY FS_Interval
<1>2. \A U \in V : U \subseteq 0..N
  OBVIOUS
<1>3. \A U \in V : IsFiniteSet(U)
  BY <1>1, <1>2, FS_Subset
<1>4. V \subseteq FiniteSubsetsOf(0..N) /\ V # {}
  BY <1>2, <1>3 DEF FiniteSubsetsOf
<1>5. IsWellFoundedOn(R, FiniteSubsetsOf(0..N))
  BY FS_StrictSubsetOrderingWellFounded
<1>6. PICK U \in V : \A Z \in V : ~ (<<Z, U>> \in R)
  <2> HIDE DEF R, V
  <2> QED
    BY <1>4, <1>5, WFMin
<1>7. PICK x \in T : U = 0..x
  BY <1>6
<1>8. ASSUME NEW m \in T PROVE x <= m
  <2> SUFFICES ASSUME m < x PROVE FALSE
    OBVIOUS
  <2>1. 0..m \subseteq 0..x /\ 0..m # 0..x
    OBVIOUS
  <2>2. <<0..m, 0..x>> \in R
    BY <2>1 DEF StrictSubsetOrdering
  <2> QED
    BY <1>6, <1>7, <2>2
<1> QED
  BY <1>8

-----------------------------------------------------------------------------
(* n pairs are a regression, within the budget, and no fewer pairs are one.  *)
Minimal(n) == n \in Shorter /\ \A m \in MinimumPairs..(n - 1) : ~input.regresses[m]

(* The steps at which the invocation holds the pairs of G5.                  *)
Holding == {"G2", "G2-candidate", "G7", "G7-candidate", "export"}

(* Inputs are numbered in order; what is held, or published of the current   *)
(* inputs, was reduced from them.                                            *)
MinimalInv ==
    /\ input.revision \in Nat \ {0}
    /\ prepared.revision \in 0..input.revision
    /\ pc \in Holding => Minimal(staged.pairs)
    /\ prepared.revision = input.revision => Minimal(prepared.pairs)

(* The least prefix the budget reaches has no shorter regressing one: every  *)
(* shorter prefix is within the budget too.                                  *)
LEMMA LeastShorter ==
    ASSUME NEW n \in Shorter, \A m \in Shorter : n <= m
    PROVE  Minimal(n)
<1>1. /\ MinimumPairs \in Nat /\ Pairs \in Nat /\ MaximumTrials \in Nat
      /\ n \in MinimumPairs..(Pairs - 1) /\ n - MinimumPairs + 2 <= MaximumTrials
  BY SeededAssumption DEF Shorter
<1>2. ASSUME NEW m \in MinimumPairs..(n - 1), input.regresses[m] PROVE FALSE
  <2>1. m \in MinimumPairs..(Pairs - 1) /\ m - MinimumPairs + 2 <= MaximumTrials /\ m < n
    BY <1>1
  <2>2. m \in Shorter
    BY <1>2, <2>1 DEF Shorter
  <2> QED
    BY <1>1, <2>1, <2>2
<1> QED
  BY <1>2 DEF Minimal

(* An invocation that ends holds nothing. *)
LEMMA EndedMinimal ==
    ASSUME MinimalInv, Ended, UNCHANGED <<input, prepared>> PROVE MinimalInv'
BY DEF Ended, MinimalInv, Minimal, Shorter, Holding

(* A step that keeps the pairs it holds. *)
LEMMA KeptMinimal ==
    ASSUME MinimalInv, UNCHANGED <<input, prepared>>, staged'.pairs = staged.pairs,
           pc' \in Holding => pc \in Holding
    PROVE  MinimalInv'
BY DEF MinimalInv, Minimal, Shorter

(* The first reduction holds the shortest prefix, and every later step keeps *)
(* it; new inputs get a number nothing prepared has.                         *)
LEMMA MinimalInvariant == Spec => []MinimalInv
<1>1. Init => MinimalInv
  BY DEF Init, Inputs, Nothing, MinimalInv, Holding
<1>2. PreparedInv /\ MinimalInv /\ [Next]_vars => MinimalInv'
  <2> SUFFICES ASSUME PreparedInv, MinimalInv, [Next]_vars PROVE MinimalInv'
    OBVIOUS
  <2>0. staged = [pairs |-> staged.pairs, held |-> staged.held, bundles |-> staged.bundles]
    BY DEF PreparedInv, Shapes
  <2>1. CASE InvokeRunner
    <3>1. /\ UNCHANGED input /\ pc' = "gate"
          /\ prepared' = prepared \/ prepared' = Nothing
      BY <2>1 DEF InvokeRunner, Reconciled
    <3> QED
      BY <3>1 DEF MinimalInv, Minimal, Shorter, Holding, Nothing
  <2>2. CASE InvokeDirectly \/ RunGate
    <3>1. UNCHANGED <<input, prepared, staged>> /\ pc' \notin Holding
      BY <2>2 DEF InvokeDirectly, RunGate, Goto, disk, Holding
    <3> QED
      BY <3>1, KeptMinimal
  <2>3. CASE SkipGate
    <3>1. CASE Ended
      BY <2>3, <3>1, EndedMinimal DEF SkipGate, disk
    <3>2. CASE UNCHANGED <<pc, staged>>
      BY <2>3, <3>2, KeptMinimal DEF SkipGate, disk
    <3> QED
      BY <2>3, <3>1, <3>2 DEF SkipGate
  <2>4. CASE Record
    <3>1. CASE Ended
      BY <2>4, <3>1, EndedMinimal DEF Record
    <3>2. CASE pc' = "gate" /\ UNCHANGED staged
      BY <2>4, <3>2, KeptMinimal DEF Record, Holding
    <3> QED
      BY <2>4, <3>1, <3>2 DEF Record
  <2>5. CASE ReducePerformance
    <3> DEFINE Least(n) == \A m \in Shorter : n <= m
    <3>1. /\ Shorter # {} /\ UNCHANGED <<input, prepared>>
          /\ staged'.pairs = CHOOSE n \in Shorter : Least(n)
      BY <2>5 DEF ReducePerformance, Reducible, Unstaged, disk
    <3>2. Pairs \in Nat /\ Shorter \subseteq 0..Pairs
      BY SeededAssumption DEF Shorter
    <3>3. \E n \in Shorter : Least(n)
      BY <3>1, <3>2, LeastNumber
    <3>4. staged'.pairs \in Shorter /\ Least(staged'.pairs)
      <4> HIDE DEF Least
      <4> QED
        BY <3>1, <3>3
    <3>5. Minimal(staged'.pairs)
      BY <3>4, LeastShorter
    <3> QED
      BY <3>1, <3>5 DEF MinimalInv, Minimal, Shorter
  <2>6. CASE ResumeG2
    <3>1. UNCHANGED <<input, prepared>> /\ staged'.pairs = staged.pairs /\ pc \in Holding
      BY <2>0, <2>6 DEF ResumeG2, disk, Holding
    <3> QED
      BY <3>1, KeptMinimal
  <2>7. CASE PreserveStaleG2
    BY <2>7, KeptMinimal DEF PreserveStaleG2, run
  <2>8. CASE ReduceG2 \/ ReduceG7
    <3>1. UNCHANGED <<input, prepared>> /\ staged'.pairs = staged.pairs /\ pc \in Holding
      BY <2>0, <2>8 DEF ReduceG2, ReduceG7, ReduceSeed, Holding
    <3> QED
      BY <3>1, KeptMinimal
  <2>9. CASE WriteCandidate
    BY <2>9, KeptMinimal DEF WriteCandidate, Goto, Holding
  <2>10. CASE ExportSeed
    <3>1. UNCHANGED <<input, prepared>> /\ staged'.pairs = staged.pairs /\ pc' = pc
      BY <2>0, <2>10 DEF ExportSeed, disk
    <3> QED
      BY <3>1, KeptMinimal
  <2>11. CASE PublishPrepared
    <3>1. /\ pc = "export" /\ pc' \in {"record", "idle"} /\ UNCHANGED input
          /\ prepared'.revision = input.revision /\ prepared'.pairs = staged.pairs
      BY <2>11 DEF PublishPrepared, Ended
    <3>2. Minimal(staged.pairs)
      BY <3>1 DEF MinimalInv, Holding
    <3> QED
      BY <3>1, <3>2 DEF MinimalInv, Minimal, Shorter, Holding
  <2>12. CASE StartReplay \/ PublishReplay \/ PrintResult \/ CheckReplay \/ Validate
    <3>1. UNCHANGED <<input, prepared, staged>> /\ pc' \notin Holding
      BY <2>12 DEF StartReplay, PublishReplay, PrintResult, CheckReplay, Validate, Goto, disk,
                   Holding
    <3> QED
      BY <3>1, KeptMinimal
  <2>13. CASE Raise \/ BadTrial \/ BadReplay \/ Crash
    BY <2>13, EndedMinimal DEF Raise, BadTrial, BadReplay, Crash, disk
  <2>14. CASE Requalify
    <3>1. /\ input'.revision = input.revision + 1 /\ pc' = "idle" /\ UNCHANGED prepared
      BY <2>14 DEF Requalify, Inputs, disk, run
    <3> QED
      BY <3>1 DEF MinimalInv, Holding
  <2>15. CASE UNCHANGED vars
    BY <2>15, KeptMinimal DEF vars, disk, run
  <2> QED
    BY <2>1, <2>2, <2>3, <2>4, <2>5, <2>6, <2>7, <2>8, <2>9, <2>10, <2>11, <2>12, <2>13, <2>14,
       <2>15 DEF Next, Step
<1> QED
  BY <1>1, <1>2, PreparedInvariant, PTL DEF Spec

(* The prefix of the pairs prepared for the current inputs is a regression,  *)
(* shorter than the whole, and no shorter prefix is one, for every pattern   *)
(* of regressing prefixes and every trial budget.                            *)
THEOREM PreparedPrefixIsMinimal == Spec => []PerformanceIsMinimal
<1>1. MinimalInv => PerformanceIsMinimal
  BY SeededAssumption DEF MinimalInv, Minimal, Shorter, PerformanceIsMinimal
<1> QED
  BY <1>1, MinimalInvariant, PTL
=============================================================================
