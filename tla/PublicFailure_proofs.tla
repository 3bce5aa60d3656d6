------------------------ MODULE PublicFailure_proofs ------------------------
(***************************************************************************)
(* The disposition of public failures, for any decisions, shapes, targets  *)
(* and bundle limits: each reduced item is one chain from the request to   *)
(* the replay, although its pieces may come from different invocations     *)
(* and the validation does not compare the bundle with the candidate.      *)
(***************************************************************************)
EXTENDS PublicFailure, FiniteSetTheorems, WellFoundedInduction, TLAPS

-----------------------------------------------------------------------------
Fields == {"request", "session", "candidate", "bundle", "replay", "staging"}

(* What any item directory holds: a candidate is that of its session, a      *)
(* bundle was made of this candidate, a replay of this bundle.               *)
DirLinked(d) ==
    /\ d.session # NoSession => d.session.final # "none"
    /\ d.candidate # "none" => d.session # NoSession /\ d.session.final = d.candidate
    /\ d.bundle # NoBundle => d.candidate # "none" /\ d.bundle.candidate = d.candidate
    /\ d.replay # NoReplay =>
          /\ d.bundle # NoBundle /\ Verifies(d.bundle)
          /\ d.replay.bundle = d.bundle.number /\ d.replay.failure = d.bundle.failure

DirShape(d) ==
    d = [request |-> d.request, session |-> d.session, candidate |-> d.candidate,
         bundle |-> d.bundle, replay |-> d.replay, staging |-> d.staging]

DiskInv == \A i \in DOMAIN disk : DirShape(disk[i]) /\ DirLinked(disk[i])

(* How far this invocation got with the item it is at.                       *)
Answered == Here.session # NoSession /\ Here.session.failure = Failure
            /\ Here.candidate # "none"

HereInv ==
    /\ pc \notin {"idle", "start", "item", "validate"} => item \in DOMAIN disk
    /\ pc \in {"reduction", "reducing", "bundle", "exporting", "replay", "replaying", "append"} =>
          Here.request = RequestNow
    /\ pc = "reducing" => /\ Here.candidate = "none"
                          /\ Here.session # NoSession => Here.session.failure = Failure
    /\ pc \in {"bundle", "exporting", "replay", "replaying", "append"} => Answered
    /\ pc = "exporting" => Here.bundle = NoBundle
    /\ pc \in {"replay", "replaying", "append"} => Here.bundle # NoBundle
    /\ pc = "replaying" => Verifies(Here.bundle) /\ Here.replay = NoReplay
    /\ pc = "append" => Here.replay # NoReplay

(* One item of a disposition of this revision.                               *)
ItemLinked(it, revision) ==
    /\ it.disposition = "reduced_replayed" =>
        /\ it.request.revision = revision /\ it.request.failure = it.failure
        /\ it.session.failure = it.failure /\ it.session.final = it.candidate
        /\ it.bundle.failure = it.failure /\ Verifies(it.bundle)
        /\ it.replay.bundle = it.bundle.number /\ it.replay.failure = it.failure
        /\ it.bundle.candidate = it.candidate
    /\ it.failure.code \in Supported => it.disposition = "reduced_replayed"

ItemsInv ==
    /\ pc = "idle" => items = <<>>
    /\ \E S : items \in Seq(S)
    /\ \A i \in DOMAIN items : ItemLinked(items[i], source.revision)
    /\ \A i \in DOMAIN disposition.items : ItemLinked(disposition.items[i], disposition.revision)

ChainInv == DiskInv /\ HereInv /\ ItemsInv

(* A directory that was never opened. *)
LEMMA EmptyLinked == DirShape(EmptyItem) /\ DirLinked(EmptyItem)
BY DEF DirShape, DirLinked, EmptyItem, NoSession, NoBundle, NoReplay

(* The directory of this item. *)
LEMMA HereLinked ==
    ASSUME DiskInv
    PROVE  DirShape(Here) /\ DirLinked(Here)
BY EmptyLinked DEF DiskInv, Here

(* A directory is written: the others stay. *)
LEMMA WrittenDir ==
    ASSUME DiskInv, NEW d, Becomes(d), DirShape(d), DirLinked(d)
    PROVE  DiskInv' /\ item \in DOMAIN disk' /\ disk'[item] = d
<1>1. disk' = [i \in DOMAIN disk \cup {item} |-> IF i = item THEN d ELSE disk[i]]
  BY DEF Becomes
<1>2. DOMAIN disk' = DOMAIN disk \cup {item}
      /\ \A i \in DOMAIN disk' : disk'[i] = IF i = item THEN d ELSE disk[i]
  BY <1>1
<1>3. \A i \in DOMAIN disk' : DirShape(disk'[i]) /\ DirLinked(disk'[i])
  BY <1>2 DEF DiskInv
<1> QED
  BY <1>2, <1>3 DEF DiskInv, DirShape, DirLinked, Verifies

(* The item directory is written and the invocation stays at this item.      *)
LEMMA WrittenHere ==
    ASSUME DiskInv, NEW d, Becomes(d), item' = item, DirShape(d), DirLinked(d)
    PROVE  DiskInv' /\ item' \in DOMAIN disk' /\ Here' = d
BY WrittenDir DEF Here

(* An item is appended.                                                      *)
LEMMA AppendedItems ==
    ASSUME ItemsInv, NEW it, items' = Append(items, it), ItemLinked(it, source.revision),
           UNCHANGED <<source, disposition>>, pc' # "idle"
    PROVE  ItemsInv'
<1>1. PICK S : items \in Seq(S)
  BY DEF ItemsInv
<1>2. items \in Seq(S \cup {it})
  BY <1>1
<1>3. /\ items' \in Seq(S \cup {it}) /\ Len(items') = Len(items) + 1
      /\ \A i \in 1..Len(items) : items'[i] = items[i]
      /\ items'[Len(items) + 1] = it
  BY <1>2
<1>4. DOMAIN items = 1..Len(items) /\ DOMAIN items' = 1..(Len(items) + 1) /\ Len(items) \in Nat
  BY <1>2, <1>3
<1>5. \A i \in DOMAIN items' : ItemLinked(items'[i], source.revision)
  <2> SUFFICES ASSUME NEW i \in DOMAIN items' PROVE ItemLinked(items'[i], source.revision)
    OBVIOUS
  <2>1. i \in 1..Len(items) \/ i = Len(items) + 1
    BY <1>4
  <2>2. CASE i \in 1..Len(items)
    <3>1. items'[i] = items[i] /\ i \in DOMAIN items
      BY <1>3, <1>4, <2>2
    <3> QED
      BY <3>1 DEF ItemsInv
  <2>3. CASE i = Len(items) + 1
    BY <1>3, <2>3
  <2> QED
    BY <2>1, <2>2, <2>3
<1>6. \E T : items' \in Seq(T)
  BY <1>3
<1> QED
  BY <1>5, <1>6 DEF ItemsInv, ItemLinked, Verifies

(* A step that stays at an item and leaves its directory alone.              *)
LEMMA SameHere ==
    ASSUME DiskInv, UNCHANGED <<source, disk, item>>
    PROVE  /\ DiskInv' /\ Here' = Here /\ Failure' = Failure /\ RequestNow' = RequestNow
           /\ (item \in DOMAIN disk => item' \in DOMAIN disk')
BY DEF DiskInv, DirShape, DirLinked, Verifies, Here, Failure, RequestNow

(* Nothing an item is about depends on the steps that leave it alone. *)
LEMMA ItemsKept ==
    ASSUME ItemsInv, UNCHANGED <<source, disposition, items>>, pc' # "idle"
    PROVE  ItemsInv'
BY DEF ItemsInv, ItemLinked, Verifies

(* An invocation that ends has no items. *)
LEMMA EndedItems ==
    ASSUME ItemsInv, Ended, UNCHANGED <<disposition>>
    PROVE  ItemsInv' /\ HereInv'
BY DEF Ended, ItemsInv, HereInv, ItemLinked, Verifies

(* Every step keeps the chain of each directory and of each item. *)
LEMMA ChainInvariant == Spec => []ChainInv
<1>1. Init => ChainInv
  BY DEF Init, ChainInv, DiskInv, HereInv, ItemsInv, EmptyDisk, NoDisposition
<1>2. ChainInv /\ [Next]_vars => ChainInv'
  <2> SUFFICES ASSUME ChainInv, [Next]_vars PROVE ChainInv'
    OBVIOUS
  <2>0. DiskInv /\ HereInv /\ ItemsInv
    BY DEF ChainInv
  <2>1. CASE InvokeDirectly
    <3>1. pc' = "start" /\ UNCHANGED <<source, disk, disposition, items>>
      BY <2>1 DEF InvokeDirectly, Goto
    <3> QED
      BY <2>0, <3>1, ItemsKept DEF ChainInv, DiskInv, HereInv, DirShape, DirLinked, Verifies
  <2>2. CASE InvokeAfterReconcile
    <3>1. /\ pc' = "start" /\ disk' = EmptyDisk /\ disposition' = NoDisposition
          /\ UNCHANGED <<source, items>> /\ pc = "idle"
      BY <2>2 DEF InvokeAfterReconcile, Goto
    <3>2. DiskInv' /\ HereInv'
      BY <3>1 DEF DiskInv, HereInv, EmptyDisk
    <3>3. ItemsInv'
      BY <2>0, <3>1 DEF ItemsInv, NoDisposition
    <3> QED
      BY <3>2, <3>3 DEF ChainInv
  <2>3. CASE Start
    <3>1. pc' \in {"validate", "item"} /\ UNCHANGED <<source, disk, disposition, item, items>>
      BY <2>3 DEF Start, Goto
    <3>2. HereInv'
      BY <3>1 DEF HereInv
    <3> QED
      BY <2>0, <3>1, <3>2, ItemsKept, SameHere DEF ChainInv
  <2>4. CASE Refuse \/ Return \/ Crash
    <3>1. Ended /\ UNCHANGED <<disk, disposition>>
      BY <2>4 DEF Refuse, Return, Crash
    <3> QED
      BY <2>0, <3>1, EndedItems DEF ChainInv, DiskInv, DirShape, DirLinked, Verifies
  <2>5. CASE SkipItem
    <3>1. /\ items' = Append(items, NotApplicableItem(Failure)) /\ pc = "item" /\ pc' = pc
          /\ UNCHANGED <<source, disk, disposition>>
      BY <2>5 DEF SkipItem
    <3>2. ItemLinked(NotApplicableItem(Failure), source.revision)
      BY <2>5 DEF SkipItem, ItemLinked, NotApplicableItem, NotApplicable, Supported
    <3>3. ItemsInv'
      BY <2>0, <3>1, <3>2, AppendedItems
    <3> QED
      BY <2>0, <3>1, <3>3 DEF ChainInv, DiskInv, HereInv, DirShape, DirLinked, Verifies
  <2>6. CASE OpenItem
    <3>1. PICK d : d = [Here EXCEPT !.staging = {}] /\ Becomes(d)
      BY <2>6 DEF OpenItem
    <3>2. /\ pc = "item" /\ pc' = "request"
          /\ UNCHANGED <<source, disposition, item, items>>
      BY <2>6 DEF OpenItem, Goto
    <3>3. DirShape(Here) /\ DirLinked(Here)
      BY <2>0, HereLinked
    <3>4. DirShape(d) /\ DirLinked(d)
      BY <2>0, <3>1, <3>2, <3>3 DEF DirShape, DirLinked, HereInv, Answered
    <3>5. DiskInv' /\ item' \in DOMAIN disk' /\ Here' = d /\ Failure' = Failure /\ RequestNow' = RequestNow
      BY <2>0, <3>1, <3>2, <3>4, WrittenHere DEF Failure, RequestNow
    <3>6. HereInv'
      BY <2>0, <3>1, <3>2, <3>3, <3>5 DEF HereInv, Answered, DirShape
    <3>7. ItemsInv'
      BY <2>0, <3>2, ItemsKept
    <3> QED
      BY <3>5, <3>6, <3>7 DEF ChainInv
  <2>7. CASE WriteRequest
    <3>1. PICK d : d = [Here EXCEPT !.request = IF @ = NoRequest THEN RequestNow ELSE @] /\ Becomes(d)
      BY <2>7 DEF WriteRequest
    <3>2. /\ pc = "request" /\ RequestStands /\ pc' = "reduction"
          /\ UNCHANGED <<source, disposition, item, items>>
      BY <2>7 DEF WriteRequest, Goto
    <3>3. DirShape(Here) /\ DirLinked(Here)
      BY <2>0, HereLinked
    <3>4. DirShape(d) /\ DirLinked(d)
      BY <2>0, <3>1, <3>2, <3>3 DEF DirShape, DirLinked, HereInv, Answered
    <3>5. DiskInv' /\ item' \in DOMAIN disk' /\ Here' = d /\ Failure' = Failure /\ RequestNow' = RequestNow
      BY <2>0, <3>1, <3>2, <3>4, WrittenHere DEF Failure, RequestNow
    <3>6. HereInv'
      BY <2>0, <3>1, <3>2, <3>3, <3>5 DEF HereInv, Answered, DirShape, RequestStands
    <3>7. ItemsInv'
      BY <2>0, <3>2, ItemsKept
    <3> QED
      BY <3>5, <3>6, <3>7 DEF ChainInv
  <2>8. CASE KeepReduction
    <3>1. /\ pc = "reduction" /\ pc' = "bundle"
          /\ UNCHANGED <<source, disk, disposition, item, items>>
      BY <2>8 DEF KeepReduction, Goto
    <3>2. /\ DiskInv' /\ Here' = Here /\ Failure' = Failure /\ RequestNow' = RequestNow
          /\ item \in DOMAIN disk => item' \in DOMAIN disk'
      BY <2>0, <3>1, SameHere
    <3>3. HereInv'
      BY <2>0, <2>8, <3>1, <3>2 DEF HereInv, Answered, KeepReduction, Reduced, SessionStands
    <3>4. ItemsInv'
      BY <2>0, <3>1, ItemsKept
    <3> QED
      BY <3>2, <3>3, <3>4 DEF ChainInv
  <2>9. CASE BeginReduction
    <3>1. PICK d : d = [Here EXCEPT !.session = NoSession, !.candidate = "none"] /\ Becomes(d)
      BY <2>9 DEF BeginReduction
    <3>2. /\ pc = "reduction" /\ ~Reduced /\ pc' = "reducing"
          /\ UNCHANGED <<source, disposition, item, items>>
      BY <2>9 DEF BeginReduction, Goto
    <3>3. DirShape(Here) /\ DirLinked(Here)
      BY <2>0, HereLinked
    <3>4. DirShape(d) /\ DirLinked(d)
      BY <2>0, <3>1, <3>2, <3>3 DEF DirShape, DirLinked, HereInv, Answered, Reduced
    <3>5. DiskInv' /\ item' \in DOMAIN disk' /\ Here' = d /\ Failure' = Failure /\ RequestNow' = RequestNow
      BY <2>0, <3>1, <3>2, <3>4, WrittenHere DEF Failure, RequestNow
    <3>6. HereInv'
      BY <2>0, <3>1, <3>2, <3>3, <3>5 DEF HereInv, Answered, DirShape
    <3>7. ItemsInv'
      BY <2>0, <3>2, ItemsKept
    <3> QED
      BY <3>5, <3>6, <3>7 DEF ChainInv
  <2>10. CASE WriteSession \/ WriteUnreducedSession
    <3>1. PICK d, final : /\ d = [Here EXCEPT !.session = [failure |-> Failure, final |-> final]]
                          /\ final \in Finals \cup {"whole"} /\ Becomes(d)
      BY <2>10 DEF WriteSession, WriteUnreducedSession
    <3>2. /\ pc = "reducing" /\ Here.session = NoSession /\ pc' = pc
          /\ UNCHANGED <<source, disposition, item, items>>
      BY <2>10 DEF WriteSession, WriteUnreducedSession
    <3>3. DirShape(Here) /\ DirLinked(Here) /\ final # "none" /\ Here.candidate = "none"
      BY <2>0, <3>1, <3>2, HereLinked, PublicFailureAssumption DEF HereInv
    <3>4. DirShape(d) /\ DirLinked(d)
      BY <3>1, <3>2, <3>3 DEF DirShape, DirLinked
    <3>5. DiskInv' /\ item' \in DOMAIN disk' /\ Here' = d /\ Failure' = Failure /\ RequestNow' = RequestNow
      BY <2>0, <3>1, <3>2, <3>4, WrittenHere DEF Failure, RequestNow
    <3>6. HereInv'
      BY <2>0, <3>1, <3>2, <3>3, <3>5 DEF HereInv, Answered, DirShape
    <3>7. ItemsInv'
      BY <2>0, <3>2, ItemsKept
    <3> QED
      BY <3>5, <3>6, <3>7 DEF ChainInv
  <2>11. CASE WriteCandidate
    <3>1. PICK d : d = [Here EXCEPT !.candidate = Here.session.final] /\ Becomes(d)
      BY <2>11 DEF WriteCandidate
    <3>2. /\ pc = "reducing" /\ Here.session # NoSession /\ pc' = "bundle"
          /\ UNCHANGED <<source, disposition, item, items>>
      BY <2>11 DEF WriteCandidate, Goto
    <3>3. DirShape(Here) /\ DirLinked(Here)
      BY <2>0, HereLinked
    <3>4. DirShape(d) /\ DirLinked(d)
      BY <2>0, <3>1, <3>2, <3>3 DEF DirShape, DirLinked, HereInv, Answered
    <3>5. DiskInv' /\ item' \in DOMAIN disk' /\ Here' = d /\ Failure' = Failure /\ RequestNow' = RequestNow
      BY <2>0, <3>1, <3>2, <3>4, WrittenHere DEF Failure, RequestNow
    <3>6. HereInv'
      BY <2>0, <3>1, <3>2, <3>3, <3>5 DEF HereInv, Answered, DirShape, DirLinked
    <3>7. ItemsInv'
      BY <2>0, <3>2, ItemsKept
    <3> QED
      BY <3>5, <3>6, <3>7 DEF ChainInv
  <2>12. CASE KeepBundle
    <3>1. /\ pc = "bundle" /\ Here.bundle # NoBundle /\ pc' = "replay"
          /\ UNCHANGED <<source, disk, disposition, item, items>>
      BY <2>12 DEF KeepBundle, Goto
    <3>2. /\ DiskInv' /\ Here' = Here /\ Failure' = Failure /\ RequestNow' = RequestNow
          /\ item \in DOMAIN disk => item' \in DOMAIN disk'
      BY <2>0, <3>1, SameHere
    <3>3. HereInv'
      BY <2>0, <2>12, <3>1, <3>2 DEF HereInv, Answered, KeepBundle
    <3>4. ItemsInv'
      BY <2>0, <3>1, ItemsKept
    <3> QED
      BY <3>2, <3>3, <3>4 DEF ChainInv
  <2>13. CASE StageBundle
    <3>1. PICK d : d = [Here EXCEPT !.staging = @ \cup {"bundle"}] /\ Becomes(d)
      BY <2>13 DEF StageBundle
    <3>2. /\ pc = "bundle" /\ Here.bundle = NoBundle /\ pc' = "exporting"
          /\ UNCHANGED <<source, disposition, item, items>>
      BY <2>13 DEF StageBundle, Goto
    <3>3. DirShape(Here) /\ DirLinked(Here)
      BY <2>0, HereLinked
    <3>4. DirShape(d) /\ DirLinked(d)
      BY <2>0, <3>1, <3>2, <3>3 DEF DirShape, DirLinked, HereInv, Answered
    <3>5. DiskInv' /\ item' \in DOMAIN disk' /\ Here' = d /\ Failure' = Failure /\ RequestNow' = RequestNow
      BY <2>0, <3>1, <3>2, <3>4, WrittenHere DEF Failure, RequestNow
    <3>6. HereInv'
      BY <2>0, <3>1, <3>2, <3>3, <3>5 DEF HereInv, Answered, DirShape
    <3>7. ItemsInv'
      BY <2>0, <3>2, ItemsKept
    <3> QED
      BY <3>5, <3>6, <3>7 DEF ChainInv
  <2>14. CASE ExportBundle
    <3>1. PICK d : d = [Here EXCEPT !.staging = @ \ {"bundle"},
                                !.bundle = Export(Failure, Here.candidate, PayloadFiles, NewNumber)] /\ Becomes(d)
      BY <2>14 DEF ExportBundle
    <3>2. /\ pc = "exporting" /\ pc' = "replay"
          /\ UNCHANGED <<source, disposition, item, items>>
      BY <2>14 DEF ExportBundle, Goto
    <3>3. DirShape(Here) /\ DirLinked(Here)
      BY <2>0, HereLinked
    <3>4. DirShape(d) /\ DirLinked(d)
      BY <2>0, <3>1, <3>2, <3>3 DEF DirShape, DirLinked, HereInv, Answered, Export, NoBundle
    <3>5. DiskInv' /\ item' \in DOMAIN disk' /\ Here' = d /\ Failure' = Failure /\ RequestNow' = RequestNow
      BY <2>0, <3>1, <3>2, <3>4, WrittenHere DEF Failure, RequestNow
    <3>6. HereInv'
      BY <2>0, <3>1, <3>2, <3>3, <3>5 DEF HereInv, Answered, DirShape, Export, NoBundle
    <3>7. ItemsInv'
      BY <2>0, <3>2, ItemsKept
    <3> QED
      BY <3>5, <3>6, <3>7 DEF ChainInv
  <2>15. CASE KeepReplay
    <3>1. /\ pc = "replay" /\ Here.replay # NoReplay /\ pc' = "append"
          /\ UNCHANGED <<source, disk, disposition, item, items>>
      BY <2>15 DEF KeepReplay, Goto
    <3>2. /\ DiskInv' /\ Here' = Here /\ Failure' = Failure /\ RequestNow' = RequestNow
          /\ item \in DOMAIN disk => item' \in DOMAIN disk'
      BY <2>0, <3>1, SameHere
    <3>3. HereInv'
      BY <2>0, <2>15, <3>1, <3>2 DEF HereInv, Answered, KeepReplay
    <3>4. ItemsInv'
      BY <2>0, <3>1, ItemsKept
    <3> QED
      BY <3>2, <3>3, <3>4 DEF ChainInv
  <2>16. CASE StageReplay
    <3>1. PICK d : d = [Here EXCEPT !.staging = @ \cup {"replay"}] /\ Becomes(d)
      BY <2>16 DEF StageReplay
    <3>2. /\ pc = "replay" /\ Here.replay = NoReplay /\ Verifies(Here.bundle) /\ pc' = "replaying"
          /\ UNCHANGED <<source, disposition, item, items>>
      BY <2>16 DEF StageReplay, Goto, Replayable
    <3>3. DirShape(Here) /\ DirLinked(Here)
      BY <2>0, HereLinked
    <3>4. DirShape(d) /\ DirLinked(d)
      BY <2>0, <3>1, <3>2, <3>3 DEF DirShape, DirLinked, HereInv, Answered
    <3>5. DiskInv' /\ item' \in DOMAIN disk' /\ Here' = d /\ Failure' = Failure /\ RequestNow' = RequestNow
      BY <2>0, <3>1, <3>2, <3>4, WrittenHere DEF Failure, RequestNow
    <3>6. HereInv'
      BY <2>0, <3>1, <3>2, <3>3, <3>5 DEF HereInv, Answered, DirShape
    <3>7. ItemsInv'
      BY <2>0, <3>2, ItemsKept
    <3> QED
      BY <3>5, <3>6, <3>7 DEF ChainInv
  <2>17. CASE PublishReplay
    <3>1. PICK d : d = [Here EXCEPT !.staging = @ \ {"replay"}, !.replay = ReplayResult(Here.bundle)] /\ Becomes(d)
      BY <2>17 DEF PublishReplay
    <3>2. /\ pc = "replaying" /\ pc' = "append"
          /\ UNCHANGED <<source, disposition, item, items>>
      BY <2>17 DEF PublishReplay, Goto
    <3>3. DirShape(Here) /\ DirLinked(Here)
      BY <2>0, HereLinked
    <3>4. DirShape(d) /\ DirLinked(d)
      BY <2>0, <3>1, <3>2, <3>3 DEF DirShape, DirLinked, HereInv, Answered, ReplayResult, NoReplay, NoBundle
    <3>5. DiskInv' /\ item' \in DOMAIN disk' /\ Here' = d /\ Failure' = Failure /\ RequestNow' = RequestNow
      BY <2>0, <3>1, <3>2, <3>4, WrittenHere DEF Failure, RequestNow
    <3>6. HereInv'
      BY <2>0, <3>1, <3>2, <3>3, <3>5 DEF HereInv, Answered, DirShape, ReplayResult, NoReplay, NoBundle
    <3>7. ItemsInv'
      BY <2>0, <3>2, ItemsKept
    <3> QED
      BY <3>5, <3>6, <3>7 DEF ChainInv
  <2>18. CASE AppendItem
    <3>1. /\ pc = "append" /\ pc' = "item" /\ items' = Append(items, ReducedItem)
          /\ UNCHANGED <<source, disk, disposition>> /\ Here.replay.failure = Failure
      BY <2>18 DEF AppendItem
    <3>2. DirLinked(Here) /\ Here.request = RequestNow /\ Answered
          /\ Here.bundle # NoBundle /\ Here.replay # NoReplay
      BY <2>0, <3>1, HereLinked DEF HereInv
    <3>3. ItemLinked(ReducedItem, source.revision)
      BY <3>1, <3>2 DEF ItemLinked, ReducedItem, DirLinked, Answered, RequestNow
    <3>4. ItemsInv'
      BY <2>0, <3>1, <3>3, AppendedItems
    <3>5. DiskInv' /\ HereInv'
      BY <2>0, <3>1 DEF DiskInv, HereInv, DirShape, DirLinked, Verifies
    <3> QED
      BY <3>4, <3>5 DEF ChainInv
  <2>19. CASE WriteDisposition
    <3>1. /\ disposition' = [revision |-> source.revision, items |-> items]
          /\ pc' = "validate" /\ UNCHANGED <<source, disk, item, items>>
      BY <2>19 DEF WriteDisposition, Goto
    <3>2. ItemsInv'
      BY <2>0, <3>1 DEF ItemsInv, ItemLinked, Verifies
    <3>3. HereInv'
      BY <3>1 DEF HereInv
    <3> QED
      BY <2>0, <3>1, <3>2, <3>3, SameHere DEF ChainInv
  <2>20. CASE Raise \/ BadLuck
    <3>1. Ended /\ UNCHANGED disposition
      BY <2>20 DEF Raise, BadLuck
    <3>2. ItemsInv' /\ HereInv'
      BY <2>0, <3>1, EndedItems
    <3>3. CASE UNCHANGED disk
      BY <2>0, <3>2, <3>3 DEF ChainInv, DiskInv, DirShape, DirLinked, Verifies
    <3>4. CASE Becomes([Here EXCEPT !.staging = {}])
      <4>1. PICK d : d = [Here EXCEPT !.staging = {}] /\ Becomes(d)
        BY <3>4
      <4>2. DirShape(d) /\ DirLinked(d)
        BY <2>0, <4>1, HereLinked DEF DirShape, DirLinked
      <4>3. DiskInv'
        BY <2>0, <4>1, <4>2, WrittenDir
      <4> QED
        BY <3>2, <4>3 DEF ChainInv
    <3> QED
      BY <2>20, <3>3, <3>4 DEF Raise, BadLuck
  <2>22. CASE Requalify
    <3>1. /\ pc = "idle" /\ UNCHANGED <<disk, disposition, pc, item, items>>
      BY <2>22 DEF Requalify
    <3>2. items = <<>> /\ items' = <<>>
      BY <2>0, <3>1 DEF ItemsInv
    <3>3. ItemsInv'
      BY <2>0, <3>1, <3>2 DEF ItemsInv, ItemLinked, Verifies
    <3>4. DiskInv' /\ HereInv'
      BY <2>0, <3>1 DEF DiskInv, HereInv, DirShape, DirLinked, Verifies
    <3> QED
      BY <3>3, <3>4 DEF ChainInv
  <2>23. CASE UNCHANGED vars
    <3>1. UNCHANGED <<source, disk, disposition, pc, item, items>>
      BY <2>23 DEF vars
    <3>2. DiskInv'
      BY <2>0, <3>1 DEF DiskInv, DirShape, DirLinked, Verifies
    <3>3. HereInv'
      BY <2>0, <3>1 DEF HereInv, Here, RequestNow, Failure, Answered, Verifies
    <3>4. ItemsInv'
      BY <2>0, <3>1 DEF ItemsInv, ItemLinked, Verifies
    <3> QED
      BY <3>2, <3>3, <3>4 DEF ChainInv
  <2> QED
    BY <2>1, <2>2, <2>3, <2>4, <2>5, <2>6, <2>7, <2>8, <2>9, <2>10, <2>11, <2>12, <2>13, <2>14,
       <2>15, <2>16, <2>17, <2>18, <2>19, <2>20, <2>22, <2>23 DEF Next, Step
<1> QED
  BY <1>1, <1>2, PTL DEF Spec

(* A disposition, from the moment it is on disk, is one chain per item.      *)
THEOREM DispositionIsLinked == Spec => []DispositionLinked
<1>1. ChainInv => DispositionLinked
  BY DEF ChainInv, ItemsInv, ItemLinked, DispositionLinked, ItemStands
<1> QED
  BY <1>1, ChainInvariant, PTL

(* What a recorded gate rests on: the validation passed and nothing ran since. *)
ResolvedInv ==
    resolved =>
        /\ pc = "idle" /\ disposition.revision = source.revision
        /\ [i \in DOMAIN disposition.items |-> disposition.items[i].failure] = source.records

(* Only the validation records a gate, and only a new decision revokes it.    *)
LEMMA ResolvedInvariant == Spec => []ResolvedInv
<1>1. Init => ResolvedInv
  BY DEF Init, ResolvedInv
<1>2. ResolvedInv /\ [Next]_vars => ResolvedInv'
  <2> SUFFICES ASSUME ResolvedInv, [Next]_vars PROVE ResolvedInv'
    OBVIOUS
  <2>1. CASE Return
    BY <2>1 DEF Return, Ended, DispositionStands, ResolvedInv
  <2>2. CASE Requalify
    BY <2>2 DEF Requalify, ResolvedInv
  <2>3. CASE UNCHANGED vars
    BY <2>3 DEF vars, ResolvedInv
  <2>4. CASE \/ InvokeDirectly \/ InvokeAfterReconcile \/ BadLuck \/ Crash
             \/ Step /\ ~Return
    <3>1. resolved' = resolved
      BY <2>4 DEF InvokeDirectly, InvokeAfterReconcile, BadLuck, Crash, Step, Start, Refuse,
         SkipItem, OpenItem, WriteRequest, KeepReduction, BeginReduction, WriteSession,
         WriteUnreducedSession, WriteCandidate, KeepBundle, StageBundle, ExportBundle,
         KeepReplay, StageReplay, PublishReplay, AppendItem, WriteDisposition, Raise
    <3>2. pc # "idle" \/ ~resolved
      BY <2>4, <3>1 DEF InvokeDirectly, InvokeAfterReconcile, BadLuck, Crash, Step, Start,
         Refuse, SkipItem, OpenItem, WriteRequest, KeepReduction, BeginReduction, WriteSession,
         WriteUnreducedSession, WriteCandidate, KeepBundle, StageBundle, ExportBundle,
         KeepReplay, StageReplay, PublishReplay, AppendItem, WriteDisposition, Raise, CheckFails
    <3> QED
      BY <3>1, <3>2 DEF ResolvedInv
  <2> QED
    BY <2>1, <2>2, <2>3, <2>4 DEF Next, Step
<1> QED
  BY <1>1, <1>2, PTL DEF Spec

(* A recorded gate speaks of the decision that is on disk: in the order of    *)
(* its records, and with a reduced and replayed item for each regression.     *)
THEOREM ResolvedDecisionIsCurrent == Spec => []ResolvedIsCurrent
<1>1. ChainInv /\ ResolvedInv => ResolvedIsCurrent
  BY DEF ChainInv, ItemsInv, ItemLinked, ResolvedInv, ResolvedIsCurrent
<1> QED
  BY <1>1, ChainInvariant, ResolvedInvariant, PTL

-----------------------------------------------------------------------------
(* What FinishedWorkIsKept says of one directory: e has all that d finished. *)
Finished(d, e) ==
    /\ d.bundle # NoBundle => e.bundle = d.bundle
    /\ d.replay # NoReplay => e.replay = d.replay
    /\ d.bundle # NoBundle => e.candidate = d.candidate

(* A write to one directory that keeps what is finished there keeps it all.  *)
LEMMA KeptHere ==
    ASSUME NEW d, Becomes(d), Finished(Here, d)
    PROVE  \A i \in DOMAIN disk : i \in DOMAIN disk' /\ Finished(disk[i], disk'[i])
<1>1. disk' = [i \in DOMAIN disk \cup {item} |-> IF i = item THEN d ELSE disk[i]]
  BY DEF Becomes
<1>2. \A i \in DOMAIN disk : i \in DOMAIN disk' /\ disk'[i] = IF i = item THEN d ELSE disk[i]
  BY <1>1
<1>3. item \in DOMAIN disk => Here = disk[item]
  BY DEF Here
<1> QED
  BY <1>2, <1>3 DEF Finished

(* A reduction starts anew only where no bundle was made of it, a bundle and *)
(* a replay are published only where there is none: what an invocation       *)
(* finished, no later step takes back, short of moving the directory aside.  *)
THEOREM FinishedWorkStays == Spec => FinishedWorkIsKept
<1> DEFINE Kept == \A i \in DOMAIN disk :
              \/ i \notin DOMAIN disk'
              \/ /\ disk[i].bundle # NoBundle => disk'[i].bundle = disk[i].bundle
                 /\ disk[i].replay # NoReplay => disk'[i].replay = disk[i].replay
                 /\ disk[i].bundle # NoBundle => disk'[i].candidate = disk[i].candidate
<1>1. ChainInv /\ [Next]_vars => Kept
  <2> SUFFICES ASSUME ChainInv, [Next]_vars PROVE Kept
    OBVIOUS
  <2>0. DiskInv /\ HereInv /\ DirShape(Here) /\ DirLinked(Here)
    BY HereLinked DEF ChainInv
  <2>a. ASSUME NEW d, Becomes(d), Finished(Here, d) PROVE Kept
    BY <2>a, KeptHere DEF Finished
  <2>1. CASE UNCHANGED disk
    BY <2>1
  <2>2. CASE InvokeAfterReconcile
    <3>1. disk' = EmptyDisk
      BY <2>2 DEF InvokeAfterReconcile
    <3> QED
      BY <3>1 DEF EmptyDisk
  <2>3. CASE OpenItem
    <3>1. PICK d : d = [Here EXCEPT !.staging = {}] /\ Becomes(d)
      BY <2>3 DEF OpenItem
    <3> QED
      BY <2>0, <3>1, <2>a DEF Finished, DirShape
  <2>4. CASE WriteRequest
    <3>1. PICK d : d = [Here EXCEPT !.request = IF @ = NoRequest THEN RequestNow ELSE @] /\ Becomes(d)
      BY <2>4 DEF WriteRequest
    <3> QED
      BY <2>0, <3>1, <2>a DEF Finished, DirShape
  <2>5. CASE BeginReduction
    <3>1. PICK d : d = [Here EXCEPT !.session = NoSession, !.candidate = "none"] /\ Becomes(d)
      BY <2>5 DEF BeginReduction
    <3>2. Here.bundle = NoBundle
      BY <2>0, <2>5 DEF BeginReduction, Reduced, DirLinked
    <3> QED
      BY <2>0, <3>1, <3>2, <2>a DEF Finished, DirShape
  <2>6. CASE WriteSession \/ WriteUnreducedSession
    <3>1. PICK d, final : /\ d = [Here EXCEPT !.session = [failure |-> Failure, final |-> final]]
                          /\ Becomes(d)
      BY <2>6 DEF WriteSession, WriteUnreducedSession
    <3> QED
      BY <2>0, <3>1, <2>a DEF Finished, DirShape
  <2>7. CASE WriteCandidate
    <3>1. PICK d : d = [Here EXCEPT !.candidate = Here.session.final] /\ Becomes(d)
      BY <2>7 DEF WriteCandidate
    <3>2. Here.bundle = NoBundle
      BY <2>0, <2>7 DEF WriteCandidate, HereInv, DirLinked
    <3> QED
      BY <2>0, <3>1, <3>2, <2>a DEF Finished, DirShape
  <2>8. CASE StageBundle
    <3>1. PICK d : d = [Here EXCEPT !.staging = @ \cup {"bundle"}] /\ Becomes(d)
      BY <2>8 DEF StageBundle
    <3> QED
      BY <2>0, <3>1, <2>a DEF Finished, DirShape
  <2>9. CASE ExportBundle
    <3>1. PICK d, b : d = [Here EXCEPT !.staging = @ \ {"bundle"}, !.bundle = b] /\ Becomes(d)
      BY <2>9 DEF ExportBundle
    <3>2. Here.bundle = NoBundle
      BY <2>0, <2>9 DEF ExportBundle, HereInv
    <3> QED
      BY <2>0, <3>1, <3>2, <2>a DEF Finished, DirShape
  <2>10. CASE StageReplay
    <3>1. PICK d : d = [Here EXCEPT !.staging = @ \cup {"replay"}] /\ Becomes(d)
      BY <2>10 DEF StageReplay
    <3> QED
      BY <2>0, <3>1, <2>a DEF Finished, DirShape
  <2>11. CASE PublishReplay
    <3>1. PICK d : d = [Here EXCEPT !.staging = @ \ {"replay"}, !.replay = ReplayResult(Here.bundle)]
                   /\ Becomes(d)
      BY <2>11 DEF PublishReplay
    <3>2. Here.replay = NoReplay
      BY <2>0, <2>11 DEF PublishReplay, HereInv
    <3> QED
      BY <2>0, <3>1, <3>2, <2>a DEF Finished, DirShape
  <2>12. CASE Becomes([Here EXCEPT !.staging = {}])
    <3>1. PICK d : d = [Here EXCEPT !.staging = {}] /\ Becomes(d)
      BY <2>12
    <3> QED
      BY <2>0, <3>1, <2>a DEF Finished, DirShape
  <2>13. CASE \/ InvokeDirectly \/ Start \/ Refuse \/ SkipItem \/ KeepReduction \/ KeepBundle
              \/ KeepReplay \/ AppendItem \/ WriteDisposition \/ Return \/ Crash \/ Requalify
              \/ UNCHANGED vars
    <3>1. UNCHANGED disk
      BY <2>13 DEF InvokeDirectly, Start, Refuse, SkipItem, KeepReduction, KeepBundle, KeepReplay,
                   AppendItem, WriteDisposition, Return, Crash, Requalify, vars
    <3> QED
      BY <3>1
  <2>14. CASE Raise \/ BadLuck
    BY <2>1, <2>12, <2>14 DEF Raise, BadLuck
  <2> QED
    BY <2>2, <2>3, <2>4, <2>5, <2>6, <2>7, <2>8, <2>9, <2>10, <2>11, <2>13, <2>14 DEF Next, Step
<1>2. ChainInv /\ [Next]_vars => [Kept]_vars
  BY <1>1
<1> QED
  BY <1>2, ChainInvariant, PTL DEF Spec, FinishedWorkIsKept

-----------------------------------------------------------------------------
(* A set of numbers up to a bound has a least one. *)
LEMMA LeastNumber ==
    ASSUME NEW N \in Nat, NEW T, T \subseteq 0..N, T # {}
    PROVE  \E x \in T : \A m \in T : x <= m
<1> DEFINE R == StrictSubsetOrdering(0..N)
           V == {0..i : i \in T}
<1>1. IsFiniteSet(0..N)
  BY FS_Interval
<1>2. \A U \in V : U \subseteq 0..N
  OBVIOUS
<1>3. \A U \in V : IsFiniteSet(U)
  BY <1>1, <1>2, FS_Subset
<1>4. V \subseteq FiniteSubsetsOf(0..N) /\ V # {}
  BY <1>2, <1>3 DEF FiniteSubsetsOf
<1>5. IsWellFoundedOn(R, FiniteSubsetsOf(0..N))
  BY FS_StrictSubsetOrderingWellFounded
<1>6. PICK U \in V : \A Z \in V : ~ (<<Z, U>> \in R)
  <2> HIDE DEF R, V
  <2> QED
    BY <1>4, <1>5, WFMin
<1>7. PICK x \in T : U = 0..x
  BY <1>6
<1>8. ASSUME NEW m \in T PROVE x <= m
  <2> SUFFICES ASSUME m < x PROVE FALSE
    OBVIOUS
  <2>1. 0..m \subseteq 0..x /\ 0..m # 0..x
    OBVIOUS
  <2>2. <<0..m, 0..x>> \in R
    BY <2>1 DEF StrictSubsetOrdering
  <2> QED
    BY <1>6, <1>7, <2>2
<1> QED
  BY <1>8

-----------------------------------------------------------------------------
(* The records of a decision are a sequence: the induction over the shapes   *)
(* is a least counterexample.                                                *)
Concatenated(X, n, f) == f = [i \in 0..n |-> IF i = 0 THEN <<>> ELSE f[i - 1] \o X[i]]

(* The recursive definition over a sequence of sequences has a solution. *)
LEMMA ConcatenationExists ==
    ASSUME NEW S, NEW n \in Nat, NEW X \in [1..n -> Seq(S)]
    PROVE  \E f : Concatenated(X, n, f)
<1> DEFINE B == {m \in 0..n : ~ \E f : Concatenated(X, m, f)}
<1>1. SUFFICES ASSUME n \in B PROVE FALSE
  OBVIOUS
<1>2. PICK m \in B : \A k \in B : m <= k
  <2>1. B \subseteq 0..n /\ B # {}
    BY <1>1
  <2> HIDE DEF B
  <2> QED
    BY <2>1, LeastNumber
<1>3. CASE m = 0
  <2>1. PICK g : g = [i \in 0..0 |-> <<>>]
    OBVIOUS
  <2>2. Concatenated(X, 0, g)
    BY <2>1 DEF Concatenated
  <2> QED
    BY <1>2, <1>3, <2>2
<1>4. CASE m # 0
  <2>0. m \in 0..n
    BY <1>2
  <2>1. m - 1 \in 0..n /\ m - 1 \notin B /\ m \in 1..n
    <3> HIDE DEF B
    <3> QED
      BY <1>2, <1>4, <2>0
  <2>2. PICK f : Concatenated(X, m - 1, f)
    BY <2>1
  <2>3. PICK g : g = [i \in 0..m |-> IF i = m THEN f[m - 1] \o X[m] ELSE f[i]]
    OBVIOUS
  <2>4. \A i \in 0..m : g[i] = IF i = 0 THEN <<>> ELSE g[i - 1] \o X[i]
    <3> SUFFICES ASSUME NEW i \in 0..m PROVE g[i] = IF i = 0 THEN <<>> ELSE g[i - 1] \o X[i]
      OBVIOUS
    <3>1. CASE i = m
      <4>1. g[m - 1] = f[m - 1] /\ g[m] = f[m - 1] \o X[m]
        BY <2>1, <2>3
      <4> QED
        BY <1>4, <3>1, <4>1
    <3>2. CASE i # m
      <4>1. i \in 0..(m - 1) /\ g[i] = f[i]
        BY <2>1, <2>3, <3>2
      <4>2. i # 0 => i - 1 \in 0..m /\ i - 1 # m /\ g[i - 1] = f[i - 1]
        BY <2>1, <2>3, <4>1
      <4>3. f[i] = IF i = 0 THEN <<>> ELSE f[i - 1] \o X[i]
        BY <2>2, <4>1 DEF Concatenated
      <4> QED
        BY <4>1, <4>2, <4>3
    <3> QED
      BY <3>1, <3>2
  <2>5. Concatenated(X, m, g)
    BY <2>3, <2>4 DEF Concatenated
  <2> QED
    BY <1>2, <2>5
<1> QED
  BY <1>3, <1>4

(* Every solution concatenates to a sequence. *)
LEMMA ConcatenationIsSequence ==
    ASSUME NEW S, NEW n \in Nat, NEW X \in [1..n -> Seq(S)], NEW f, Concatenated(X, n, f)
    PROVE  f[n] \in Seq(S)
<1> DEFINE B == {m \in 0..n : f[m] \notin Seq(S)}
<1>1. SUFFICES ASSUME n \in B PROVE FALSE
  OBVIOUS
<1>2. PICK m \in B : \A k \in B : m <= k
  <2>1. B \subseteq 0..n /\ B # {}
    BY <1>1
  <2> HIDE DEF B
  <2> QED
    BY <2>1, LeastNumber
<1>3. f[m] = IF m = 0 THEN <<>> ELSE f[m - 1] \o X[m]
  BY <1>2 DEF Concatenated
<1>4. CASE m = 0
  <2>1. f[m] \in Seq(S)
    BY <1>3, <1>4
  <2> QED
    BY <1>2, <2>1
<1>5. CASE m # 0
  <2>0. m \in 0..n
    BY <1>2
  <2>1. m - 1 \in 0..n /\ m - 1 \notin B /\ m \in 1..n
    <3> HIDE DEF B
    <3> QED
      BY <1>2, <1>5, <2>0
  <2>2. f[m - 1] \in Seq(S) /\ X[m] \in Seq(S)
    BY <2>1
  <2>3. f[m - 1] \o X[m] \in Seq(S)
    BY <2>2
  <2>4. f[m] \in Seq(S)
    BY <1>3, <1>5, <2>3
  <2> QED
    BY <1>2, <2>4
<1> QED
  BY <1>4, <1>5

(* A record, where there is one, is a sequence. *)
LEMMA RecordIfType ==
    ASSUME NEW condition, NEW C, NEW E, NEW D, NEW code \in C, NEW env \in E, NEW shape \in D
    PROVE  RecordIf(condition, code, env, shape) \in Seq([code : C, env : E, shape : D])
<1>1. [code |-> code, env |-> env, shape |-> shape] \in [code : C, env : E, shape : D]
  OBVIOUS
<1> DEFINE R == [code : C, env : E, shape : D]
           r == [code |-> code, env |-> env, shape |-> shape]
<1>2. r \in R => <<r>> \in Seq(R) /\ <<>> \in Seq(R)
  <2> HIDE DEF r, R
  <2> QED
    OBVIOUS
<1> QED
  BY <1>1, <1>2 DEF RecordIf

(* The records of a case are a sequence of at most two. *)
LEMMA CaseRecordsType ==
    ASSUME NEW shape, NEW verdict, NEW C, verdict.baseline \in C, verdict.candidate \in C,
           NEW D, shape \in D
    PROVE  CaseRecords(shape, verdict) \in
              Seq([code : C, env : {"baseline", "candidate"}, shape : D])
<1> DEFINE R == [code : C, env : {"baseline", "candidate"}, shape : D]
           A(code, env) == RecordIf(code # NoFailure /\ verdict.code # NoFailure, code, env, shape)
<1>1. A(verdict.baseline, "baseline") \in Seq(R) /\ A(verdict.candidate, "candidate") \in Seq(R)
  BY RecordIfType
<1>2. A(verdict.baseline, "baseline") \o A(verdict.candidate, "candidate") \in Seq(R)
  <2> HIDE DEF A, R
  <2> QED
    BY <1>1
<1> QED
  BY <1>2 DEF CaseRecords

(* The records of all cases are a sequence. *)
LEMMA RecordsType ==
    ASSUME NEW v, NEW n \in Nat
    PROVE  \E S : RecordsUpTo(v, n) \in Seq(S)
<1> DEFINE C == {v[i].verdict.baseline : i \in 1..n} \cup {v[i].verdict.candidate : i \in 1..n}
           D == {Shapes[i] : i \in 1..n}
           S == [code : C, env : {"baseline", "candidate"}, shape : D]
           X == [i \in 1..n |-> CaseRecords(Shapes[i], v[i].verdict)]
<1>1. X \in [1..n -> Seq(S)]
  BY CaseRecordsType
<1>2. PICK f : f = CHOOSE g : Concatenated(X, n, g)
  OBVIOUS
<1>3. Concatenated(X, n, f)
  <2>1. \E g : Concatenated(X, n, g)
    BY <1>1, ConcatenationExists
  <2> HIDE DEF X
  <2> QED
    BY <1>2, <2>1
<1>4. f[n] \in Seq(S)
  BY <1>1, <1>3, ConcatenationIsSequence
<1>5. ASSUME NEW g
      PROVE  Concatenated(X, n, g) <=>
                g = [i \in 0..n |-> IF i = 0 THEN <<>>
                                    ELSE g[i - 1] \o CaseRecords(Shapes[i], v[i].verdict)]
  <2>1. \A i \in 0..n : i # 0 => X[i] = CaseRecords(Shapes[i], v[i].verdict)
    OBVIOUS
  <2>2. [i \in 0..n |-> IF i = 0 THEN <<>> ELSE g[i - 1] \o X[i]]
        = [i \in 0..n |-> IF i = 0 THEN <<>>
                          ELSE g[i - 1] \o CaseRecords(Shapes[i], v[i].verdict)]
    <3> HIDE DEF X
    <3> QED
      BY <2>1
  <2> QED
    BY <2>2 DEF Concatenated
<1>6. RecordsUpTo(v, n) = f[n]
  BY <1>2, <1>5 DEF RecordsUpTo
<1> QED
  BY <1>4, <1>6

(* The aggregate records are a sequence. *)
LEMMA AggregateType ==
    ASSUME NEW codes PROVE \E S : AggregateRecords(codes) \in Seq(S)
<1> DEFINE C == {"MEMORY_REGRESSION", "PERFORMANCE_REGRESSION"}
           R == [code : C, env : {"candidate"}, shape : {"all shapes"}]
           A(code) == RecordIf(code \in codes, code, "candidate", "all shapes")
<1>1. A("MEMORY_REGRESSION") \in Seq(R) /\ A("PERFORMANCE_REGRESSION") \in Seq(R)
  BY RecordIfType
<1>2. A("MEMORY_REGRESSION") \o A("PERFORMANCE_REGRESSION") \in Seq(R)
  <2> HIDE DEF A, R
  <2> QED
    BY <1>1
<1> QED
  BY <1>2 DEF AggregateRecords

(* A decision is of the revision it was made for, and its records are a      *)
(* sequence.                                                                 *)
LEMMA SourceType ==
    ASSUME NEW r, NEW s \in DomainFailures(r)
    PROVE  s.revision = r /\ Len(s.records) \in Nat
<1>1. PICK v, a : s = SourceOf(v, a, r)
  BY DEF DomainFailures
<1>2. s.revision = r /\ s.records = RecordsUpTo(v, Len(Shapes)) \o AggregateRecords(a)
  BY <1>1 DEF SourceOf
<1>3. Len(Shapes) \in Nat
  BY PublicFailureAssumption
<1>4. PICK S : RecordsUpTo(v, Len(Shapes)) \in Seq(S)
  BY <1>3, RecordsType
<1>5. PICK T : AggregateRecords(a) \in Seq(T)
  BY AggregateType
<1>6. /\ RecordsUpTo(v, Len(Shapes)) \in Seq(S \cup T)
      /\ AggregateRecords(a) \in Seq(S \cup T)
  BY <1>4, <1>5
<1>7. s.records \in Seq(S \cup T)
  BY <1>2, <1>6
<1> QED
  BY <1>2, <1>7

-----------------------------------------------------------------------------
(* More numbers than places: two numbers are at one place. *)
LEMMA MorePlaces ==
    ASSUME NEW c \in Nat, NEW T, IsFiniteSet(T), Cardinality(T) < c, NEW f \in [1..c -> T]
    PROVE  \E x, y \in 1..c : x # y /\ f[x] = f[y]
<1>1. IsFiniteSet(1..c) /\ Cardinality(1..c) = c
  BY FS_Interval
<1> QED
  BY <1>1, FS_PigeonHole

(* A manifest hash is new among c directories of which one has no bundle.    *)
LEMMA NewNumberIsBounded ==
    ASSUME IsFiniteSet(DOMAIN disk), NEW h \in DOMAIN disk, disk[h].bundle.number = 0
    PROVE  NewNumber \in 1..Cardinality(DOMAIN disk)
<1> DEFINE c == Cardinality(DOMAIN disk)
           Free(n) == \A i \in DOMAIN disk : disk[i].bundle.number # n
           U == {n \in 1..(c + 1) : Free(n)}
           Least(n) ==
               /\ \A i \in DOMAIN disk : disk[i].bundle.number # n
               /\ \A m \in 1..(n - 1) : \E i \in DOMAIN disk : disk[i].bundle.number = m
<1>1. c \in Nat
  BY FS_CardinalityType
<1>2. \E n \in 1..c : Free(n)
  <2> SUFFICES ASSUME \A n \in 1..c : ~Free(n) PROVE FALSE
    OBVIOUS
  <2>1. PICK f : f = [n \in 1..c |-> CHOOSE i \in DOMAIN disk : disk[i].bundle.number = n]
    OBVIOUS
  <2>2. \A n \in 1..c : f[n] \in DOMAIN disk /\ disk[f[n]].bundle.number = n
    BY <2>1
  <2>3. f \in [1..c -> DOMAIN disk \ {h}]
    BY <2>1, <2>2
  <2>4. IsFiniteSet(DOMAIN disk \ {h}) /\ Cardinality(DOMAIN disk \ {h}) = c - 1
    BY FS_RemoveElement
  <2>6. c - 1 < c
    BY <1>1
  <2>7. \E x, y \in 1..c : x # y /\ f[x] = f[y]
    <3>1. Cardinality(DOMAIN disk \ {h}) < c
      BY <2>4, <2>6
    <3> HIDE DEF c
    <3> QED
      BY <1>1, <2>3, <2>4, <3>1, <2>6, MorePlaces
  <2> QED
    BY <2>2, <2>7
<1>3. PICK n \in U : \A m \in U : n <= m
  <2>1. U \subseteq 0..(c + 1) /\ c + 1 \in Nat
    BY <1>1
  <2>2. U # {}
    <3>1. PICK n \in 1..c : Free(n)
      BY <1>2
    <3>2. n \in 1..(c + 1)
      BY <1>1
    <3> QED
      BY <3>1, <3>2
  <2> HIDE DEF U
  <2> QED
    BY <2>1, <2>2, LeastNumber
<1>4. Least(n)
  <2>1. ASSUME NEW m \in 1..(n - 1) PROVE ~Free(m)
    <3>1. m \in 1..(c + 1) /\ m < n
      BY <1>1, <1>3, <2>1
    <3>2. m \notin U
      <4>1. n \in 1..(c + 1)
        BY <1>3
      <4>2. ~(n <= m)
        BY <1>1, <3>1, <4>1
      <4> HIDE DEF U
      <4> QED
        BY <1>3, <4>2
    <3> QED
      BY <3>1, <3>2
  <2> QED
    BY <1>3, <2>1
<1>5. NewNumber \in 1..(c + 1) /\ Least(NewNumber)
  <2>1. NewNumber = CHOOSE k \in 1..(c + 1) : Least(k)
    BY DEF NewNumber
  <2>2. \E k \in 1..(c + 1) : Least(k)
    BY <1>3, <1>4
  <2> HIDE DEF Least, c
  <2> QED
    BY <2>1, <2>2
<1>6. NewNumber # c + 1
  <2> SUFFICES ASSUME NewNumber = c + 1 PROVE FALSE
    OBVIOUS
  <2>1. PICK k \in 1..c : Free(k)
    BY <1>2
  <2>2. k \in 1..(NewNumber - 1)
    BY <1>1, <2>1
  <2> QED
    BY <1>5, <2>1, <2>2
<1> QED
  BY <1>1, <1>5, <1>6

(* The types of one directory among c.                                       *)
DirType(d, c) ==
    /\ d.session.final \in Finals \cup {"none", "whole"}
    /\ d.candidate \in Finals \cup {"none", "whole"}
    /\ d.staging \subseteq {"bundle", "replay"}
    /\ d.bundle.number \in 0..c /\ d.replay.bundle \in 0..c

DiskType ==
    /\ IsFiniteSet(DOMAIN disk)
    /\ \A i \in DOMAIN disk : DirType(disk[i], Cardinality(DOMAIN disk))

(* The directory of this item has the types of any. *)
LEMMA HereType ==
    ASSUME DiskType PROVE DirType(Here, Cardinality(DOMAIN disk))
<1>1. Cardinality(DOMAIN disk) \in Nat
  BY FS_CardinalityType DEF DiskType
<1> QED
  BY <1>1 DEF DiskType, Here, DirType, EmptyItem, NoSession, NoBundle, NoReplay

(* The number of directories only grows as they are written. *)
LEMMA WrittenType ==
    ASSUME DiskType, NEW d, Becomes(d), DirType(d, Cardinality(DOMAIN disk))
    PROVE  DiskType'
<1>1. disk' = [i \in DOMAIN disk \cup {item} |-> IF i = item THEN d ELSE disk[i]]
  BY DEF Becomes
<1>2. /\ DOMAIN disk' = DOMAIN disk \cup {item}
      /\ \A i \in DOMAIN disk' : disk'[i] = IF i = item THEN d ELSE disk[i]
  BY <1>1
<1>3. /\ IsFiniteSet(DOMAIN disk) /\ Cardinality(DOMAIN disk) \in Nat
      /\ IsFiniteSet(DOMAIN disk') /\ Cardinality(DOMAIN disk') \in Nat
      /\ Cardinality(DOMAIN disk) <= Cardinality(DOMAIN disk')
  <2>1. IsFiniteSet(DOMAIN disk)
    BY DEF DiskType
  <2>2. Cardinality(DOMAIN disk) \in Nat
    BY <2>1, FS_CardinalityType
  <2>3. /\ IsFiniteSet(DOMAIN disk')
        /\ \/ Cardinality(DOMAIN disk') = Cardinality(DOMAIN disk)
           \/ Cardinality(DOMAIN disk') = Cardinality(DOMAIN disk) + 1
    BY <1>2, <2>1, FS_AddElement
  <2> QED
    BY <2>1, <2>2, <2>3
<1>4. ASSUME NEW i \in DOMAIN disk' PROVE DirType(disk'[i], Cardinality(DOMAIN disk'))
  <2>1. DirType(disk'[i], Cardinality(DOMAIN disk))
    BY <1>2 DEF DiskType
  <2> QED
    BY <1>3, <2>1 DEF DirType
<1> QED
  BY <1>3, <1>4 DEF DiskType, DirType

(* Each write keeps the types of its directory.                              *)
LEMMA DiskTypeInvariant == Spec => []DiskType
<1>1. Init => DiskType
  BY FS_EmptySet DEF Init, EmptyDisk, DiskType
<1>2. ChainInv /\ DiskType /\ [Next]_vars => DiskType'
  <2> SUFFICES ASSUME ChainInv, DiskType, [Next]_vars PROVE DiskType'
    OBVIOUS
  <2> DEFINE c == Cardinality(DOMAIN disk)
  <2>0. DirType(Here, c) /\ DirShape(Here) /\ DirLinked(Here) /\ HereInv
    BY HereType, HereLinked DEF ChainInv
  <2>a. ASSUME NEW d, Becomes(d), DirType(d, c) PROVE DiskType'
    BY <2>a, WrittenType
  <2> HIDE DEF c
  <2>1. CASE UNCHANGED disk
    BY <2>1 DEF DiskType, DirType
  <2>2. CASE InvokeAfterReconcile
    <3>1. disk' = <<>>
      BY <2>2 DEF InvokeAfterReconcile, EmptyDisk
    <3>2. DOMAIN disk' = {}
      BY <3>1
    <3> QED
      BY <3>2, FS_EmptySet DEF DiskType
  <2>3. CASE OpenItem
    <3>1. PICK d : d = [Here EXCEPT !.staging = {}] /\ Becomes(d)
      BY <2>3 DEF OpenItem
    <3> QED
      BY <2>0, <3>1, <2>a DEF DirType, DirShape
  <2>4. CASE WriteRequest
    <3>1. PICK d : d = [Here EXCEPT !.request = IF @ = NoRequest THEN RequestNow ELSE @] /\ Becomes(d)
      BY <2>4 DEF WriteRequest
    <3> QED
      BY <2>0, <3>1, <2>a DEF DirType, DirShape
  <2>5. CASE BeginReduction
    <3>1. PICK d : d = [Here EXCEPT !.session = NoSession, !.candidate = "none"] /\ Becomes(d)
      BY <2>5 DEF BeginReduction
    <3> QED
      BY <2>0, <3>1, <2>a DEF DirType, DirShape, NoSession
  <2>6. CASE WriteSession \/ WriteUnreducedSession
    <3>1. PICK d, final : /\ d = [Here EXCEPT !.session = [failure |-> Failure, final |-> final]]
                          /\ final \in Finals \cup {"whole"} /\ Becomes(d)
      BY <2>6 DEF WriteSession, WriteUnreducedSession
    <3> QED
      BY <2>0, <3>1, <2>a DEF DirType, DirShape
  <2>7. CASE WriteCandidate
    <3>1. PICK d : d = [Here EXCEPT !.candidate = Here.session.final] /\ Becomes(d)
      BY <2>7 DEF WriteCandidate
    <3> QED
      BY <2>0, <3>1, <2>a DEF DirType, DirShape
  <2>8. CASE StageBundle
    <3>1. PICK d : d = [Here EXCEPT !.staging = @ \cup {"bundle"}] /\ Becomes(d)
      BY <2>8 DEF StageBundle
    <3> QED
      BY <2>0, <3>1, <2>a DEF DirType, DirShape
  <2>9. CASE ExportBundle
    <3>1. PICK d : d = [Here EXCEPT !.staging = @ \ {"bundle"},
                          !.bundle = Export(Failure, Here.candidate, PayloadFiles, NewNumber)]
                   /\ Becomes(d)
      BY <2>9 DEF ExportBundle
    <3>2. item \in DOMAIN disk /\ disk[item].bundle.number = 0
      BY <2>0, <2>9 DEF ExportBundle, HereInv, Here, NoBundle
    <3>3. NewNumber \in 0..c
      BY <3>2, NewNumberIsBounded DEF DiskType, c
    <3> QED
      BY <2>0, <3>1, <3>3, <2>a DEF DirType, DirShape, Export
  <2>10. CASE StageReplay
    <3>1. PICK d : d = [Here EXCEPT !.staging = @ \cup {"replay"}] /\ Becomes(d)
      BY <2>10 DEF StageReplay
    <3> QED
      BY <2>0, <3>1, <2>a DEF DirType, DirShape
  <2>11. CASE PublishReplay
    <3>1. PICK d : d = [Here EXCEPT !.staging = @ \ {"replay"}, !.replay = ReplayResult(Here.bundle)]
                   /\ Becomes(d)
      BY <2>11 DEF PublishReplay
    <3> QED
      BY <2>0, <3>1, <2>a DEF DirType, DirShape, ReplayResult
  <2>12. CASE Becomes([Here EXCEPT !.staging = {}])
    <3>1. PICK d : d = [Here EXCEPT !.staging = {}] /\ Becomes(d)
      BY <2>12
    <3> QED
      BY <2>0, <3>1, <2>a DEF DirType, DirShape
  <2>13. CASE \/ InvokeDirectly \/ Start \/ Refuse \/ SkipItem \/ KeepReduction \/ KeepBundle
              \/ KeepReplay \/ AppendItem \/ WriteDisposition \/ Return \/ Crash \/ Requalify
              \/ UNCHANGED vars
    <3>1. UNCHANGED disk
      BY <2>13 DEF InvokeDirectly, Start, Refuse, SkipItem, KeepReduction, KeepBundle, KeepReplay,
                   AppendItem, WriteDisposition, Return, Crash, Requalify, vars
    <3> QED
      BY <2>1, <3>1
  <2>14. CASE Raise \/ BadLuck
    BY <2>1, <2>12, <2>14 DEF Raise, BadLuck
  <2> QED
    BY <2>2, <2>3, <2>4, <2>5, <2>6, <2>7, <2>8, <2>9, <2>10, <2>11, <2>13, <2>14 DEF Next, Step
<1> QED
  BY <1>1, <1>2, ChainInvariant, PTL DEF Spec

(* Where an invocation is in the records, and how many items it has.         *)
WalkType ==
    /\ source \in DomainFailures(source.revision)
    /\ pc \in Pcs /\ item \in 1..(Len(source.records) + 1)
    /\ pc \in {"idle", "start"} => item = 1
    /\ pc \notin {"idle", "start", "item", "validate"} => item <= Len(source.records)
    /\ Len(items) = item - 1
    /\ resolved \in BOOLEAN /\ faults \in 0..MaxFaults

(* An invocation that ends is back at the first record. *)
LEMMA EndedWalk ==
    ASSUME WalkType, Ended, UNCHANGED source, resolved' \in BOOLEAN,
           faults' \in 0..MaxFaults
    PROVE  WalkType'
<1>1. Len(source.records) \in Nat /\ Len(<<>>) = 0
  BY SourceType DEF WalkType
<1> QED
  BY <1>1 DEF WalkType, Ended, Pcs

(* The invocation goes on with the same record. *)
LEMMA SameRecord ==
    ASSUME WalkType, UNCHANGED <<source, item, items, resolved>>, faults' \in 0..MaxFaults,
           pc' \in Pcs, pc' \in {"idle", "start"} => item = 1,
           pc' \notin {"idle", "start", "item", "validate"} => item <= Len(source.records)
    PROVE  WalkType'
BY DEF WalkType

(* One item for each record behind the invocation.                           *)
LEMMA WalkInvariant == Spec => []WalkType
<1>1. Init => WalkType
  <2> SUFFICES ASSUME Init PROVE WalkType
    OBVIOUS
  <2>1. source \in DomainFailures(1)
    BY DEF Init
  <2>2. source.revision = 1 /\ Len(source.records) \in Nat /\ Len(<<>>) = 0
    BY <2>1, SourceType
  <2>3. source \in DomainFailures(source.revision)
    BY <2>1, <2>2
  <2>4. pc = "idle" /\ item = 1 /\ items = <<>> /\ resolved = FALSE /\ faults = 0
    BY DEF Init
  <2>5. 0 \in 0..MaxFaults
    BY PublicFailureAssumption
  <2>6. item \in 1..(Len(source.records) + 1) /\ Len(items) = item - 1 /\ pc \in Pcs
    BY <2>2, <2>4 DEF Pcs
  <2>7. resolved \in BOOLEAN
    BY <2>4
  <2> QED
    BY <2>3, <2>4, <2>5, <2>6, <2>7, Zenon DEF WalkType
<1>2. ChainInv /\ WalkType /\ [Next]_vars => WalkType'
  <2> SUFFICES ASSUME ChainInv, WalkType, [Next]_vars PROVE WalkType'
    OBVIOUS
  <2>0. /\ Len(source.records) \in Nat /\ item \in 1..(Len(source.records) + 1)
        /\ faults \in 0..MaxFaults /\ MaxFaults \in Nat /\ resolved \in BOOLEAN
    BY SourceType, PublicFailureAssumption DEF WalkType
  <2>a. PICK S : items \in Seq(S)
    BY DEF ChainInv, ItemsInv
  <2>1. CASE InvokeDirectly \/ InvokeAfterReconcile
    <3>1. /\ pc = "idle" /\ pc' = "start" /\ UNCHANGED <<source, item, items, resolved>>
          /\ faults' \in 0..MaxFaults
      BY <2>0, <2>1 DEF InvokeDirectly, InvokeAfterReconcile, Goto
    <3>2. item = 1 /\ pc' \in Pcs
      BY <3>1 DEF WalkType, Pcs
    <3> QED
      BY <3>1, <3>2, SameRecord
  <2>2. CASE Start \/ KeepReduction \/ KeepBundle \/ KeepReplay \/ WriteRequest \/ BeginReduction
             \/ WriteSession \/ WriteUnreducedSession \/ WriteCandidate \/ StageBundle
             \/ ExportBundle \/ StageReplay \/ PublishReplay \/ OpenItem \/ WriteDisposition
    <3>1. /\ UNCHANGED <<source, item, items, resolved>> /\ faults' \in 0..MaxFaults
          /\ \/ pc' \in {"validate", "item"}
             \/ /\ pc' \in Pcs \ {"idle", "start"}
                /\ \/ pc \notin {"idle", "start", "item", "validate"}
                   \/ item <= Len(source.records)
      BY <2>0, <2>2 DEF Start, KeepReduction, KeepBundle, KeepReplay, WriteRequest, BeginReduction,
         WriteSession, WriteUnreducedSession, WriteCandidate, StageBundle, ExportBundle, StageReplay,
         PublishReplay, OpenItem, WriteDisposition, Goto, Pcs
    <3>2. pc' \in Pcs /\ pc' \notin {"idle", "start"}
      BY <3>1 DEF Pcs
    <3>3. pc' \notin {"idle", "start", "item", "validate"} => item <= Len(source.records)
      BY <3>1 DEF WalkType
    <3> QED
      BY <3>1, <3>2, <3>3, SameRecord
  <2>3. CASE SkipItem \/ AppendItem
    <3>1. PICK it : /\ items' = Append(items, it) /\ item' = item + 1 /\ pc' = "item"
                    /\ UNCHANGED <<source, resolved, faults>>
      BY <2>3 DEF SkipItem, AppendItem
    <3>2. item <= Len(source.records)
      BY <2>3 DEF SkipItem, AppendItem, WalkType
    <3>3. Len(items') = Len(items) + 1
      <4>1. items \in Seq(S \cup {it})
        BY <2>a
      <4> QED
        BY <3>1, <4>1
    <3> QED
      BY <2>0, <3>1, <3>2, <3>3 DEF WalkType, Pcs
  <2>4. CASE Refuse \/ Return \/ Raise \/ Crash \/ BadLuck
    <3>1. Ended /\ UNCHANGED source
      BY <2>4 DEF Refuse, Return, Raise, Crash, BadLuck
    <3>2. \/ faults' = faults
          \/ faults < MaxFaults /\ faults' = faults + 1
      BY <2>4 DEF Refuse, Return, Raise, Crash, BadLuck
    <3>3. resolved' = resolved \/ resolved' = TRUE
      BY <2>4, Zenon DEF Refuse, Return, Raise, Crash, BadLuck
    <3>4. resolved' \in BOOLEAN
      BY <2>0, <3>3, Zenon
    <3>5. faults' \in 0..MaxFaults
      BY <2>0, <3>2
    <3> QED
      BY <3>1, <3>4, <3>5, EndedWalk
  <2>5. CASE Requalify
    <3>1. /\ pc = "idle" /\ UNCHANGED <<pc, item, items>>
          /\ source' \in DomainFailures(source.revision + 1)
          /\ resolved' = FALSE /\ faults' \in 0..MaxFaults
      BY <2>0, <2>5 DEF Requalify
    <3>2. PICK s : s = source' /\ s \in DomainFailures(source.revision + 1)
      BY <3>1
    <3>3. s.revision = source.revision + 1 /\ Len(s.records) \in Nat
      BY <3>2, SourceType
    <3>4. s \in DomainFailures(s.revision)
      BY <3>2, <3>3
    <3>5. item = 1
      BY <3>1 DEF WalkType
    <3>6. /\ source' \in DomainFailures(source'.revision)
          /\ Len(source'.records) \in Nat
      BY <3>2, <3>3, <3>4
    <3>7. pc' \in Pcs /\ item' = 1 /\ Len(items') = item' - 1
      BY <3>1, <3>5 DEF WalkType
    <3>8. item' \in 1..(Len(source'.records) + 1)
      BY <3>6, <3>7
    <3>9. pc' = "idle" /\ resolved' \in BOOLEAN /\ faults' \in 0..MaxFaults
      BY <3>1, Zenon
    <3> QED
      BY <3>6, <3>7, <3>8, <3>9, Zenon DEF WalkType
  <2>6. CASE UNCHANGED vars
    BY <2>6 DEF vars, WalkType
  <2> QED
    BY <2>1, <2>2, <2>3, <2>4, <2>5, <2>6 DEF Next, Step
<1> QED
  BY <1>1, <1>2, ChainInvariant, PTL DEF Spec

(* The invocation is never past the records, has an item for each record     *)
(* behind it, and every candidate, bundle and replay on disk is one there    *)
(* may be, for any decisions and any number of shapes.                       *)
THEOREM PublicFailureTypeCorrect == Spec => []PublicFailureTypeOK
<1>1. WalkType /\ DiskType => PublicFailureTypeOK
  BY DEF WalkType, DiskType, DirType, PublicFailureTypeOK
<1> QED
  BY <1>1, WalkInvariant, DiskTypeInvariant, PTL
=============================================================================
