-------------------------- MODULE CorpusStore_proofs --------------------------
(***************************************************************************)
(* The corpus store for any callers, kinds, environments and contents, and *)
(* however many materializations and deaths.                               *)
(***************************************************************************)
EXTENDS CorpusStore, TLAPS

Whole == Contents \cup {Partial}
Locked == {"locked", "compare", "rename", "protect"}
Commands == {"idle", "look", "produce", "verify", "publish"} \cup Locked

(* What the variables hold.  A caller at work has an identity, only runners  *)
(* are at the two checks that are theirs.                                    *)
StoreTypes ==
    /\ store \in [Ids -> Whole \cup {Absent}]
    /\ pc \in [Callers -> Commands]
    /\ job \in [Callers -> Ids \cup {NoJob}]
    /\ staged \in [Callers -> Whole \cup {Absent}]
    /\ answer \in [Callers -> {"none", "found", "refused", "reused", "published"}]
    /\ \A c \in Callers :
          /\ pc[c] # "idle" \/ answer[c] # "none" => job[c] \in Ids
          /\ pc[c] \in {"look", "verify"} => c \in Runners

(* Whoever is past the lock holds it.                                        *)
Exclusive == \A c \in Callers : pc[c] \in Locked => lock = c

(* What a publisher saw under the lock is still so when it acts on it.       *)
Seen ==
    \A c \in Callers :
        /\ pc[c] \in {"verify", "publish"} \cup Locked => staged[c] # Absent
        /\ pc[c] = "compare" => store[job[c]] # Absent
        /\ pc[c] = "rename" => store[job[c]] = Absent
        /\ pc[c] = "protect" => store[job[c]] = staged[c]

(* An answer is given by a caller that has ended.                            *)
Answered == \A c \in Callers : answer[c] # "none" => pc[c] = "idle"

StoreInv ==
    /\ StoreTypes
    /\ Exclusive
    /\ Seen
    /\ Answered
    /\ AnswersHold
    /\ IndexHolds

(* publish adds objects and changes none.                                    *)
Appends == \A i \in Ids : store[i] # Absent => store'[i] = store[i]

(* What a producer may leave is whole, a part, or nothing.                   *)
LEMMA TreeTypes == \A i \in Ids : Trees[i[1]] \subseteq Whole \cup {Absent}
BY CorpusAssumption DEF Ids, Trees, CoreTrees, PluginTrees, MobileNetTrees, Whole

(* Nothing, a part and a whole tree are told apart.                          *)
LEMMA Distinct == Absent # Partial /\ Absent \notin Whole /\ Absent \notin Contents
BY CorpusAssumption DEF Absent, Partial, Whole

(* The store is empty at first.                                              *)
LEMMA InitInv == Init => StoreInv
<1> SUFFICES ASSUME Init PROVE StoreInv
  OBVIOUS
<1>1. StoreTypes
  BY DEF Init, StoreTypes, Commands
<1>2. Exclusive /\ Seen /\ Answered /\ AnswersHold
  BY DEF Init, Exclusive, Seen, Answered, AnswersHold, Locked
<1>3. IndexHolds
  BY DEF Init, IndexHolds
<1> QED
  BY <1>1, <1>2, <1>3 DEF StoreInv

(* Only the rename changes the store, and only where nothing stands.         *)
LEMMA StoreAppends == ASSUME StoreInv, [Next]_vars PROVE Appends
<1>1. ASSUME NEW c \in Callers, Rename(c) PROVE Appends
  BY <1>1 DEF Rename, Appends, StoreInv, StoreTypes
<1>2. ASSUME store' = store PROVE Appends
  BY <1>2 DEF Appends
<1> QED
  BY <1>1, <1>2 DEF Next, Step, vars, objects, Start, Look, Produce, VerifyStaging,
     Acquire, LookLocked, Compare, Protect, Crash, WriteIndex

(* An index that verifies goes on verifying, whatever is added.              *)
LEMMA IndexKept ==
    ASSUME StoreInv, Appends, index' = index
    PROVE  IndexHolds'
<1> SUFFICES ASSUME index # NoIndex PROVE IndexVerifies'
  BY DEF IndexHolds, NoIndex
<1>1. IndexVerifies
  BY DEF StoreInv, IndexHolds
<1>2. PICK r \in References : \A k \in Kinds : index[k].reference = r
  BY <1>1 DEF IndexVerifies
<1>3. ASSUME NEW k \in Kinds
      PROVE  /\ <<k, index[k].reference>> \in Ids
             /\ store[<<k, index[k].reference>>] \in Contents
             /\ store[<<k, index[k].reference>>] = index[k].tree
  BY <1>1, <1>2 DEF IndexVerifies, VerifyCorpus, Ids
<1>4. ASSUME NEW k \in Kinds
      PROVE  store'[<<k, index[k].reference>>] = store[<<k, index[k].reference>>]
  BY <1>3, Distinct DEF Appends
<1> QED
  BY <1>2, <1>3, <1>4 DEF IndexVerifies, VerifyCorpus

(* What was answered before stays true when the others only add to the store *)
(* and protect more of it.                                                   *)
LEMMA AnswerKept ==
    ASSUME StoreInv, Appends, protected \subseteq protected', NEW c \in Callers,
           answer'[c] = answer[c], job'[c] = job[c], staged'[c] = staged[c]
    PROVE  /\ answer'[c] \in {"published", "reused"}
                => store'[job'[c]] = staged'[c] /\ staged'[c] # Absent
           /\ answer'[c] = "published" => job'[c] \in protected'
           /\ answer'[c] = "found" => store'[job'[c]] \in Contents
           /\ answer'[c] = "refused" /\ c \in Publishers =>
                (staged'[c] \in Contents => store'[job'[c]] \notin {Absent, staged'[c]})
<1>1. ASSUME answer[c] # "none", store[job[c]] # Absent
      PROVE  store'[job[c]] = store[job[c]]
  BY <1>1 DEF StoreInv, StoreTypes, Appends
<1>2. /\ answer[c] \in {"published", "reused"}
           => store[job[c]] = staged[c] /\ staged[c] # Absent
      /\ answer[c] = "published" => job[c] \in protected
      /\ answer[c] = "found" => store[job[c]] \in Contents
      /\ answer[c] = "refused" /\ c \in Publishers => Caused(c)
  BY DEF StoreInv, AnswersHold
<1> QED
  BY <1>1, <1>2, Distinct DEF Caused

-----------------------------------------------------------------------------
(*                     Each step keeps the invariant                       *)

(* The types, and that only runners are at the runner's checks.              *)
LEMMA TypesKept == ASSUME StoreInv, [Next]_vars PROVE StoreTypes'
<1> USE DEF StoreInv, StoreTypes, Commands, Locked, Go, End
<1>1. ASSUME NEW c \in Callers, NEW id \in Ids, Start(c, id) PROVE StoreTypes'
  BY <1>1 DEF Start, objects
<1>2. ASSUME NEW c \in Callers, Look(c) PROVE StoreTypes'
  BY <1>2 DEF Look, objects, bounds, VerifyCorpus
<1>3. ASSUME NEW c \in Callers, Produce(c) PROVE StoreTypes'
  BY <1>3, TreeTypes DEF Produce, objects, bounds, Whole
<1>4. ASSUME NEW c \in Callers, VerifyStaging(c) PROVE StoreTypes'
  BY <1>4 DEF VerifyStaging, objects, bounds, VerifyCorpus
<1>5. ASSUME NEW c \in Callers, Acquire(c) PROVE StoreTypes'
  BY <1>5 DEF Acquire, objects, bounds
<1>6. ASSUME NEW c \in Callers, LookLocked(c) PROVE StoreTypes'
  BY <1>6 DEF LookLocked, objects, bounds
<1>7. ASSUME NEW c \in Callers, Compare(c) PROVE StoreTypes'
  BY <1>7 DEF Compare, objects, bounds
<1>8. ASSUME NEW c \in Callers, Rename(c) PROVE StoreTypes'
  BY <1>8 DEF Rename, objects, bounds
<1>9. ASSUME NEW c \in Callers, Protect(c) PROVE StoreTypes'
  BY <1>9 DEF Protect, objects, bounds
<1>10. ASSUME NEW c \in Callers, Crash(c) PROVE StoreTypes'
  BY <1>10 DEF Crash, objects, bounds
<1>11. ASSUME NEW roots \in [Kinds -> References], WriteIndex(roots) PROVE StoreTypes'
  BY <1>11 DEF WriteIndex, objects, bounds
<1>12. CASE UNCHANGED vars
  BY <1>12 DEF vars, objects
<1> QED
  BY <1>1, <1>2, <1>3, <1>4, <1>5, <1>6, <1>7, <1>8, <1>9, <1>10, <1>11, <1>12
  DEF Next, Step

(* The lock is one caller's, and it is given up with the last step under it. *)
LEMMA ExclusiveKept == ASSUME StoreInv, [Next]_vars PROVE Exclusive'
<1> USE DEF StoreInv, StoreTypes, Exclusive, Commands, Locked, Go, End
<1>1. ASSUME NEW c \in Callers, NEW id \in Ids, Start(c, id) PROVE Exclusive'
  BY <1>1 DEF Start, objects
<1>2. ASSUME NEW c \in Callers, Look(c) PROVE Exclusive'
  BY <1>2 DEF Look, objects, bounds, VerifyCorpus
<1>3. ASSUME NEW c \in Callers, Produce(c) PROVE Exclusive'
  BY <1>3 DEF Produce, objects, bounds
<1>4. ASSUME NEW c \in Callers, VerifyStaging(c) PROVE Exclusive'
  BY <1>4 DEF VerifyStaging, objects, bounds, VerifyCorpus
<1>5. ASSUME NEW c \in Callers, Acquire(c) PROVE Exclusive'
  BY <1>5, CorpusAssumption DEF Acquire, objects, bounds
<1>6. ASSUME NEW c \in Callers, LookLocked(c) PROVE Exclusive'
  BY <1>6 DEF LookLocked, objects, bounds
<1>7. ASSUME NEW c \in Callers, Compare(c) PROVE Exclusive'
  BY <1>7 DEF Compare, objects, bounds, Release
<1>8. ASSUME NEW c \in Callers, Rename(c) PROVE Exclusive'
  BY <1>8 DEF Rename, objects, bounds, Release
<1>9. ASSUME NEW c \in Callers, Protect(c) PROVE Exclusive'
  BY <1>9 DEF Protect, objects, bounds, Release
<1>10. ASSUME NEW c \in Callers, Crash(c) PROVE Exclusive'
  BY <1>10, CorpusAssumption DEF Crash, objects, bounds
<1>11. ASSUME NEW roots \in [Kinds -> References], WriteIndex(roots) PROVE Exclusive'
  BY <1>11 DEF WriteIndex, objects, bounds
<1>12. CASE UNCHANGED vars
  BY <1>12 DEF vars, objects
<1> QED
  BY <1>1, <1>2, <1>3, <1>4, <1>5, <1>6, <1>7, <1>8, <1>9, <1>10, <1>11, <1>12
  DEF Next, Step

(* The holder is alone under the lock, so what it saw does not change.       *)
LEMMA SeenKept == ASSUME StoreInv, [Next]_vars PROVE Seen'
<1> USE DEF StoreInv, StoreTypes, Exclusive, Seen, Commands, Locked, Go, End
<1>1. ASSUME NEW c \in Callers, NEW id \in Ids, Start(c, id) PROVE Seen'
  BY <1>1 DEF Start, objects
<1>2. ASSUME NEW c \in Callers, Look(c) PROVE Seen'
  BY <1>2 DEF Look, objects, bounds, VerifyCorpus
<1>3. ASSUME NEW c \in Callers, Produce(c) PROVE Seen'
  BY <1>3, TreeTypes, Distinct DEF Produce, objects, bounds
<1>4. ASSUME NEW c \in Callers, VerifyStaging(c) PROVE Seen'
  BY <1>4 DEF VerifyStaging, objects, bounds, VerifyCorpus
<1>5. ASSUME NEW c \in Callers, Acquire(c) PROVE Seen'
  BY <1>5 DEF Acquire, objects, bounds
<1>6. ASSUME NEW c \in Callers, LookLocked(c) PROVE Seen'
  BY <1>6 DEF LookLocked, objects, bounds
<1>7. ASSUME NEW c \in Callers, Compare(c) PROVE Seen'
  BY <1>7 DEF Compare, objects, bounds, Release
<1>8. ASSUME NEW c \in Callers, Rename(c) PROVE Seen'
  BY <1>8 DEF Rename, objects, bounds, Release
<1>9. ASSUME NEW c \in Callers, Protect(c) PROVE Seen'
  BY <1>9 DEF Protect, objects, bounds, Release
<1>10. ASSUME NEW c \in Callers, Crash(c) PROVE Seen'
  BY <1>10 DEF Crash, objects, bounds
<1>11. ASSUME NEW roots \in [Kinds -> References], WriteIndex(roots) PROVE Seen'
  BY <1>11 DEF WriteIndex, objects, bounds
<1>12. CASE UNCHANGED vars
  BY <1>12 DEF vars, objects
<1> QED
  BY <1>1, <1>2, <1>3, <1>4, <1>5, <1>6, <1>7, <1>8, <1>9, <1>10, <1>11, <1>12
  DEF Next, Step

(* A caller that starts again takes its last answer back.                    *)
LEMMA AnsweredKept == ASSUME StoreInv, [Next]_vars PROVE Answered'
<1> USE DEF StoreInv, StoreTypes, Answered, Commands, Locked, Go, End
<1>1. ASSUME NEW c \in Callers, NEW id \in Ids, Start(c, id) PROVE Answered'
  BY <1>1 DEF Start, objects
<1>2. ASSUME NEW c \in Callers, Look(c) PROVE Answered'
  BY <1>2 DEF Look, objects, bounds, VerifyCorpus
<1>3. ASSUME NEW c \in Callers, Produce(c) PROVE Answered'
  BY <1>3 DEF Produce, objects, bounds
<1>4. ASSUME NEW c \in Callers, VerifyStaging(c) PROVE Answered'
  BY <1>4 DEF VerifyStaging, objects, bounds, VerifyCorpus
<1>5. ASSUME NEW c \in Callers, Acquire(c) PROVE Answered'
  BY <1>5 DEF Acquire, objects, bounds
<1>6. ASSUME NEW c \in Callers, LookLocked(c) PROVE Answered'
  BY <1>6 DEF LookLocked, objects, bounds
<1>7. ASSUME NEW c \in Callers, Compare(c) PROVE Answered'
  BY <1>7 DEF Compare, objects, bounds, Release
<1>8. ASSUME NEW c \in Callers, Rename(c) PROVE Answered'
  BY <1>8 DEF Rename, objects, bounds, Release
<1>9. ASSUME NEW c \in Callers, Protect(c) PROVE Answered'
  BY <1>9 DEF Protect, objects, bounds, Release
<1>10. ASSUME NEW c \in Callers, Crash(c) PROVE Answered'
  BY <1>10 DEF Crash, objects, bounds
<1>11. ASSUME NEW roots \in [Kinds -> References], WriteIndex(roots) PROVE Answered'
  BY <1>11 DEF WriteIndex, objects, bounds
<1>12. CASE UNCHANGED vars
  BY <1>12 DEF vars, objects
<1> QED
  BY <1>1, <1>2, <1>3, <1>4, <1>5, <1>6, <1>7, <1>8, <1>9, <1>10, <1>11, <1>12
  DEF Next, Step

(* What an action answers its own caller is true when it is given.           *)
LEMMA AnswersKept == ASSUME StoreInv, [Next]_vars PROVE AnswersHold'
<1> USE DEF StoreInv, StoreTypes, Commands, Locked, Go, End
<1>1. Appends
  BY StoreAppends
<1>2. protected \subseteq protected'
  BY DEF Next, Step, vars, objects, Start, Look, Produce, VerifyStaging, Acquire,
     LookLocked, Compare, Rename, Protect, Crash, WriteIndex
<1> DEFINE Holds(c) ==
      /\ answer[c] \in {"published", "reused"}
           => store[job[c]] = staged[c] /\ staged[c] # Absent
      /\ answer[c] = "published" => job[c] \in protected
      /\ answer[c] = "found" => store[job[c]] \in Contents
      /\ answer[c] = "refused" /\ c \in Publishers => Caused(c)
<1>3. ASSUME NEW c \in Callers,
             answer'[c] = answer[c], job'[c] = job[c], staged'[c] = staged[c]
      PROVE  Holds(c)'
  BY <1>1, <1>2, <1>3, AnswerKept DEF Caused
<1>4. ASSUME NEW c \in Callers, answer'[c] = "none" PROVE Holds(c)'
  BY <1>4
<1>5. ASSUME NEW c \in Callers, \A d \in Callers \ {c} :
               answer'[d] = answer[d] /\ job'[d] = job[d] /\ staged'[d] = staged[d],
             Holds(c)'
      PROVE  AnswersHold'
  BY <1>3, <1>5 DEF AnswersHold
<1> HIDE DEF Holds
<1>6. ASSUME NEW c \in Callers, NEW id \in Ids, Start(c, id) PROVE AnswersHold'
  <2>1. answer'[c] = "none"
    BY <1>6 DEF Start
  <2> QED
    BY <1>4, <1>5, <1>6, <2>1 DEF Start, objects
<1>7. ASSUME NEW c \in Callers, Look(c) PROVE AnswersHold'
  <2>1. /\ answer'[c] \in {answer[c], "found", "refused"}
        /\ answer'[c] = "found" => store'[job'[c]] \in Contents
        /\ answer'[c] = "refused" => c \in Runners
        /\ answer'[c] = answer[c] => answer'[c] = "none"
    BY <1>7 DEF Look, VerifyCorpus, objects, Answered
  <2>2. Holds(c)'
    BY <1>4, <2>1, CorpusAssumption DEF Holds
  <2> QED
    BY <1>5, <1>7, <2>2 DEF Look, objects
<1>8. ASSUME NEW c \in Callers, Produce(c) PROVE AnswersHold'
  <2>1. /\ answer'[c] \in {"none", "refused"}
        /\ answer'[c] = "refused" => c \in Runners \/ staged'[c] = Absent
    BY <1>8, TreeTypes DEF Produce, Answered
  <2>2. Holds(c)'
    BY <1>4, <2>1, CorpusAssumption, Distinct DEF Holds, Caused
  <2> QED
    BY <1>5, <1>8, <2>2, TreeTypes DEF Produce, objects
<1>9. ASSUME NEW c \in Callers, VerifyStaging(c) PROVE AnswersHold'
  <2>1. answer'[c] \in {"none", "refused"} /\ c \in Runners
    BY <1>9 DEF VerifyStaging, Answered
  <2>2. Holds(c)'
    BY <1>4, <2>1, CorpusAssumption DEF Holds
  <2> QED
    BY <1>5, <1>9, <2>2 DEF VerifyStaging, objects
<1>10. ASSUME NEW c \in Callers, Acquire(c) \/ LookLocked(c) PROVE AnswersHold'
  BY <1>3, <1>5, <1>10 DEF Acquire, LookLocked
<1>11. ASSUME NEW c \in Callers, Compare(c) PROVE AnswersHold'
  <2>1. /\ store' = store /\ job' = job /\ staged' = staged
        /\ store[job[c]] # Absent /\ staged[c] # Absent
        /\ answer'[c] \in {"reused", "refused"}
        /\ answer'[c] = "reused" <=> store[job[c]] = staged[c]
    BY <1>11 DEF Compare, Seen
  <2>2. Holds(c)'
    BY <2>1 DEF Holds, Caused
  <2> QED
    BY <1>5, <1>11, <2>2 DEF Compare
<1>12. ASSUME NEW c \in Callers, Rename(c) PROVE AnswersHold'
  <2>1. answer' = answer /\ job' = job /\ staged' = staged
    BY <1>12 DEF Rename, Seen
  <2> QED
    BY <1>3, <1>5, <2>1
<1>13. ASSUME NEW c \in Callers, Protect(c) PROVE AnswersHold'
  <2>1. /\ store' = store /\ job' = job /\ staged' = staged
        /\ store[job[c]] = staged[c] /\ staged[c] # Absent
        /\ answer'[c] = "published" /\ job[c] \in protected'
    BY <1>13 DEF Protect, Seen
  <2>2. Holds(c)'
    BY <2>1 DEF Holds
  <2> QED
    BY <1>5, <1>13, <2>2 DEF Protect
<1>14. ASSUME NEW c \in Callers, Crash(c) PROVE AnswersHold'
  <2>1. answer'[c] = "none"
    BY <1>14 DEF Crash
  <2> QED
    BY <1>4, <1>5, <1>14, <2>1 DEF Crash
<1>15. ASSUME answer' = answer, job' = job, staged' = staged PROVE AnswersHold'
  BY <1>3, <1>15 DEF AnswersHold, Holds
<1> QED
  BY <1>6, <1>7, <1>8, <1>9, <1>10, <1>11, <1>12, <1>13, <1>14, <1>15
  DEF Next, Step, WriteIndex, vars

(* write-index looks at each root once; what it saw is there for good.       *)
LEMMA IndexStays == ASSUME StoreInv, [Next]_vars PROVE IndexHolds'
<1>1. ASSUME NEW roots \in [Kinds -> References], WriteIndex(roots) PROVE IndexHolds'
  BY <1>1 DEF WriteIndex, IndexHolds, IndexVerifies, VerifyCorpus, objects
<1>2. ASSUME index' = index PROVE IndexHolds'
  BY <1>2, StoreAppends, IndexKept
<1> QED
  BY <1>1, <1>2 DEF Next, Step, vars, Start, Look, Produce, VerifyStaging, Acquire,
     LookLocked, Compare, Rename, Protect, Crash

(* The invariant is inductive.                                               *)
LEMMA StoreInvariant == Spec => []StoreInv
<1>1. StoreInv /\ [Next]_vars => StoreInv'
  BY TypesKept, ExclusiveKept, SeenKept, AnsweredKept, AnswersKept, IndexStays
  DEF StoreInv
<1> QED
  BY <1>1, InitInv, PTL DEF Spec

-----------------------------------------------------------------------------

(* publish under the lock: what it answered stays true for ever, whoever     *)
(* races and dies, and a publisher is refused only for a cause.              *)
THEOREM AnswersStayTrue == Spec => []AnswersHold
<1>1. StoreInv => AnswersHold
  BY DEF StoreInv
<1> QED
  BY <1>1, StoreInvariant, PTL

(* corpus_index: the index, once written, verifies for ever.                 *)
THEOREM IndexVerifiesForever == Spec => []IndexHolds
<1>1. StoreInv => IndexHolds
  BY DEF StoreInv
<1> QED
  BY <1>1, StoreInvariant, PTL

(* The store is append-only: no publisher, however it races or dies, changes *)
(* an object that is published.                                              *)
THEOREM StoreOnlyGrows == Spec => [][Appends]_vars
<1>1. StoreInv /\ [Next]_vars => [Appends]_vars
  BY StoreAppends
<1> QED
  BY <1>1, StoreInvariant, PTL DEF Spec
=============================================================================
