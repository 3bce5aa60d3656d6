----------------------------- MODULE CorpusStore -----------------------------
(***************************************************************************)
(* scripts/corpus_store.py: frozen corpora, published once in a directory  *)
(* named by the identity of their materializer.  The runner looks the      *)
(* identity up, and produces, checks and publishes what is absent; other   *)
(* publishers call the commands of corpus_store.py on their own.  A caller *)
(* may die at any point; the kernel then frees the lock it holds.          *)
(***************************************************************************)
EXTENDS Naturals

CONSTANTS
    Runners,     \* callers that are materialize_corpus_content_addressed
    Publishers,  \* callers that produce, write the sidecar and publish
    Kinds,       \* the corpora of the mode: core, plugin, mobilenet
    References,  \* digests of the reference environment
    Contents,    \* the bytes of complete corpora
    MaxTries,    \* bound: materializations started
    MaxCrashes   \* bound: callers that die

Callers == Runners \cup Publishers
Ids == Kinds \X References
Nobody == "nobody"
NoIndex == <<>>
Absent == "absent"
NoJob == <<"no-kind", "no-reference">>
Partial == "partial"   \* a tree whose producer did not reach the lock

(* Production replaces its destination by a finished temporary tree. *)
CoreTrees == Contents \cup {Absent}

(* Production writes in place, the lock last: what dies leaves a part. *)
PluginTrees == Contents \cup {Absent, Partial}
MobileNetTrees == Contents \cup {Absent, Partial}

Trees == [core |-> CoreTrees, plugin |-> PluginTrees,
          mobilenet |-> MobileNetTrees]

ASSUME CorpusAssumption ==
    /\ Runners \cap Publishers = {}
    /\ Nobody \notin Callers
    /\ Kinds \subseteq DOMAIN Trees /\ Kinds # {}
    /\ {Absent, Partial} \cap Contents = {}
    /\ MaxTries \in Nat
    /\ MaxCrashes \in Nat

VARIABLES
    store,      \* [Ids -> the published tree, or Absent]
    protected,  \* the identities whose objects are read-only
    stale,      \* the trees set aside because the object existed
    pc,         \* [Callers -> the command a caller has reached]
    job,        \* [Callers -> the identity it materializes], or NoJob
    staged,     \* [Callers -> the tree it produced for that identity]
    answer,     \* [Callers -> how its last materialization ended]
    lock,       \* who holds .publish.lock
    index,      \* corpora.json: [Kinds -> reference and tree], or NoIndex
    tries,
    crashes

objects == <<store, protected, stale>>
bounds == <<tries, crashes>>
vars == <<objects, pc, job, staged, answer, lock, index, bounds>>

Init ==
    /\ store = [i \in Ids |-> Absent]
    /\ protected = {}
    /\ stale = {}
    /\ pc = [c \in Callers |-> "idle"]
    /\ job = [c \in Callers |-> NoJob]
    /\ staged = [c \in Callers |-> Absent]
    /\ answer = [c \in Callers |-> "none"]
    /\ lock = Nobody
    /\ index = NoIndex
    /\ tries = 0
    /\ crashes = 0

----------------------------------------------------------------------------
(* verify-corpus: the directory has the name of the identity, and the tree *)
(* is exactly what its lock lists.                                         *)
VerifyCorpus(name, id, tree) == name = id /\ tree \in Contents

(* What the runner calls the tree it stages: mktemp's directory, corpus.   *)
StagingName == <<".corpus-staging", "corpus">>

Go(c, where) == pc' = [pc EXCEPT ![c] = where]

End(c, how) ==
    /\ Go(c, "idle")
    /\ answer' = [answer EXCEPT ![c] = how]

Release == lock' = Nobody

Start(c, id) ==
    /\ pc[c] = "idle"
    /\ tries < MaxTries
    /\ tries' = tries + 1
    /\ job' = [job EXCEPT ![c] = id]
    /\ staged' = [staged EXCEPT ![c] = Absent]
    /\ answer' = [answer EXCEPT ![c] = "none"]
    /\ Go(c, IF c \in Runners THEN "look" ELSE "produce")
    /\ UNCHANGED <<objects, lock, index, crashes>>

(* The runner takes an object that verifies and never repairs another.     *)
Look(c) ==
    /\ pc[c] = "look"
    /\ LET found == store[job[c]]
       IN IF VerifyCorpus(job[c], job[c], found) THEN End(c, "found")
          ELSE IF found # Absent THEN End(c, "refused")
          ELSE Go(c, "produce") /\ UNCHANGED answer
    /\ UNCHANGED <<objects, job, staged, lock, index, bounds>>

(* The producer, then write-sidecar on what it left.  reference_run turns  *)
(* errexit back on, so a producer that fails ends the runner's function.   *)
Produce(c) ==
    /\ pc[c] = "produce"
    /\ \E tree \in Trees[job[c][1]] :
           /\ staged' = [staged EXCEPT ![c] = tree]
           /\ IF c \in Runners
              THEN IF tree \in Contents THEN Go(c, "verify") /\ UNCHANGED answer
                   ELSE End(c, "refused")
              ELSE IF tree # Absent THEN Go(c, "publish") /\ UNCHANGED answer
                   ELSE End(c, "refused")
    /\ UNCHANGED <<objects, job, lock, index, bounds>>

(* The runner's verify-corpus on the staging tree. *)
VerifyStaging(c) ==
    /\ pc[c] = "verify"
    /\ IF VerifyCorpus(StagingName, job[c], staged[c])
       THEN Go(c, "publish") /\ UNCHANGED answer
       ELSE End(c, "refused")
    /\ UNCHANGED <<objects, job, staged, lock, index, bounds>>

(* Mistake for mutation: a lock that readers share. *)
AcquireShared(c) ==
    /\ pc[c] = "publish"
    /\ lock' = c
    /\ Go(c, "locked")
    /\ UNCHANGED <<objects, job, staged, answer, index, bounds>>

(* publish verifies the sidecar and the inventory of a tree only its       *)
(* caller knows, then waits for the lock.                                  *)
Acquire(c) ==
    /\ pc[c] = "publish"
    /\ lock = Nobody
    /\ lock' = c
    /\ Go(c, "locked")
    /\ UNCHANGED <<objects, job, staged, answer, index, bounds>>

LookLocked(c) ==
    /\ pc[c] = "locked"
    /\ Go(c, IF store[job[c]] = Absent THEN "rename" ELSE "compare")
    /\ UNCHANGED <<objects, job, staged, answer, lock, index, bounds>>

(* Mistake for mutation: different content refreshes the object. *)
CompareRefreshing(c) ==
    /\ pc[c] = "compare"
    /\ stale' = stale \cup {<<job[c], store[job[c]]>>}
    /\ store' = [store EXCEPT ![job[c]] = staged[c]]
    /\ End(c, "reused")
    /\ Release
    /\ UNCHANGED <<protected, job, staged, index, bounds>>

(* An identical object is reused and the staged tree kept under stale. *)
Compare(c) ==
    /\ pc[c] = "compare"
    /\ IF store[job[c]] = staged[c]
       THEN /\ stale' = stale \cup {<<job[c], staged[c]>>}
            /\ End(c, "reused")
       ELSE End(c, "refused") /\ UNCHANGED stale
    /\ Release
    /\ UNCHANGED <<store, protected, job, staged, index, bounds>>

(* rename refuses a directory that is not empty. *)
Rename(c) ==
    /\ pc[c] = "rename"
    /\ IF store[job[c]] = Absent
       THEN /\ store' = [store EXCEPT ![job[c]] = staged[c]]
            /\ Go(c, "protect")
            /\ UNCHANGED <<answer, lock>>
       ELSE End(c, "refused") /\ Release /\ UNCHANGED store
    /\ UNCHANGED <<protected, stale, job, staged, index, bounds>>

(* _make_read_only, file by file, ends publish. *)
Protect(c) ==
    /\ pc[c] = "protect"
    /\ protected' = protected \cup {job[c]}
    /\ End(c, "published")
    /\ Release
    /\ UNCHANGED <<store, stale, job, staged, index, bounds>>

Crash(c) ==
    /\ pc[c] # "idle"
    /\ crashes < MaxCrashes
    /\ crashes' = crashes + 1
    /\ End(c, "none")
    /\ lock' = IF lock = c THEN Nobody ELSE lock
    /\ UNCHANGED <<objects, job, staged, index, tries>>

(* write-index: every root has its lock, and one reference produced all.   *)
(* A root whose lock is absent or whose reference differs raises.          *)
WriteIndex(roots) ==
    /\ \A k \in Kinds : store[<<k, roots[k]>>] \in Contents
    /\ \E r \in References : \A k \in Kinds : roots[k] = r
    /\ index' = [k \in Kinds |-> [reference |-> roots[k],
                                  tree |-> store[<<k, roots[k]>>]]]
    /\ UNCHANGED <<objects, pc, job, staged, answer, lock, bounds>>

Step(c) ==
    \/ Look(c)
    \/ Produce(c)
    \/ VerifyStaging(c)
    \/ Acquire(c)
    \/ LookLocked(c)
    \/ Compare(c)
    \/ Rename(c)
    \/ Protect(c)

Next ==
    \/ \E c \in Callers, id \in Ids : Start(c, id)
    \/ \E c \in Callers : Step(c)
    \/ \E c \in Callers : Crash(c)
    \/ \E roots \in [Kinds -> References] : WriteIndex(roots)

Spec == Init /\ [][Next]_vars

----------------------------------------------------------------------------
(* A refusal has a cause: what was staged is not whole, or another object   *)
(* stands under its identity.  A faster publisher of the same is none.      *)
Caused(c) == staged[c] \in Contents => store[job[c]] \notin {Absent, staged[c]}

(* What publish and the runner's lookup answered stays true, whatever other *)
(* publishers do: "published" and "reused" go on naming the very tree the   *)
(* caller staged, a published object stays read-only and a found one whole, *)
(* and publishing is idempotent: a publisher is refused only for a cause.   *)
AnswersHold ==
    \A c \in Callers :
        /\ answer[c] \in {"published", "reused"}
             => store[job[c]] = staged[c] /\ staged[c] # Absent
        /\ answer[c] = "published" => job[c] \in protected
        /\ answer[c] = "found" => store[job[c]] \in Contents
        /\ answer[c] = "refused" /\ c \in Publishers => Caused(c)

(* What qualification_state verifies of corpora.json, and its directories, *)
(* whenever it checks the marker of corpus-materialization.                *)
IndexVerifies ==
    /\ \E r \in References : \A k \in Kinds : index[k].reference = r
    /\ \A k \in Kinds :
           LET id == <<k, index[k].reference>>
           IN VerifyCorpus(id, id, store[id]) /\ store[id] = index[k].tree

(* An index once written verifies for ever: nothing a publisher does later *)
(* invalidates the gate.                                                   *)
IndexHolds == index # NoIndex => IndexVerifies
=============================================================================
