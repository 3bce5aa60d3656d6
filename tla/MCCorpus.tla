------------------------------ MODULE MCCorpus ------------------------------
(***************************************************************************)
(* A runner and two publishers.  The publishers, the reference             *)
(* environments and the contents are interchangeable.                      *)
(***************************************************************************)
EXTENDS CorpusStore, TLC

CONSTANTS p1, p2, e1, e2, x, y

Interchangeable ==
    Permutations({p1, p2}) \cup Permutations({e1, e2}) \cup Permutations({x, y})
=============================================================================
