------------------------------- MODULE MCLock -------------------------------
(* Three processes of one checkout, one of them on another commit.           *)
EXTENDS RunnerLock

OneCheckout == [r \in Runners |-> "here"]
TwoCommits == [r \in Runners |-> IF r = "r3" THEN "s2" ELSE "s1"]
=============================================================================
