-------------------------- MODULE ExclusiveRunner --------------------------
(* What the runner lock promises: of all the qualification processes of one  *)
(* checkout, the commands they left behind included, at most one is at work. *)
CONSTANTS Runners, CheckoutOf
VARIABLE active

Init == active = {}

Enter(r) ==
    /\ r \notin active
    /\ \A o \in active : CheckoutOf[o] # CheckoutOf[r]
    /\ active' = active \cup {r}

Leave(r) ==
    /\ r \in active
    /\ active' = active \ {r}

Next == \E r \in Runners : Enter(r) \/ Leave(r)

Spec == Init /\ [][Next]_active
=============================================================================
