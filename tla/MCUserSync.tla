----------------------------- MODULE MCUserSync -----------------------------
(* UserSync on small instances.                                             *)
EXTENDS UserSync, TLC

CONSTANTS u1, u2, i1, i2

Symmetry == Permutations(Uuid) \cup Permutations(Info) \cup Permutations(Syncer)

\* The first table, but for the names of the users and of their records.
MCInit ==
    /\ Init
    /\ snap[1] \in {u1 :> i1 @@ u2 :> NoUser, u1 :> i1 @@ u2 :> i1, u1 :> i1 @@ u2 :> i2}

MCFairSpec == MCInit /\ [][Next]_vars /\ Fairness

=============================================================================
