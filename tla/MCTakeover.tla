----------------------------- MODULE MCTakeover -----------------------------
(* Takeover on a small instance.                                            *)
EXTENDS Takeover

CONSTANTS c1, c2, u1, u2

\* Three revisions, so that a user may leave and come back, or two with a fault.
MCSetups == {[kind |-> "core", maxRev |-> 3, maxFaults |-> 0],
             [kind |-> "core", maxRev |-> 2, maxFaults |-> 1],
             [kind |-> "sidecar", maxRev |-> 2, maxFaults |-> 1]}

\* The initial state by hand where TLC's symmetry would not be sound: which
\* controller is the first, and which users the first table has.
MCInit == Init /\ slot = c1 /\ snap[1] \in {{u1}, {u1, u2}}

MCSpec == MCInit /\ [][Next]_vars /\ Fairness

=============================================================================
