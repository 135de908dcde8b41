--------------------------- MODULE MCTrafficReport --------------------------
(* TrafficReport on small instances.                                        *)
EXTENDS TrafficReport

CONSTANTS u1, f1, c1, c2

MCSetups ==
    \* Two controllers on one core, the old one still reporting; the peek.
    {[conns |-> {c1}, edge |-> {}, last |-> 2, reportMin |-> 0, deviceMin |-> 1,
      maxBytes |-> 2, maxFaults |-> 0],
    \* The same with failed calls, and a user that the edge daemon serves, too.
     [conns |-> {c1}, edge |-> {u1}, last |-> 2, reportMin |-> 0, deviceMin |-> 0,
      maxBytes |-> 1, maxFaults |-> 1],
    \* Two connections of a user and a minimum.
     [conns |-> {c1, c2}, edge |-> {}, last |-> 1, reportMin |-> 1, deviceMin |-> 0,
      maxBytes |-> 2, maxFaults |-> 0],
    \* The edge daemon's traffic, of this node and of another.
     [conns |-> {}, edge |-> {u1, f1}, last |-> 2, reportMin |-> 0, deviceMin |-> 0,
      maxBytes |-> 1, maxFaults |-> 2]}

=============================================================================
