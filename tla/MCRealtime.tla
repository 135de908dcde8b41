---------------------------- MODULE MCRealtime ------------------------------
(* Realtime on small instances.                                             *)
EXTENDS Realtime

MCSetups ==
    \* A controller that is told of its users, with failures; of its
    \* configuration; or to reload.
    {[machine |-> FALSE, inform |-> {"users"}, maxVer |-> 1, sessions |-> 1,
      maxFaults |-> 1],
     [machine |-> FALSE, inform |-> {"config"}, maxVer |-> 1, sessions |-> 1,
      maxFaults |-> 0],
     [machine |-> FALSE, inform |-> {"force", "other"}, maxVer |-> 0, sessions |-> 1,
      maxFaults |-> 0],
    \* A machine, which reconnects; one that is told of its users, too.
     [machine |-> TRUE, inform |-> {"config"}, maxVer |-> 1, sessions |-> 2,
      maxFaults |-> 1],
     [machine |-> TRUE, inform |-> {"config", "users"}, maxVer |-> 1, sessions |-> 1,
      maxFaults |-> 0]}

=============================================================================
