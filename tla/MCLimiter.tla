----------------------------- MODULE MCLimiter ------------------------------
(* Limiter on small instances.                                              *)
EXTENDS Limiter

CONSTANTS u1, u2, a, b, c, k1, k2

MCSetups ==
    \* Two connections at a time, UDP and TCP, devices alive on other nodes, up to
    \* the first report.  (A UDP user without known devices is treated like TCP.)
    {[users |-> {u1}, speeds |-> {0}, ips |-> {a, b, c}, checkers |-> {k1, k2},
      limit |-> 1, udp |-> TRUE, loose |-> TRUE, filter |-> FALSE, reports |-> FALSE,
      alive |-> {{}, {c}, {b, c}}, elsewhere |-> {},
      maxChanges |-> 0, maxPulls |-> 0, maxFaults |-> 0],
     [users |-> {u1}, speeds |-> {0}, ips |-> {a, b}, checkers |-> {k1, k2},
      limit |-> 1, udp |-> FALSE, loose |-> FALSE, filter |-> FALSE, reports |-> FALSE,
      alive |-> {{}, {a}}, elsewhere |-> {},
      maxChanges |-> 0, maxPulls |-> 0, maxFaults |-> 0],
    \* Two users behind one address; the traffic filter and alive addresses.
     [users |-> {u1, u2}, speeds |-> {0}, ips |-> {a}, checkers |-> {k1},
      limit |-> 1, udp |-> FALSE, loose |-> TRUE, filter |-> TRUE, reports |-> TRUE,
      alive |-> {{}}, elsewhere |-> {}, maxChanges |-> 0, maxPulls |-> 1, maxFaults |-> 0],
    \* The devices of a user come and go on other nodes, with and without reports
    \* of this one.
     [users |-> {u1, u2}, speeds |-> {0}, ips |-> {a, b}, checkers |-> {k1},
      limit |-> 1, udp |-> FALSE, loose |-> TRUE, filter |-> FALSE, reports |-> FALSE,
      alive |-> {{}}, elsewhere |-> {u1},
      maxChanges |-> 0, maxPulls |-> 1, maxFaults |-> 0],
     [users |-> {u1}, speeds |-> {0}, ips |-> {a}, checkers |-> {k1},
      limit |-> 1, udp |-> FALSE, loose |-> TRUE, filter |-> TRUE, reports |-> TRUE,
      alive |-> {{}, {a}}, elsewhere |-> {u1},
      maxChanges |-> 0, maxPulls |-> 2, maxFaults |-> 0],
    \* One user, changed and deleted while it connects; failed reports.
     [users |-> {u1}, speeds |-> {0, 1}, ips |-> {a, b}, checkers |-> {k1},
      limit |-> 1, udp |-> FALSE, loose |-> FALSE, filter |-> FALSE, reports |-> TRUE,
      alive |-> {{}}, elsewhere |-> {}, maxChanges |-> 1, maxPulls |-> 0, maxFaults |-> 1]}

=============================================================================
