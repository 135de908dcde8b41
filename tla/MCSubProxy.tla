----------------------------- MODULE MCSubProxy -----------------------------
(* SubProxy on small instances.                                            *)
EXTENDS SubProxy, TLC

CONSTANTS a1, a2, ip    \* addresses

\* A certificate that fits, plain HTTP if it cannot be written.
Have == [enabled |-> TRUE, profiles |-> "good", https |-> a1, http |-> a2,
         domain |-> "name", pem |-> "good", fallback |-> TRUE]
\* No certificate: the proxy asks for one, for its public address, and without an
\* earlier one starts the challenge server only.
Ask  == [Have EXCEPT !.pem = "none", !.fallback = FALSE, !.domain = "none"]
Off  == [Have EXCEPT !.enabled = FALSE]
Bad  == [Off EXCEPT !.profiles = "bad"]

\* A certificate for another key, an IPv6 address for a domain, no challenge server.
Other == [Have EXCEPT !.http = NoAddr, !.pem = "bad", !.domain = "ipv6"]

SomeConfigs == {Have, Ask, Other, Off, Bad}
=============================================================================
