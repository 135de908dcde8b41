---------------------------- MODULE MCPortForward ----------------------------
(* PortForward on small instances.                                          *)
EXTENDS PortForward

OneTool == <<"iptables">>
TwoRules == {"r1", "r2"}
SomePlans == {<<>>, <<"r1">>, <<"r2", "r1">>}

\* What earlier versions, crashes and other programs may have left.
Leftovers == {<<"r2", "f1", "r2">>, <<"jump", "f1", "port_jump", "f2">>}

=============================================================================
