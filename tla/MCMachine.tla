----------------------------- MODULE MCMachine ------------------------------
(* Machine on small instances.                                              *)
EXTENDS Machine

\* Machine mode as it is by default, with two panels; machine mode that stops
\* at errors; two machines of one panel, whose nodes listen on one address or on
\* all; and no machine mode.
AllModes == {
    [machine |-> TRUE, continueOnError |-> TRUE, sameHost |-> FALSE, fallback |-> TRUE],
    [machine |-> TRUE, continueOnError |-> FALSE, sameHost |-> FALSE, fallback |-> TRUE],
    [machine |-> TRUE, continueOnError |-> TRUE, sameHost |-> TRUE, fallback |-> FALSE],
    [machine |-> TRUE, continueOnError |-> FALSE, sameHost |-> TRUE, fallback |-> TRUE],
    [machine |-> FALSE, continueOnError |-> FALSE, sameHost |-> FALSE, fallback |-> TRUE]}

Default == {
    [machine |-> TRUE, continueOnError |-> TRUE, sameHost |-> FALSE, fallback |-> FALSE]}

=============================================================================
