---------------------------- MODULE MCPortRules -----------------------------
(* PortRules on small instances.                                            *)
EXTENDS PortRules, SequencesExt

\* All port numbers and ranges, a token out of range and a reversed one.
SmallTokens ==
    {k \in [lo : 1..MaxPort, hi : 1..MaxPort] : k.lo <= k.hi}
        \cup {[lo |-> 0, hi |-> 0], [lo |-> 2, hi |-> 1]}
GoodTokens == {k \in [lo : 1..MaxPort, hi : 1..MaxPort] : k.lo <= k.hi}

Node(port, list) ==
    [hysteria |-> TRUE, server_port |-> port, port |-> list, ports |-> <<>>]
Other == [hysteria |-> FALSE, server_port |-> 1, port |-> <<>>, ports |-> <<>>]
Fallback(port, list) ==
    [hysteria |-> TRUE, server_port |-> port, port |-> <<>>, ports |-> list]

\* Three nodes with at most one token each.
Short == BoundedSeq(GoodTokens, 1)
ThreeNodes ==
    {<<a, b, c>> : a \in {Node(p, l) : p \in 1..MaxPort, l \in Short},
                   b \in {Node(p, l) : p \in 1..MaxPort, l \in Short},
                   c \in {Node(p, l) : p \in 1..MaxPort, l \in Short}}

\* A node with up to three tokens, valid or not, after one with at most one.
Long == BoundedSeq(Token, 3)
LongLists ==
    {<<Other, Fallback(1, s), Node(p, l)>> :
        p \in 0..MaxPort, l \in Long, s \in BoundedSeq(Token, 1)}

SomeLists == {ThreeNodes, LongLists}

=============================================================================
