------------------------------ MODULE PortRules -----------------------------
(***************************************************************************)
(* buildHysteriaPortForwardRules: which udp ports are redirected to which  *)
(* HY2 node.                                                               *)
(*                                                                         *)
(* The nodes are visited in order.  A node's port list is parsed token by  *)
(* token into matchers, leaving its own server_port out; the node is       *)
(* refused as a whole if the list is invalid, covers the server_port of    *)
(* another node, or overlaps what an earlier node with another server_port *)
(* was given.  A token is the pair of numbers it was read as, equal ones   *)
(* for a single port; one that cannot be read has a number out of range.   *)
(***************************************************************************)
EXTENDS Integers, Sequences

CONSTANTS
    MaxPort,    \* the highest port, 65535
    MaxChunk,   \* ports in one multiport matcher, 15
    Token,      \* the tokens of port lists
    InfoLists   \* families of lists of nodes; a list of any of them may come in

Info == [hysteria : BOOLEAN, server_port : Int, port : Seq(Token), ports : Seq(Token)]

ASSUME PortRulesAssumption ==
    /\ MaxPort \in Nat /\ MaxChunk \in Nat \ {0}
    /\ Token \subseteq [lo : Int, hi : Int]
    /\ \A S \in InfoLists : S \subseteq Seq(Info)

VARIABLES
    infos,      \* the nodes
    n,          \* the node of this round
    pc,         \* where in the round
    t,          \* the token or the matcher the round is at
    singles,    \* single ports not yet in a matcher
    ranges,     \* the node's ranges so far
    matchers,   \* the node's matchers so far
    allocated,  \* ranges of the nodes accepted so far
    rules,      \* the result
    errs        \* the nodes that were refused

round == <<t, singles, ranges, matchers>>
vars == <<infos, n, pc, round, allocated, rules, errs>>

Port == 1..MaxPort
Target == infos[n].server_port

\* Port, or Ports when it is empty.
External(i) == IF infos[i].port # <<>> THEN infos[i].port ELSE infos[i].ports

TargetPorts ==
    {infos[i].server_port : i \in {j \in 1..Len(infos) :
        infos[j].hysteria /\ infos[j].server_port \in Port}}

\* The ports a matcher stands for: --dport a, --dports a,b,c or --dport a:b.
Covers(m) == IF m.range THEN m.args[1]..m.args[2] ELSE {m.args[i] : i \in 1..Len(m.args)}

overlaps(r, s) == r.lo <= s.hi /\ s.lo <= r.hi
contains(r, p) == r.lo <= p /\ p <= r.hi

-----------------------------------------------------------------------------
NextNode == n' = n + 1 /\ pc' = "node"

Refuse ==
    /\ errs' = errs \cup {n}
    /\ NextNode
    /\ UNCHANGED <<infos, round, allocated, rules>>

AtNode == pc = "node" /\ n <= Len(infos)

\* Other protocols, and nodes without a port list, are passed over.
SkipNode ==
    /\ AtNode
    /\ ~infos[n].hysteria \/ (Target \in Port /\ External(n) = <<>>)
    /\ NextNode
    /\ UNCHANGED <<infos, round, allocated, rules, errs>>

BadServerPort ==
    /\ AtNode
    /\ infos[n].hysteria /\ Target \notin Port
    /\ Refuse

BeginNode ==
    /\ AtNode
    /\ infos[n].hysteria /\ Target \in Port /\ External(n) # <<>>
    /\ pc' = "token" /\ t' = 1
    /\ singles' = <<>> /\ ranges' = {} /\ matchers' = <<>>
    /\ UNCHANGED <<infos, n, allocated, rules, errs>>

Tok == External(n)[t]
AtToken == pc = "token" /\ t <= Len(External(n))

\* parsePortRange and parsePortNumber.
Valid(tok) == tok.lo \in Port /\ tok.hi \in Port /\ tok.lo <= tok.hi

\* Faulty variant: a token that cannot be read is left out.
BadTokenSkipped ==
    /\ AtToken /\ ~Valid(Tok)
    /\ t' = t + 1
    /\ UNCHANGED <<infos, n, pc, singles, ranges, matchers, allocated, rules, errs>>

BadToken == AtToken /\ ~Valid(Tok) /\ Refuse

\* addSingle
SingleToken ==
    /\ AtToken /\ Valid(Tok) /\ Tok.lo = Tok.hi
    /\ IF Tok.lo = Target
       THEN UNCHANGED <<singles, ranges>>
       ELSE /\ singles' = Append(singles, Tok.lo)
            /\ ranges' = ranges \cup {[lo |-> Tok.lo, hi |-> Tok.lo]}
    /\ t' = t + 1
    /\ UNCHANGED <<infos, n, pc, matchers, allocated, rules, errs>>

\* flushSingles, before a range and at the end: one matcher of the loop.
Flush ==
    /\ pc = "token" /\ singles # <<>>
    /\ AtToken => Valid(Tok) /\ Tok.lo # Tok.hi
    /\ LET size == IF Len(singles) > MaxChunk THEN MaxChunk ELSE Len(singles)
       IN  /\ matchers' = Append(matchers, [range |-> FALSE, args |-> SubSeq(singles, 1, size)])
           /\ singles' = SubSeq(singles, size + 1, Len(singles))
    /\ UNCHANGED <<infos, n, pc, t, ranges, allocated, rules, errs>>

\* Faulty variant: the part above the node's own port starts at that port.
PartsAround(lo, hi, port) ==
    IF lo <= port /\ port <= hi
    THEN (IF lo <= port - 1 THEN <<[lo |-> lo, hi |-> port - 1]>> ELSE <<>>) \o
         (IF port + 1 <= hi THEN <<[lo |-> port, hi |-> hi]>> ELSE <<>>)
    ELSE <<[lo |-> lo, hi |-> hi]>>

\* addRange: what is left of a range without the node's own port.
Parts(lo, hi, port) ==
    IF lo <= port /\ port <= hi
    THEN (IF lo <= port - 1 THEN <<[lo |-> lo, hi |-> port - 1]>> ELSE <<>>) \o
         (IF port + 1 <= hi THEN <<[lo |-> port + 1, hi |-> hi]>> ELSE <<>>)
    ELSE <<[lo |-> lo, hi |-> hi]>>

RangeMatchers(parts) ==
    [i \in 1..Len(parts) |-> [range |-> TRUE, args |-> <<parts[i].lo, parts[i].hi>>]]

RangeToken ==
    /\ AtToken /\ Valid(Tok) /\ Tok.lo # Tok.hi /\ singles = <<>>
    /\ LET parts == Parts(Tok.lo, Tok.hi, Target)
       IN  /\ ranges' = ranges \cup {parts[i] : i \in 1..Len(parts)}
           /\ matchers' = matchers \o RangeMatchers(parts)
    /\ t' = t + 1
    /\ UNCHANGED <<infos, n, pc, singles, allocated, rules, errs>>

\* Faulty variant: only the ports of the nodes before this one are looked at.
EarlierPortConflict ==
    \E i \in 1..(n - 1) : \E r \in ranges :
        infos[i].server_port # Target /\ contains(r, infos[i].server_port)

findPortForwardTargetPortConflict ==
    \E port \in TargetPorts \ {Target} : \E r \in ranges : contains(r, port)

\* Faulty variant: only a range that begins inside an allocated one conflicts.
InsideConflict ==
    \E r \in ranges : \E a \in allocated : a.target # Target /\ contains(a, r.lo)

findPortForwardRangeConflict ==
    \E r \in ranges : \E a \in allocated : a.target # Target /\ overlaps(r, a)

AtEnd == pc = "token" /\ t > Len(External(n)) /\ singles = <<>>

Conflict ==
    /\ AtEnd
    /\ findPortForwardTargetPortConflict \/ findPortForwardRangeConflict
    /\ Refuse

Allocate ==
    /\ AtEnd
    /\ ~findPortForwardTargetPortConflict /\ ~findPortForwardRangeConflict
    /\ allocated' = allocated \cup {[target |-> Target, lo |-> r.lo, hi |-> r.hi] : r \in ranges}
    /\ pc' = "emit" /\ t' = 1
    /\ UNCHANGED <<infos, n, singles, ranges, matchers, rules, errs>>

\* seen: the same matcher was already given to the same target.
Seen(rule) == \E i \in 1..Len(rules) : rules[i] = rule

Emit ==
    /\ pc = "emit" /\ t <= Len(matchers)
    /\ LET rule == [matcher |-> matchers[t], target |-> Target]
       IN  rules' = IF Seen(rule) THEN rules ELSE Append(rules, rule)
    /\ t' = t + 1
    /\ UNCHANGED <<infos, n, pc, singles, ranges, matchers, allocated, errs>>

EmitDone ==
    /\ pc = "emit" /\ t > Len(matchers)
    /\ NextNode
    /\ UNCHANGED <<infos, round, allocated, rules, errs>>

Init ==
    /\ \E S \in InfoLists : infos \in S
    /\ n = 1 /\ pc = "node" /\ t = 1
    /\ singles = <<>> /\ ranges = {} /\ matchers = <<>>
    /\ allocated = {} /\ rules = <<>> /\ errs = {}

Next ==
    \/ SkipNode \/ BadServerPort \/ BeginNode
    \/ BadToken \/ SingleToken \/ Flush \/ RangeToken
    \/ Conflict \/ Allocate \/ Emit \/ EmitDone

Spec == Init /\ [][Next]_vars

-----------------------------------------------------------------------------
Matcher == [range : BOOLEAN, args : Seq(Port)]

\* Every variable keeps its type; no matcher names more ports than the
\* multiport match of iptables takes.
TypeOK ==
    /\ infos \in Seq(Info) /\ n \in 1..(Len(infos) + 1)
    /\ pc \in {"node", "token", "emit"} /\ t \in Nat \ {0}
    /\ pc # "node" => n <= Len(infos) /\ Target \in Port
    /\ singles \in Seq(Port)
    /\ ranges \subseteq [lo : Port, hi : Port]
    /\ matchers \in Seq(Matcher)
    /\ \A i \in 1..Len(matchers) : Len(matchers[i].args) \in 1..MaxChunk \/ matchers[i].range
    /\ allocated \subseteq [target : Port, lo : Port, hi : Port]
    /\ rules \in Seq([matcher : Matcher, target : Port])
    /\ errs \subseteq 1..Len(infos)

\* No udp port is redirected to two nodes, so that the order of the rules in
\* the table does not matter.
RulesDisjoint ==
    \A i, j \in 1..Len(rules) :
        rules[i].target # rules[j].target =>
            Covers(rules[i].matcher) \cap Covers(rules[j].matcher) = {}

\* A HY2 node stays reachable on its own port: no rule takes that port away.
ServerPortsFree ==
    \A i \in 1..Len(rules) : Covers(rules[i].matcher) \cap TargetPorts = {}

\* The rules cover exactly the ports that the accepted nodes list, without
\* each node's own port, and no rule is there twice.  A refused node leaves
\* nothing behind.
Lists(i) == infos[i].hysteria /\ External(i) # <<>>
Accepted(i) == Lists(i) /\ i \notin errs
Wanted(i) ==
    (UNION {External(i)[k].lo..External(i)[k].hi : k \in 1..Len(External(i))})
        \ {infos[i].server_port}
RulesExact ==
    pc = "node" =>
        /\ \A port \in Port, target \in Port :
              (\E i \in 1..Len(rules) :
                    rules[i].target = target /\ port \in Covers(rules[i].matcher))
              <=> (\E i \in 1..(n - 1) :
                    Accepted(i) /\ infos[i].server_port = target /\ port \in Wanted(i))
        /\ \A i, j \in 1..Len(rules) : rules[i] = rules[j] => i = j

\* A node with a port list is refused if and only if its port or a token is
\* invalid, it wants the port of another node, or it wants a port that an
\* accepted node before it was given for another target.
Fits(i) ==
    /\ infos[i].server_port \in Port
    /\ \A k \in 1..Len(External(i)) : Valid(External(i)[k])
    /\ Wanted(i) \cap (TargetPorts \ {infos[i].server_port}) = {}
    /\ \A j \in 1..(i - 1) :
          Accepted(j) /\ infos[j].server_port # infos[i].server_port =>
              Wanted(i) \cap Wanted(j) = {}
RefusalsExact ==
    \A i \in 1..(n - 1) : Lists(i) => (i \notin errs <=> Fits(i))

-----------------------------------------------------------------------------
(* The inductive invariant of the two properties above: RulesDisjoint and   *)
(* ServerPortsFree hold of the ranges that are allocated, the rules stay    *)
(* within those, and the round's matchers within the round's ranges.        *)

AllocatedApart ==
    \A a, b \in allocated : a.target # b.target => ~overlaps(a, b)

AllocatedFree ==
    \A a \in allocated : \A port \in TargetPorts : ~contains(a, port)

RulesWithin ==
    \A i \in 1..Len(rules) : \A port \in Covers(rules[i].matcher) :
        \E a \in allocated : a.target = rules[i].target /\ contains(a, port)

InRanges(port) == \E r \in ranges : contains(r, port)
RoundWithin ==
    pc \in {"token", "emit"} =>
        /\ ~InRanges(Target)
        /\ \A i \in 1..Len(singles) : InRanges(singles[i])
        /\ \A i \in 1..Len(matchers) : \A port \in Covers(matchers[i]) : InRanges(port)

EmitAllocated ==
    pc = "emit" => \A r \in ranges : [target |-> Target, lo |-> r.lo, hi |-> r.hi] \in allocated

IInv ==
    AllocatedApart /\ AllocatedFree /\ RulesWithin /\ RoundWithin /\ EmitAllocated

=============================================================================
