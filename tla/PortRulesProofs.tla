--------------------------- MODULE PortRulesProofs ---------------------------
(***************************************************************************)
(* The properties of the port forwarding rules: of PortRules, for all port *)
(* lists and all nodes, and of PortForward, for all tools, tables and      *)
(* plans.                                                                  *)
(***************************************************************************)
EXTENDS PortRules, PortForward, SequenceTheorems, WellFoundedInduction, TLAPS

-----------------------------------------------------------------------------
(* PortRules: types and ranges.                                            *)

\* What addRange keeps of a range lies in it and leaves the port out.
LEMMA PartsWithin ==
    ASSUME NEW lo \in Port, NEW hi \in Port, NEW port \in Port, lo <= hi
    PROVE  /\ Parts(lo, hi, port) \in Seq([lo : Port, hi : Port])
           /\ \A i \in 1..Len(Parts(lo, hi, port)) : ~contains(Parts(lo, hi, port)[i], port)
<1> USE PortRulesAssumption DEF Port
<1>1. CASE ~(lo <= port /\ port <= hi)
  <2>1. Parts(lo, hi, port) = <<[lo |-> lo, hi |-> hi]>>
    BY <1>1 DEF Parts
  <2> QED BY <1>1, <2>1 DEF contains
<1>2. CASE lo <= port /\ port <= hi
  <2>1. CASE lo <= port - 1 /\ port + 1 <= hi
    <3> DEFINE below == [lo |-> lo, hi |-> port - 1]
               above == [lo |-> port + 1, hi |-> hi]
    <3>1. Parts(lo, hi, port) = <<below>> \o <<above>>
      BY <1>2, <2>1 DEF Parts
    <3>2. below \in [lo : Port, hi : Port] /\ above \in [lo : Port, hi : Port]
      BY <1>2, <2>1
    <3>3. ~contains(below, port) /\ ~contains(above, port)
      BY DEF contains
    <3> HIDE DEF below, above
    <3>4. LET both == <<below>> \o <<above>>
          IN  both \in Seq([lo : Port, hi : Port]) /\ Len(both) = 2 /\ both[1] = below /\ both[2] = above
      BY <3>2
    <3> QED BY <3>1, <3>3, <3>4
  <2>2. CASE lo <= port - 1 /\ ~(port + 1 <= hi)
    <3>1. Parts(lo, hi, port) = <<[lo |-> lo, hi |-> port - 1]>>
      BY <1>2, <2>2 DEF Parts
    <3> QED BY <1>2, <2>2, <3>1 DEF contains
  <2>3. CASE ~(lo <= port - 1) /\ port + 1 <= hi
    <3>1. Parts(lo, hi, port) = <<[lo |-> port + 1, hi |-> hi]>>
      BY <1>2, <2>3 DEF Parts
    <3> QED BY <1>2, <2>3, <3>1 DEF contains
  <2>4. CASE ~(lo <= port - 1) /\ ~(port + 1 <= hi)
    <3>1. Parts(lo, hi, port) = <<>>
      BY <1>2, <2>4 DEF Parts
    <3> QED BY <3>1
  <2> QED BY <2>1, <2>2, <2>3, <2>4
<1> QED BY <1>1, <1>2

\* The node of the round and its token have their types.
LEMMA RoundTypes ==
    ASSUME TypeOK, n <= Len(infos)
    PROVE  /\ infos[n] \in Info /\ Target \in Int
           /\ External(n) \in Seq(Token)
           /\ AtToken => Tok.lo \in Int /\ Tok.hi \in Int
<1>1. infos[n] \in Info
  BY PortRulesAssumption DEF TypeOK
<1>2. External(n) \in Seq(Token)
  BY <1>1 DEF External, Info
<1>3. AtToken => Tok \in Token
  BY <1>2 DEF AtToken, Tok, TypeOK
<1> QED BY <1>1, <1>2, <1>3, PortRulesAssumption DEF Target, Info

\* A sequence cut in two: where the elements of the parts come from.
LEMMA Cut ==
    ASSUME NEW S, NEW s \in Seq(S), NEW size \in 1..Len(s)
    PROVE  /\ SubSeq(s, 1, size) \in Seq(S) /\ Len(SubSeq(s, 1, size)) = size
           /\ \A i \in 1..size : i \in 1..Len(s) /\ SubSeq(s, 1, size)[i] = s[i]
           /\ SubSeq(s, size + 1, Len(s)) \in Seq(S)
           /\ Len(SubSeq(s, size + 1, Len(s))) = Len(s) - size
           /\ \A i \in 1..(Len(s) - size) :
                 size + i \in 1..Len(s) /\ SubSeq(s, size + 1, Len(s))[i] = s[size + i]
<1>1. SubSeq(s, 1, size) \in Seq(S) /\ Len(SubSeq(s, 1, size)) = size
  BY SubSeqProperties
<1>2. \A i \in 1..size : i \in 1..Len(s) /\ SubSeq(s, 1, size)[i] = s[i]
  BY SubSeqProperties
<1>3. SubSeq(s, size + 1, Len(s)) \in Seq(S) /\ Len(SubSeq(s, size + 1, Len(s))) = Len(s) - size
  BY SubSeqProperties
<1>4. \A i \in 1..(Len(s) - size) :
        size + i \in 1..Len(s) /\ SubSeq(s, size + 1, Len(s))[i] = s[size + i]
  BY SubSeqProperties
<1> QED BY <1>1, <1>2, <1>3, <1>4

ChunkSize == IF Len(singles) > MaxChunk THEN MaxChunk ELSE Len(singles)

\* The chunk that flushSingles takes is not empty and within MaxChunk.
LEMMA ChunkFits ==
    ASSUME TypeOK, singles # <<>>
    PROVE  ChunkSize \in 1..Len(singles) /\ ChunkSize <= MaxChunk
<1>1. Len(singles) \in Nat /\ Len(singles) >= 1
  BY DEF TypeOK
<1> QED BY <1>1, PortRulesAssumption DEF ChunkSize

\* Where the ports of the chunk and of the rest come from.
LEMMA ChunkPorts ==
    ASSUME TypeOK, singles # <<>>
    PROVE  /\ SubSeq(singles, 1, ChunkSize) \in Seq(Port)
           /\ SubSeq(singles, ChunkSize + 1, Len(singles)) \in Seq(Port)
           /\ Len(SubSeq(singles, 1, ChunkSize)) \in 1..MaxChunk
           /\ \A i \in 1..Len(SubSeq(singles, 1, ChunkSize)) :
                 \E j \in 1..Len(singles) : SubSeq(singles, 1, ChunkSize)[i] = singles[j]
           /\ \A i \in 1..Len(SubSeq(singles, ChunkSize + 1, Len(singles))) :
                 \E j \in 1..Len(singles) :
                    SubSeq(singles, ChunkSize + 1, Len(singles))[i] = singles[j]
<1>1. singles \in Seq(Port) /\ ChunkSize \in 1..Len(singles) /\ ChunkSize <= MaxChunk
  BY ChunkFits DEF TypeOK
<1>2. /\ SubSeq(singles, 1, ChunkSize) \in Seq(Port) /\ Len(SubSeq(singles, 1, ChunkSize)) = ChunkSize
      /\ \A i \in 1..ChunkSize : i \in 1..Len(singles) /\ SubSeq(singles, 1, ChunkSize)[i] = singles[i]
  BY <1>1, Cut
<1>3. /\ SubSeq(singles, ChunkSize + 1, Len(singles)) \in Seq(Port)
      /\ Len(SubSeq(singles, ChunkSize + 1, Len(singles))) = Len(singles) - ChunkSize
      /\ \A i \in 1..(Len(singles) - ChunkSize) :
            /\ ChunkSize + i \in 1..Len(singles)
            /\ SubSeq(singles, ChunkSize + 1, Len(singles))[i] = singles[ChunkSize + i]
  BY <1>1, Cut
<1>4. Len(SubSeq(singles, 1, ChunkSize)) \in 1..MaxChunk
  BY <1>1, <1>2, PortRulesAssumption
<1> HIDE DEF ChunkSize
<1> QED BY <1>2, <1>3, <1>4

RangeMatcher(r) == [range |-> TRUE, args |-> <<r.lo, r.hi>>]

\* The matchers of addRange, appended to the others.
LEMMA RangesAppended ==
    ASSUME NEW old \in Seq(Matcher), NEW parts \in Seq([lo : Port, hi : Port])
    PROVE  /\ old \o RangeMatchers(parts) \in Seq(Matcher)
           /\ \A i \in 1..Len(old \o RangeMatchers(parts)) :
                 \/ i \in 1..Len(old) /\ (old \o RangeMatchers(parts))[i] = old[i]
                 \/ \E j \in 1..Len(parts) :
                       (old \o RangeMatchers(parts))[i] = RangeMatcher(parts[j])
<1> DEFINE made == RangeMatchers(parts)
           all == old \o made
<1>1. Len(parts) \in Nat /\ Len(old) \in Nat
  OBVIOUS
<1>2. \A i \in 1..Len(parts) : parts[i] \in [lo : Port, hi : Port]
  BY ElementOfSeq, Zenon
<1>3. \A i \in 1..Len(parts) : RangeMatcher(parts[i]) \in Matcher
  <2>1. \A i \in 1..Len(parts) : <<parts[i].lo, parts[i].hi>> \in Seq(Port)
    BY <1>2
  <2> QED BY <2>1 DEF Matcher, RangeMatcher
<1>4. made = [i \in 1..Len(parts) |-> RangeMatcher(parts[i])]
  BY DEF RangeMatchers, RangeMatcher
<1> HIDE DEF made
<1>5. /\ made \in Seq(Matcher) /\ Len(made) = Len(parts)
      /\ \A i \in 1..Len(parts) : made[i] = RangeMatcher(parts[i])
  BY <1>1, <1>3, <1>4
<1>6. /\ all \in Seq(Matcher) /\ Len(all) = Len(old) + Len(made)
      /\ \A i \in 1..(Len(old) + Len(made)) :
            all[i] = IF i <= Len(old) THEN old[i] ELSE made[i - Len(old)]
  BY <1>5, ConcatProperties
<1> HIDE DEF all
<1>7. ASSUME NEW i \in 1..Len(all)
      PROVE  \/ i \in 1..Len(old) /\ all[i] = old[i]
             \/ \E j \in 1..Len(parts) : all[i] = RangeMatcher(parts[j])
  <2>1. CASE i <= Len(old)
    BY <1>1, <1>5, <1>6, <2>1
  <2>2. CASE ~(i <= Len(old))
    <3>1. i - Len(old) \in 1..Len(parts) /\ all[i] = made[i - Len(old)]
      BY <1>1, <1>5, <1>6, <2>2
    <3> QED BY <1>5, <3>1
  <2> QED BY <2>1, <2>2
<1> QED BY <1>6, <1>7 DEF all, made

\* The types hold before the first node.
LEMMA TypeInit == Init => TypeOK
BY PortRulesAssumption DEF Init, TypeOK

\* Every step of buildHysteriaPortForwardRules keeps the types of its
\* variables, and matchers stay within MaxChunk ports.
LEMMA TypeNext == TypeOK /\ [Next]_vars => TypeOK'
<1> SUFFICES ASSUME TypeOK, [Next]_vars PROVE TypeOK'
  OBVIOUS
<1> USE PortRulesAssumption
<1>1. CASE SkipNode
  BY <1>1 DEF SkipNode, AtNode, NextNode, round, TypeOK
<1>2. CASE BadServerPort
  BY <1>2 DEF BadServerPort, AtNode, Refuse, NextNode, round, TypeOK
<1>3. CASE BeginNode
  BY <1>3 DEF BeginNode, AtNode, Target, TypeOK
<1>4. CASE BadToken
  BY <1>4 DEF BadToken, AtToken, Refuse, NextNode, round, TypeOK
<1>5. CASE SingleToken
  <2>1. /\ UNCHANGED <<infos, n, pc, matchers, allocated, rules, errs>>
        /\ t' \in Nat \ {0} /\ Tok.lo \in Port
    BY <1>5 DEF SingleToken, Valid, TypeOK
  <2>2. singles' \in Seq(Port) /\ ranges' \subseteq [lo : Port, hi : Port]
    <3>1. CASE Tok.lo = Target
      BY <1>5, <3>1 DEF SingleToken, TypeOK
    <3>2. CASE Tok.lo # Target
      <4>1. singles' = Append(singles, Tok.lo) /\ ranges' = ranges \cup {[lo |-> Tok.lo, hi |-> Tok.lo]}
        BY <1>5, <3>2 DEF SingleToken
      <4> QED BY <2>1, <4>1 DEF TypeOK
    <3> QED BY <3>1, <3>2
  <2> QED BY <2>1, <2>2 DEF Target, TypeOK
<1>6. CASE Flush
  <2> DEFINE made == [range |-> FALSE, args |-> SubSeq(singles, 1, ChunkSize)]
  <2>1. /\ UNCHANGED <<infos, n, pc, t, ranges, allocated, rules, errs>>
        /\ matchers' = Append(matchers, made)
        /\ singles' = SubSeq(singles, ChunkSize + 1, Len(singles))
        /\ singles # <<>>
    BY <1>6 DEF Flush, ChunkSize
  <2>2. /\ singles' \in Seq(Port)
        /\ SubSeq(singles, 1, ChunkSize) \in Seq(Port)
        /\ Len(SubSeq(singles, 1, ChunkSize)) \in 1..MaxChunk
    BY <2>1, ChunkPorts
  <2>5. made \in Matcher /\ Len(made.args) \in 1..MaxChunk
    BY <2>2 DEF Matcher
  <2> HIDE DEF made
  <2>3. matchers' \in Seq(Matcher)
    BY <2>1, <2>5 DEF TypeOK
  <2>4. \A i \in 1..Len(matchers') : Len(matchers'[i].args) \in 1..MaxChunk \/ matchers'[i].range
    BY <2>1, <2>5 DEF TypeOK
  <2> QED BY <2>1, <2>2, <2>3, <2>4 DEF Target, TypeOK
<1>7. CASE RangeToken
  <2> DEFINE parts == Parts(Tok.lo, Tok.hi, Target)
  <2>1. /\ UNCHANGED <<infos, n, pc, singles, allocated, rules, errs>>
        /\ ranges' = ranges \cup {parts[i] : i \in 1..Len(parts)}
        /\ matchers' = matchers \o RangeMatchers(parts)
        /\ t' \in Nat \ {0} /\ Valid(Tok) /\ Target \in Port
    BY <1>7 DEF RangeToken, AtToken, TypeOK
  <2>2. parts \in Seq([lo : Port, hi : Port])
    BY <2>1, PartsWithin DEF Valid
  <2>3. \A i \in 1..Len(parts) : parts[i] \in [lo : Port, hi : Port]
    BY <2>2, ElementOfSeq, Zenon
  <2> HIDE DEF parts
  <2>4. ranges' \subseteq [lo : Port, hi : Port]
    BY <2>1, <2>3 DEF TypeOK
  <2>5. matchers \in Seq(Matcher)
    BY DEF TypeOK
  <2>6. /\ matchers' \in Seq(Matcher)
        /\ \A i \in 1..Len(matchers') :
              (i \in 1..Len(matchers) /\ matchers'[i] = matchers[i]) \/ matchers'[i].range
    <3>1. \A r : RangeMatcher(r).range
      BY DEF RangeMatcher
    <3> QED BY <2>1, <2>2, <2>5, <3>1, RangesAppended
  <2> QED BY <2>1, <2>4, <2>6 DEF Target, TypeOK
<1>8. CASE Conflict
  BY <1>8 DEF Conflict, AtEnd, Refuse, NextNode, round, TypeOK
<1>9. CASE Allocate
  <2>1. allocated' \subseteq [target : Port, lo : Port, hi : Port]
    BY <1>9 DEF Allocate, AtEnd, TypeOK
  <2> QED BY <1>9, <2>1 DEF Allocate, AtEnd, Target, TypeOK
<1>10. CASE Emit
  <2> DEFINE rule == [matcher |-> matchers[t], target |-> Target]
  <2>1. /\ UNCHANGED <<infos, n, pc, singles, ranges, matchers, allocated, errs>>
        /\ t' \in Nat \ {0} /\ rules' \in {rules, Append(rules, rule)}
    BY <1>10 DEF Emit, TypeOK
  <2>2. rule \in [matcher : Matcher, target : Port]
    BY <1>10 DEF Emit, TypeOK
  <2> HIDE DEF rule
  <2>3. Append(rules, rule) \in Seq([matcher : Matcher, target : Port])
    BY <2>2 DEF TypeOK
  <2>4. rules' \in Seq([matcher : Matcher, target : Port])
    BY <2>1, <2>3 DEF TypeOK
  <2> QED BY <2>1, <2>4 DEF Target, TypeOK
<1>11. CASE EmitDone
  BY <1>11 DEF EmitDone, NextNode, round, TypeOK
<1>12. CASE UNCHANGED vars
  BY <1>12 DEF vars, round, Target, TypeOK
<1> QED BY <1>1, <1>2, <1>3, <1>4, <1>5, <1>6, <1>7, <1>8, <1>9, <1>10, <1>11, <1>12
   DEF Next

-----------------------------------------------------------------------------
\* What holds of the allocated ranges and of the rules is not disturbed by a
\* step that leaves them and the nodes alone.
LEMMA ResultKept ==
    ASSUME IInv, UNCHANGED <<infos, allocated, rules>>
    PROVE  AllocatedApart' /\ AllocatedFree' /\ RulesWithin'
BY DEF IInv, AllocatedApart, AllocatedFree, RulesWithin, TargetPorts

\* A range that contains a port of both overlaps.
LEMMA SharedPort ==
    ASSUME NEW r, NEW s, NEW port \in Int,
           r.lo \in Int, r.hi \in Int, s.lo \in Int, s.hi \in Int,
           contains(r, port), contains(s, port)
    PROVE  overlaps(r, s)
BY DEF contains, overlaps

\* A matcher stands for numbers.
LEMMA CoversInt ==
    ASSUME NEW m \in Matcher, NEW port \in Covers(m)
    PROVE  port \in Int
<1>1. CASE m.range
  BY <1>1 DEF Covers
<1>2. CASE ~m.range
  BY <1>2, PortRulesAssumption DEF Covers, Matcher, Port
<1> QED BY <1>1, <1>2 DEF Matcher

\* The invariant holds before the first node.
LEMMA IInvInit == Init => IInv
BY DEF Init, IInv, AllocatedApart, AllocatedFree, RulesWithin, RoundWithin,
       EmitAllocated

\* Every step of buildHysteriaPortForwardRules keeps the invariant.
LEMMA IInvNext == TypeOK /\ TypeOK' /\ IInv /\ [Next]_vars => IInv'
<1> SUFFICES ASSUME TypeOK, TypeOK', IInv, [Next]_vars PROVE IInv'
  OBVIOUS
<1> DEFINE Now(port) == \E r \in ranges' : contains(r, port)
<1>1. CASE pc' = "node" /\ UNCHANGED <<infos, allocated, rules>>
  BY <1>1, ResultKept DEF IInv, RoundWithin, EmitAllocated
<1>2. CASE SkipNode \/ BadServerPort \/ BadToken \/ Conflict \/ EmitDone
  BY <1>1, <1>2 DEF SkipNode, BadServerPort, BadToken, Conflict, EmitDone, Refuse,
                    NextNode
<1>3. CASE BeginNode
  <2>1. RoundWithin' /\ EmitAllocated'
    BY <1>3 DEF BeginNode, RoundWithin, EmitAllocated, InRanges
  <2> QED BY <1>3, <2>1, ResultKept DEF BeginNode, IInv
<1>4. CASE SingleToken
  <2>1. /\ UNCHANGED <<infos, n, pc, matchers, allocated, rules>> /\ pc = "token"
        /\ Target' = Target /\ Tok.lo \in Port
    BY <1>4 DEF SingleToken, AtToken, Target, Valid
  <2>2. CASE Tok.lo = Target
    BY <1>4, <2>1, <2>2, ResultKept
       DEF SingleToken, IInv, RoundWithin, EmitAllocated, InRanges
  <2>3. CASE Tok.lo # Target
    <3>1. /\ singles' = Append(singles, Tok.lo)
          /\ ranges' = ranges \cup {[lo |-> Tok.lo, hi |-> Tok.lo]}
      BY <1>4, <2>3 DEF SingleToken
    <3>2. ~Now(Target)
      BY <2>1, <2>3, <3>1 DEF IInv, RoundWithin, InRanges, contains, TypeOK, Port
    <3>3. \A port : InRanges(port) => Now(port)
      BY <3>1 DEF InRanges
    <3>4. Now(Tok.lo)
      <4>1. contains([lo |-> Tok.lo, hi |-> Tok.lo], Tok.lo)
        BY <2>1 DEF contains, Port
      <4> QED BY <3>1, <4>1
    <3>5. \A i \in 1..Len(singles') : Now(singles'[i])
      BY <2>1, <3>1, <3>3, <3>4 DEF IInv, RoundWithin, TypeOK
    <3>6. \A i \in 1..Len(matchers') : \A port \in Covers(matchers'[i]) : Now(port)
      BY <2>1, <3>3 DEF IInv, RoundWithin
    <3>7. RoundWithin' /\ EmitAllocated'
      BY <2>1, <3>2, <3>5, <3>6 DEF RoundWithin, EmitAllocated, InRanges
    <3> QED BY <2>1, <3>7, ResultKept DEF IInv
  <2> QED BY <2>2, <2>3
<1>5. CASE Flush
  <2> DEFINE made == [range |-> FALSE, args |-> SubSeq(singles, 1, ChunkSize)]
  <2>1. /\ UNCHANGED <<infos, n, pc, ranges, allocated, rules>>
        /\ matchers' = Append(matchers, made)
        /\ singles' = SubSeq(singles, ChunkSize + 1, Len(singles))
        /\ singles # <<>> /\ pc = "token"
    BY <1>5 DEF Flush, ChunkSize
  <2>3. \A i \in 1..Len(singles') : InRanges(singles'[i])
    <3>1. \A i \in 1..Len(singles') : \E j \in 1..Len(singles) : singles'[i] = singles[j]
      BY <2>1, ChunkPorts
    <3> QED BY <2>1, <3>1 DEF IInv, RoundWithin
  <2>4. \A port \in Covers(made) : InRanges(port)
    <3>1. Covers(made) = {made.args[i] : i \in 1..Len(made.args)}
      BY DEF Covers
    <3>2. \A i \in 1..Len(made.args) : \E j \in 1..Len(singles) : made.args[i] = singles[j]
      BY <2>1, ChunkPorts
    <3>3. \A j \in 1..Len(singles) : InRanges(singles[j])
      BY <2>1 DEF IInv, RoundWithin
    <3> HIDE DEF made
    <3> QED BY <3>1, <3>2, <3>3
  <2> HIDE DEF made
  <2>5. \A i \in 1..Len(matchers') : \A port \in Covers(matchers'[i]) : InRanges(port)
    BY <2>1, <2>4 DEF IInv, RoundWithin, TypeOK
  <2>6. RoundWithin' /\ EmitAllocated'
    BY <2>1, <2>3, <2>5 DEF IInv, RoundWithin, EmitAllocated, InRanges, Target
  <2> QED BY <2>1, <2>6, ResultKept DEF IInv
<1>6. CASE RangeToken
  <2> DEFINE parts == Parts(Tok.lo, Tok.hi, Target)
  <2>1. /\ UNCHANGED <<infos, n, pc, singles, allocated, rules>>
        /\ ranges' = ranges \cup {parts[i] : i \in 1..Len(parts)}
        /\ matchers' = matchers \o RangeMatchers(parts)
        /\ pc = "token" /\ singles = <<>> /\ Valid(Tok) /\ Target \in Port /\ Target' = Target
    BY <1>6 DEF RangeToken, AtToken, Target, TypeOK
  <2>2. /\ parts \in Seq([lo : Port, hi : Port])
        /\ \A i \in 1..Len(parts) : ~contains(parts[i], Target)
    BY <2>1, PartsWithin DEF Valid
  <2>3. \A i \in 1..Len(parts) : parts[i] \in [lo : Port, hi : Port]
    BY <2>2, ElementOfSeq, Zenon
  <2> HIDE DEF parts
  <2>4. ~Now(Target)
    BY <2>1, <2>2 DEF IInv, RoundWithin, InRanges
  <2>5. \A i \in 1..Len(matchers) : \A port \in Covers(matchers[i]) : Now(port)
    BY <2>1 DEF IInv, RoundWithin, InRanges
  <2>6. \A j \in 1..Len(parts) : \A port \in parts[j].lo..parts[j].hi : Now(port)
    <3> SUFFICES ASSUME NEW j \in 1..Len(parts), NEW port \in parts[j].lo..parts[j].hi
                 PROVE  Now(port)
      OBVIOUS
    <3>1. parts[j].lo \in Int /\ parts[j].hi \in Int
      BY <2>3, PortRulesAssumption DEF Port
    <3>2. contains(parts[j], port)
      BY <3>1 DEF contains
    <3> QED BY <2>1, <3>2
  <2>7. \A i \in 1..Len(matchers') :
            \/ i \in 1..Len(matchers) /\ matchers'[i] = matchers[i]
            \/ \E j \in 1..Len(parts) :
                  matchers'[i] = RangeMatcher(parts[j])
    <3>1. matchers \in Seq(Matcher)
      BY DEF TypeOK
    <3> QED BY <2>1, <2>2, <3>1, RangesAppended
  <2>8. \A j \in 1..Len(parts) : Covers(RangeMatcher(parts[j])) = parts[j].lo..parts[j].hi
    BY DEF Covers, RangeMatcher
  <2>9. \A i \in 1..Len(matchers') : \A port \in Covers(matchers'[i]) : Now(port)
    <3> HIDE DEF Now
    <3> QED BY <2>5, <2>6, <2>7, <2>8
  <2>10. \A i \in 1..Len(singles') : Now(singles'[i])
    BY <2>1
  <2>11. RoundWithin'
    BY <2>1, <2>4, <2>9, <2>10 DEF RoundWithin, InRanges
  <2>12. EmitAllocated'
    BY <2>1 DEF EmitAllocated
  <2> QED BY <2>1, <2>11, <2>12, ResultKept DEF IInv
<1>7. CASE Allocate
  <2> DEFINE Given(r) == [target |-> Target, lo |-> r.lo, hi |-> r.hi]
  <2>1. /\ UNCHANGED <<infos, n, ranges, singles, matchers, rules>>
        /\ allocated' = allocated \cup {Given(r) : r \in ranges}
        /\ ~findPortForwardTargetPortConflict /\ ~findPortForwardRangeConflict
        /\ pc = "token" /\ pc' = "emit" /\ Target' = Target
    BY <1>7 DEF Allocate, AtEnd, Target
  <2>2. AllocatedApart'
    <3> SUFFICES ASSUME NEW a \in allocated', NEW b \in allocated', a.target # b.target
                 PROVE  ~overlaps(a, b)
      BY DEF AllocatedApart
    <3>1. CASE a \in allocated /\ b \in allocated
      BY <3>1 DEF IInv, AllocatedApart
    <3>2. CASE a \notin allocated /\ b \notin allocated
      BY <2>1, <3>2
    <3>3. CASE a \in allocated /\ b \notin allocated
      <4>1. PICK r \in ranges : b = Given(r)
        BY <2>1, <3>3
      <4>2. ~overlaps(r, a)
        BY <2>1, <3>3, <4>1 DEF findPortForwardRangeConflict
      <4> QED BY <4>1, <4>2 DEF overlaps
    <3>4. CASE a \notin allocated /\ b \in allocated
      <4>1. PICK r \in ranges : a = Given(r)
        BY <2>1, <3>4
      <4>2. ~overlaps(r, b)
        BY <2>1, <3>4, <4>1 DEF findPortForwardRangeConflict
      <4> QED BY <4>1, <4>2 DEF overlaps
    <3> QED BY <3>1, <3>2, <3>3, <3>4
  <2>3. AllocatedFree'
    BY <2>1 DEF IInv, AllocatedFree, RoundWithin, InRanges, contains,
                findPortForwardTargetPortConflict, TargetPorts
  <2>4. RulesWithin'
    BY <2>1 DEF IInv, RulesWithin
  <2>5. RoundWithin'
    BY <2>1 DEF IInv, RoundWithin, InRanges
  <2>6. EmitAllocated'
    BY <2>1 DEF EmitAllocated
  <2> QED BY <2>2, <2>3, <2>4, <2>5, <2>6 DEF IInv
<1>8. CASE Emit
  <2> DEFINE rule == [matcher |-> matchers[t], target |-> Target]
  <2>1. /\ UNCHANGED <<infos, n, pc, singles, ranges, matchers, allocated>>
        /\ pc = "emit" /\ t \in 1..Len(matchers) /\ Target' = Target
        /\ rules' = rules \/ rules' = Append(rules, rule)
    BY <1>8 DEF Emit, Target, TypeOK
  <2>2. \A port \in Covers(rule.matcher) :
            \E a \in allocated : a.target = rule.target /\ contains(a, port)
    BY <2>1 DEF IInv, RoundWithin, EmitAllocated, InRanges, contains
  <2>3. RulesWithin'
    <3> HIDE DEF rule
    <3>1. CASE rules' = rules
      BY <2>1, <3>1 DEF IInv, RulesWithin
    <3>2. CASE rules' = Append(rules, rule)
      <4>1. \A i \in 1..Len(rules') :
               \/ i \in 1..Len(rules) /\ rules'[i] = rules[i]
               \/ rules'[i] = rule
        BY <3>2 DEF TypeOK
      <4> QED BY <2>1, <2>2, <4>1 DEF IInv, RulesWithin
    <3> QED BY <2>1, <3>1, <3>2
  <2>4. AllocatedApart' /\ AllocatedFree'
    BY <2>1 DEF IInv, AllocatedApart, AllocatedFree, TargetPorts
  <2>5. RoundWithin' /\ EmitAllocated'
    BY <2>1 DEF IInv, RoundWithin, EmitAllocated, InRanges
  <2> QED BY <2>3, <2>4, <2>5 DEF IInv
<1>9. CASE UNCHANGED vars
  BY <1>9, ResultKept DEF vars, round, IInv, RoundWithin, EmitAllocated, InRanges,
                          Target
<1> QED BY <1>2, <1>3, <1>4, <1>5, <1>6, <1>7, <1>8, <1>9 DEF Next

\* The variables of buildHysteriaPortForwardRules keep their types, for every
\* list of nodes.
THEOREM TypeCorrect == Spec => []TypeOK
BY TypeInit, TypeNext, PTL DEF Spec

\* The inductive invariant holds throughout.
LEMMA Invariance == Spec => []IInv
<1>1. TypeOK /\ IInv /\ [Next]_vars => (TypeOK /\ IInv)'
  BY TypeNext, IInvNext
<1> QED BY TypeInit, IInvInit, <1>1, PTL DEF Spec

\* No udp port is redirected to two nodes, for every list of nodes.
THEOREM Disjointness == Spec => []RulesDisjoint
<1>1. TypeOK /\ IInv => RulesDisjoint
  <2> SUFFICES ASSUME TypeOK, IInv, NEW i \in 1..Len(rules), NEW j \in 1..Len(rules),
                      rules[i].target # rules[j].target,
                      NEW port \in Covers(rules[i].matcher), port \in Covers(rules[j].matcher)
               PROVE  FALSE
    BY DEF RulesDisjoint
  <2>1. PICK a \in allocated : a.target = rules[i].target /\ contains(a, port)
    BY DEF IInv, RulesWithin
  <2>2. PICK b \in allocated : b.target = rules[j].target /\ contains(b, port)
    BY DEF IInv, RulesWithin
  <2>3. port \in Int
    <3>1. rules[i].matcher \in Matcher
      <4>1. rules \in Seq([matcher : Matcher, target : Port])
        BY DEF TypeOK
      <4>2. rules[i] \in [matcher : Matcher, target : Port]
        BY <4>1, ElementOfSeq, Zenon
      <4> QED BY <4>2
    <3> QED BY <3>1, CoversInt
  <2>4. a.lo \in Int /\ a.hi \in Int /\ b.lo \in Int /\ b.hi \in Int
    <3>1. allocated \subseteq [target : Port, lo : Port, hi : Port]
      BY DEF TypeOK
    <3>2. MaxPort \in Int
      BY PortRulesAssumption
    <3> QED BY <2>1, <2>2, <3>1, <3>2 DEF Port
  <2>5. overlaps(a, b)
    BY <2>1, <2>2, <2>3, <2>4, SharedPort
  <2> QED BY <2>1, <2>2, <2>5 DEF IInv, AllocatedApart
<1> QED BY <1>1, TypeCorrect, Invariance, PTL

\* No rule takes a HY2 node's own port away, for every list of nodes.
THEOREM PortsStayFree == Spec => []ServerPortsFree
<1>1. IInv => ServerPortsFree
  BY DEF IInv, RulesWithin, AllocatedFree, ServerPortsFree
<1> QED BY <1>1, Invariance, PTL

-----------------------------------------------------------------------------
(* RefusalsExact and RulesExact: what the round has scanned, what it was    *)
(* given and what it has emitted, port by port.                            *)

\* Node i lists the port, and it is not its own.
Wants(i, port) ==
    /\ port # infos[i].server_port
    /\ \E k \in 1..Len(External(i)) : contains(External(i)[k], port)

\* So do the tokens up to this one.
Scanned(port) ==
    port # Target /\ \E k \in 1..(t - 1) : contains(External(n)[k], port)

\* The port is allocated to the target; some rule sends it there.
Given(port, target) == \E a \in allocated : a.target = target /\ contains(a, port)
Sent(port, target)  ==
    \E i \in 1..Len(rules) : rules[i].target = target /\ port \in Covers(rules[i].matcher)

\* An accepted node up to this one wants the port for the target.
Due(port, target, upTo) ==
    \E i \in 1..upTo : Accepted(i) /\ infos[i].server_port = target /\ Wants(i, port)

\* The ranges of the round are those of the tokens so far.
ScanInv ==
    /\ errs \subseteq 1..(n - 1)
    /\ pc # "node" => Lists(n)
    /\ pc = "token" =>
          /\ t <= Len(External(n)) + 1
          /\ \A k \in 1..(t - 1) : Valid(External(n)[k])
          /\ \A port \in Port : InRanges(port) <=> Scanned(port)
    /\ pc = "emit" => /\ Fits(n)
                      /\ \A port \in Port : InRanges(port) <=> Wants(n, port)

\* They are not empty, and every port of them is in a matcher or waits for one.
CoverInv ==
    pc # "node" =>
        /\ \A r \in ranges : r.lo <= r.hi
        /\ \A port \in Port : InRanges(port) =>
              \/ \E i \in 1..Len(singles) : singles[i] = port
              \/ \E i \in 1..Len(matchers) : port \in Covers(matchers[i])
        /\ pc = "emit" => singles = <<>>

\* What is allocated is what the accepted nodes want.
AllocInv ==
    /\ \A a \in allocated : a.lo <= a.hi
    /\ \A port, target \in Port :
          Given(port, target) <=> Due(port, target, IF pc = "emit" THEN n ELSE n - 1)

\* What is allocated has a rule, or a matcher whose rule comes.
RuleInv ==
    /\ \A port, target \in Port : Given(port, target) =>
          \/ Sent(port, target)
          \/ /\ pc = "emit" /\ target = Target
             /\ \E k \in t..Len(matchers) : port \in Covers(matchers[k])
    /\ \A i, j \in 1..Len(rules) : rules[i] = rules[j] => i = j

ExactInv == ScanInv /\ CoverInv /\ AllocInv /\ RuleInv /\ RefusalsExact

\* addRange keeps every port of a range but the node's own.
LEMMA PartsCover ==
    ASSUME NEW lo \in Port, NEW hi \in Port, NEW port \in Port, lo <= hi
    PROVE  /\ \A i \in 1..Len(Parts(lo, hi, port)) :
                 Parts(lo, hi, port)[i].lo <= Parts(lo, hi, port)[i].hi
           /\ \A p \in Int : (\E i \in 1..Len(Parts(lo, hi, port)) :
                                 contains(Parts(lo, hi, port)[i], p))
                             <=> lo <= p /\ p <= hi /\ p # port
<1> USE PortRulesAssumption DEF Port
<1>1. CASE ~(lo <= port /\ port <= hi)
  <2>1. Parts(lo, hi, port) = <<[lo |-> lo, hi |-> hi]>>
    BY <1>1 DEF Parts
  <2> QED BY <1>1, <2>1 DEF contains
<1>2. CASE lo <= port /\ port <= hi
  <2>1. CASE lo <= port - 1 /\ port + 1 <= hi
    <3>1. PICK below, above : /\ below = [lo |-> lo, hi |-> port - 1]
                              /\ above = [lo |-> port + 1, hi |-> hi]
      OBVIOUS
    <3>2. Parts(lo, hi, port) = <<below>> \o <<above>>
      BY <1>2, <2>1, <3>1 DEF Parts
    <3>3. \A p \in Int : contains(below, p) \/ contains(above, p)
                         <=> lo <= p /\ p <= hi /\ p # port
      BY <1>2, <2>1, <3>1 DEF contains
    <3>4. PICK both : both = <<below>> \o <<above>>
      OBVIOUS
    <3>5. Len(both) = 2 /\ both[1] = below /\ both[2] = above
      BY <3>4
    <3>6. \A i : i \in 1..2 <=> i = 1 \/ i = 2
      OBVIOUS
    <3>7. below.lo <= below.hi /\ above.lo <= above.hi
      BY <2>1, <3>1
    <3> QED BY <3>2, <3>3, <3>4, <3>5, <3>6, <3>7
  <2>2. CASE lo <= port - 1 /\ ~(port + 1 <= hi)
    <3>1. Parts(lo, hi, port) = <<[lo |-> lo, hi |-> port - 1]>>
      BY <1>2, <2>2 DEF Parts
    <3> QED BY <1>2, <2>2, <3>1 DEF contains
  <2>3. CASE ~(lo <= port - 1) /\ port + 1 <= hi
    <3>1. Parts(lo, hi, port) = <<[lo |-> port + 1, hi |-> hi]>>
      BY <1>2, <2>3 DEF Parts
    <3> QED BY <1>2, <2>3, <3>1 DEF contains
  <2>4. CASE ~(lo <= port - 1) /\ ~(port + 1 <= hi)
    <3>1. Parts(lo, hi, port) = <<>>
      BY <1>2, <2>4 DEF Parts
    <3> QED BY <1>2, <2>4, <3>1
  <2> QED BY <2>1, <2>2, <2>3, <2>4
<1> QED BY <1>1, <1>2

\* Each part of the range gets a matcher, and the earlier matchers stay.
LEMMA RangesKept ==
    ASSUME NEW old \in Seq(Matcher), NEW parts \in Seq([lo : Port, hi : Port])
    PROVE  /\ \A i \in 1..Len(old) : /\ i \in 1..Len(old \o RangeMatchers(parts))
                                    /\ (old \o RangeMatchers(parts))[i] = old[i]
           /\ \A j \in 1..Len(parts) : \E i \in 1..Len(old \o RangeMatchers(parts)) :
                 (old \o RangeMatchers(parts))[i] = RangeMatcher(parts[j])
<1>0. PICK all : all = old \o RangeMatchers(parts)
  OBVIOUS
<1>1. Len(parts) \in Nat /\ Len(old) \in Nat
  OBVIOUS
<1>2. \A i \in 1..Len(parts) : parts[i] \in [lo : Port, hi : Port]
  BY ElementOfSeq, Zenon
<1>3. \A i \in 1..Len(parts) : RangeMatcher(parts[i]) \in Matcher
  <2>1. \A i \in 1..Len(parts) : <<parts[i].lo, parts[i].hi>> \in Seq(Port)
    BY <1>2
  <2> QED BY <2>1 DEF Matcher, RangeMatcher
<1>4. PICK made : made = RangeMatchers(parts)
  OBVIOUS
<1>5. made = [i \in 1..Len(parts) |-> RangeMatcher(parts[i])]
  BY <1>4 DEF RangeMatchers, RangeMatcher
<1>6. /\ made \in Seq(Matcher) /\ Len(made) = Len(parts)
      /\ \A i \in 1..Len(parts) : made[i] = RangeMatcher(parts[i])
  BY <1>1, <1>3, <1>5
<1>7. /\ Len(all) = Len(old) + Len(made)
      /\ \A i \in 1..(Len(old) + Len(made)) :
            all[i] = IF i <= Len(old) THEN old[i] ELSE made[i - Len(old)]
  <2>1. all = old \o made
    BY <1>0, <1>4
  <2>2. /\ Len(old \o made) = Len(old) + Len(made)
        /\ \A i \in 1..(Len(old) + Len(made)) :
              (old \o made)[i] = IF i <= Len(old) THEN old[i] ELSE made[i - Len(old)]
    BY <1>6, ConcatProperties
  <2> QED BY <2>1, <2>2
<1>8. \A i \in 1..Len(old) : i \in 1..Len(all) /\ all[i] = old[i]
  BY <1>1, <1>6, <1>7
<1>9. ASSUME NEW j \in 1..Len(parts)
      PROVE  \E i \in 1..Len(all) : all[i] = RangeMatcher(parts[j])
  <2>1. Len(old) + j \in 1..Len(all) /\ all[Len(old) + j] = made[j]
    <3>1. Len(old) + j \in 1..(Len(old) + Len(made)) /\ ~(Len(old) + j <= Len(old))
          /\ (Len(old) + j) - Len(old) = j
      BY <1>1, <1>6
    <3> QED BY <1>7, <3>1
  <2> QED BY <1>6, <2>1
<1> QED BY <1>0, <1>8, <1>9

\* flushSingles forgets no port: it is in the chunk or in the rest.
LEMMA ChunkKeeps ==
    ASSUME TypeOK, singles # <<>>, NEW j \in 1..Len(singles)
    PROVE  \/ \E i \in 1..Len(SubSeq(singles, 1, ChunkSize)) :
                 SubSeq(singles, 1, ChunkSize)[i] = singles[j]
           \/ \E i \in 1..Len(SubSeq(singles, ChunkSize + 1, Len(singles))) :
                 SubSeq(singles, ChunkSize + 1, Len(singles))[i] = singles[j]
<1>1. singles \in Seq(Port) /\ ChunkSize \in 1..Len(singles) /\ Len(singles) \in Nat
  BY ChunkFits DEF TypeOK
<1>2. /\ Len(SubSeq(singles, 1, ChunkSize)) = ChunkSize
      /\ \A i \in 1..ChunkSize : SubSeq(singles, 1, ChunkSize)[i] = singles[i]
  BY <1>1, Cut
<1>3. /\ Len(SubSeq(singles, ChunkSize + 1, Len(singles))) = Len(singles) - ChunkSize
      /\ \A i \in 1..(Len(singles) - ChunkSize) :
            SubSeq(singles, ChunkSize + 1, Len(singles))[i] = singles[ChunkSize + i]
  BY <1>1, Cut
<1> HIDE DEF ChunkSize
<1>4. CASE j <= ChunkSize
  <2>1. j \in 1..ChunkSize
    BY <1>1, <1>4
  <2> QED BY <1>2, <2>1
<1>5. CASE ~(j <= ChunkSize)
  <2>1. j - ChunkSize \in 1..(Len(singles) - ChunkSize) /\ ChunkSize + (j - ChunkSize) = j
    BY <1>1, <1>5
  <2> QED BY <1>3, <2>1
<1> QED BY <1>4, <1>5

\* What is said of the nodes alone does not change with the round.
LEMMA NodesKept ==
    ASSUME UNCHANGED infos
    PROVE  /\ \A i : External(i)' = External(i) /\ Wanted(i)' = Wanted(i)
           /\ \A i : Lists(i)' <=> Lists(i)
           /\ \A i, p : Wants(i, p)' <=> Wants(i, p)
           /\ TargetPorts' = TargetPorts
<1>1. \A i : External(i)' = External(i)
  BY DEF External
<1>2. TargetPorts' = TargetPorts
  BY DEF TargetPorts
<1>3. \A i : Wanted(i)' = Wanted(i)
  BY DEF Wanted, External
<1>4. \A i : Lists(i)' <=> Lists(i)
  BY DEF Lists, External
<1>5. \A i, p : Wants(i, p)' <=> Wants(i, p)
  BY DEF Wants, External, contains
<1> QED BY <1>1, <1>2, <1>3, <1>4, <1>5

\* A node and its tokens have their types.
LEMMA NodeTypes ==
    ASSUME TypeOK, NEW i \in 1..Len(infos)
    PROVE  /\ infos[i].server_port \in Int /\ External(i) \in Seq(Token)
           /\ Len(External(i)) \in Nat
           /\ \A k \in 1..Len(External(i)) : External(i)[k].lo \in Int /\ External(i)[k].hi \in Int
<1>1. infos[i] \in Info
  BY DEF TypeOK
<1>2. External(i) \in Seq(Token)
  BY <1>1 DEF External, Info
<1>3. \A k \in 1..Len(External(i)) : External(i)[k] \in Token
  BY <1>2
<1> QED BY <1>1, <1>2, <1>3, PortRulesAssumption DEF Info

\* Wanted, port by port.
LEMMA WantedPorts ==
    ASSUME TypeOK, NEW i \in 1..Len(infos)
    PROVE  \A p : p \in Wanted(i) <=> p \in Int /\ Wants(i, p)
<1>1. \A k \in 1..Len(External(i)) : External(i)[k].lo \in Int /\ External(i)[k].hi \in Int
  BY NodeTypes
<1>2. \A k \in 1..Len(External(i)) : \A p :
         p \in External(i)[k].lo..External(i)[k].hi <=> p \in Int /\ contains(External(i)[k], p)
  BY <1>1 DEF contains
<1>3. \A p : p \in Wanted(i) <=>
         /\ p # infos[i].server_port
         /\ \E k \in 1..Len(External(i)) : p \in External(i)[k].lo..External(i)[k].hi
  <2>1. PICK S : S = {External(i)[k].lo..External(i)[k].hi : k \in 1..Len(External(i))}
    OBVIOUS
  <2>2. \A x : x \in S <=> \E k \in 1..Len(External(i)) : x = External(i)[k].lo..External(i)[k].hi
    BY <2>1, Zenon
  <2>3. Wanted(i) = (UNION S) \ {infos[i].server_port}
    BY <2>1 DEF Wanted
  <2>4. \A p : p \in UNION S <=> \E x \in S : p \in x
    BY Zenon
  <2>5. \A p : p \in Wanted(i) <=> p # infos[i].server_port /\ p \in UNION S
    BY <2>3
  <2>6. \A p : p \in UNION S <=>
           \E k \in 1..Len(External(i)) : p \in External(i)[k].lo..External(i)[k].hi
    BY <2>2, <2>4
  <2> QED BY <2>5, <2>6
<1> QED BY <1>2, <1>3, Zenon DEF Wants

\* A node whose tokens are valid wants ports.
LEMMA ValidPorts ==
    ASSUME TypeOK, NEW i \in 1..Len(infos), \A k \in 1..Len(External(i)) : Valid(External(i)[k]),
           NEW p \in Int, Wants(i, p)
    PROVE  p \in Port
<1>1. PICK k \in 1..Len(External(i)) : contains(External(i)[k], p)
  BY DEF Wants
<1>2. External(i)[k].lo \in Port /\ External(i)[k].hi \in Port
  BY <1>1 DEF Valid
<1> QED BY <1>1, <1>2, PortRulesAssumption DEF contains, Port

-----------------------------------------------------------------------------
(* ExactInv, step by step.                                                 *)

\* Overlapping ranges share a port.
LEMMA OverlapShares ==
    ASSUME NEW r, NEW s, r.lo \in Port, r.hi \in Port, s.lo \in Port, s.hi \in Port,
           r.lo <= r.hi, s.lo <= s.hi, overlaps(r, s)
    PROVE  \E p \in Port : contains(r, p) /\ contains(s, p)
<1> USE PortRulesAssumption DEF Port, contains, overlaps
<1>1. CASE r.lo <= s.lo
  <2>1. contains(r, s.lo) /\ contains(s, s.lo)
    BY <1>1
  <2> QED BY <2>1
<1>2. CASE ~(r.lo <= s.lo)
  <2>1. contains(r, r.lo) /\ contains(s, r.lo)
    BY <1>2
  <2> QED BY <2>1
<1> QED BY <1>1, <1>2

\* Whether a node before this one is accepted, or fits, does not change any more.
LEMMA PastKept ==
    ASSUME TypeOK, UNCHANGED infos, errs' \in {errs, errs \cup {n}}
    PROVE  /\ \A i \in 1..(n - 1) : Accepted(i)' <=> Accepted(i)
           /\ \A i \in 1..n : Fits(i)' <=> Fits(i)
           /\ \A k \in 0..(n - 1) : \A p, g : Due(p, g, k)' <=> Due(p, g, k)
<1>n. n \in Nat \ {0}
  BY DEF TypeOK
<1>1. \A i \in 1..(n - 1) : i \in errs' <=> i \in errs
  BY <1>n
<1>2. \A i \in 1..(n - 1) : Accepted(i)' <=> Accepted(i)
  BY <1>1, NodesKept DEF Accepted
<1>3. ASSUME NEW i \in 1..n
      PROVE  Fits(i)' <=> Fits(i)
  <2>1. /\ External(i)' = External(i) /\ TargetPorts' = TargetPorts
        /\ \A j : Wanted(j)' = Wanted(j)
    BY NodesKept
  <2>2. \A j \in 1..(i - 1) : j \in 1..(n - 1)
    BY <1>n
  <2>3. \A j \in 1..(i - 1) : Accepted(j)' <=> Accepted(j)
    BY <1>2, <2>2
  <2> QED BY <2>1, <2>3 DEF Fits, Valid
<1>4. ASSUME NEW k \in 0..(n - 1), NEW p, NEW g
      PROVE  Due(p, g, k)' <=> Due(p, g, k)
  <2>1. \A i \in 1..k : i \in 1..(n - 1)
    BY <1>n
  <2> QED BY <1>2, <2>1, NodesKept DEF Due
<1> QED BY <1>2, <1>3, <1>4

\* The round ends: the builder goes on to the next node.  A node that was not given
\* its ports is refused or lists none.
LEMMA RoundEnds ==
    ASSUME TypeOK, ExactInv, NextNode, n <= Len(infos),
           UNCHANGED <<infos, allocated, rules>>, errs' \in {errs, errs \cup {n}},
           pc # "emit" => ~Lists(n) \/ n \in errs',
           pc = "emit" => t > Len(matchers) /\ errs' = errs,
           Lists(n) => (n \notin errs' <=> Fits(n))
    PROVE  ExactInv'
<1>n. PICK m \in Nat \ {0} : m = n /\ n' = m + 1 /\ pc' = "node" /\ n' - 1 = m
  BY DEF TypeOK, NextNode
<1>m. m - 1 \in 0..(n - 1) /\ \A i : i \in 1..m <=> i \in 1..(m - 1) \/ i = m
  BY <1>n
<1>1. ScanInv' /\ CoverInv'
  <2>1. errs' \subseteq 1..(n' - 1)
    BY <1>n DEF ExactInv, ScanInv
  <2> QED BY <1>n, <2>1 DEF ScanInv, CoverInv
<1>2. AllocInv'
  <2>1. ASSUME NEW p \in Port, NEW g \in Port
        PROVE  Given(p, g)' <=> Due(p, g, m)'
    <3>1. Given(p, g)' <=> Given(p, g)
      BY DEF Given
    <3>2. CASE pc = "emit"
      <4>1. Given(p, g) <=> Due(p, g, m)
        BY <1>n, <3>2 DEF ExactInv, AllocInv
      <4>2. \A i : Accepted(i)' <=> Accepted(i)
        BY <3>2, NodesKept DEF Accepted
      <4>3. Due(p, g, m)' <=> Due(p, g, m)
        BY <4>2, NodesKept DEF Due
      <4> QED BY <3>1, <4>1, <4>3
    <3>3. CASE pc # "emit"
      <4>1. Given(p, g) <=> Due(p, g, m - 1)
        BY <1>n, <3>3 DEF ExactInv, AllocInv
      <4>2. Due(p, g, m - 1)' <=> Due(p, g, m - 1)
        BY <1>m, PastKept
      <4>3. ~Accepted(m)'
        BY <1>n, <3>3, NodesKept DEF Accepted
      <4>4. Due(p, g, m)' <=> Due(p, g, m - 1)'
        BY <1>m, <4>3 DEF Due
      <4> QED BY <3>1, <4>1, <4>2, <4>4
    <3> QED BY <3>2, <3>3
  <2>2. \A a \in allocated' : a.lo <= a.hi
    BY DEF ExactInv, AllocInv
  <2> QED BY <1>n, <2>1, <2>2 DEF AllocInv
<1>3. RuleInv'
  <2>1. ASSUME NEW p \in Port, NEW g \in Port, Given(p, g)
        PROVE  Sent(p, g)
    <3>1. \/ Sent(p, g)
          \/ pc = "emit" /\ \E k \in t..Len(matchers) : TRUE
      BY <2>1 DEF ExactInv, RuleInv
    <3>2. t \in Nat /\ Len(matchers) \in Nat
      BY DEF TypeOK
    <3> QED BY <3>1, <3>2
  <2>2. \A p \in Port, g \in Port : Given(p, g)' => Sent(p, g)'
    BY <2>1 DEF Given, Sent
  <2>3. \A i, j \in 1..Len(rules') : rules'[i] = rules'[j] => i = j
    BY DEF ExactInv, RuleInv
  <2> QED BY <2>2, <2>3 DEF RuleInv
<1>4. RefusalsExact'
  <2>1. ASSUME NEW i \in 1..m, Lists(i)
        PROVE  i \notin errs' <=> Fits(i)'
    <3>0. Fits(i)' <=> Fits(i)
      BY <1>n, PastKept
    <3>1. CASE i = m
      BY <1>n, <2>1, <3>0, <3>1
    <3>2. CASE i # m
      <4>1. i \in 1..(n - 1) /\ i # n
        BY <1>n, <3>2
      <4>2. i \notin errs <=> Fits(i)
        BY <2>1, <4>1 DEF ExactInv, RefusalsExact
      <4> QED BY <3>0, <4>1, <4>2
    <3> QED BY <3>1, <3>2
  <2> QED BY <1>n, <2>1, NodesKept DEF RefusalsExact
<1> QED BY <1>1, <1>2, <1>3, <1>4 DEF ExactInv

\* A step within the tokens of a node leaves the result alone.
LEMMA ResultExact ==
    ASSUME ExactInv, UNCHANGED <<infos, n, allocated, rules, errs>>, pc # "emit", pc' # "emit"
    PROVE  AllocInv' /\ RuleInv' /\ RefusalsExact'
<1>1. \A i : Accepted(i)' <=> Accepted(i)
  BY NodesKept DEF Accepted
<1>2. \A p, g : (Given(p, g)' <=> Given(p, g)) /\ (Sent(p, g)' <=> Sent(p, g))
  BY DEF Given, Sent
<1>3. \A p, g, k : Due(p, g, k)' <=> Due(p, g, k)
  BY <1>1, NodesKept DEF Due
<1>4. \A i : Fits(i)' <=> Fits(i)
  BY <1>1, NodesKept DEF Fits, Valid
<1>5. AllocInv'
  <2>1. PICK m : m = n - 1 /\ n' - 1 = m
    OBVIOUS
  <2>2. \A p, g \in Port : Given(p, g)' <=> Due(p, g, m)'
    BY <1>2, <1>3, <2>1 DEF ExactInv, AllocInv
  <2> QED BY <2>1, <2>2 DEF ExactInv, AllocInv
<1>6. RuleInv'
  BY <1>2 DEF ExactInv, RuleInv
<1>7. RefusalsExact'
  BY <1>4, NodesKept DEF ExactInv, RefusalsExact
<1> QED BY <1>5, <1>6, <1>7

\* The node is refused, or passed over, or has its rules.
LEMMA ExactEnds ==
    ASSUME TypeOK, ExactInv,
           SkipNode \/ BadServerPort \/ BadToken \/ Conflict \/ EmitDone
    PROVE  ExactInv'
<1>n. n \in Nat \ {0} /\ (pc # "node" => n <= Len(infos) /\ Target \in Port)
  BY DEF TypeOK
<1>1. CASE SkipNode
  <2>1. /\ NextNode /\ n <= Len(infos) /\ UNCHANGED <<infos, allocated, rules, errs>>
        /\ pc = "node" /\ ~Lists(n)
    BY <1>1 DEF SkipNode, AtNode, Lists
  <2> QED BY <2>1, RoundEnds
<1>2. ASSUME Refuse, pc # "emit", n <= Len(infos), ~Fits(n)
      PROVE  ExactInv'
  <2>1. NextNode /\ UNCHANGED <<infos, allocated, rules>> /\ errs' = errs \cup {n}
    BY <1>2 DEF Refuse
  <2> QED BY <1>2, <2>1, RoundEnds
<1>3. CASE BadServerPort
  <2>1. Refuse /\ pc = "node" /\ n <= Len(infos) /\ ~Fits(n)
    BY <1>3 DEF BadServerPort, AtNode, Fits, Target
  <2> QED BY <1>2, <2>1
<1>4. CASE BadToken
  <2>1. Refuse /\ pc = "token" /\ t <= Len(External(n)) /\ ~Valid(External(n)[t])
    BY <1>4 DEF BadToken, AtToken, Tok
  <2>2. t \in 1..Len(External(n))
    <3>1. t \in Nat \ {0} /\ Len(External(n)) \in Nat
      BY <1>n, <2>1, NodeTypes DEF TypeOK
    <3> QED BY <2>1, <3>1
  <2>3. ~Fits(n)
    BY <2>1, <2>2 DEF Fits
  <2> QED BY <1>2, <1>n, <2>1, <2>3
<1>5. CASE Conflict
  <2>1. /\ Refuse /\ pc = "token" /\ t > Len(External(n)) /\ n \in 1..Len(infos)
        /\ findPortForwardTargetPortConflict \/ findPortForwardRangeConflict
    BY <1>5, <1>n DEF Conflict, AtEnd
  <2>2. \A p \in Port : InRanges(p) => p \in Wanted(n)
    <3> SUFFICES ASSUME NEW p \in Port, InRanges(p) PROVE p \in Wanted(n)
      OBVIOUS
    <3>1. Scanned(p) /\ t <= Len(External(n)) + 1
      BY <2>1 DEF ExactInv, ScanInv
    <3>2. t \in Nat /\ Len(External(n)) \in Nat
      BY <2>1, NodeTypes DEF TypeOK
    <3>3. t - 1 = Len(External(n))
      BY <2>1, <3>1, <3>2
    <3>4. Wants(n, p)
      BY <3>1, <3>3 DEF Scanned, Wants, Target
    <3>5. p \in Int
      BY PortRulesAssumption DEF Port
    <3> QED BY <2>1, <3>4, <3>5, WantedPorts
  <2>3. CASE findPortForwardTargetPortConflict
    <3>1. PICK p \in TargetPorts \ {Target} : InRanges(p)
      BY <2>3 DEF findPortForwardTargetPortConflict, InRanges
    <3>2. p \in Port
      BY <3>1 DEF TargetPorts
    <3>3. p \in Wanted(n) /\ p \in TargetPorts \ {infos[n].server_port}
      BY <2>2, <3>1, <3>2 DEF Target
    <3>4. ~Fits(n)
      BY <3>3 DEF Fits
    <3> QED BY <1>2, <2>1, <3>4
  <2>4. CASE findPortForwardRangeConflict
    <3>1. PICK r \in ranges, a \in allocated : a.target # Target /\ overlaps(r, a)
      BY <2>4 DEF findPortForwardRangeConflict
    <3>2. /\ r.lo \in Port /\ r.hi \in Port /\ a.lo \in Port /\ a.hi \in Port
          /\ a.target \in Port
      BY <3>1 DEF TypeOK
    <3>3. r.lo <= r.hi /\ a.lo <= a.hi
      BY <2>1, <3>1 DEF ExactInv, CoverInv, AllocInv
    <3>4. PICK p \in Port : contains(r, p) /\ contains(a, p)
      BY <3>1, <3>2, <3>3, OverlapShares
    <3>5. p \in Wanted(n)
      BY <2>2, <3>1, <3>4 DEF InRanges
    <3>6. Due(p, a.target, n - 1)
      BY <2>1, <3>1, <3>2, <3>4 DEF ExactInv, AllocInv, Given
    <3>7. PICK j \in 1..(n - 1) :
             Accepted(j) /\ infos[j].server_port = a.target /\ Wants(j, p)
      BY <3>6 DEF Due
    <3>8. p \in Wanted(j)
      <4>1. j \in 1..Len(infos) /\ p \in Int
        BY <1>n, <2>1, PortRulesAssumption DEF Port, TypeOK
      <4> QED BY <3>7, <4>1, WantedPorts
    <3>9. infos[j].server_port # infos[n].server_port
      BY <3>1, <3>7 DEF Target
    <3>10. ~(Wanted(n) \cap Wanted(j) = {})
      BY <3>5, <3>8
    <3>11. ~Fits(n)
      BY <3>7, <3>9, <3>10 DEF Fits
    <3> QED BY <1>2, <2>1, <3>11
  <2> QED BY <2>1, <2>3, <2>4
<1>6. CASE EmitDone
  <2>1. /\ NextNode /\ UNCHANGED <<infos, allocated, rules, errs>> /\ pc = "emit"
        /\ t > Len(matchers) /\ n <= Len(infos)
    BY <1>6, <1>n DEF EmitDone
  <2>2. Fits(n) /\ n \notin errs
    BY <1>n, <2>1 DEF ExactInv, ScanInv
  <2> QED BY <2>1, <2>2, RoundEnds
<1> QED BY <1>1, <1>3, <1>4, <1>5, <1>6

\* A token more has been scanned.
LEMMA TokenScanned ==
    ASSUME TypeOK, ExactInv, AtToken, Valid(Tok), t' = t + 1, UNCHANGED <<infos, n, pc, errs>>,
           \A p \in Port : InRanges(p)' <=> InRanges(p) \/ (p # Target /\ contains(Tok, p))
    PROVE  ScanInv'
<1>1. /\ pc = "token" /\ t <= Len(External(n)) /\ t \in Nat \ {0} /\ n \in 1..Len(infos)
      /\ Len(External(n)) \in Nat
  <2>1. pc = "token" /\ t <= Len(External(n)) /\ t \in Nat \ {0} /\ n \in 1..Len(infos)
    BY DEF AtToken, TypeOK
  <2> QED BY <2>1, NodeTypes
<1>2. External(n)' = External(n) /\ Target' = Target /\ (Lists(n)' <=> Lists(n))
  BY DEF External, Target, Lists
<1>3. \A k : k \in 1..(t' - 1) <=> k \in 1..(t - 1) \/ k = t
  BY <1>1
<1>4. \A k \in 1..(t' - 1) : Valid(External(n)[k])
  BY <1>1, <1>3 DEF ExactInv, ScanInv, Tok
<1>5. \A p : Scanned(p)' <=> Scanned(p) \/ (p # Target /\ contains(Tok, p))
  BY <1>2, <1>3 DEF Scanned, Tok, contains
<1>6. \A p \in Port : InRanges(p)' <=> Scanned(p)'
  BY <1>1, <1>5 DEF ExactInv, ScanInv
<1>7. errs' \subseteq 1..(n' - 1) /\ Lists(n)' /\ t' <= Len(External(n)') + 1
  BY <1>1, <1>2 DEF ExactInv, ScanInv
<1>8. \A k \in 1..(t' - 1) : Valid(External(n)[k])'
  BY <1>2, <1>4 DEF Valid
<1> QED BY <1>1, <1>6, <1>7, <1>8 DEF ScanInv

\* A round begins with nothing.
LEMMA ExactBegin ==
    ASSUME TypeOK, ExactInv, BeginNode
    PROVE  ExactInv'
<1>1. /\ UNCHANGED <<infos, n, allocated, rules, errs>> /\ pc = "node" /\ pc' = "token"
      /\ t' = 1 /\ ranges' = {} /\ Lists(n) /\ n \in 1..Len(infos)
  BY DEF BeginNode, AtNode, Lists, TypeOK
<1>2. \A p : ~InRanges(p)' /\ ~Scanned(p)'
  BY <1>1 DEF InRanges, Scanned
<1>3. ScanInv'
  <2>1. Lists(n)' /\ External(n)' = External(n) /\ Len(External(n)) \in Nat
    BY <1>1, NodeTypes DEF Lists, External
  <2>2. errs' \subseteq 1..(n' - 1) /\ t' <= Len(External(n)') + 1
    BY <1>1, <2>1 DEF ExactInv, ScanInv
  <2>3. \A k \in 1..(t' - 1) : FALSE
    BY <1>1
  <2> QED BY <1>1, <1>2, <2>1, <2>2, <2>3 DEF ScanInv
<1>4. CoverInv'
  BY <1>1, <1>2 DEF CoverInv
<1> QED BY <1>1, <1>3, <1>4, ResultExact DEF ExactInv

\* addSingle
LEMMA ExactSingle ==
    ASSUME TypeOK, ExactInv, SingleToken
    PROVE  ExactInv'
<1>1. /\ UNCHANGED <<infos, n, pc, matchers, allocated, rules, errs>> /\ pc = "token"
      /\ AtToken /\ Valid(Tok) /\ Tok.lo = Tok.hi /\ Tok.lo \in Port /\ t' = t + 1
  BY DEF SingleToken, AtToken, Valid
<1>2. \A p \in Port : contains(Tok, p) <=> p = Tok.lo
  BY <1>1, PortRulesAssumption DEF contains, Port
<1>3. CASE Tok.lo = Target
  <2>1. UNCHANGED <<singles, ranges>>
    BY <1>3 DEF SingleToken
  <2>2. \A p : InRanges(p)' <=> InRanges(p)
    BY <2>1 DEF InRanges
  <2>3. ScanInv'
    BY <1>1, <1>2, <1>3, <2>2, TokenScanned
  <2>4. CoverInv'
    BY <1>1, <2>1, <2>2 DEF ExactInv, CoverInv
  <2> QED BY <1>1, <2>3, <2>4, ResultExact DEF ExactInv
<1>4. CASE Tok.lo # Target
  <2>1. PICK r : r = [lo |-> Tok.lo, hi |-> Tok.lo]
    OBVIOUS
  <2>2. singles' = Append(singles, Tok.lo) /\ ranges' = ranges \cup {r}
    BY <1>4, <2>1 DEF SingleToken
  <2>3. r.lo <= r.hi /\ \A p \in Port : contains(r, p) <=> p = Tok.lo
    BY <1>1, <2>1, PortRulesAssumption DEF contains, Port
  <2>4. \A p \in Port : InRanges(p)' <=> InRanges(p) \/ p = Tok.lo
    BY <2>2, <2>3 DEF InRanges
  <2>5. ScanInv'
    <3>1. \A p \in Port : p = Tok.lo <=> p # Target /\ contains(Tok, p)
      BY <1>2, <1>4
    <3> QED BY <1>1, <2>4, <3>1, TokenScanned
  <2>6. /\ \A i \in 1..Len(singles) : i \in 1..Len(singles') /\ singles'[i] = singles[i]
        /\ \E i \in 1..Len(singles') : singles'[i] = Tok.lo
    <3>1. /\ Len(singles') = Len(singles) + 1 /\ Len(singles) \in Nat
          /\ singles'[Len(singles) + 1] = Tok.lo
          /\ \A i \in 1..Len(singles) : singles'[i] = singles[i]
      BY <2>2 DEF TypeOK
    <3>2. Len(singles) + 1 \in 1..Len(singles')
      BY <3>1
    <3> QED BY <3>1, <3>2
  <2>7. CoverInv'
    <3>1. \A q \in ranges' : q.lo <= q.hi
      BY <1>1, <2>2, <2>3 DEF ExactInv, CoverInv
    <3>2. ASSUME NEW p \in Port, InRanges(p)'
          PROVE  \/ \E i \in 1..Len(singles') : singles'[i] = p
                 \/ \E i \in 1..Len(matchers') : p \in Covers(matchers'[i])
      <4>1. CASE p = Tok.lo
        BY <2>6, <4>1
      <4>2. CASE InRanges(p)
        <5>1. \/ \E i \in 1..Len(singles) : singles[i] = p
              \/ \E i \in 1..Len(matchers) : p \in Covers(matchers[i])
          BY <1>1, <4>2 DEF ExactInv, CoverInv
        <5> QED BY <1>1, <2>6, <5>1
      <4> QED BY <2>4, <3>2, <4>1, <4>2
    <3> QED BY <1>1, <3>1, <3>2 DEF CoverInv, Covers
  <2> QED BY <1>1, <2>5, <2>7, ResultExact DEF ExactInv
<1> QED BY <1>3, <1>4

\* addRange
LEMMA ExactRange ==
    ASSUME TypeOK, ExactInv, RangeToken
    PROVE  ExactInv'
<1>1. PICK parts : parts = Parts(Tok.lo, Tok.hi, Target)
  OBVIOUS
<1>2. /\ UNCHANGED <<infos, n, pc, singles, allocated, rules, errs>>
      /\ ranges' = ranges \cup {parts[i] : i \in 1..Len(parts)}
      /\ matchers' = matchers \o RangeMatchers(parts)
      /\ pc = "token" /\ AtToken /\ singles = <<>> /\ Valid(Tok) /\ t' = t + 1
  BY <1>1 DEF RangeToken, AtToken
<1>3. /\ Tok.lo \in Port /\ Tok.hi \in Port /\ Tok.lo <= Tok.hi /\ Target \in Port
  BY <1>2 DEF Valid, TypeOK
<1>4. parts \in Seq([lo : Port, hi : Port])
  BY <1>1, <1>3, PartsWithin
<1>5. /\ \A i \in 1..Len(parts) : parts[i].lo <= parts[i].hi
      /\ \A p \in Int : (\E i \in 1..Len(parts) : contains(parts[i], p))
                        <=> Tok.lo <= p /\ p <= Tok.hi /\ p # Target
  BY <1>1, <1>3, PartsCover
<1>6. \A p \in Port : InRanges(p)' <=>
         InRanges(p) \/ \E i \in 1..Len(parts) : contains(parts[i], p)
  BY <1>2 DEF InRanges
<1>7. \A p \in Port : InRanges(p)' <=> InRanges(p) \/ (p # Target /\ contains(Tok, p))
  <2>1. \A p \in Port : p \in Int
    BY PortRulesAssumption DEF Port
  <2> QED BY <1>5, <1>6, <2>1 DEF contains
<1>8. ScanInv'
  BY <1>2, <1>7, TokenScanned
<1>9. /\ \A i \in 1..Len(matchers) : i \in 1..Len(matchers') /\ matchers'[i] = matchers[i]
      /\ \A j \in 1..Len(parts) : \E i \in 1..Len(matchers') : matchers'[i] = RangeMatcher(parts[j])
  <2>1. matchers \in Seq(Matcher)
    BY DEF TypeOK
  <2> QED BY <1>2, <1>4, <2>1, RangesKept
<1>10. CoverInv'
  <2>1. \A q \in ranges' : q.lo <= q.hi
    BY <1>2, <1>5 DEF ExactInv, CoverInv
  <2>2. ASSUME NEW p \in Port, InRanges(p)'
        PROVE  \E i \in 1..Len(matchers') : p \in Covers(matchers'[i])
    <3>1. CASE InRanges(p)
      <4>1. \E i \in 1..Len(matchers) : p \in Covers(matchers[i])
        BY <1>2, <3>1 DEF ExactInv, CoverInv
      <4> QED BY <1>9, <4>1
    <3>2. CASE ~InRanges(p)
      <4>1. PICK j \in 1..Len(parts) : contains(parts[j], p)
        BY <1>6, <2>2, <3>2
      <4>2. parts[j].lo \in Int /\ parts[j].hi \in Int /\ p \in Int
        <5>1. parts[j] \in [lo : Port, hi : Port]
          BY <1>4, ElementOfSeq, Zenon
        <5> QED BY <5>1, PortRulesAssumption DEF Port
      <4>3. p \in Covers(RangeMatcher(parts[j]))
        BY <4>1, <4>2 DEF Covers, RangeMatcher, contains
      <4> QED BY <1>9, <4>3
    <3> QED BY <3>1, <3>2
  <2> QED BY <1>2, <2>1, <2>2 DEF CoverInv, Covers
<1> QED BY <1>2, <1>8, <1>10, ResultExact DEF ExactInv

\* flushSingles
LEMMA ExactFlush ==
    ASSUME TypeOK, ExactInv, Flush
    PROVE  ExactInv'
<1>1. PICK chunk : chunk = SubSeq(singles, 1, ChunkSize)
  OBVIOUS
<1>2. PICK made : made = [range |-> FALSE, args |-> chunk]
  OBVIOUS
<1>3. /\ UNCHANGED <<infos, n, pc, t, ranges, allocated, rules, errs>>
      /\ matchers' = Append(matchers, made)
      /\ singles' = SubSeq(singles, ChunkSize + 1, Len(singles))
      /\ singles # <<>> /\ pc = "token"
  BY <1>1, <1>2 DEF Flush, ChunkSize
<1>4. \A p : (InRanges(p)' <=> InRanges(p)) /\ (Scanned(p)' <=> Scanned(p))
  BY <1>3 DEF InRanges, Scanned, Target, External, contains
<1>5. ScanInv'
  <2>1. External(n)' = External(n) /\ (Lists(n)' <=> Lists(n))
    BY <1>3 DEF External, Lists
  <2> QED BY <1>3, <1>4, <2>1 DEF ExactInv, ScanInv, Valid
<1>6. Covers(made) = {chunk[i] : i \in 1..Len(chunk)}
  BY <1>2 DEF Covers
<1>7. /\ \A i \in 1..Len(matchers) : i \in 1..Len(matchers') /\ matchers'[i] = matchers[i]
      /\ \E i \in 1..Len(matchers') : matchers'[i] = made
  <2>0. made \in Matcher
    <3>1. chunk \in Seq(Port)
      BY <1>1, <1>3, ChunkPorts
    <3> QED BY <1>2, <3>1 DEF Matcher
  <2>1. /\ Len(matchers') = Len(matchers) + 1 /\ Len(matchers) \in Nat
        /\ matchers'[Len(matchers) + 1] = made
        /\ \A i \in 1..Len(matchers) : matchers'[i] = matchers[i]
    BY <1>3, <2>0 DEF TypeOK
  <2>2. Len(matchers) + 1 \in 1..Len(matchers')
    BY <2>1
  <2> QED BY <2>1, <2>2
<1>8. CoverInv'
  <2>1. ASSUME NEW p \in Port, InRanges(p)
        PROVE  \/ \E i \in 1..Len(singles') : singles'[i] = p
               \/ \E i \in 1..Len(matchers') : p \in Covers(matchers'[i])
    <3>1. CASE \E i \in 1..Len(matchers) : p \in Covers(matchers[i])
      BY <1>7, <3>1
    <3>2. CASE \E i \in 1..Len(singles) : singles[i] = p
      <4>1. PICK j \in 1..Len(singles) : singles[j] = p
        BY <3>2
      <4>2. \/ \E i \in 1..Len(chunk) : chunk[i] = p
            \/ \E i \in 1..Len(singles') : singles'[i] = p
        BY <1>1, <1>3, <4>1, ChunkKeeps
      <4>3. (\E i \in 1..Len(chunk) : chunk[i] = p) => p \in Covers(made)
        BY <1>6
      <4> QED BY <1>7, <4>2, <4>3
    <3> QED BY <1>3, <2>1, <3>1, <3>2 DEF ExactInv, CoverInv
  <2> QED BY <1>3, <1>4, <2>1 DEF ExactInv, CoverInv, Covers
<1> QED BY <1>3, <1>5, <1>8, ResultExact DEF ExactInv

\* The node gets what it wants: nobody else wants it.
LEMMA ExactAllocate ==
    ASSUME TypeOK, ExactInv, Allocate
    PROVE  ExactInv'
<1>1. /\ UNCHANGED <<infos, n, singles, ranges, matchers, rules, errs>>
      /\ allocated' = allocated \cup {[target |-> Target, lo |-> r.lo, hi |-> r.hi] : r \in ranges}
      /\ ~findPortForwardTargetPortConflict /\ ~findPortForwardRangeConflict
      /\ pc = "token" /\ pc' = "emit" /\ Target' = Target /\ t' = 1
      /\ t > Len(External(n)) /\ singles = <<>>
  BY DEF Allocate, AtEnd, Target
<1>2. /\ n \in 1..Len(infos) /\ Target \in Port /\ Target = infos[n].server_port
      /\ n \in Nat \ {0} /\ ranges \subseteq [lo : Port, hi : Port]
      /\ allocated \subseteq [target : Port, lo : Port, hi : Port]
  BY <1>1 DEF TypeOK, Target
<1>p. \A p \in Port : p \in Int
  BY PortRulesAssumption DEF Port
<1>3. t - 1 = Len(External(n))
  <2>1. t \in Nat /\ Len(External(n)) \in Nat /\ t <= Len(External(n)) + 1
    BY <1>1, <1>2, NodeTypes DEF TypeOK, ExactInv, ScanInv
  <2> QED BY <1>1, <2>1
<1>4. /\ \A k \in 1..Len(External(n)) : Valid(External(n)[k])
      /\ \A p \in Port : InRanges(p) <=> Wants(n, p)
  <2>1. \A p : Scanned(p) <=> Wants(n, p)
    BY <1>2, <1>3 DEF Scanned, Wants
  <2> QED BY <1>1, <1>3, <2>1 DEF ExactInv, ScanInv
<1>5. \A p \in Wanted(n) : p \in Port /\ InRanges(p)
  BY <1>2, <1>4, WantedPorts, ValidPorts
<1>6. Fits(n)
  <2>1. ASSUME NEW p \in Wanted(n), p \in TargetPorts \ {infos[n].server_port}
        PROVE  FALSE
    BY <1>1, <1>2, <1>5, <2>1 DEF findPortForwardTargetPortConflict, InRanges
  <2>2. ASSUME NEW j \in 1..(n - 1), Accepted(j),
               infos[j].server_port # infos[n].server_port, NEW p \in Wanted(n), p \in Wanted(j)
        PROVE  FALSE
    <3>1. p \in Port /\ InRanges(p)
      BY <1>5, <2>2
    <3>2. PICK r \in ranges : contains(r, p)
      BY <3>1 DEF InRanges
    <3>3. j \in 1..Len(infos)
      BY <1>2 DEF TypeOK
    <3>4. Wants(j, p)
      BY <2>2, <3>3, WantedPorts
    <3>5. infos[j].server_port \in Port
      <4>1. Lists(j) /\ j \notin errs
        BY <2>2 DEF Accepted
      <4>2. Fits(j)
        BY <4>1 DEF ExactInv, RefusalsExact
      <4> QED BY <4>2 DEF Fits
    <3>6. Given(p, infos[j].server_port)
      <4>1. Due(p, infos[j].server_port, n - 1)
        BY <2>2, <3>4 DEF Due
      <4> QED BY <1>1, <3>1, <3>5, <4>1 DEF ExactInv, AllocInv
    <3>7. PICK a \in allocated : a.target = infos[j].server_port /\ contains(a, p)
      BY <3>6 DEF Given
    <3>8. overlaps(r, a)
      <4>1. r.lo \in Int /\ r.hi \in Int /\ a.lo \in Int /\ a.hi \in Int /\ p \in Int
        BY <1>2, <1>p, <3>1, <3>2, <3>7
      <4> QED BY <3>2, <3>7, <4>1, SharedPort
    <3> QED BY <1>1, <1>2, <2>2, <3>2, <3>7, <3>8 DEF findPortForwardRangeConflict
  <2> QED BY <1>2, <1>4, <2>1, <2>2 DEF Fits
<1>7. PICK m \in Nat \ {0} : m = n /\ n' = m
  BY <1>1, <1>2
<1>8. /\ \A i : Accepted(i)' <=> Accepted(i)
      /\ \A i : Fits(i)' <=> Fits(i)
      /\ \A p, g, k : Due(p, g, k)' <=> Due(p, g, k)
  <2>1. \A i : Accepted(i)' <=> Accepted(i)
    BY <1>1, NodesKept DEF Accepted
  <2>2. \A i : Fits(i)' <=> Fits(i)
    BY <1>1, <2>1, NodesKept DEF Fits, Valid
  <2>3. \A p, g, k : Due(p, g, k)' <=> Due(p, g, k)
    BY <1>1, <2>1, NodesKept DEF Due
  <2> QED BY <2>1, <2>2, <2>3
<1>9. Lists(n) /\ n \notin errs /\ errs \subseteq 1..(n - 1)
  BY <1>1, <1>2 DEF ExactInv, ScanInv
<1>10. ScanInv'
  <2>1. Lists(m)' /\ Fits(m)'
    BY <1>1, <1>6, <1>7, <1>8, <1>9, NodesKept
  <2>2. \A p \in Port : InRanges(p)' <=> Wants(m, p)'
    BY <1>1, <1>4, <1>7, NodesKept DEF InRanges
  <2> QED BY <1>1, <1>7, <1>9, <2>1, <2>2 DEF ScanInv
<1>11. CoverInv'
  BY <1>1 DEF ExactInv, CoverInv, InRanges, Covers
<1>12. \A p, g \in Port : Given(p, g)' <=> Given(p, g) \/ (g = Target /\ InRanges(p))
  <2> SUFFICES ASSUME NEW p \in Port, NEW g \in Port
               PROVE  Given(p, g)' <=> Given(p, g) \/ (g = Target /\ InRanges(p))
    OBVIOUS
  <2>1. ASSUME NEW r \in ranges
        PROVE  contains([target |-> Target, lo |-> r.lo, hi |-> r.hi], p) <=> contains(r, p)
    BY DEF contains
  <2>2. Given(p, g)' <=> \/ Given(p, g)
                         \/ \E r \in ranges : g = Target /\ contains(r, p)
    <3>1. \A a : a \in allocated' <=>
             \/ a \in allocated
             \/ \E r \in ranges : a = [target |-> Target, lo |-> r.lo, hi |-> r.hi]
      BY <1>1
    <3>2. Given(p, g)' <=> \E a \in allocated' : a.target = g /\ contains(a, p)
      BY DEF Given, contains
    <3>3. ASSUME NEW r \in ranges, g = Target, contains(r, p)
          PROVE  Given(p, g)'
      <4>1. PICK a : a = [target |-> Target, lo |-> r.lo, hi |-> r.hi]
        OBVIOUS
      <4>2. a \in allocated' /\ a.target = g /\ contains(a, p)
        BY <2>1, <3>1, <3>3, <4>1
      <4> QED BY <3>2, <4>2
    <3>4. Given(p, g) => Given(p, g)'
      BY <3>1, <3>2 DEF Given
    <3>5. ASSUME Given(p, g)', ~Given(p, g)
          PROVE  \E r \in ranges : g = Target /\ contains(r, p)
      <4>1. PICK a \in allocated' : a.target = g /\ contains(a, p)
        BY <3>2, <3>5
      <4>2. PICK r \in ranges : a = [target |-> Target, lo |-> r.lo, hi |-> r.hi]
        BY <3>1, <3>5, <4>1 DEF Given
      <4>3. g = Target /\ contains(r, p)
        BY <2>1, <4>1, <4>2
      <4> QED BY <4>3
    <3> QED BY <3>3, <3>4, <3>5
  <2> QED BY <2>2 DEF InRanges
<1>13. AllocInv'
  <2>1. \A a \in allocated' : a.lo <= a.hi
    BY <1>1 DEF ExactInv, CoverInv, AllocInv
  <2>2. ASSUME NEW p \in Port, NEW g \in Port
        PROVE  Given(p, g)' <=> Due(p, g, m)'
    <3>1. Given(p, g) <=> Due(p, g, m - 1)
      BY <1>1, <1>7 DEF ExactInv, AllocInv
    <3>2. \A i : i \in 1..m <=> i \in 1..(m - 1) \/ i = m
      BY <1>7
    <3>3. Accepted(m)
      BY <1>7, <1>9 DEF Accepted
    <3>4. Due(p, g, m) <=> Due(p, g, m - 1) \/ (infos[m].server_port = g /\ Wants(m, p))
      BY <3>2, <3>3 DEF Due
    <3> QED BY <1>2, <1>4, <1>7, <1>8, <1>12, <3>1, <3>4
  <2> QED BY <1>1, <1>7, <2>1, <2>2 DEF AllocInv
<1>14. RuleInv'
  <2>1. ASSUME NEW p \in Port, NEW g \in Port, Given(p, g)'
        PROVE  \/ Sent(p, g)
               \/ g = Target /\ \E k \in 1..Len(matchers) : p \in Covers(matchers[k])
    <3>1. CASE Given(p, g)
      BY <1>1, <3>1 DEF ExactInv, RuleInv
    <3>2. CASE g = Target /\ InRanges(p)
      <4>1. \E k \in 1..Len(matchers) : p \in Covers(matchers[k])
        BY <1>1, <3>2 DEF ExactInv, CoverInv
      <4> QED BY <3>2, <4>1
    <3> QED BY <1>12, <2>1, <3>1, <3>2
  <2>2. \A p, g \in Port : Sent(p, g)' <=> Sent(p, g)
    BY <1>1 DEF Sent
  <2>3. \A p, g \in Port : Given(p, g)' =>
           \/ Sent(p, g)'
           \/ g = Target' /\ \E k \in t'..Len(matchers') : p \in Covers(matchers'[k])
    BY <1>1, <2>1, <2>2
  <2>4. \A i, j \in 1..Len(rules') : rules'[i] = rules'[j] => i = j
    BY <1>1 DEF ExactInv, RuleInv
  <2> QED BY <1>1, <2>3, <2>4 DEF RuleInv, Covers
<1>15. RefusalsExact'
  BY <1>1, <1>8, NodesKept DEF ExactInv, RefusalsExact
<1> QED BY <1>10, <1>11, <1>13, <1>14, <1>15 DEF ExactInv

\* The rule of a matcher is in the result after its step, and it is there once.
LEMMA ExactEmit ==
    ASSUME TypeOK, ExactInv, Emit
    PROVE  ExactInv'
<1>1. /\ UNCHANGED <<infos, n, pc, singles, ranges, matchers, allocated, errs>>
      /\ pc = "emit" /\ pc' = "emit" /\ Target' = Target /\ t' = t + 1 /\ t <= Len(matchers)
  BY DEF Emit, Target
<1>2. PICK rule : rule = [matcher |-> matchers[t], target |-> Target]
  OBVIOUS
<1>3. rules' = IF Seen(rule) THEN rules ELSE Append(rules, rule)
  BY <1>2 DEF Emit
<1>4. /\ t \in Nat \ {0} /\ Len(matchers) \in Nat /\ n \in Nat \ {0}
      /\ rules \in Seq([matcher : Matcher, target : Port]) /\ Len(rules) \in Nat
  BY DEF TypeOK
<1>5. rule \in [matcher : Matcher, target : Port]
  <2>1. t \in 1..Len(matchers) /\ matchers \in Seq(Matcher)
    BY <1>1, <1>4 DEF TypeOK
  <2>2. matchers[t] \in Matcher
    BY <2>1, ElementOfSeq, Zenon
  <2>3. Target \in Port
    BY <1>1 DEF TypeOK
  <2> QED BY <1>2, <2>2, <2>3
<1>6. /\ \A i \in 1..Len(rules) : i \in 1..Len(rules') /\ rules'[i] = rules[i]
      /\ \E i \in 1..Len(rules') : rules'[i] = rule
      /\ \A i, j \in 1..Len(rules') : rules'[i] = rules'[j] => i = j
  <2>0. \A i, j \in 1..Len(rules) : rules[i] = rules[j] => i = j
    BY DEF ExactInv, RuleInv
  <2>1. CASE Seen(rule)
    BY <1>3, <2>0, <2>1 DEF Seen
  <2>2. CASE ~Seen(rule)
    <3>1. PICK longer : longer = Append(rules, rule)
      OBVIOUS
    <3>2. /\ Len(longer) = Len(rules) + 1 /\ longer[Len(rules) + 1] = rule
          /\ \A i \in 1..Len(rules) : longer[i] = rules[i]
      BY <1>4, <1>5, <3>1
    <3>3. \A i \in 1..Len(rules) : longer[i] # rule
      BY <2>2, <3>2 DEF Seen
    <3>4. \A i : i \in 1..Len(longer) <=> i \in 1..Len(rules) \/ i = Len(rules) + 1
      BY <1>4, <3>2
    <3>5. rules' = longer
      BY <1>3, <2>2, <3>1
    <3>6. \A i, j \in 1..Len(longer) : longer[i] = longer[j] => i = j
      BY <2>0, <3>2, <3>3, <3>4
    <3>7. \E i \in 1..Len(longer) : longer[i] = rule
      BY <3>2, <3>4
    <3> QED BY <3>2, <3>4, <3>5, <3>6, <3>7
  <2> QED BY <2>1, <2>2
<1>7. PICK m \in Nat \ {0} : m = n /\ n' = m
  BY <1>1, <1>4
<1>8. /\ \A i : Accepted(i)' <=> Accepted(i)
      /\ \A i : Fits(i)' <=> Fits(i)
      /\ \A p, g, k : Due(p, g, k)' <=> Due(p, g, k)
  <2>1. \A i : Accepted(i)' <=> Accepted(i)
    BY <1>1, NodesKept DEF Accepted
  <2>2. \A i : Fits(i)' <=> Fits(i)
    BY <1>1, <2>1, NodesKept DEF Fits, Valid
  <2>3. \A p, g, k : Due(p, g, k)' <=> Due(p, g, k)
    BY <1>1, <2>1, NodesKept DEF Due
  <2> QED BY <2>1, <2>2, <2>3
<1>9. ScanInv'
  <2>1. Lists(m) /\ Fits(m) /\ errs \subseteq 1..(m - 1)
    BY <1>1, <1>7 DEF ExactInv, ScanInv
  <2>2. Lists(m)' /\ Fits(m)'
    BY <1>1, <1>8, <2>1, NodesKept
  <2>3. \A p \in Port : InRanges(p) <=> Wants(m, p)
    BY <1>1, <1>7 DEF ExactInv, ScanInv
  <2>4. \A p \in Port : InRanges(p)' <=> Wants(m, p)'
    BY <1>1, <2>3, NodesKept DEF InRanges
  <2> QED BY <1>1, <1>7, <2>1, <2>2, <2>4 DEF ScanInv
<1>10. CoverInv'
  BY <1>1 DEF ExactInv, CoverInv, InRanges, Covers
<1>11. \A p, g : Given(p, g)' <=> Given(p, g)
  BY <1>1 DEF Given
<1>12. AllocInv'
  <2>1. \A a \in allocated' : a.lo <= a.hi
    BY <1>1 DEF ExactInv, AllocInv
  <2>2. \A p, g \in Port : Given(p, g) <=> Due(p, g, m)
    BY <1>1, <1>7 DEF ExactInv, AllocInv
  <2>3. \A p, g \in Port : Given(p, g)' <=> Due(p, g, m)'
    BY <1>8, <1>11, <2>2
  <2> QED BY <1>1, <1>7, <2>1, <2>3 DEF AllocInv
<1>13. RuleInv'
  <2>1. ASSUME NEW p, NEW g, Sent(p, g)
        PROVE  Sent(p, g)'
    <3>1. PICK i \in 1..Len(rules) : rules[i].target = g /\ p \in Covers(rules[i].matcher)
      BY <2>1 DEF Sent
    <3>2. /\ i \in 1..Len(rules') /\ rules'[i].target = g
          /\ p \in Covers(rules'[i].matcher)
      BY <1>6, <3>1
    <3> QED BY <3>2 DEF Sent, Covers
  <2>2. ASSUME NEW p, p \in Covers(matchers[t])
        PROVE  Sent(p, Target)'
    <3>1. PICK i \in 1..Len(rules') : rules'[i] = rule
      BY <1>6
    <3>2. rules'[i].target = Target /\ p \in Covers(rules'[i].matcher)
      BY <1>2, <2>2, <3>1
    <3>3. PICK g : g = Target
      OBVIOUS
    <3>4. Sent(p, g)'
      BY <3>1, <3>2, <3>3 DEF Sent, Covers
    <3> QED BY <1>1, <3>3, <3>4
  <2>3. ASSUME NEW p \in Port, NEW g \in Port, Given(p, g)
        PROVE  \/ Sent(p, g)'
               \/ g = Target /\ \E k \in (t + 1)..Len(matchers) : p \in Covers(matchers[k])
    <3>1. CASE Sent(p, g)
      BY <2>1, <3>1
    <3>2. CASE g = Target /\ \E k \in t..Len(matchers) : p \in Covers(matchers[k])
      <4>1. PICK k \in t..Len(matchers) : p \in Covers(matchers[k])
        BY <3>2
      <4>2. CASE k = t
        <5>1. p \in Covers(matchers[t])
          BY <4>1, <4>2
        <5>2. Sent(p, Target)'
          BY <2>2, <5>1
        <5> QED BY <1>1, <3>2, <5>2 DEF Sent
      <4>3. CASE k # t
        <5>1. k \in (t + 1)..Len(matchers)
          BY <1>4, <4>3
        <5> QED BY <3>2, <4>1, <5>1
      <4> QED BY <4>2, <4>3
    <3> QED BY <2>3, <3>1, <3>2 DEF ExactInv, RuleInv
  <2>4. \A p, g \in Port : Given(p, g)' =>
           \/ Sent(p, g)'
           \/ g = Target' /\ \E k \in t'..Len(matchers') : p \in Covers(matchers'[k])
    BY <1>1, <1>11, <2>3
  <2> QED BY <1>1, <1>6, <2>4 DEF RuleInv, Covers
<1>14. RefusalsExact'
  BY <1>1, <1>8, NodesKept DEF ExactInv, RefusalsExact
<1> QED BY <1>9, <1>10, <1>12, <1>13, <1>14 DEF ExactInv

LEMMA ExactInit == Init => ExactInv
<1> SUFFICES ASSUME Init PROVE ExactInv
  OBVIOUS
<1>1. /\ n = 1 /\ pc = "node" /\ allocated = {} /\ rules = <<>> /\ errs = {}
      /\ 1..(n - 1) = {} /\ 1..Len(rules) = {}
  BY DEF Init
<1>2. ScanInv /\ CoverInv
  BY <1>1 DEF ScanInv, CoverInv
<1>3. \A p, g : ~Given(p, g) /\ ~Due(p, g, n - 1)
  BY <1>1 DEF Given, Due
<1> QED BY <1>1, <1>2, <1>3 DEF ExactInv, AllocInv, RuleInv, RefusalsExact

\* A step that changes nothing.
LEMMA ExactStutter ==
    ASSUME ExactInv, UNCHANGED vars
    PROVE  ExactInv'
<1>1. UNCHANGED <<infos, n, pc, t, singles, ranges, matchers, allocated, rules, errs>>
  BY DEF vars, round
<1>2. \A i : Accepted(i)' <=> Accepted(i)
  BY <1>1, NodesKept DEF Accepted
<1>3. \A i : Fits(i)' <=> Fits(i)
  BY <1>1, <1>2, NodesKept DEF Fits, Valid
<1>4. \A p, g, k : Due(p, g, k)' <=> Due(p, g, k)
  BY <1>1, <1>2, NodesKept DEF Due
<1>5. PICK m : m = n /\ n' = m
  BY <1>1
<1>6. ScanInv'
  <2>1. /\ External(m)' = External(m) /\ Lists(m)' = Lists(m) /\ Fits(m)' = Fits(m)
        /\ \A p : Wants(m, p)' = Wants(m, p)
    BY <1>1, <1>3, NodesKept DEF Lists, Fits, Wants
  <2>2. \A p : (InRanges(p)' <=> InRanges(p)) /\ (Scanned(p)' <=> Scanned(p))
    BY <1>1 DEF InRanges, Scanned, External, Target
  <2> QED BY <1>1, <1>5, <2>1, <2>2 DEF ExactInv, ScanInv, Valid
<1>7. CoverInv'
  BY <1>1 DEF ExactInv, CoverInv, InRanges, Covers
<1>8. /\ \A p, g : Given(p, g)' <=> Given(p, g)
      /\ \A p, g : Sent(p, g)' <=> Sent(p, g)
  BY <1>1 DEF Given, Sent
<1>9. AllocInv'
  BY <1>1, <1>4, <1>8 DEF ExactInv, AllocInv
<1>10. RuleInv'
  BY <1>1, <1>8 DEF ExactInv, RuleInv, Covers, Target
<1>11. RefusalsExact'
  BY <1>1, <1>3, NodesKept DEF ExactInv, RefusalsExact
<1> QED BY <1>6, <1>7, <1>9, <1>10, <1>11 DEF ExactInv

LEMMA ExactNext == TypeOK /\ ExactInv /\ [Next]_vars => ExactInv'
BY ExactEnds, ExactBegin, ExactSingle, ExactRange, ExactFlush, ExactAllocate,
   ExactEmit,
   ExactStutter DEF Next

\* What is scanned, given and emitted is exact throughout.
LEMMA Exactness == Spec => []ExactInv
<1>1. TypeOK /\ ExactInv /\ [Next]_vars => (TypeOK /\ ExactInv)'
  BY TypeNext, ExactNext
<1> QED BY TypeInit, ExactInit, <1>1, PTL DEF Spec

\* A node is refused if and only if its port or a token of its list is
\* invalid, or it wants a port that is another node's, for every list of nodes.
THEOREM RefusalsAreExact == Spec => []RefusalsExact
<1>1. ExactInv => RefusalsExact
  BY DEF ExactInv
<1> QED BY <1>1, Exactness, PTL

\* The rules cover exactly the ports that the accepted nodes list, without
\* each node's own, and none is there twice, for every list of nodes.
THEOREM RulesAreExact == Spec => []RulesExact
<1>1. TypeOK /\ IInv /\ ExactInv => RulesExact
  <2> SUFFICES ASSUME TypeOK, IInv, ExactInv, pc = "node"
               PROVE  /\ \A port \in Port, target \in Port :
                            Sent(port, target) <=>
                                \E i \in 1..(n - 1) :
                                    /\ Accepted(i) /\ infos[i].server_port = target
                                    /\ port \in Wanted(i)
                      /\ \A i, j \in 1..Len(rules) : rules[i] = rules[j] => i = j
    BY DEF RulesExact, Sent
  <2>1. \A i, j \in 1..Len(rules) : rules[i] = rules[j] => i = j
    BY DEF ExactInv, RuleInv
  <2>2. ASSUME NEW port \in Port, NEW target \in Port
        PROVE  Sent(port, target) <=> Due(port, target, n - 1)
    <3>1. Sent(port, target) => Given(port, target)
      BY DEF IInv, RulesWithin, Sent, Given
    <3>2. Given(port, target) => Sent(port, target)
      BY DEF ExactInv, RuleInv
    <3>3. Given(port, target) <=> Due(port, target, n - 1)
      BY DEF ExactInv, AllocInv
    <3> QED BY <3>1, <3>2, <3>3
  <2>3. \A i \in 1..(n - 1) : i \in 1..Len(infos)
    BY DEF TypeOK
  <2>4. \A port \in Port : port \in Int
    BY PortRulesAssumption DEF Port
  <2>5. \A i \in 1..(n - 1) : \A port \in Port : port \in Wanted(i) <=> Wants(i, port)
    BY <2>3, <2>4, WantedPorts
  <2> QED BY <2>1, <2>2, <2>5 DEF Due
<1> QED BY <1>1, TypeCorrect, Invariance, Exactness, PTL

-----------------------------------------------------------------------------
(* Sequences: induction without an operator, RemoveFirst and Filter.       *)

\* Every nonempty set of numbers has a least one.
LEMMA LeastNumber ==
    ASSUME NEW N \in SUBSET Nat, N # {}
    PROVE  \E x \in N : \A y \in N : ~(y < x)
<1>1. PICK R : R = OpToRel(<, Nat)
  OBVIOUS
<1>2. IsWellFoundedOn(R, Nat)
  BY <1>1, NatLessThanWellFounded
<1>3. PICK x \in N : \A y \in N : ~(<<y, x>> \in R)
  BY <1>2, WFMin
<1>4. \A y \in N : y < x => <<y, x>> \in R
  BY <1>1 DEF OpToRel
<1> QED BY <1>3, <1>4

\* A set of sequences that holds the empty one and is closed under Append
\* holds them all.
LEMMA SeqClosure ==
    ASSUME NEW X, NEW P, <<>> \in P,
           \A s \in Seq(X), e \in X : s \in P => Append(s, e) \in P
    PROVE  Seq(X) \subseteq P
<1> SUFFICES ASSUME NEW z \in Seq(X), z \notin P PROVE FALSE
  OBVIOUS
<1> DEFINE Bad == {i \in Nat : \E s \in Seq(X) : s \notin P /\ Len(s) = i}
<1>1. Len(z) \in Bad
  BY LenProperties
<1>2. PICK i \in Bad : \A j \in Bad : ~(j < i)
  <2>1. Bad \in SUBSET Nat /\ Bad # {}
    BY <1>1
  <2> HIDE DEF Bad
  <2> QED BY <2>1, LeastNumber
<1>3. PICK s \in Seq(X) : s \notin P /\ Len(s) = i
  OBVIOUS
<1>4. s # <<>>
  BY <1>3
<1>5. PICK r \in Seq(X), e \in X : s = Append(r, e)
  BY <1>4, SequenceEmptyOrAppend
<1>6. r \notin P
  BY <1>3, <1>5
<1>7. Len(r) \in Nat /\ Len(s) = Len(r) + 1
  BY <1>5, AppendProperties, LenProperties
<1>8. Len(r) \in Bad
  BY <1>6, <1>7
<1> QED BY <1>2, <1>3, <1>7, <1>8

\* f is the function that Filter(s, S) is computed by.
Filters(f, s, S) ==
    f = [i \in 0 .. Len(s) |-> IF i = 0 THEN <<>>
                               ELSE IF s[i] \in S THEN Append(f[i - 1], s[i]) ELSE f[i - 1]]

LEMMA FilterIsChosen ==
    ASSUME NEW s, NEW S PROVE Filter(s, S) = (CHOOSE f : Filters(f, s, S))[Len(s)]
BY DEF Filter, Filters

\* What a prefix is filtered to does not depend on what follows.
LEMMA FiltersExtend ==
    ASSUME NEW X, NEW S, NEW s \in Seq(X), NEW e \in X, NEW f, Filters(f, s, S)
    PROVE  \E g : /\ Filters(g, Append(s, e), S)
                  /\ g[Len(s) + 1] = IF e \in S THEN Append(f[Len(s)], e) ELSE f[Len(s)]
<1>1. PICK r : r = Append(s, e)
  OBVIOUS
<1>2. /\ Len(s) \in Nat /\ Len(r) = Len(s) + 1 /\ r[Len(s) + 1] = e
      /\ \A i \in 1..Len(s) : r[i] = s[i]
  BY <1>1, AppendProperties, LenProperties
<1>3. PICK g : g = [i \in 0 .. Len(r) |-> IF i = 0 THEN <<>>
                       ELSE IF r[i] \in S THEN Append(f[i - 1], r[i]) ELSE f[i - 1]]
  OBVIOUS
<1>4. \A i \in 0 .. Len(s) : g[i] = f[i]
  <2> SUFFICES ASSUME NEW i \in 0 .. Len(s) PROVE g[i] = f[i]
    OBVIOUS
  <2>1. f[i] = IF i = 0 THEN <<>> ELSE IF s[i] \in S THEN Append(f[i - 1], s[i]) ELSE f[i - 1]
    BY DEF Filters
  <2>2. g[i] = IF i = 0 THEN <<>> ELSE IF r[i] \in S THEN Append(f[i - 1], r[i]) ELSE f[i - 1]
    BY <1>2, <1>3
  <2>3. i # 0 => r[i] = s[i]
    BY <1>2
  <2> QED BY <2>1, <2>2, <2>3
<1>5. \A i \in 0 .. Len(r) : i # 0 => g[i - 1] = f[i - 1]
  BY <1>2, <1>4
<1>6. g = [i \in 0 .. Len(r) |-> IF i = 0 THEN <<>>
                       ELSE IF r[i] \in S THEN Append(g[i - 1], r[i]) ELSE g[i - 1]]
  BY <1>3, <1>5
<1>7. g[Len(s) + 1] = IF e \in S THEN Append(f[Len(s)], e) ELSE f[Len(s)]
  BY <1>2, <1>3
<1> QED BY <1>1, <1>6, <1>7 DEF Filters

LEMMA FiltersUnique ==
    ASSUME NEW X, NEW S, NEW s \in Seq(X), NEW f, NEW g, Filters(f, s, S), Filters(g, s, S)
    PROVE  f = g
<1> DEFINE Bad == {i \in 0 .. Len(s) : f[i] # g[i]}
<1>0. Len(s) \in Nat
  BY LenProperties
<1>1. Bad = {}
  <2> SUFFICES ASSUME Bad # {} PROVE FALSE
    OBVIOUS
  <2>1. PICK i \in Bad : \A j \in Bad : ~(j < i)
    <3>1. Bad \in SUBSET Nat
      BY <1>0
    <3> HIDE DEF Bad
    <3> QED BY <3>1, LeastNumber
  <2>2. f[0] = <<>> /\ g[0] = <<>>
    BY <1>0 DEF Filters
  <2>3. i \in 1 .. Len(s) /\ i - 1 \in 0 .. Len(s) /\ i - 1 < i
    BY <1>0, <2>2
  <2>4. f[i - 1] = g[i - 1]
    BY <2>1, <2>3
  <2>5. /\ f[i] = IF s[i] \in S THEN Append(f[i - 1], s[i]) ELSE f[i - 1]
        /\ g[i] = IF s[i] \in S THEN Append(g[i - 1], s[i]) ELSE g[i - 1]
    BY <1>0, <2>3 DEF Filters
  <2> QED BY <2>4, <2>5
<1>2. /\ f = [i \in 0 .. Len(s) |-> f[i]] /\ g = [i \in 0 .. Len(s) |-> g[i]]
  BY DEF Filters
<1> QED BY <1>1, <1>2

LEMMA FiltersExist ==
    ASSUME NEW X, NEW S, NEW s \in Seq(X)
    PROVE  \E f : Filters(f, s, S)
<1> DEFINE P == {r \in Seq(X) : \E f : Filters(f, r, S)}
<1>1. <<>> \in P
  <2>1. PICK f : f = [i \in 0 .. 0 |-> <<>>]
    OBVIOUS
  <2>2. Len(<<>>) = 0 /\ <<>> \in Seq(X)
    BY EmptySeq
  <2>3. Filters(f, <<>>, S)
    BY <2>1, <2>2 DEF Filters
  <2> QED BY <2>2, <2>3
<1>2. ASSUME NEW r \in Seq(X), NEW e \in X, r \in P PROVE Append(r, e) \in P
  <2>1. PICK f : Filters(f, r, S)
    BY <1>2
  <2>2. \E g : Filters(g, Append(r, e), S)
    BY <2>1, FiltersExtend
  <2>3. Append(r, e) \in Seq(X)
    BY AppendProperties
  <2> QED BY <2>2, <2>3
<1>3. Seq(X) \subseteq P
  <2> HIDE DEF P
  <2> QED BY <1>1, <1>2, SeqClosure
<1> QED BY <1>3

LEMMA FilterIs ==
    ASSUME NEW X, NEW S, NEW s \in Seq(X), NEW f, Filters(f, s, S)
    PROVE  Filter(s, S) = f[Len(s)]
<1>1. PICK g : g = CHOOSE h : Filters(h, s, S)
  OBVIOUS
<1>2. Filters(g, s, S)
  BY <1>1
<1>3. g = f
  BY <1>2, FiltersUnique
<1> QED BY <1>1, <1>3, FilterIsChosen

LEMMA FilterEmpty == ASSUME NEW S PROVE Filter(<<>>, S) = <<>>
<1>1. PICK f : Filters(f, <<>>, S)
  BY FiltersExist, EmptySeq
<1>2. f[0] = <<>> /\ Len(<<>>) = 0
  BY <1>1, EmptySeq DEF Filters
<1>3. Filter(<<>>, S) = f[Len(<<>>)]
  BY <1>1, FilterIs, EmptySeq
<1> QED BY <1>2, <1>3

\* The two equations that determine Filter.
LEMMA FilterAppend ==
    ASSUME NEW X, NEW S, NEW s \in Seq(X), NEW e \in X
    PROVE  Filter(Append(s, e), S) = IF e \in S THEN Append(Filter(s, S), e) ELSE Filter(s, S)
<1>1. PICK f : Filters(f, s, S)
  BY FiltersExist
<1>2. PICK g : /\ Filters(g, Append(s, e), S)
               /\ g[Len(s) + 1] = IF e \in S THEN Append(f[Len(s)], e) ELSE f[Len(s)]
  BY <1>1, FiltersExtend
<1>3. Append(s, e) \in Seq(X) /\ Len(Append(s, e)) = Len(s) + 1
  BY AppendProperties
<1>4. Filter(s, S) = f[Len(s)] /\ Filter(Append(s, e), S) = g[Len(Append(s, e))]
  BY <1>1, <1>2, <1>3, FilterIs
<1> QED BY <1>2, <1>3, <1>4

LEMMA AppendSet ==
    ASSUME NEW X, NEW s \in Seq(X), NEW e \in X
    PROVE  Append(s, e) \in Seq(X) /\ ToSet(Append(s, e)) = ToSet(s) \cup {e}
<1>1. PICK r : r = Append(s, e)
  OBVIOUS
<1>2. /\ r \in Seq(X) /\ Len(s) \in Nat /\ Len(r) = Len(s) + 1 /\ r[Len(s) + 1] = e
      /\ \A i \in 1 .. Len(s) : r[i] = s[i]
  BY <1>1, AppendProperties, LenProperties
<1>3. DOMAIN s = 1 .. Len(s) /\ DOMAIN r = 1 .. Len(r)
  BY <1>2, LenProperties
<1>4. ToSet(r) \subseteq ToSet(s) \cup {e}
  BY <1>2, <1>3 DEF ToSet
<1>5. ToSet(s) \cup {e} \subseteq ToSet(r)
  <2>1. ASSUME NEW i \in 1 .. Len(s) PROVE s[i] \in ToSet(r)
    BY <1>2, <1>3 DEF ToSet
  <2>2. e \in ToSet(r)
    BY <1>2, <1>3 DEF ToSet
  <2> QED BY <1>3, <2>1, <2>2 DEF ToSet
<1> QED BY <1>1, <1>2, <1>4, <1>5

\* A filter keeps the elements of the set, in a sequence of them.
LEMMA FilterFacts ==
    ASSUME NEW X, NEW S, NEW s \in Seq(X)
    PROVE  Filter(s, S) \in Seq(S) /\ ToSet(Filter(s, S)) = ToSet(s) \cap S
<1> DEFINE P == {r \in Seq(X) : Filter(r, S) \in Seq(S) /\ ToSet(Filter(r, S)) = ToSet(r) \cap S}
<1>1. <<>> \in P
  <2>1. <<>> \in Seq(X) /\ <<>> \in Seq(S)
    BY EmptySeq
  <2>2. ToSet(<<>>) = {}
    BY DEF ToSet
  <2> QED BY <2>1, <2>2, FilterEmpty
<1>2. ASSUME NEW r \in Seq(X), NEW e \in X, r \in P PROVE Append(r, e) \in P
  <2>1. PICK f : f = Filter(r, S)
    OBVIOUS
  <2>2. f \in Seq(S) /\ ToSet(f) = ToSet(r) \cap S
    BY <1>2, <2>1
  <2>3. Filter(Append(r, e), S) = IF e \in S THEN Append(f, e) ELSE f
    BY <2>1, FilterAppend
  <2>4. Append(r, e) \in Seq(X) /\ ToSet(Append(r, e)) = ToSet(r) \cup {e}
    BY AppendSet
  <2>5. e \in S => Append(f, e) \in Seq(S) /\ ToSet(Append(f, e)) = ToSet(f) \cup {e}
    BY <2>2, AppendSet
  <2> QED BY <2>2, <2>3, <2>4, <2>5
<1>3. Seq(X) \subseteq P
  <2> HIDE DEF P
  <2> QED BY <1>1, <1>2, SeqClosure
<1> QED BY <1>3

\* RemoveFirst takes the first occurrence out.
LEMMA RemoveFirstIs ==
    ASSUME NEW X, NEW s \in Seq(X), NEW i \in 1 .. Len(s),
           \A j \in 1 .. (i - 1) : s[j] # s[i]
    PROVE  /\ RemoveFirst(s, s[i]) \in Seq(X)
           /\ Len(RemoveFirst(s, s[i])) = Len(s) - 1
           /\ \A j \in 1 .. (Len(s) - 1) :
                 RemoveFirst(s, s[i])[j] = IF j < i THEN s[j] ELSE s[j + 1]
<1>1. PICK x : x = s[i]
  OBVIOUS
<1>2. Len(s) \in Nat /\ \A j \in 1 .. Len(s) : s[j] \in X
  BY LenProperties, ElementOfSeq
<1>3. SelectInSeq(s, LAMBDA v : v = x) = i
  <2>1. PICK I : I = {j \in 1 .. Len(s) : s[j] = x}
    OBVIOUS
  <2>2. i \in I /\ I \subseteq 1 .. Len(s) /\ \A y \in I : i =< y
    BY <1>1, <1>2, <2>1
  <2>3. \A y \in I : (\A z \in I : y =< z) => y = i
    BY <1>2, <2>2
  <2>4. Min(I) = i
    BY <2>2, <2>3 DEF Min
  <2>5. SelectInSeq(s, LAMBDA v : v = x) = IF I # {} THEN Min(I) ELSE 0
    BY <2>1 DEF SelectInSeq
  <2> QED BY <2>2, <2>4, <2>5
<1>4. RemoveFirst(s, x) = SubSeq(s, 1, i - 1) \o SubSeq(s, i + 1, Len(s))
  BY <1>1, <1>3 DEF RemoveFirst, RemoveAt
<1>5. PICK a, b : a = SubSeq(s, 1, i - 1) /\ b = SubSeq(s, i + 1, Len(s))
  OBVIOUS
<1>6. /\ a \in Seq(X) /\ Len(a) = i - 1 /\ \A j \in 1 .. (i - 1) : a[j] = s[j]
  <2>1. 1 \in Int /\ i - 1 \in Int /\ \A j \in 1 .. (i - 1) : s[j] \in X
    BY <1>2
  <2>2. /\ a \in Seq(X) /\ Len(a) = (IF 1 <= i - 1 THEN i - 1 - 1 + 1 ELSE 0)
        /\ \A j \in 1 .. (i - 1) - 1 + 1 : a[j] = s[1 + j - 1]
    BY <2>1, <1>5, SubSeqProperties
  <2> QED BY <2>2, <1>2
<1>7. /\ b \in Seq(X) /\ Len(b) = Len(s) - i /\ \A j \in 1 .. (Len(s) - i) : b[j] = s[i + j]
  <2>1. i + 1 \in Int /\ Len(s) \in Int /\ \A j \in (i + 1) .. Len(s) : s[j] \in X
    BY <1>2
  <2>2. /\ b \in Seq(X)
        /\ Len(b) = (IF i + 1 <= Len(s) THEN Len(s) - (i + 1) + 1 ELSE 0)
        /\ \A j \in 1 .. Len(s) - (i + 1) + 1 : b[j] = s[(i + 1) + j - 1]
    BY <2>1, <1>5, SubSeqProperties
  <2>3. \A j \in 1 .. (Len(s) - i) : (i + 1) + j - 1 = i + j /\ j \in 1 .. Len(s) - (i + 1) + 1
    BY <1>2
  <2> QED BY <2>2, <2>3, <1>2
<1>8. /\ a \o b \in Seq(X) /\ Len(a \o b) = Len(a) + Len(b)
      /\ \A j \in 1 .. Len(a) + Len(b) : (a \o b)[j] = IF j <= Len(a) THEN a[j] ELSE b[j - Len(a)]
  BY <1>6, <1>7, ConcatProperties
<1>9. ASSUME NEW j \in 1 .. (Len(s) - 1) PROVE (a \o b)[j] = IF j < i THEN s[j] ELSE s[j + 1]
  <2>1. (a \o b)[j] = IF j <= i - 1 THEN a[j] ELSE b[j - (i - 1)]
    BY <1>2, <1>6, <1>7, <1>8
  <2>2. CASE j < i
    BY <1>2, <1>6, <2>1, <2>2
  <2>3. CASE ~(j < i)
    <3>1. j - (i - 1) \in 1 .. (Len(s) - i) /\ i + (j - (i - 1)) = j + 1 /\ ~(j <= i - 1)
      BY <1>2, <2>3
    <3> QED BY <1>7, <2>1, <2>3, <3>1
  <2> QED BY <2>2, <2>3
<1>10. RemoveFirst(s, s[i]) = a \o b
  BY <1>1, <1>4, <1>5
<1>11. Len(a \o b) = Len(s) - 1
  BY <1>2, <1>6, <1>7, <1>8
<1> QED BY <1>8, <1>9, <1>10, <1>11

LEMMA FirstOccurrence ==
    ASSUME NEW X, NEW s \in Seq(X), NEW x \in ToSet(s)
    PROVE  \E i \in 1 .. Len(s) : s[i] = x /\ \A j \in 1 .. (i - 1) : s[j] # x
<1> DEFINE I == {i \in 1 .. Len(s) : s[i] = x}
<1>1. Len(s) \in Nat /\ DOMAIN s = 1 .. Len(s)
  BY LenProperties
<1>2. I \in SUBSET Nat /\ I # {}
  BY <1>1 DEF ToSet
<1>3. PICK i \in I : \A j \in I : ~(j < i)
  <2> HIDE DEF I
  <2> QED BY <1>2, LeastNumber
<1>4. ASSUME NEW j \in 1 .. (i - 1) PROVE s[j] # x
  <2>1. j \in 1 .. Len(s) /\ j < i
    BY <1>1
  <2> QED BY <2>1, <1>3
<1> QED BY <1>4

\* An element that is not there: nothing changes.
LEMMA RemoveAbsent ==
    ASSUME NEW X, NEW s \in Seq(X), NEW x, x \notin ToSet(s)
    PROVE  RemoveFirst(s, x) = s
<1>1. DOMAIN s = 1 .. Len(s)
  BY LenProperties
<1> QED BY <1>1 DEF RemoveFirst, ToSet

LEMMA RemoveType ==
    ASSUME NEW X, NEW s \in Seq(X), NEW x
    PROVE  RemoveFirst(s, x) \in Seq(X)
<1>1. CASE x \in ToSet(s)
  <2>1. PICK i \in 1 .. Len(s) : s[i] = x /\ \A j \in 1 .. (i - 1) : s[j] # x
    BY <1>1, FirstOccurrence
  <2>2. RemoveFirst(s, s[i]) \in Seq(X)
    BY <2>1, RemoveFirstIs
  <2> QED BY <2>1, <2>2
<1>2. CASE x \notin ToSet(s)
  BY <1>2, RemoveAbsent
<1> QED BY <1>1, <1>2

LEMMA RemoveAppend ==
    ASSUME NEW X, NEW s \in Seq(X), NEW e \in X, NEW x
    PROVE  RemoveFirst(Append(s, e), x) =
               IF x \in ToSet(s) THEN Append(RemoveFirst(s, x), e)
               ELSE IF x = e THEN s ELSE Append(s, e)
<1>1. PICK r : r = Append(s, e)
  OBVIOUS
<1>2. /\ r \in Seq(X) /\ Len(s) \in Nat /\ Len(r) = Len(s) + 1 /\ r[Len(s) + 1] = e
      /\ \A i \in 1 .. Len(s) : r[i] = s[i]
  BY <1>1, AppendProperties, LenProperties
<1>3. ToSet(r) = ToSet(s) \cup {e} /\ DOMAIN s = 1 .. Len(s)
  BY <1>1, AppendSet, LenProperties
<1>4. CASE x \in ToSet(s)
  <2>1. PICK i \in 1 .. Len(s) : s[i] = x /\ \A j \in 1 .. (i - 1) : s[j] # x
    BY <1>4, FirstOccurrence
  <2>2. i \in 1 .. Len(r) /\ r[i] = x /\ \A j \in 1 .. (i - 1) : r[j] # r[i]
    BY <1>2, <2>1
  <2>3. PICK a, b : a = RemoveFirst(s, x) /\ b = RemoveFirst(r, x)
    OBVIOUS
  <2>4. /\ a \in Seq(X) /\ Len(a) = Len(s) - 1
        /\ \A j \in 1 .. (Len(s) - 1) : a[j] = IF j < i THEN s[j] ELSE s[j + 1]
    BY <2>1, <2>3, RemoveFirstIs
  <2>5. /\ b \in Seq(X) /\ Len(b) = Len(r) - 1
        /\ \A j \in 1 .. (Len(r) - 1) : b[j] = IF j < i THEN r[j] ELSE r[j + 1]
    <3>1. /\ RemoveFirst(r, r[i]) \in Seq(X)
          /\ Len(RemoveFirst(r, r[i])) = Len(r) - 1
          /\ \A j \in 1 .. (Len(r) - 1) :
                 RemoveFirst(r, r[i])[j] = IF j < i THEN r[j] ELSE r[j + 1]
      BY <1>2, <2>2, RemoveFirstIs
    <3> QED BY <2>2, <2>3, <3>1
  <2>6. /\ Append(a, e) \in Seq(X) /\ Len(Append(a, e)) = Len(a) + 1
        /\ \A j \in 1 .. Len(a) : Append(a, e)[j] = a[j]
        /\ Append(a, e)[Len(a) + 1] = e
    BY <2>4, AppendProperties
  <2>7. Len(b) = Len(Append(a, e))
    BY <1>2, <2>4, <2>5, <2>6
  <2>8. ASSUME NEW j \in 1 .. Len(b) PROVE b[j] = Append(a, e)[j]
    <3>1. CASE j = Len(s)
      BY <1>2, <2>4, <2>5, <2>6, <3>1
    <3>2. CASE j # Len(s)
      <4>1. j \in 1 .. (Len(s) - 1) /\ j \in 1 .. Len(s) /\ j + 1 \in 1 .. Len(s)
        BY <1>2, <2>5, <3>2
      <4> QED BY <1>2, <2>4, <2>5, <2>6, <4>1
    <3> QED BY <3>1, <3>2
  <2>9. b = Append(a, e)
    BY <2>5, <2>6, <2>7, <2>8, SeqEqual
  <2> QED BY <1>1, <1>4, <2>3, <2>9
<1>5. CASE x \notin ToSet(s) /\ x = e
  <2>1. ASSUME NEW j \in 1 .. Len(s) PROVE r[j] # e
    BY <1>2, <1>3, <1>5 DEF ToSet
  <2>2. Len(r) \in 1 .. Len(r) /\ r[Len(r)] = e /\ \A j \in 1 .. (Len(r) - 1) : r[j] # r[Len(r)]
    BY <1>2, <2>1
  <2>3. PICK b : b = RemoveFirst(r, e)
    OBVIOUS
  <2>4. /\ b \in Seq(X) /\ Len(b) = Len(r) - 1
        /\ \A j \in 1 .. (Len(r) - 1) : b[j] = IF j < Len(r) THEN r[j] ELSE r[j + 1]
    <3>1. /\ RemoveFirst(r, r[Len(r)]) \in Seq(X)
          /\ Len(RemoveFirst(r, r[Len(r)])) = Len(r) - 1
          /\ \A j \in 1 .. (Len(r) - 1) :
                 RemoveFirst(r, r[Len(r)])[j] = IF j < Len(r) THEN r[j] ELSE r[j + 1]
      BY <1>2, <2>2, RemoveFirstIs
    <3> QED BY <2>2, <2>3, <3>1
  <2>5. Len(b) = Len(s) /\ \A j \in 1 .. Len(b) : b[j] = s[j]
    BY <1>2, <2>4
  <2>6. b = s
    BY <2>4, <2>5, SeqEqual
  <2> QED BY <1>1, <1>5, <2>3, <2>6
<1>6. CASE x \notin ToSet(s) /\ x # e
  BY <1>1, <1>2, <1>3, <1>6, RemoveAbsent
<1> QED BY <1>4, <1>5, <1>6

\* Removing what the filter drops does not show.
LEMMA FilterRemoveOther ==
    ASSUME NEW X, NEW S, NEW s \in Seq(X), NEW x, x \notin S
    PROVE  Filter(RemoveFirst(s, x), S) = Filter(s, S)
<1> DEFINE P == {r \in Seq(X) : Filter(RemoveFirst(r, x), S) = Filter(r, S)}
<1>1. <<>> \in P
  <2>1. <<>> \in Seq(X) /\ x \notin ToSet(<<>>)
    BY EmptySeq DEF ToSet
  <2> QED BY <2>1, RemoveAbsent
<1>2. ASSUME NEW r \in Seq(X), NEW e \in X, r \in P PROVE Append(r, e) \in P
  <2>1. Append(r, e) \in Seq(X) /\ RemoveFirst(r, x) \in Seq(X)
    BY AppendProperties, RemoveType
  <2>2. Filter(Append(r, e), S) = IF e \in S THEN Append(Filter(r, S), e) ELSE Filter(r, S)
    BY FilterAppend
  <2>3. CASE x \in ToSet(r)
    <3>1. RemoveFirst(Append(r, e), x) = Append(RemoveFirst(r, x), e)
      BY <2>3, RemoveAppend
    <3>2. Filter(Append(RemoveFirst(r, x), e), S) =
             IF e \in S THEN Append(Filter(RemoveFirst(r, x), S), e)
             ELSE Filter(RemoveFirst(r, x), S)
      BY <2>1, FilterAppend
    <3>3. Filter(RemoveFirst(r, x), S) = Filter(r, S)
      BY <1>2
    <3>4. Filter(RemoveFirst(Append(r, e), x), S) = Filter(Append(r, e), S)
      BY <2>2, <3>1, <3>2, <3>3
    <3> QED BY <2>1, <3>4
  <2>4. CASE x \notin ToSet(r)
    <3>1. RemoveFirst(Append(r, e), x) = IF x = e THEN r ELSE Append(r, e)
      BY <2>4, RemoveAppend
    <3> QED BY <2>1, <2>2, <3>1
  <2> QED BY <2>3, <2>4
<1>3. Seq(X) \subseteq P
  <2> HIDE DEF P
  <2> QED BY <1>1, <1>2, SeqClosure
<1> QED BY <1>3

\* Removing the first element that the filter keeps removes it there too.
LEMMA FilterRemoveHead ==
    ASSUME NEW X, NEW S, NEW s \in Seq(X), Filter(s, S) # <<>>
    PROVE  Filter(RemoveFirst(s, Head(Filter(s, S))), S) = Tail(Filter(s, S))
<1> DEFINE P == {r \in Seq(X) : Filter(r, S) # <<>> =>
                     Filter(RemoveFirst(r, Head(Filter(r, S))), S) = Tail(Filter(r, S))}
<1>1. <<>> \in P
  BY EmptySeq, FilterEmpty
<1>2. ASSUME NEW r \in Seq(X), NEW e \in X, r \in P PROVE Append(r, e) \in P
  <2> SUFFICES ASSUME Filter(Append(r, e), S) # <<>>
               PROVE  Filter(RemoveFirst(Append(r, e), Head(Filter(Append(r, e), S))), S)
                          = Tail(Filter(Append(r, e), S))
    BY AppendProperties
  <2>1. PICK f, g : f = Filter(r, S) /\ g = Filter(Append(r, e), S)
    OBVIOUS
  <2>2. g = IF e \in S THEN Append(f, e) ELSE f
    BY <2>1, FilterAppend
  <2>3. f \in Seq(S) /\ ToSet(f) = ToSet(r) \cap S
    BY <2>1, FilterFacts
  <2>4. CASE f = <<>>
    <3>1. e \in S
      BY <2>1, <2>2, <2>4
    <3>2. Head(g) = e /\ Tail(g) = <<>>
      BY <2>2, <2>3, <2>4, <3>1, HeadTailAppend
    <3>3. e \notin ToSet(r)
      BY <2>3, <2>4, <3>1 DEF ToSet
    <3>4. RemoveFirst(Append(r, e), e) = r
      BY <3>3, RemoveAppend
    <3> QED BY <2>1, <2>4, <3>2, <3>4
  <2>5. CASE f # <<>>
    <3>1. PICK x : x = Head(f)
      OBVIOUS
    <3>2. x \in ToSet(f)
      BY <2>3, <2>5, <3>1, LenProperties, EmptySeq DEF ToSet
    <3>3. RemoveFirst(Append(r, e), x) = Append(RemoveFirst(r, x), e)
      BY <2>3, <3>2, RemoveAppend
    <3>4. Filter(RemoveFirst(r, x), S) = Tail(f)
      BY <1>2, <2>1, <2>5, <3>1
    <3>5. Filter(Append(RemoveFirst(r, x), e), S) = IF e \in S THEN Append(Tail(f), e) ELSE Tail(f)
      <4>1. RemoveFirst(r, x) \in Seq(X)
        BY RemoveType
      <4>2. Filter(Append(RemoveFirst(r, x), e), S) =
               IF e \in S THEN Append(Filter(RemoveFirst(r, x), S), e)
               ELSE Filter(RemoveFirst(r, x), S)
        BY <4>1, FilterAppend
      <4> QED BY <3>4, <4>2
    <3>6. Head(g) = x /\ Tail(g) = IF e \in S THEN Append(Tail(f), e) ELSE Tail(f)
      BY <2>2, <2>3, <2>5, <3>1, HeadTailAppend
    <3> QED BY <2>1, <3>3, <3>5, <3>6
  <2> QED BY <2>4, <2>5
<1>3. Seq(X) \subseteq P
  <2> HIDE DEF P
  <2> QED BY <1>1, <1>2, SeqClosure
<1> QED BY <1>3

-----------------------------------------------------------------------------
(* The inductive invariant of PortForward.                                 *)

WritePlaces == {"list", "delete", "legacy", "flush", "drop", "append"}

\* Only a job that writes is at a command that writes; the service's jobs all
\* do; and what it asks for is nothing unless its nodes are up and it is on.
JobInv ==
    /\ \A p \in Procs : job[p].pc \in WritePlaces => job[p].writes
    /\ ~At("service", "idle") => job["service"].writes
    /\ ~(phase = "up" /\ auto) => job["service"].exp = <<>>

\* While the service's write is not disturbed, the rules command only looks.
CalmInv == calm => At("rules", "idle") \/ ~job["rules"].writes

\* A tool holds what the service's job asks for.
Holds(tool) == Own(tool) = job["service"].exp /\ chain[tool] = "none"

\* The tools that the service's job is done with.
Past(i) == i < job["service"].at \/ job["service"].pc \in {"publish", "idle"}

\* How far an undisturbed job of the service has brought the tool it is at.
ToolInv ==
    /\ ~At("service", "legacy")
    /\ At("service", "delete") => Own(T("service")) = job["service"].left
    /\ job["service"].pc \in {"flush", "drop"} => Own(T("service")) = <<>>
    /\ At("service", "drop") => chain[T("service")] \in {"none", "empty"}
    /\ At("service", "append") =>
          /\ Own(T("service")) = SubSeq(job["service"].exp, 1, job["service"].k - 1)
          /\ chain[T("service")] = "none"
    /\ job["service"].pc \in {"inspect", "chain"} => Holds(T("service"))

ForwardExact ==
    calm => ToolInv /\ \A i \in 1..Len(Tools) : Past(i) => Holds(Tools[i])

\* A tool holds the rules that the service's job asks for, in some order.
Same(tool) == ToSet(Own(tool)) = ToSet(job["service"].exp)

\* What the service's job, and its last status, said of the tools is true; it
\* says nothing yet of the tools it still has to change.
OkInv ==
    cliRuns = 0 =>
        /\ At("rules", "idle")
        /\ \A tool \in Tool : job["service"].st[tool] = "ok" => Same(tool)
        /\ \A i \in 1..Len(Tools) : ~Past(i) => job["service"].st[Tools[i]] = "none"
        /\ At("service", "chain") => Same(T("service"))
        /\ At("service", "idle") => \A tool \in Tool : published[tool] = "ok" => Same(tool)

ForwardInv == ForwardTypeOK /\ JobInv /\ CalmInv /\ ForwardExact /\ OkInv

-----------------------------------------------------------------------------
(* What the commands do to a job.                                          *)

LEMMA ToolFacts ==
    /\ Len(Tools) \in Nat /\ Len(Tools) >= 1
    /\ \A i \in 1 .. Len(Tools) : Tools[i] \in Tool
    /\ \A i \in 1 .. Len(Tools), j \in 1 .. Len(Tools) : Tools[i] = Tools[j] => i = j
    /\ \A tool \in Tool : \E i \in 1 .. Len(Tools) : tool = Tools[i]
<1> USE PortForwardAssumption
<1>1. Tools \in Seq(STRING) /\ Tools # <<>>
  OBVIOUS
<1>2. DOMAIN Tools = 1 .. Len(Tools) /\ Len(Tools) \in Nat /\ Len(Tools) # 0
  BY <1>1, LenProperties, EmptySeq
<1> QED BY <1>2 DEF Tool, ToSet, IsInjective

LEMMA RuleFacts ==
    /\ OwnRules = Rules \cup Jumps
    /\ \A e \in Rules \cup Jumps : e \notin Foreign
    /\ <<>> \in Plans
    /\ \A exp \in Plans : exp \in Seq(Rules) /\ exp \in Seq(Rules \cup Jumps)
<1>1. OwnRules = Rules \cup Jumps
  BY DEF OwnRules, isPortForwardRuleSpec
<1>2. ASSUME NEW exp \in Plans PROVE exp \in Seq(Rules) /\ exp \in Seq(Rules \cup Jumps)
  BY SeqMonotonic, PortForwardAssumption
<1> QED BY <1>1, <1>2, PortForwardAssumption

\* The fields of a job, and the tool it is at.
LEMMA JobFacts ==
    ASSUME ForwardTypeOK, NEW p \in Procs
    PROVE  /\ job[p] \in JobType
           /\ job[p].exp \in Seq(Rules) /\ Len(job[p].exp) \in Nat
           /\ job[p].at \in 1 .. Len(Tools) /\ T(p) \in Tool
           /\ table[T(p)] \in Seq(Rules \cup Jumps \cup Foreign)
           /\ job[p].k \in 1 .. (Len(job[p].exp) + 1)
<1>1. job[p] \in JobType /\ job[p].k \in 1 .. (Len(job[p].exp) + 1)
  BY DEF ForwardTypeOK
<1>2. job[p].exp \in Seq(Rules) /\ job[p].at \in 1 .. Len(Tools)
  BY <1>1, RuleFacts DEF JobType
<1>3. T(p) \in Tool
  BY <1>2, ToolFacts DEF T
<1>4. Len(job[p].exp) \in Nat
  BY <1>2, LenProperties
<1> QED BY <1>1, <1>2, <1>3, <1>4 DEF ForwardTypeOK

\* Fields of the job of p that no command changes, and the job of the other.
Steady(p) ==
    /\ job' \in [Procs -> JobType]
    /\ \A q \in Procs : q # p => job'[q] = job[q]
    /\ job'[p].exp = job[p].exp /\ job'[p].writes = job[p].writes

LEMMA GotoFacts ==
    ASSUME ForwardTypeOK, NEW p \in Procs, NEW where, Goto(p, where),
           where \in {"idle", "list", "delete", "legacy", "flush", "drop", "append",
                      "inspect", "chain", "publish"}
    PROVE  /\ Steady(p)
           /\ job'[p].pc = where /\ job'[p].at = job[p].at /\ job'[p].left = job[p].left
           /\ job'[p].k = job[p].k /\ job'[p].st = job[p].st
<1>1. job \in [Procs -> JobType] /\ job[p] \in JobType
  BY JobFacts DEF ForwardTypeOK
<1>2. PICK j : j = [job[p] EXCEPT !.pc = where]
  OBVIOUS
<1>3. /\ j \in JobType /\ j.pc = where /\ j.exp = job[p].exp /\ j.writes = job[p].writes
      /\ j.at = job[p].at /\ j.left = job[p].left /\ j.k = job[p].k /\ j.st = job[p].st
  BY <1>1, <1>2 DEF JobType
<1>4. job' = [job EXCEPT ![p] = j]
  BY <1>1, <1>2 DEF Goto
<1> QED BY <1>1, <1>3, <1>4 DEF Steady

LEMMA ListFacts ==
    ASSUME ForwardTypeOK, NEW p \in Procs,
           job' = [job EXCEPT ![p].pc = "delete", ![p].left = Filter(table[T(p)], OwnRules)]
    PROVE  /\ Steady(p)
           /\ job'[p].pc = "delete" /\ job'[p].at = job[p].at
           /\ job'[p].left = Own(T(p)) /\ job'[p].k = job[p].k /\ job'[p].st = job[p].st
<1>1. job \in [Procs -> JobType] /\ job[p] \in JobType
  BY JobFacts DEF ForwardTypeOK
<1>2. PICK f : f = Own(T(p))
  OBVIOUS
<1>3. f = Filter(table[T(p)], OwnRules) /\ f \in Seq(Rules \cup Jumps)
  <2>1. OwnRules = Rules \cup Jumps
    BY RuleFacts
  <2>2. Filter(table[T(p)], Rules \cup Jumps) \in Seq(Rules \cup Jumps)
    BY JobFacts, FilterFacts
  <2> QED BY <1>2, <2>1, <2>2 DEF Own
<1>4. PICK j : j = [job[p] EXCEPT !.pc = "delete", !.left = f]
  OBVIOUS
<1>5. /\ j \in JobType /\ j.pc = "delete" /\ j.exp = job[p].exp /\ j.writes = job[p].writes
      /\ j.at = job[p].at /\ j.left = f /\ j.k = job[p].k /\ j.st = job[p].st
  BY <1>1, <1>3, <1>4 DEF JobType
<1>6. job' = [job EXCEPT ![p] = j]
  BY <1>1, <1>3, <1>4
<1> QED BY <1>1, <1>2, <1>5, <1>6 DEF Steady

LEMMA DeleteFacts ==
    ASSUME ForwardTypeOK, NEW p \in Procs, job[p].left # <<>>,
           job' = [job EXCEPT ![p].left = Tail(@)]
    PROVE  /\ Steady(p)
           /\ job'[p].pc = job[p].pc /\ job'[p].at = job[p].at
           /\ job'[p].left = Tail(job[p].left) /\ job'[p].k = job[p].k /\ job'[p].st = job[p].st
<1>1. job \in [Procs -> JobType] /\ job[p] \in JobType
  BY JobFacts DEF ForwardTypeOK
<1>2. PICK f : f = Tail(job[p].left)
  OBVIOUS
<1>3. f \in Seq(Rules \cup Jumps)
  <2>1. job[p].left \in Seq(Rules \cup Jumps)
    BY <1>1 DEF JobType
  <2> QED BY <1>2, <2>1, HeadTailProperties
<1>4. PICK j : j = [job[p] EXCEPT !.left = f]
  OBVIOUS
<1>5. /\ j \in JobType /\ j.pc = job[p].pc /\ j.exp = job[p].exp /\ j.writes = job[p].writes
      /\ j.at = job[p].at /\ j.left = f /\ j.k = job[p].k /\ j.st = job[p].st
  BY <1>1, <1>3, <1>4 DEF JobType
<1>6. job' = [job EXCEPT ![p] = j]
  BY <1>1, <1>2, <1>4
<1> QED BY <1>1, <1>2, <1>5, <1>6 DEF Steady

LEMMA DropFacts ==
    ASSUME ForwardTypeOK, NEW p \in Procs,
           job' = [job EXCEPT ![p].pc = "append", ![p].k = 1]
    PROVE  /\ Steady(p)
           /\ job'[p].pc = "append" /\ job'[p].at = job[p].at
           /\ job'[p].left = job[p].left /\ job'[p].k = 1 /\ job'[p].st = job[p].st
<1>1. job \in [Procs -> JobType] /\ job[p] \in JobType
  BY JobFacts DEF ForwardTypeOK
<1>2. PICK j : j = [job[p] EXCEPT !.pc = "append", !.k = 1]
  OBVIOUS
<1>3. /\ j \in JobType /\ j.pc = "append" /\ j.exp = job[p].exp /\ j.writes = job[p].writes
      /\ j.at = job[p].at /\ j.left = job[p].left /\ j.k = 1 /\ j.st = job[p].st
  BY <1>1, <1>2 DEF JobType
<1>4. job' = [job EXCEPT ![p] = j]
  BY <1>1, <1>2
<1> QED BY <1>1, <1>3, <1>4 DEF Steady

LEMMA AppendFacts ==
    ASSUME ForwardTypeOK, NEW p \in Procs, job' = [job EXCEPT ![p].k = @ + 1]
    PROVE  /\ Steady(p)
           /\ job'[p].pc = job[p].pc /\ job'[p].at = job[p].at
           /\ job'[p].left = job[p].left /\ job'[p].k = job[p].k + 1 /\ job'[p].st = job[p].st
<1>1. job \in [Procs -> JobType] /\ job[p] \in JobType
  BY JobFacts DEF ForwardTypeOK
<1>2. PICK j : j = [job[p] EXCEPT !.k = job[p].k + 1]
  OBVIOUS
<1>3. /\ j \in JobType /\ j.pc = job[p].pc /\ j.exp = job[p].exp /\ j.writes = job[p].writes
      /\ j.at = job[p].at /\ j.left = job[p].left /\ j.k = job[p].k + 1 /\ j.st = job[p].st
  <2>1. PICK k : k = job[p].k + 1
    OBVIOUS
  <2>2. k \in Nat
    <3>1. job[p].k \in Nat
      BY <1>1 DEF JobType
    <3> QED BY <2>1, <3>1
  <2> QED BY <1>1, <1>2, <2>1, <2>2 DEF JobType
<1>4. job' = [job EXCEPT ![p] = j]
  BY <1>1, <1>2
<1> QED BY <1>1, <1>3, <1>4 DEF Steady

LEMMA ExpireFacts ==
    ASSUME ForwardTypeOK, NEW p \in Procs, job' = [job EXCEPT ![p].dead = TRUE]
    PROVE  /\ Steady(p)
           /\ job'[p].pc = job[p].pc /\ job'[p].at = job[p].at
           /\ job'[p].left = job[p].left /\ job'[p].k = job[p].k /\ job'[p].st = job[p].st
<1>1. job \in [Procs -> JobType] /\ job[p] \in JobType
  BY JobFacts DEF ForwardTypeOK
<1>2. PICK j : j = [job[p] EXCEPT !.dead = TRUE]
  OBVIOUS
<1>3. /\ j \in JobType /\ j.pc = job[p].pc /\ j.exp = job[p].exp /\ j.writes = job[p].writes
      /\ j.at = job[p].at /\ j.left = job[p].left /\ j.k = job[p].k /\ j.st = job[p].st
  BY <1>1, <1>2 DEF JobType
<1>4. job' = [job EXCEPT ![p] = j]
  BY <1>1, <1>2
<1> QED BY <1>1, <1>3, <1>4 DEF Steady

LEMMA NextToolFacts ==
    ASSUME ForwardTypeOK, NEW p \in Procs, NEW state \in {"none", "ok", "needs_repair", "error"},
           NextTool(p, state)
    PROVE  /\ Steady(p)
           /\ job'[p].st = [job[p].st EXCEPT ![T(p)] = state]
           /\ job'[p].left = job[p].left /\ job'[p].k = job[p].k
           /\ job[p].at = Len(Tools) => job'[p].pc = "publish" /\ job'[p].at = 1
           /\ job[p].at # Len(Tools) => /\ job'[p].pc = First(job[p].writes)
                                        /\ job'[p].at = job[p].at + 1
<1>1. job \in [Procs -> JobType] /\ job[p] \in JobType /\ T(p) \in Tool
  BY JobFacts DEF ForwardTypeOK
<1>2. PICK f : f = [job[p].st EXCEPT ![T(p)] = state]
  OBVIOUS
<1>3. PICK w : w = IF job[p].at = Len(Tools) THEN "publish" ELSE First(job[p].writes)
  OBVIOUS
<1>4. PICK i : i = IF job[p].at = Len(Tools) THEN 1 ELSE job[p].at + 1
  OBVIOUS
<1>5. f \in [Tool -> {"none", "ok", "needs_repair", "error"}]
  BY <1>1, <1>2 DEF JobType
<1>6. w \in {"publish", "list", "inspect"}
  BY <1>3 DEF First
<1>7. i \in 1 .. Len(Tools)
  <2>1. job[p].at \in 1 .. Len(Tools) /\ Len(Tools) \in Nat
    BY ToolFacts, JobFacts
  <2>2. PICK a, top : a = job[p].at /\ top = Len(Tools)
    OBVIOUS
  <2>3. a \in 1 .. top /\ top \in Nat /\ i = IF a = top THEN 1 ELSE a + 1
    BY <1>4, <2>1, <2>2
  <2>4. i \in 1 .. top
    <3>1. CASE a = top
      BY <2>3, <3>1
    <3>2. CASE a # top
      BY <2>3, <3>2
    <3> QED BY <3>1, <3>2
  <2> QED BY <2>2, <2>4
<1>8. PICK j : j = [job[p] EXCEPT !.st = f, !.pc = w, !.at = i]
  OBVIOUS
<1>9. /\ j \in JobType /\ j.pc = w /\ j.exp = job[p].exp /\ j.writes = job[p].writes
      /\ j.at = i /\ j.left = job[p].left /\ j.k = job[p].k /\ j.st = f
  BY <1>1, <1>5, <1>6, <1>7, <1>8 DEF JobType
<1>10. job' = [job EXCEPT ![p] = j]
  BY <1>1, <1>2, <1>3, <1>4, <1>8 DEF NextTool
<1>11. Steady(p) /\ job'[p] = j
  BY <1>1, <1>9, <1>10 DEF Steady
<1> QED BY <1>2, <1>3, <1>4, <1>9, <1>11

-----------------------------------------------------------------------------
(* Types.                                                                  *)

\* Every command leaves a job, and its number k within the list.
LEMMA CommandSteady ==
    ASSUME ForwardTypeOK, NEW p \in Procs, Command(p)
    PROVE  Steady(p) /\ job'[p].k \in 1 .. (Len(job[p].exp) + 1)
<1> USE JobFacts
<1>0. 1 \in 1 .. (Len(job[p].exp) + 1)
  OBVIOUS
<1>1. ASSUME NEW state \in {"none", "ok", "needs_repair", "error"}, NextTool(p, state)
      PROVE  Steady(p) /\ job'[p].k = job[p].k
  BY <1>1, NextToolFacts
<1>2. ASSUME NEW where, Goto(p, where),
             where \in {"idle", "list", "delete", "legacy", "flush", "drop", "append",
                        "inspect", "chain", "publish"}
      PROVE  Steady(p) /\ job'[p].k = job[p].k
  BY <1>2, GotoFacts
<1>3. CASE List(p)
  BY <1>2, <1>3, ListFacts DEF List
<1>4. CASE Delete(p)
  BY <1>4, DeleteFacts DEF Delete
<1>5. CASE DeleteDone(p)
  BY <1>2, <1>5 DEF DeleteDone
<1>6. CASE DeleteLegacy(p)
  <2>1. CASE job' = job
    BY <2>1 DEF Steady, ForwardTypeOK
  <2>2. CASE Goto(p, "flush")
    BY <1>2, <2>2
  <2> QED BY <1>6, <2>1, <2>2 DEF DeleteLegacy
<1>7. CASE FlushChain(p)
  BY <1>2, <1>7 DEF FlushChain
<1>8. CASE Drop(p)
  BY <1>0, <1>8, DropFacts DEF Drop
<1>9. CASE Append1(p)
  <2>1. CASE job' = [job EXCEPT ![p].k = @ + 1]
    <3>1. Steady(p) /\ job'[p].k = job[p].k + 1
      BY <2>1, AppendFacts
    <3>2. job[p].k <= Len(job[p].exp)
      BY <1>9 DEF Append1
    <3> QED BY <3>1, <3>2
  <2>2. CASE NextTool(p, "error")
    BY <1>1, <2>2
  <2> QED BY <1>9, <2>1, <2>2 DEF Append1
<1>10. CASE AppendDone(p)
  BY <1>2, <1>10 DEF AppendDone
<1>11. CASE Inspect(p)
  BY <1>1, <1>2, <1>11 DEF Inspect
<1>12. CASE InspectChain(p)
  <2>1. PICK state \in {"ok", "needs_repair"} : NextTool(p, state)
    BY <1>12 DEF InspectChain
  <2> QED BY <1>1, <2>1
<1>13. CASE Publish(p)
  BY <1>2, <1>13 DEF Publish
<1> QED BY <1>3, <1>4, <1>5, <1>6, <1>7, <1>8, <1>9, <1>10, <1>11, <1>12, <1>13
   DEF Command

\* A command changes at most the table of the tool it is at: it takes a rule
\* of the program out of it, or appends one.
LEMMA CommandTable ==
    ASSUME ForwardTypeOK, NEW p \in Procs, Command(p)
    PROVE  \/ table' = table
           \/ \E e \in Rules \cup Jumps :
                 table' = [table EXCEPT ![T(p)] = RemoveFirst(table[T(p)], e)]
           \/ \E e \in Rules : table' = [table EXCEPT ![T(p)] = Append(table[T(p)], e)]
<1>1. CASE Delete(p)
  <2>1. job[p].left \in Seq(Rules \cup Jumps) /\ job[p].left # <<>>
    BY <1>1, JobFacts DEF JobType, Delete
  <2>2. Head(job[p].left) \in Rules \cup Jumps
    BY <2>1, HeadTailProperties
  <2> QED BY <1>1, <2>2 DEF Delete
<1>2. CASE DeleteLegacy(p)
  BY <1>2 DEF DeleteLegacy, Jumps
<1>3. CASE Append1(p)
  <2>1. job[p].k <= Len(job[p].exp)
    BY <1>3 DEF Append1
  <2>2. job[p].exp[job[p].k] \in Rules
    BY <2>1, JobFacts, ElementOfSeq
  <2> QED BY <1>3, <2>2 DEF Append1
<1> QED
  BY <1>1, <1>2, <1>3 DEF Command, List, DeleteDone, FlushChain, Drop,
                          AppendDone, Inspect,
     InspectChain, Publish

LEMMA CommandChain ==
    ASSUME ForwardTypeOK, NEW p \in Procs, Command(p)
    PROVE  /\ chain' \in [Tool -> {"none", "empty", "full"}]
           /\ \A tool \in Tool : tool # T(p) => chain'[tool] = chain[tool]
<1>1. chain \in [Tool -> {"none", "empty", "full"}] /\ T(p) \in Tool
  BY JobFacts DEF ForwardTypeOK
<1>2. CASE FlushChain(p)
  BY <1>1, <1>2 DEF FlushChain
<1>3. CASE Drop(p)
  BY <1>1, <1>3 DEF Drop
<1> QED
  BY <1>1, <1>2, <1>3 DEF Command, List, Delete, DeleteDone, DeleteLegacy,
                          Append1, AppendDone,
     Inspect, InspectChain, Publish

\* What a command leaves alone, and the fault it may be.
LEMMA CommandRest ==
    ASSUME ForwardTypeOK, NEW p \in Procs, Command(p)
    PROVE  /\ UNCHANGED <<phase, auto, owed, plan, wanted, edits, cliRuns>>
           /\ calm' \in BOOLEAN /\ (calm' => calm)
           /\ p # "service" => published' = published
           /\ published' = published \/ (At(p, "publish") /\ published' = job[p].st)
           /\ faults' \in 0 .. MaxFaults
<1>1. calm \in BOOLEAN /\ faults \in 0 .. MaxFaults /\ MaxFaults \in Nat
  BY PortForwardAssumption DEF ForwardTypeOK
<1>2. faults' = faults \/ (faults < MaxFaults /\ faults' = faults + 1)
  BY DEF Command, List, Delete, DeleteDone, DeleteLegacy, FlushChain, Drop,
         Append1, AppendDone, Inspect,
     InspectChain, Publish, Runs, Fails
<1>3. faults' \in 0 .. MaxFaults
  BY <1>1, <1>2
<1>4. (UNCHANGED <<nodeVars, published, outside, cliRuns>>)
       \/ (UNCHANGED <<nodeVars, outside, cliRuns>> /\ At(p, "publish")
           /\ published' = IF p = "service" THEN job[p].st ELSE published)
  BY DEF Command, List, Delete, DeleteDone, DeleteLegacy, FlushChain, Drop,
         Append1, AppendDone, Inspect,
     InspectChain, Publish, Rest
<1>5. calm' = calm \/ calm' = (calm /\ p # "service")
  BY DEF Command, List, Delete, DeleteDone, DeleteLegacy, FlushChain, Drop,
         Append1, AppendDone, Inspect,
     InspectChain, Publish, Calm, Disturbed
<1>6. calm' \in BOOLEAN /\ (calm' => calm)
  <2>1. CASE calm' = calm
    BY <1>1, <2>1
  <2>2. CASE calm' = (calm /\ p # "service")
    BY <2>2, Zenon
  <2> QED BY <1>5, <2>1, <2>2
<1>7. UNCHANGED <<phase, auto, owed, plan, wanted, edits, cliRuns>>
  BY <1>4 DEF nodeVars, outside
<1>8. /\ p # "service" => published' = published
      /\ published' = published \/ (At(p, "publish") /\ published' = job[p].st)
  BY <1>4
<1> QED BY <1>3, <1>6, <1>7, <1>8

\* The job of a process, new.
LEMMA NewJob ==
    ASSUME ForwardTypeOK, NEW exp \in Plans, NEW writes \in BOOLEAN, NEW j, j = Job(exp, writes)
    PROVE  /\ j \in JobType /\ j.pc = First(writes) /\ j.exp = exp /\ j.writes = writes
           /\ j.at = 1 /\ j.k = 1 /\ j.st = [tool \in Tool |-> "none"]
<1>1. Len(Tools) \in Nat /\ Len(Tools) >= 1 /\ <<>> \in Plans
  BY ToolFacts, RuleFacts
<1>2. First(writes) \in {"list", "inspect"}
  BY DEF First
<1>3. PICK w, f : w = First(writes) /\ f = [tool \in Tool |-> "none"]
  OBVIOUS
<1>4. j = [pc |-> w, exp |-> exp, writes |-> writes, at |-> 1, left |-> <<>>, k |-> 1,
           dead |-> FALSE, st |-> f]
  BY <1>3 DEF Job, Idle
<1>5. 1 \in 1 .. Len(Tools) /\ <<>> \in Seq(Rules \cup Jumps) /\ 1 \in Nat
  BY <1>1, EmptySeq
<1>6. f \in [Tool -> {"none", "ok", "needs_repair", "error"}] /\ w \in {"list", "inspect"}
  BY <1>2, <1>3
<1> QED BY <1>3, <1>4, <1>5, <1>6 DEF JobType

LEMMA IdleJob ==
    ASSUME NEW j, j = Idle
    PROVE  /\ j \in JobType /\ j.pc = "idle" /\ j.exp = <<>> /\ j.writes = FALSE
           /\ j.at = 1 /\ j.k = 1 /\ j.st = [tool \in Tool |-> "none"]
<1>1. Len(Tools) \in Nat /\ Len(Tools) >= 1 /\ <<>> \in Plans
  BY ToolFacts, RuleFacts
<1>2. PICK f : f = [tool \in Tool |-> "none"]
  OBVIOUS
<1>3. j = [pc |-> "idle", exp |-> <<>>, writes |-> FALSE, at |-> 1, left |-> <<>>, k |-> 1,
           dead |-> FALSE, st |-> f]
  BY <1>2 DEF Idle
<1>4. 1 \in 1 .. Len(Tools) /\ <<>> \in Seq(Rules \cup Jumps) /\ 1 \in Nat
  BY <1>1, EmptySeq
<1>5. f \in [Tool -> {"none", "ok", "needs_repair", "error"}]
  BY <1>2
<1> QED BY <1>1, <1>2, <1>3, <1>4, <1>5 DEF JobType

\* What the service's node manager starts, and what it leaves alone.
LEMMA ReconcileFacts ==
    ASSUME ForwardTypeOK, NEW flags \in [auto : BOOLEAN, owed : BOOLEAN], NEW exp \in Plans,
           ReconcileAuto(flags, exp)
    PROVE  /\ auto' = flags.auto /\ owed' = FALSE
           /\ UNCHANGED <<table, chain, plan, wanted, edits, faults, cliRuns>>
           /\ job' \in [Procs -> JobType] /\ job'["rules"] = job["rules"]
           /\ \/ /\ flags.auto \/ flags.owed
                 /\ job'["service"] = Job(IF flags.auto THEN exp ELSE <<>>, TRUE)
                 /\ job'["service"].pc = "list" /\ job'["service"].writes
                 /\ job'["service"].exp = IF flags.auto THEN exp ELSE <<>>
                 /\ job'["service"].at = 1 /\ job'["service"].k = 1
                 /\ job'["service"].st = [tool \in Tool |-> "none"]
                 /\ calm' = (At("rules", "idle") \/ ~job["rules"].writes)
                 /\ published' = published
              \/ /\ ~flags.auto /\ ~flags.owed
                 /\ published' = [tool \in Tool |-> "none"]
                 /\ UNCHANGED <<job, calm>>
<1>1. job \in [Procs -> JobType] /\ "service" \in Procs /\ "rules" \in Procs
  BY DEF ForwardTypeOK, Procs
<1>2. Idle.st = [tool \in Tool |-> "none"]
  BY DEF Idle
<1>3. PICK e, j : e = (IF flags.auto THEN exp ELSE <<>>) /\ j = Job(e, TRUE)
  OBVIOUS
<1>4. e \in Plans
  BY <1>3, RuleFacts
<1>5. /\ j \in JobType /\ j.pc = First(TRUE) /\ j.exp = e /\ j.writes = TRUE
      /\ j.at = 1 /\ j.k = 1 /\ j.st = [tool \in Tool |-> "none"]
  <2>1. PICK w : w = TRUE
    OBVIOUS
  <2>2. j = Job(e, w) /\ w \in BOOLEAN
    BY <1>3, <2>1
  <2>3. /\ j \in JobType /\ j.pc = First(w) /\ j.exp = e /\ j.writes = w
        /\ j.at = 1 /\ j.k = 1 /\ j.st = [tool \in Tool |-> "none"]
    BY <1>4, <2>2, NewJob
  <2> QED BY <2>1, <2>3
<1>6. First(TRUE) = "list"
  BY DEF First
<1>7. CASE flags.auto \/ flags.owed
  <2>1. job' = [job EXCEPT !["service"] = j]
    BY <1>3, <1>7 DEF ReconcileAuto
  <2>2. job'["service"] = j /\ job'["rules"] = job["rules"] /\ job' \in [Procs -> JobType]
    BY <1>1, <1>5, <2>1
  <2> QED BY <1>3, <1>5, <1>6, <1>7, <2>2 DEF ReconcileAuto, outside, At
<1>8. CASE ~(flags.auto \/ flags.owed)
  BY <1>1, <1>2, <1>8 DEF ReconcileAuto, outside
<1> QED BY <1>7, <1>8

\* The three ways the node manager comes to reconcile; one that finds nothing
\* to do starts from nodes that are down or from a service that is off.
LEMMA ServiceStep ==
    ASSUME ForwardTypeOK, Reconcile \/ CloseNode \/ StartNode
    PROVE  \E flags \in [auto : BOOLEAN, owed : BOOLEAN], exp \in Plans :
              /\ ReconcileAuto(flags, exp)
              /\ At("service", "idle") /\ phase' \in {"up", "down"}
              /\ phase' = "down" => exp = <<>>
              /\ ~flags.auto /\ ~flags.owed => ~(phase = "up" /\ auto)
<1>1. auto \in BOOLEAN /\ owed \in BOOLEAN /\ wanted \in BOOLEAN /\ plan \in Plans /\ <<>> \in Plans
  BY RuleFacts DEF ForwardTypeOK
<1>2. PICK asked : asked = SetAuto(wanted)
  OBVIOUS
<1>3. /\ asked \in [auto : BOOLEAN, owed : BOOLEAN]
      /\ ~asked.auto /\ ~asked.owed => ~auto
  <2>1. PICK a, b : a = wanted /\ b = (~wanted /\ (auto \/ owed))
    OBVIOUS
  <2>2. a \in BOOLEAN /\ b \in BOOLEAN /\ (~a /\ ~b => ~auto)
    <3>1. a \in BOOLEAN
      BY <1>1, <2>1
    <3>2. b \in BOOLEAN
      BY <2>1, Zenon
    <3>3. ~a /\ ~b => ~auto
      BY <2>1
    <3> QED BY <3>1, <3>2, <3>3
  <2>3. asked = [auto |-> a, owed |-> b]
    BY <1>2, <2>1 DEF SetAuto
  <2> QED BY <2>2, <2>3
<1>4. CASE Reconcile
  <2>1. ReconcileAuto(asked, plan) /\ At("service", "idle") /\ phase = "up" /\ phase' = "up"
    BY <1>2, <1>4 DEF Reconcile
  <2> QED BY <1>1, <1>3, <2>1
<1>5. CASE CloseNode
  <2>1. At("service", "idle") /\ phase' = "down"
    BY <1>5 DEF CloseNode
  <2>2. CASE ReconcileAuto(SetAuto(wanted), <<>>)
    BY <1>1, <1>2, <1>3, <2>1, <2>2
  <2>3. CASE ReconcileAuto([auto |-> auto, owed |-> owed], <<>>)
    <3>1. PICK flags : flags = [auto |-> auto, owed |-> owed]
      OBVIOUS
    <3>2. flags \in [auto : BOOLEAN, owed : BOOLEAN] /\ flags.auto = auto
      BY <1>1, <3>1
    <3> QED BY <1>1, <2>1, <2>3, <3>1, <3>2
  <2> QED BY <1>5, <2>2, <2>3 DEF CloseNode
<1>6. CASE StartNode
  <2>1. PICK flags : flags = [auto |-> wanted, owed |-> FALSE]
    OBVIOUS
  <2>2. flags \in [auto : BOOLEAN, owed : BOOLEAN]
    BY <1>1, <2>1
  <2>3. ReconcileAuto(flags, plan) /\ At("service", "idle") /\ phase = "down" /\ phase' = "up"
    BY <1>6, <2>1 DEF StartNode
  <2> QED BY <1>1, <2>2, <2>3
<1> QED BY <1>4, <1>5, <1>6

LEMMA RunFacts ==
    ASSUME ForwardTypeOK, RunRules
    PROVE  /\ job' \in [Procs -> JobType] /\ job'["service"] = job["service"]
           /\ job'["rules"].k = 1
           /\ job'["rules"].pc = First(job'["rules"].writes)
           /\ At("rules", "idle") /\ cliRuns < MaxCli /\ cliRuns' = cliRuns + 1
           /\ calm' \in BOOLEAN /\ (calm' => calm /\ ~job'["rules"].writes)
           /\ UNCHANGED <<table, chain, phase, auto, owed, published, plan, wanted, edits, faults>>
<1>1. job \in [Procs -> JobType] /\ "service" \in Procs /\ "rules" \in Procs
  BY DEF ForwardTypeOK, Procs
<1>2. plan \in Plans /\ <<>> \in Plans
  BY RuleFacts DEF ForwardTypeOK
<1>3. PICK exp \in {plan, <<>>}, root \in BOOLEAN :
         /\ job' = [job EXCEPT !["rules"] = Job(exp, root)]
         /\ calm' = (calm /\ ~root)
  BY DEF RunRules
<1>4. PICK j : j = Job(exp, root)
  OBVIOUS
<1>5. j \in JobType /\ j.pc = First(root) /\ j.writes = root /\ j.k = 1
  BY <1>2, <1>3, <1>4, NewJob
<1>6. job' \in [Procs -> JobType] /\ job'["service"] = job["service"] /\ job'["rules"] = j
  BY <1>1, <1>3, <1>4, <1>5
<1>7. calm' \in BOOLEAN /\ (calm' => calm /\ ~root)
  BY <1>3, Zenon
<1>8. /\ At("rules", "idle") /\ cliRuns < MaxCli /\ cliRuns' = cliRuns + 1
      /\ UNCHANGED <<table, chain, phase, auto, owed, published, plan, wanted, edits, faults>>
  BY DEF RunRules, nodeVars, outside
<1> QED BY <1>5, <1>6, <1>7, <1>8

LEMMA CrashFacts ==
    ASSUME ForwardTypeOK, Crash
    PROVE  /\ job' \in [Procs -> JobType] /\ job'["rules"] = job["rules"]
           /\ job'["service"].pc = "idle" /\ job'["service"].exp = <<>> /\ job'["service"].k = 1
           /\ job'["service"].st = [tool \in Tool |-> "none"]
           /\ published' = [tool \in Tool |-> "none"] /\ calm' = FALSE
<1>1. job \in [Procs -> JobType] /\ "service" \in Procs /\ "rules" \in Procs
  BY DEF ForwardTypeOK, Procs
<1>2. PICK j : j = Idle
  OBVIOUS
<1>3. /\ j \in JobType /\ j.pc = "idle" /\ j.exp = <<>> /\ j.k = 1
      /\ j.st = [tool \in Tool |-> "none"]
  BY <1>2, IdleJob
<1>4. job' = [job EXCEPT !["service"] = j] /\ published' = j.st /\ calm' = FALSE
  BY <1>2 DEF Crash
<1>5. job' \in [Procs -> JobType] /\ job'["rules"] = job["rules"] /\ job'["service"] = j
  BY <1>1, <1>3, <1>4
<1> QED BY <1>3, <1>4, <1>5

LEMMA ForwardTypeInit == ForwardInit => ForwardTypeOK
<1> SUFFICES ASSUME ForwardInit PROVE ForwardTypeOK
  OBVIOUS
<1>1. PICK j : j = Idle
  OBVIOUS
<1>2. /\ j \in JobType /\ j.k = 1 /\ j.exp = <<>> /\ j.st = [tool \in Tool |-> "none"]
  BY <1>1, IdleJob
<1>3. job = [p \in Procs |-> j] /\ published = j.st
  BY <1>1 DEF ForwardInit
<1>4. job \in [Procs -> JobType] /\ \A p \in Procs : job[p] = j
  BY <1>2, <1>3
<1>5. Len(<<>>) = 0
  BY EmptySeq
<1>6. \A p \in Procs : job[p].k \in 1 .. (Len(job[p].exp) + 1)
  BY <1>2, <1>4, <1>5
<1>7. published \in [Tool -> {"none", "ok", "needs_repair", "error"}]
  BY <1>2, <1>3
<1>8. table \in [Tool -> Seq(Rules \cup Jumps \cup Foreign)]
  BY PortForwardAssumption DEF ForwardInit
<1>9. chain \in [Tool -> {"none", "empty", "full"}]
  BY DEF ForwardInit
<1>10. faults \in 0 .. MaxFaults /\ edits \in 0 .. MaxEdits /\ cliRuns \in 0 .. MaxCli
  BY PortForwardAssumption DEF ForwardInit
<1>11. /\ phase \in {"up", "down"} /\ auto \in BOOLEAN /\ owed \in BOOLEAN
       /\ plan \in Plans /\ wanted \in BOOLEAN /\ calm \in BOOLEAN
  BY DEF ForwardInit
<1> QED BY <1>4, <1>6, <1>7, <1>8, <1>9, <1>10, <1>11 DEF ForwardTypeOK

\* The numbers k stay in their lists when both jobs are known.
LEMMA NumbersKept ==
    ASSUME ForwardTypeOK,
           \A q \in Procs : \/ job'[q] = job[q]
                            \/ job'[q].k \in 1 .. (Len(job'[q].exp) + 1)
    PROVE  \A q \in Procs : job'[q].k \in 1 .. (Len(job'[q].exp) + 1)
<1>1. \A q \in Procs : job[q].k \in 1 .. (Len(job[q].exp) + 1)
  BY DEF ForwardTypeOK
<1> QED BY <1>1

\* A new job is at the first rule of its list.
LEMMA OneFits ==
    ASSUME NEW j \in JobType, j.k = 1
    PROVE  j.k \in 1 .. (Len(j.exp) + 1)
<1>1. j.exp \in Seq(Rules)
  BY RuleFacts DEF JobType
<1>2. PICK m : m = Len(j.exp)
  OBVIOUS
<1>3. m \in Nat
  BY <1>1, <1>2, LenProperties
<1>4. 1 \in 1 .. (m + 1)
  BY <1>3
<1> QED BY <1>2, <1>4

LEMMA ForwardTypeNext == ForwardTypeOK /\ [ForwardNext]_forwardVars => ForwardTypeOK'
<1> SUFFICES ASSUME ForwardTypeOK, [ForwardNext]_forwardVars PROVE ForwardTypeOK'
  BY PortForwardAssumption DEF Jumps
<1>0. /\ table \in [Tool -> Seq(Rules \cup Jumps \cup Foreign)]
      /\ chain \in [Tool -> {"none", "empty", "full"}]
      /\ job \in [Procs -> JobType]
      /\ \A p \in Procs : job[p].k \in 1..(Len(job[p].exp) + 1)
      /\ phase \in {"up", "down"} /\ auto \in BOOLEAN /\ owed \in BOOLEAN
      /\ published \in [Tool -> {"none", "ok", "needs_repair", "error"}]
      /\ plan \in Plans /\ wanted \in BOOLEAN /\ calm \in BOOLEAN
      /\ faults \in 0..MaxFaults /\ edits \in 0..MaxEdits /\ cliRuns \in 0..MaxCli
      /\ MaxFaults \in Nat /\ MaxEdits \in Nat /\ MaxCli \in Nat
  BY PortForwardAssumption DEF ForwardTypeOK
<1>1. ASSUME NEW p \in Procs, Command(p) PROVE ForwardTypeOK'
  <2>1. Steady(p) /\ job'[p].k \in 1 .. (Len(job[p].exp) + 1)
    BY <1>1, CommandSteady
  <2>2. job' \in [Procs -> JobType]
    BY <2>1 DEF Steady
  <2>3. \A q \in Procs : job'[q].k \in 1 .. (Len(job'[q].exp) + 1)
    BY <2>1, NumbersKept DEF Steady
  <2>4. table' \in [Tool -> Seq(Rules \cup Jumps \cup Foreign)]
    <3>1. T(p) \in Tool /\ table[T(p)] \in Seq(Rules \cup Jumps \cup Foreign)
      BY JobFacts
    <3>2. \A e : RemoveFirst(table[T(p)], e) \in Seq(Rules \cup Jumps \cup Foreign)
      BY <3>1, RemoveType
    <3>3. \A e \in Rules : Append(table[T(p)], e) \in Seq(Rules \cup Jumps \cup Foreign)
      BY <3>1, AppendProperties
    <3>4. ASSUME NEW e, table' = [table EXCEPT ![T(p)] = RemoveFirst(table[T(p)], e)]
          PROVE  table' \in [Tool -> Seq(Rules \cup Jumps \cup Foreign)]
      BY <1>0, <3>1, <3>2, <3>4
    <3>5. ASSUME NEW e \in Rules, table' = [table EXCEPT ![T(p)] = Append(table[T(p)], e)]
          PROVE  table' \in [Tool -> Seq(Rules \cup Jumps \cup Foreign)]
      BY <1>0, <3>1, <3>3, <3>5
    <3> QED BY <1>0, <1>1, <3>4, <3>5, CommandTable
  <2>5. chain' \in [Tool -> {"none", "empty", "full"}]
    BY <1>1, CommandChain
  <2>6. /\ UNCHANGED <<phase, auto, owed, plan, wanted, edits, cliRuns>>
        /\ calm' \in BOOLEAN /\ faults' \in 0 .. MaxFaults
        /\ published' = published \/ published' = job[p].st
    BY <1>1, CommandRest
  <2>7. published' \in [Tool -> {"none", "ok", "needs_repair", "error"}]
    BY <1>0, <2>6 DEF JobType
  <2> QED BY <1>0, <2>2, <2>3, <2>4, <2>5, <2>6, <2>7 DEF ForwardTypeOK
<1>2. ASSUME NEW p \in Procs, Expire(p) PROVE ForwardTypeOK'
  <2>1. Steady(p) /\ job'[p].k = job[p].k
    BY <1>2, ExpireFacts DEF Expire
  <2>2. job' \in [Procs -> JobType]
    BY <2>1 DEF Steady
  <2>3. \A q \in Procs : job'[q].k \in 1 .. (Len(job'[q].exp) + 1)
    BY <1>0, <2>1 DEF Steady
  <2>4. faults' \in 0 .. MaxFaults
    BY <1>0, <1>2 DEF Expire
  <2>5. UNCHANGED <<table, chain, phase, auto, owed, published, plan, wanted, edits, cliRuns, calm>>
    BY <1>2 DEF Expire, Rest, Calm, nodeVars, outside
  <2> QED BY <1>0, <2>2, <2>3, <2>4, <2>5 DEF ForwardTypeOK
<1>3. ASSUME Reconcile \/ CloseNode \/ StartNode PROVE ForwardTypeOK'
  <2>1. PICK flags \in [auto : BOOLEAN, owed : BOOLEAN], exp \in Plans :
           ReconcileAuto(flags, exp) /\ phase' \in {"up", "down"}
    BY <1>3, ServiceStep
  <2>2. /\ auto' = flags.auto /\ owed' = FALSE
        /\ UNCHANGED <<table, chain, plan, wanted, edits, faults, cliRuns>>
        /\ job' \in [Procs -> JobType] /\ job'["rules"] = job["rules"]
        /\ \/ /\ job'["service"].k = 1
              /\ calm' = (At("rules", "idle") \/ ~job["rules"].writes)
              /\ published' = published
           \/ /\ published' = [tool \in Tool |-> "none"]
              /\ UNCHANGED <<job, calm>>
    BY <2>1, ReconcileFacts
  <2>3. published' \in [Tool -> {"none", "ok", "needs_repair", "error"}]
    BY <1>0, <2>2
  <2>4. calm' \in BOOLEAN /\ auto' \in BOOLEAN
    <3>1. (At("rules", "idle") \/ ~job["rules"].writes) \in BOOLEAN
      BY Zenon
    <3>2. calm' \in BOOLEAN
      BY <1>0, <2>2, <3>1
    <3>3. auto' \in BOOLEAN
      BY <2>1, <2>2
    <3> QED BY <3>2, <3>3
  <2>5. \A q \in Procs : job'[q].k \in 1 .. (Len(job'[q].exp) + 1)
    <3>1. job'["service"] \in JobType
      BY <2>2 DEF Procs
    <3>2. job'["service"].k = 1 => job'["service"].k \in 1 .. (Len(job'["service"].exp) + 1)
      BY <1>0, <3>1, OneFits
    <3> QED BY <2>2, <3>2, NumbersKept DEF Procs
  <2> QED BY <1>0, <2>1, <2>2, <2>3, <2>4, <2>5 DEF ForwardTypeOK
<1>4. ASSUME Crash PROVE ForwardTypeOK'
  <2>1. /\ job' \in [Procs -> JobType] /\ job'["rules"] = job["rules"] /\ job'["service"].k = 1
        /\ published' = [tool \in Tool |-> "none"] /\ calm' = FALSE
    BY <1>4, CrashFacts
  <2>2. \A q \in Procs : job'[q].k \in 1 .. (Len(job'[q].exp) + 1)
    <3>1. job'["service"] \in JobType
      BY <2>1 DEF Procs
    <3>2. job'["service"].k \in 1 .. (Len(job'["service"].exp) + 1)
      BY <1>0, <2>1, <3>1, OneFits
    <3> QED BY <2>1, <3>2, NumbersKept DEF Procs
  <2>3. faults' \in 0 .. MaxFaults
    BY <1>0, <1>4 DEF Crash
  <2>4. /\ phase' = "down" /\ auto' = FALSE /\ owed' = FALSE
        /\ UNCHANGED <<table, chain, plan, wanted, edits, cliRuns>>
    BY <1>4 DEF Crash, outside
  <2>5. published' \in [Tool -> {"none", "ok", "needs_repair", "error"}]
    BY <2>1
  <2> QED BY <1>0, <2>1, <2>2, <2>3, <2>4, <2>5 DEF ForwardTypeOK
<1>5. ASSUME RunRules PROVE ForwardTypeOK'
  <2>1. /\ job' \in [Procs -> JobType] /\ job'["service"] = job["service"] /\ job'["rules"].k = 1
        /\ cliRuns < MaxCli /\ cliRuns' = cliRuns + 1 /\ calm' \in BOOLEAN
        /\ UNCHANGED <<table, chain, phase, auto, owed, published, plan, wanted, edits, faults>>
    BY <1>5, RunFacts
  <2>2. \A q \in Procs : job'[q].k \in 1 .. (Len(job'[q].exp) + 1)
    <3>1. job'["rules"] \in JobType
      BY <2>1 DEF Procs
    <3>2. job'["rules"].k \in 1 .. (Len(job'["rules"].exp) + 1)
      BY <1>0, <2>1, <3>1, OneFits
    <3> QED BY <2>1, <3>2, NumbersKept DEF Procs
  <2>3. cliRuns' \in 0 .. MaxCli
    BY <1>0, <2>1
  <2> QED BY <1>0, <2>1, <2>2, <2>3 DEF ForwardTypeOK
<1>6. ASSUME Edit PROVE ForwardTypeOK'
  <2>1. edits' \in 0 .. MaxEdits
    BY <1>0, <1>6 DEF Edit
  <2>2. plan' \in Plans /\ wanted' \in BOOLEAN
    BY <1>0, <1>6 DEF Edit
  <2>3. UNCHANGED <<table, chain, job, phase, auto, owed, published, faults, cliRuns, calm>>
    BY <1>6 DEF Edit, nodeVars
  <2> QED BY <1>0, <2>1, <2>2, <2>3 DEF ForwardTypeOK
<1>7. CASE UNCHANGED forwardVars
  BY <1>0, <1>7 DEF forwardVars, nodeVars, outside, ForwardTypeOK
<1> QED BY <1>1, <1>2, <1>3, <1>4, <1>5, <1>6, <1>7 DEF ForwardNext

-----------------------------------------------------------------------------
(* JobInv and CalmInv.                                                     *)

\* Only a job that is under way runs commands, it writes only where commands
\* write, and gets there from such a place or by its flag.
LEMMA CommandPlace ==
    ASSUME ForwardTypeOK, NEW p \in Procs, Command(p)
    PROVE  /\ ~At(p, "idle")
           /\ job'[p].pc \in WritePlaces => job[p].pc \in WritePlaces \/ job[p].writes
           /\ job[p].pc \notin WritePlaces => UNCHANGED <<table, chain, calm>>
<1>1. ~At(p, "idle")
  BY DEF Command, List, Delete, DeleteDone, DeleteLegacy, FlushChain, Drop,
         Append1, AppendDone,
     Inspect, InspectChain, Publish, At
<1>2. ASSUME job[p].pc \notin WritePlaces
      PROVE  /\ UNCHANGED <<table, chain, calm>>
             /\ \/ \E state \in {"ok", "needs_repair", "error"} : NextTool(p, state)
                \/ Goto(p, "chain") \/ Goto(p, "idle")
  <2>1. Inspect(p) \/ InspectChain(p) \/ Publish(p)
    BY <1>2 DEF Command, List, Delete, DeleteDone, DeleteLegacy, FlushChain,
                Drop, Append1, AppendDone,
       At, WritePlaces
  <2> QED BY <2>1 DEF Inspect, InspectChain, Publish, Calm
<1>3. ASSUME job[p].pc \notin WritePlaces, job'[p].pc \in WritePlaces PROVE job[p].writes
  <2>1. CASE Goto(p, "chain") \/ Goto(p, "idle")
    <3>1. job'[p].pc \in {"chain", "idle"}
      BY <2>1, GotoFacts
    <3> QED BY <1>3, <3>1 DEF WritePlaces
  <2>2. ASSUME NEW state \in {"ok", "needs_repair", "error"}, NextTool(p, state)
        PROVE  job[p].writes
    <3>1. job'[p].pc = "publish" \/ job'[p].pc = First(job[p].writes)
      BY <2>2, NextToolFacts
    <3> QED BY <1>3, <3>1 DEF WritePlaces, First
  <2> QED BY <1>2, <1>3, <2>1, <2>2
<1> QED BY <1>1, <1>2, <1>3

LEMMA JobNext ==
    ForwardTypeOK /\ JobInv /\ CalmInv /\ [ForwardNext]_forwardVars
        => JobInv' /\ CalmInv'
<1> SUFFICES ASSUME ForwardTypeOK, JobInv, CalmInv, [ForwardNext]_forwardVars
             PROVE  JobInv' /\ CalmInv'
  OBVIOUS
<1> USE DEF JobInv, CalmInv, At
<1>0. "service" \in Procs /\ "rules" \in Procs /\ \A p \in Procs : p = "service" \/ p = "rules"
  BY DEF Procs
<1>1. ASSUME NEW p \in Procs, Command(p) PROVE JobInv' /\ CalmInv'
  <2>1. /\ \A q \in Procs : q # p => job'[q] = job[q]
        /\ job'[p].exp = job[p].exp /\ job'[p].writes = job[p].writes
    BY <1>1, CommandSteady DEF Steady
  <2>2. /\ job[p].pc # "idle"
        /\ job'[p].pc \in WritePlaces => job[p].pc \in WritePlaces \/ job[p].writes
    BY <1>1, CommandPlace
  <2>3. UNCHANGED <<phase, auto>> /\ (calm' => calm)
    BY <1>1, CommandRest
  <2>4. JobInv'
    BY <1>0, <2>1, <2>2, <2>3
  <2>5. CalmInv'
    BY <1>0, <2>1, <2>2, <2>3
  <2> QED BY <2>4, <2>5
<1>2. ASSUME NEW p \in Procs, Expire(p) PROVE JobInv' /\ CalmInv'
  <2>1. /\ \A q \in Procs : q # p => job'[q] = job[q]
        /\ job'[p].exp = job[p].exp /\ job'[p].writes = job[p].writes /\ job'[p].pc = job[p].pc
    BY <1>2, ExpireFacts DEF Expire, Steady
  <2>2. UNCHANGED <<phase, auto, calm>>
    BY <1>2 DEF Expire, Rest, Calm, nodeVars
  <2> QED BY <1>0, <2>1, <2>2
<1>3. ASSUME Reconcile \/ CloseNode \/ StartNode PROVE JobInv' /\ CalmInv'
  <2>1. PICK flags \in [auto : BOOLEAN, owed : BOOLEAN], exp \in Plans :
              /\ ReconcileAuto(flags, exp)
              /\ phase' \in {"up", "down"} /\ (phase' = "down" => exp = <<>>)
              /\ ~flags.auto /\ ~flags.owed => ~(phase = "up" /\ auto)
    BY <1>3, ServiceStep
  <2>2. /\ auto' = flags.auto /\ job'["rules"] = job["rules"]
        /\ \/ /\ job'["service"].pc = "list" /\ job'["service"].writes
              /\ job'["service"].exp = IF flags.auto THEN exp ELSE <<>>
              /\ calm' = (At("rules", "idle") \/ ~job["rules"].writes)
           \/ /\ ~flags.auto /\ ~flags.owed
              /\ UNCHANGED <<job, calm>>
    BY <2>1, ReconcileFacts
  <2>3. CASE UNCHANGED <<job, calm>> /\ ~flags.auto /\ ~flags.owed
    BY <1>0, <2>1, <2>2, <2>3
  <2>4. CASE /\ job'["service"].pc = "list" /\ job'["service"].writes
             /\ job'["service"].exp = IF flags.auto THEN exp ELSE <<>>
             /\ calm' = (At("rules", "idle") \/ ~job["rules"].writes)
    <3>1. ~(phase' = "up" /\ auto') => job'["service"].exp = <<>>
      BY <2>1, <2>2, <2>4
    <3> QED BY <1>0, <2>2, <2>4, <3>1
  <2> QED BY <2>2, <2>3, <2>4
<1>4. ASSUME Crash PROVE JobInv' /\ CalmInv'
  <2>1. /\ job'["rules"] = job["rules"] /\ job'["service"].pc = "idle"
        /\ job'["service"].exp = <<>> /\ calm' = FALSE
    BY <1>4, CrashFacts
  <2> QED BY <1>0, <2>1 DEF WritePlaces
<1>5. ASSUME RunRules PROVE JobInv' /\ CalmInv'
  <2>1. /\ job'["service"] = job["service"] /\ job'["rules"].pc = First(job'["rules"].writes)
        /\ (calm' => calm /\ ~job'["rules"].writes) /\ UNCHANGED <<phase, auto>>
    BY <1>5, RunFacts
  <2> QED BY <1>0, <2>1 DEF WritePlaces, First
<1>6. ASSUME Edit PROVE JobInv' /\ CalmInv'
  BY <1>6 DEF Edit, nodeVars
<1>7. CASE UNCHANGED forwardVars
  BY <1>7 DEF forwardVars, nodeVars
<1> QED BY <1>1, <1>2, <1>3, <1>4, <1>5, <1>6, <1>7 DEF ForwardNext

-----------------------------------------------------------------------------
(* The rules of somebody else.                                             *)

LEMMA ForeignStep == ForwardTypeOK /\ [ForwardNext]_forwardVars => [KeepsForeign]_table
<1> SUFFICES ASSUME ForwardTypeOK, ForwardNext, table' # table, NEW tool \in Tool
             PROVE  ForeignOf(table'[tool]) = ForeignOf(table[tool])
  BY DEF forwardVars, KeepsForeign
<1>1. PICK p \in Procs : Command(p)
  <2>1. Reconcile \/ CloseNode \/ StartNode => table' = table
    BY ServiceStep, ReconcileFacts
  <2>2. Crash \/ RunRules \/ Edit => table' = table
    BY DEF Crash, RunRules, Edit
  <2>3. ASSUME NEW p \in Procs, Expire(p) PROVE table' = table
    BY <2>3 DEF Expire
  <2> QED BY <2>1, <2>2, <2>3 DEF ForwardNext
<1>2. T(p) \in Tool /\ table[T(p)] \in Seq(Rules \cup Jumps \cup Foreign)
  BY JobFacts
<1>3. table \in [Tool -> Seq(Rules \cup Jumps \cup Foreign)]
  BY DEF ForwardTypeOK
<1>4. \A e \in Rules \cup Jumps : e \notin Foreign
  BY RuleFacts
<1>5. ASSUME NEW e \in Rules \cup Jumps,
             table' = [table EXCEPT ![T(p)] = RemoveFirst(table[T(p)], e)]
      PROVE  ForeignOf(table'[tool]) = ForeignOf(table[tool])
  <2>1. Filter(RemoveFirst(table[T(p)], e), Foreign) = Filter(table[T(p)], Foreign)
    BY <1>2, <1>4, FilterRemoveOther
  <2> QED BY <1>3, <1>5, <2>1 DEF ForeignOf
<1>6. ASSUME NEW e \in Rules, table' = [table EXCEPT ![T(p)] = Append(table[T(p)], e)]
      PROVE  ForeignOf(table'[tool]) = ForeignOf(table[tool])
  <2>1. Filter(Append(table[T(p)], e), Foreign) = Filter(table[T(p)], Foreign)
    BY <1>2, <1>4, FilterAppend
  <2> QED BY <1>3, <1>6, <2>1 DEF ForeignOf
<1> QED BY <1>1, <1>5, <1>6, CommandTable

-----------------------------------------------------------------------------
(* ForwardExact: an undisturbed job of the service, tool by tool.          *)

\* A prefix and its next element.
LEMMA OneMore ==
    ASSUME NEW X, NEW s \in Seq(X), NEW k \in 1 .. Len(s)
    PROVE  Append(SubSeq(s, 1, k - 1), s[k]) = SubSeq(s, 1, k)
<1>1. Len(s) \in Nat /\ s[k] \in X /\ \A i \in 1 .. (k - 1) : s[i] \in X
  BY LenProperties, ElementOfSeq
<1>2. SubSeq(s, 1, k - 1) \in Seq(X)
  BY <1>1, SubSeqProperties
<1>3. SubSeq(s, 1, k) = SubSeq(s, 1, k - 1) \o <<s[k]>>
  <2>1. 1 \in 1 .. Len(s) /\ k \in 1 .. Len(s)
    BY <1>1
  <2> QED BY <2>1, SubSeqRecursiveSecond
<1> QED BY <1>1, <1>2, <1>3, AppendIsConcat

\* A command does nothing to the tools it is not at.
LEMMA Elsewhere ==
    ASSUME ForwardTypeOK, NEW p \in Procs, Command(p), NEW tool \in Tool, tool # T(p)
    PROVE  table'[tool] = table[tool] /\ chain'[tool] = chain[tool]
<1>1. table \in [Tool -> Seq(Rules \cup Jumps \cup Foreign)]
  BY DEF ForwardTypeOK
<1>2. table'[tool] = table[tool]
  BY <1>1, CommandTable
<1> QED BY <1>2, CommandChain

\* The tools that the service is done with stay so while it is at another.
LEMMA ToolsKept ==
    ASSUME ForwardTypeOK, Command("service"),
           \A i \in 1 .. Len(Tools) : Past(i) => Holds(Tools[i]),
           job'["service"].at = job["service"].at,
           job'["service"].pc \notin {"publish", "idle"}
    PROVE  \A i \in 1 .. Len(Tools) : Past(i)' => Holds(Tools[i])'
<1> SUFFICES ASSUME NEW i \in 1 .. Len(Tools), Past(i)' PROVE Holds(Tools[i])'
  OBVIOUS
<1>0. "service" \in Procs
  BY DEF Procs
<1>1. job["service"].at \in 1 .. Len(Tools) /\ Len(Tools) \in Nat
  BY <1>0, JobFacts, ToolFacts
<1>2. i < job["service"].at
  BY DEF Past
<1>3. Holds(Tools[i])
  BY <1>2 DEF Past
<1>4. Tools[i] \in Tool /\ Tools[i] # T("service")
  <2>1. i # job["service"].at
    BY <1>1, <1>2
  <2> QED BY <1>1, <2>1, ToolFacts DEF T
<1>5. table'[Tools[i]] = table[Tools[i]] /\ chain'[Tools[i]] = chain[Tools[i]]
  BY <1>0, <1>4, Elsewhere
<1>6. job'["service"].exp = job["service"].exp
  BY <1>0, CommandSteady DEF Steady
<1> QED BY <1>3, <1>5, <1>6 DEF Holds, Own

\* The service leaves a tool that holds what it asks for.
LEMMA NextToolExact ==
    ASSUME ForwardTypeOK, JobInv, Command("service"),
           NEW state \in {"ok", "needs_repair", "error"}, NextTool("service", state),
           ~At("service", "idle"), UNCHANGED <<table, chain>>, Holds(T("service")),
           \A i \in 1 .. Len(Tools) : Past(i) => Holds(Tools[i])
    PROVE  ToolInv' /\ \A i \in 1 .. Len(Tools) : Past(i)' => Holds(Tools[i])'
<1>0. "service" \in Procs
  BY DEF Procs
<1>1. /\ job'["service"].exp = job["service"].exp
      /\ job["service"].at = Len(Tools) => job'["service"].pc = "publish"
      /\ job["service"].at # Len(Tools) => /\ job'["service"].pc = First(job["service"].writes)
                                           /\ job'["service"].at = job["service"].at + 1
  BY <1>0, NextToolFacts DEF Steady
<1>2. First(job["service"].writes) = "list"
  BY DEF JobInv, First
<1>3. job'["service"].pc \in {"list", "publish"}
  BY <1>1, <1>2
<1>4. ToolInv'
  BY <1>3 DEF ToolInv, At
<1>5. job["service"].at \in 1 .. Len(Tools) /\ Len(Tools) \in Nat
  BY <1>0, JobFacts, ToolFacts
<1>6. ASSUME NEW i \in 1 .. Len(Tools), Past(i)' PROVE Holds(Tools[i])'
  <2>1. i < job["service"].at \/ i = job["service"].at
    <3>1. CASE job["service"].at = Len(Tools)
      BY <1>5, <3>1
    <3>2. CASE job["service"].at # Len(Tools)
      <4>1. i < job["service"].at + 1
        BY <1>1, <1>2, <1>6, <3>2 DEF Past
      <4> QED BY <1>5, <4>1
    <3> QED BY <3>1, <3>2
  <2>2. Holds(Tools[i])
    BY <2>1 DEF Past, T
  <2> QED BY <1>1, <2>2 DEF Holds, Own
<1> QED BY <1>4, <1>6

LEMMA ServiceExactly ==
    ASSUME ForwardTypeOK, JobInv, ForwardExact, Command("service"), calm'
    PROVE  ToolInv' /\ \A i \in 1 .. Len(Tools) : Past(i)' => Holds(Tools[i])'
<1>0. "service" \in Procs
  BY DEF Procs
<1>1. calm /\ ToolInv /\ \A i \in 1 .. Len(Tools) : Past(i) => Holds(Tools[i])
  BY <1>0, CommandRest DEF ForwardExact
<1>2. ~At("service", "idle") /\ job["service"].writes
  BY <1>0, CommandPlace DEF JobInv
<1>3. PICK tool, x, s : tool = T("service") /\ x = table[tool] /\ s = job["service"]
  OBVIOUS
<1>4. /\ tool \in Tool /\ x \in Seq(Rules \cup Jumps \cup Foreign)
      /\ s.exp \in Seq(Rules) /\ Len(s.exp) \in Nat /\ s.k \in 1 .. (Len(s.exp) + 1)
      /\ s \in JobType
  BY <1>0, <1>3, JobFacts
<1>5. Own(tool) = Filter(x, Rules \cup Jumps)
  BY <1>3 DEF Own
<1>6. table \in [Tool -> Seq(Rules \cup Jumps \cup Foreign)]
      /\ chain \in [Tool -> {"none", "empty", "full"}]
  BY DEF ForwardTypeOK
<1>7. ASSUME NEW where \in {"flush", "delete", "drop", "append", "inspect", "chain"},
             job'["service"].pc = where, job'["service"].at = s.at
      PROVE  /\ T("service")' = tool
             /\ \A i \in 1 .. Len(Tools) : Past(i)' => Holds(Tools[i])'
  BY <1>0, <1>1, <1>3, <1>7, ToolsKept DEF T
<1>8. ~Disturbed("service")
  BY DEF Disturbed
<1>9. job'["service"].exp = s.exp
  BY <1>0, <1>3, CommandSteady DEF Steady
<1>10. ASSUME NEW where \in {"flush", "drop", "inspect", "chain", "idle"}, Goto("service", where)
       PROVE  /\ job'["service"].pc = where /\ job'["service"].at = s.at
              /\ job'["service"].k = s.k
  BY <1>0, <1>3, <1>10, GotoFacts
<1>11. CASE List("service")
  <2>1. /\ job' = [job EXCEPT !["service"].pc = "delete",
                        !["service"].left = Filter(table[T("service")], OwnRules)]
        /\ UNCHANGED table
    BY <1>8, <1>11 DEF List
  <2>2. /\ job'["service"].pc = "delete" /\ job'["service"].at = s.at
        /\ job'["service"].left = Own(tool)
    BY <1>0, <1>3, <2>1, ListFacts
  <2>3. T("service")' = tool /\ \A i \in 1 .. Len(Tools) : Past(i)' => Holds(Tools[i])'
    BY <1>7, <2>2
  <2>4. Own(T("service"))' = Own(tool)
    BY <2>1, <2>3 DEF Own
  <2> QED BY <2>2, <2>3, <2>4 DEF ToolInv, At
<1>12. CASE Delete("service")
  <2>1. /\ s.left # <<>> /\ s.pc = "delete"
        /\ job' = [job EXCEPT !["service"].left = Tail(@)]
        /\ table' = [table EXCEPT ![tool] = RemoveFirst(x, Head(s.left))]
    BY <1>3, <1>8, <1>12 DEF Delete, At
  <2>2. Own(tool) = s.left
    BY <1>1, <1>3, <2>1 DEF ToolInv, At
  <2>3. /\ job'["service"].pc = "delete" /\ job'["service"].at = s.at
        /\ job'["service"].left = Tail(s.left)
    BY <1>0, <1>3, <2>1, DeleteFacts
  <2>4. T("service")' = tool /\ \A i \in 1 .. Len(Tools) : Past(i)' => Holds(Tools[i])'
    BY <1>7, <2>3
  <2>5. Own(T("service"))' = Filter(RemoveFirst(x, Head(s.left)), Rules \cup Jumps)
    BY <1>4, <1>6, <2>1, <2>4 DEF Own
  <2>6. Filter(RemoveFirst(x, Head(s.left)), Rules \cup Jumps) = Tail(s.left)
    BY <1>4, <1>5, <2>1, <2>2, FilterRemoveHead
  <2> QED BY <2>3, <2>4, <2>5, <2>6 DEF ToolInv, At
<1>13. CASE DeleteDone("service")
  <2>1. s.left = <<>> /\ s.pc = "delete" /\ Goto("service", "flush") /\ UNCHANGED table
    BY <1>3, <1>13 DEF DeleteDone, At
  <2>2. Own(tool) = <<>>
    BY <1>1, <1>3, <2>1 DEF ToolInv, At
  <2>3. job'["service"].pc = "flush" /\ job'["service"].at = s.at
    BY <1>10, <2>1
  <2>4. T("service")' = tool /\ \A i \in 1 .. Len(Tools) : Past(i)' => Holds(Tools[i])'
    BY <1>7, <2>3
  <2>5. Own(T("service"))' = <<>>
    BY <2>1, <2>2, <2>4 DEF Own
  <2> QED BY <2>3, <2>4, <2>5 DEF ToolInv, At
<1>14. CASE DeleteLegacy("service")
  BY <1>1, <1>14 DEF DeleteLegacy, ToolInv
<1>15. CASE FlushChain("service")
  <2>1. /\ s.pc = "flush" /\ Goto("service", "drop") /\ UNCHANGED table
        /\ chain' = [chain EXCEPT ![tool] = IF @ = "none" THEN @ ELSE "empty"]
    BY <1>3, <1>8, <1>15 DEF FlushChain, At
  <2>2. Own(tool) = <<>>
    BY <1>1, <1>3, <2>1 DEF ToolInv
  <2>3. job'["service"].pc = "drop" /\ job'["service"].at = s.at
    BY <1>10, <2>1
  <2>4. T("service")' = tool /\ \A i \in 1 .. Len(Tools) : Past(i)' => Holds(Tools[i])'
    BY <1>7, <2>3
  <2>5. Own(T("service"))' = <<>>
    BY <2>1, <2>2, <2>4 DEF Own
  <2>6. chain'[tool] \in {"none", "empty"}
    BY <1>4, <1>6, <2>1
  <2> QED BY <2>3, <2>4, <2>5, <2>6 DEF ToolInv, At
<1>16. CASE Drop("service")
  <2>1. /\ s.pc = "drop" /\ job' = [job EXCEPT !["service"].pc = "append", !["service"].k = 1]
        /\ UNCHANGED table
        /\ chain' = [chain EXCEPT ![tool] =
              IF chain[tool] = "empty" /\ ToSet(x) \cap Jumps = {} THEN "none" ELSE @]
    BY <1>3, <1>8, <1>16 DEF Drop, At
  <2>2. Own(tool) = <<>> /\ chain[tool] \in {"none", "empty"}
    BY <1>1, <1>3, <2>1 DEF ToolInv, At
  <2>3. ToSet(x) \cap Jumps = {}
    <3>1. ToSet(<<>>) = ToSet(x) \cap (Rules \cup Jumps)
      BY <1>4, <1>5, <2>2, FilterFacts
    <3>2. ToSet(<<>>) = {}
      BY DEF ToSet
    <3> QED BY <3>1, <3>2
  <2>4. chain'[tool] = "none"
    BY <1>4, <1>6, <2>1, <2>2, <2>3
  <2>5. job'["service"].pc = "append" /\ job'["service"].at = s.at /\ job'["service"].k = 1
    BY <1>0, <1>3, <2>1, DropFacts
  <2>6. T("service")' = tool /\ \A i \in 1 .. Len(Tools) : Past(i)' => Holds(Tools[i])'
    BY <1>7, <2>5
  <2>7. Own(T("service"))' = <<>>
    BY <2>1, <2>2, <2>6 DEF Own
  <2>8. SubSeq(s.exp, 1, 1 - 1) = <<>>
    BY SubSeqEmpty
  <2> QED BY <1>9, <2>4, <2>5, <2>6, <2>7, <2>8 DEF ToolInv, At
<1>17. CASE Append1("service")
  <2>1. /\ s.pc = "append" /\ s.k <= Len(s.exp)
        /\ job' = [job EXCEPT !["service"].k = @ + 1] /\ UNCHANGED chain
        /\ table' = [table EXCEPT ![tool] = Append(x, s.exp[s.k])]
    BY <1>3, <1>8, <1>17 DEF Append1, At
  <2>2. Own(tool) = SubSeq(s.exp, 1, s.k - 1) /\ chain[tool] = "none"
    BY <1>1, <1>3, <2>1 DEF ToolInv, At
  <2>3. job'["service"].pc = "append" /\ job'["service"].at = s.at /\ job'["service"].k = s.k + 1
    BY <1>0, <1>3, <2>1, AppendFacts
  <2>4. T("service")' = tool /\ \A i \in 1 .. Len(Tools) : Past(i)' => Holds(Tools[i])'
    BY <1>7, <2>3
  <2>5. s.k \in 1 .. Len(s.exp) /\ s.exp[s.k] \in Rules
    <3>1. s.k \in 1 .. Len(s.exp)
      BY <1>4, <2>1
    <3> QED BY <1>4, <3>1, ElementOfSeq
  <2>6. Own(T("service"))' = Filter(Append(x, s.exp[s.k]), Rules \cup Jumps)
    BY <1>4, <1>6, <2>1, <2>4 DEF Own
  <2>7. Filter(Append(x, s.exp[s.k]), Rules \cup Jumps)
            = Append(SubSeq(s.exp, 1, s.k - 1), s.exp[s.k])
    <3>1. PICK e, O : e = s.exp[s.k] /\ O = Rules \cup Jumps
      OBVIOUS
    <3>2. e \in O /\ e \in Rules \cup Jumps \cup Foreign
      BY <2>5, <3>1
    <3>3. Filter(Append(x, e), O) = Append(Filter(x, O), e)
      BY <1>4, <3>2, FilterAppend
    <3> QED BY <1>5, <2>2, <3>1, <3>3
  <2>8. Append(SubSeq(s.exp, 1, s.k - 1), s.exp[s.k]) = SubSeq(s.exp, 1, s.k)
    BY <1>4, <2>5, OneMore
  <2>9. (s.k + 1) - 1 = s.k
    BY <1>4
  <2>10. Own(T("service"))' = SubSeq(job'["service"].exp, 1, job'["service"].k - 1)
    BY <1>9, <2>3, <2>6, <2>7, <2>8, <2>9
  <2> QED BY <2>1, <2>2, <2>3, <2>4, <2>10 DEF ToolInv, At
<1>18. CASE AppendDone("service")
  <2>1. /\ s.pc = "append" /\ s.k > Len(s.exp) /\ Goto("service", "inspect")
        /\ UNCHANGED <<table, chain>>
    BY <1>3, <1>18 DEF AppendDone, At
  <2>2. Own(tool) = SubSeq(s.exp, 1, s.k - 1) /\ chain[tool] = "none"
    BY <1>1, <1>3, <2>1 DEF ToolInv, At
  <2>3. job'["service"].pc = "inspect" /\ job'["service"].at = s.at
    BY <1>10, <2>1
  <2>4. T("service")' = tool /\ \A i \in 1 .. Len(Tools) : Past(i)' => Holds(Tools[i])'
    BY <1>7, <2>3
  <2>5. s.k - 1 = Len(s.exp)
    BY <1>4, <2>1
  <2>6. Own(tool) = s.exp
    BY <1>4, <2>2, <2>5, SubSeqFull
  <2>7. Own(T("service"))' = s.exp /\ chain'[T("service")'] = "none"
    BY <2>1, <2>2, <2>4, <2>6 DEF Own
  <2>8. Holds(T("service"))'
    BY <1>9, <2>7 DEF Holds
  <2> QED BY <2>3, <2>4, <2>8 DEF ToolInv, At
<1>19. CASE Inspect("service")
  <2>1. s.pc = "inspect" /\ UNCHANGED <<table, chain>>
    BY <1>3, <1>19 DEF Inspect, At
  <2>2. Holds(T("service"))
    BY <1>1, <1>3, <2>1 DEF ToolInv
  <2>3. CASE NextTool("service", "needs_repair") \/ NextTool("service", "error")
    BY <1>1, <1>2, <2>1, <2>2, <2>3, NextToolExact
  <2>4. CASE Goto("service", "chain")
    <3>1. job'["service"].pc = "chain" /\ job'["service"].at = s.at
      BY <1>10, <2>4
    <3>2. T("service")' = tool /\ \A i \in 1 .. Len(Tools) : Past(i)' => Holds(Tools[i])'
      BY <1>7, <3>1
    <3>3. Holds(T("service"))'
      BY <1>3, <1>9, <2>1, <2>2, <3>2 DEF Holds, Own
    <3> QED BY <3>1, <3>2, <3>3 DEF ToolInv, At
  <2> QED BY <1>19, <2>3, <2>4 DEF Inspect
<1>20. CASE InspectChain("service")
  <2>1. s.pc = "chain" /\ UNCHANGED <<table, chain>>
    BY <1>3, <1>20 DEF InspectChain, At
  <2>2. Holds(T("service"))
    BY <1>1, <1>3, <2>1 DEF ToolInv
  <2>3. PICK state \in {"ok", "needs_repair"} : NextTool("service", state)
    BY <1>20 DEF InspectChain
  <2> QED BY <1>1, <1>2, <2>1, <2>2, <2>3, NextToolExact
<1>21. CASE Publish("service")
  <2>1. s.pc = "publish" /\ UNCHANGED <<table, chain>> /\ Goto("service", "idle")
    BY <1>3, <1>21 DEF Publish, At
  <2>2. job'["service"].pc = "idle"
    BY <1>10, <2>1
  <2>3. \A i \in 1 .. Len(Tools) : Holds(Tools[i])
    BY <1>1, <1>3, <2>1 DEF Past
  <2>4. \A i \in 1 .. Len(Tools) : Holds(Tools[i])'
    BY <1>3, <1>9, <2>1, <2>3 DEF Holds, Own
  <2> QED BY <2>2, <2>4 DEF ToolInv, At
<1> QED
  BY <1>11, <1>12, <1>13, <1>14, <1>15, <1>16, <1>17, <1>18, <1>19, <1>20, <1>21
     DEF Command

\* A step that leaves the tables, the service's job and the status of calm.
LEMMA ExactKept ==
    ASSUME ForwardExact, UNCHANGED <<table, chain>>, calm' => calm,
           job'["service"].pc = job["service"].pc, job'["service"].exp = job["service"].exp,
           job'["service"].at = job["service"].at, job'["service"].left = job["service"].left,
           job'["service"].k = job["service"].k
    PROVE  ForwardExact'
BY DEF ForwardExact, ToolInv, Past, Holds, Own, T, At

LEMMA ForwardExactNext ==
    ForwardTypeOK /\ JobInv /\ CalmInv /\ ForwardExact /\ [ForwardNext]_forwardVars => ForwardExact'
<1> SUFFICES ASSUME ForwardTypeOK, JobInv, CalmInv, ForwardExact, [ForwardNext]_forwardVars
             PROVE  ForwardExact'
  OBVIOUS
<1>0. "service" \in Procs /\ "rules" \in Procs /\ \A p \in Procs : p = "service" \/ p = "rules"
  BY DEF Procs
<1>1. CASE Command("service")
  BY <1>1, ServiceExactly DEF ForwardExact
<1>2. CASE Command("rules")
  <2>1. job'["service"] = job["service"]
    BY <1>0, <1>2, CommandSteady DEF Steady
  <2>2. ASSUME calm' PROVE calm /\ UNCHANGED <<table, chain>>
    <3>1. calm /\ ~At("rules", "idle")
      BY <1>0, <1>2, <2>2, CommandRest, CommandPlace
    <3>2. job["rules"].pc \notin WritePlaces
      BY <1>0, <3>1 DEF CalmInv, JobInv
    <3> QED BY <1>0, <1>2, <3>1, <3>2, CommandPlace
  <2>3. CASE ~calm'
    BY <2>3 DEF ForwardExact
  <2>4. CASE calm'
    BY <2>1, <2>2, <2>4, ExactKept
  <2> QED BY <2>3, <2>4
<1>3. ASSUME NEW p \in Procs, Expire(p) PROVE ForwardExact'
  <2>1. /\ Steady(p) /\ job'[p].pc = job[p].pc /\ job'[p].at = job[p].at
        /\ job'[p].left = job[p].left /\ job'[p].k = job[p].k
    BY <1>3, ExpireFacts DEF Expire
  <2>2. UNCHANGED <<table, chain, calm>>
    BY <1>3 DEF Expire, Calm
  <2>3. /\ job'["service"].pc = job["service"].pc /\ job'["service"].exp = job["service"].exp
        /\ job'["service"].at = job["service"].at /\ job'["service"].left = job["service"].left
        /\ job'["service"].k = job["service"].k
    BY <1>0, <2>1 DEF Steady
  <2> QED BY <2>2, <2>3, ExactKept
<1>4. ASSUME Reconcile \/ CloseNode \/ StartNode PROVE ForwardExact'
  <2>1. PICK flags \in [auto : BOOLEAN, owed : BOOLEAN], exp \in Plans :
           ReconcileAuto(flags, exp)
    BY <1>4, ServiceStep
  <2>2. /\ UNCHANGED <<table, chain>>
        /\ \/ job'["service"].pc = "list" /\ job'["service"].at = 1
           \/ UNCHANGED <<job, calm>>
    BY <2>1, ReconcileFacts
  <2>3. CASE UNCHANGED <<job, calm>>
    BY <2>2, <2>3, ExactKept
  <2>4. CASE job'["service"].pc = "list" /\ job'["service"].at = 1
    <3>1. ToolInv'
      BY <2>4 DEF ToolInv, At
    <3>2. \A i \in 1 .. Len(Tools) : ~Past(i)'
      <4>1. \A i \in 1 .. Len(Tools) : ~(i < 1)
        BY ToolFacts
      <4> QED BY <2>4, <4>1 DEF Past
    <3> QED BY <3>1, <3>2 DEF ForwardExact
  <2> QED BY <2>2, <2>3, <2>4
<1>5. ASSUME Crash PROVE ForwardExact'
  BY <1>5 DEF Crash, ForwardExact
<1>6. ASSUME RunRules PROVE ForwardExact'
  <2>1. /\ job'["service"] = job["service"] /\ (calm' => calm) /\ UNCHANGED <<table, chain>>
    BY <1>6, RunFacts
  <2> QED BY <2>1, ExactKept
<1>7. ASSUME Edit PROVE ForwardExact'
  <2>1. UNCHANGED <<table, chain, job, calm>>
    BY <1>7 DEF Edit
  <2> QED BY <2>1, ExactKept
<1>8. CASE UNCHANGED forwardVars
  <2>1. UNCHANGED <<table, chain, job, calm>>
    BY <1>8 DEF forwardVars
  <2> QED BY <2>1, ExactKept
<1> QED BY <1>0, <1>1, <1>2, <1>3, <1>4, <1>5, <1>6, <1>7, <1>8 DEF ForwardNext

-----------------------------------------------------------------------------
(* OkInv: what the service says of its tools.                              *)

\* A step that leaves the tables, and of the service's job all but its list of
\* rules to delete.
LEMMA OkKept ==
    ASSUME OkInv, UNCHANGED <<table, published>>, cliRuns' = 0 => cliRuns = 0,
           cliRuns' = 0 => job'["rules"].pc = "idle",
           job'["service"].pc = job["service"].pc, job'["service"].exp = job["service"].exp,
           job'["service"].at = job["service"].at, job'["service"].st = job["service"].st
    PROVE  OkInv'
BY DEF OkInv, Past, Same, Own, T, At

\* A command of the service that goes on with the tool it is at.
LEMMA OkSameTool ==
    ASSUME ForwardTypeOK, OkInv, Command("service"), ~Past(job["service"].at),
           job'["service"].at = job["service"].at, job'["service"].st = job["service"].st,
           job'["service"].pc \notin {"publish", "idle"},
           cliRuns = 0 /\ job'["service"].pc = "chain" => table' = table /\ Same(T("service"))
    PROVE  OkInv'
<1>0. "service" \in Procs /\ "rules" \in Procs /\ "service" # "rules"
  BY DEF Procs
<1> SUFFICES ASSUME cliRuns' = 0
             PROVE  /\ At("rules", "idle")'
                    /\ \A tool \in Tool : job'["service"].st[tool] = "ok" => Same(tool)'
                    /\ \A i \in 1..Len(Tools) : ~Past(i)' => job'["service"].st[Tools[i]] = "none"
                    /\ At("service", "chain")' => Same(T("service"))'
                    /\ ~At("service", "idle")'
  BY DEF OkInv, At
<1>1. cliRuns = 0 /\ job'["service"].exp = job["service"].exp /\ job'["rules"] = job["rules"]
  BY <1>0, CommandRest, CommandSteady DEF Steady
<1>2. /\ At("rules", "idle")
      /\ \A tool \in Tool : job["service"].st[tool] = "ok" => Same(tool)
      /\ \A i \in 1..Len(Tools) : ~Past(i) => job["service"].st[Tools[i]] = "none"
  BY <1>1 DEF OkInv
<1>3. job["service"].at \in 1 .. Len(Tools)
  BY <1>0, JobFacts
<1>4. job["service"].st[T("service")] = "none"
  BY <1>2, <1>3 DEF T
<1>5. ASSUME NEW tool \in Tool, job'["service"].st[tool] = "ok" PROVE Same(tool)'
  <2>1. Same(tool) /\ tool # T("service")
    BY <1>2, <1>4, <1>5
  <2>2. table'[tool] = table[tool]
    BY <1>0, <2>1, Elsewhere
  <2> QED BY <1>1, <2>1, <2>2 DEF Same, Own
<1>6. ASSUME NEW i \in 1 .. Len(Tools), ~Past(i)' PROVE job'["service"].st[Tools[i]] = "none"
  <2>1. ~Past(i)
    <3>1. ~(i < job["service"].at)
      BY <1>6 DEF Past
    <3>2. job["service"].pc \notin {"publish", "idle"}
      BY DEF Past
    <3> QED BY <3>1, <3>2 DEF Past
  <2> QED BY <1>2, <2>1
<1>7. ASSUME At("service", "chain")' PROVE Same(T("service"))'
  <2>1. table' = table /\ Same(T("service"))
    BY <1>1, <1>7 DEF At
  <2> QED BY <1>1, <2>1 DEF Same, Own, T
<1>8. At("rules", "idle")' /\ ~At("service", "idle")'
  BY <1>1, <1>2 DEF At
<1> QED BY <1>5, <1>6, <1>7, <1>8

\* The service says something of the tool it is at, and leaves it.
LEMMA OkNextTool ==
    ASSUME ForwardTypeOK, OkInv, Command("service"), ~Past(job["service"].at),
           NEW state \in {"ok", "needs_repair", "error"}, NextTool("service", state),
           UNCHANGED table,
           cliRuns = 0 /\ state = "ok" => Same(T("service"))
    PROVE  OkInv'
<1>0. "service" \in Procs /\ "rules" \in Procs /\ "service" # "rules"
  BY DEF Procs
<1>1. /\ job'["service"].st = [job["service"].st EXCEPT ![T("service")] = state]
      /\ job["service"].at = Len(Tools) => job'["service"].pc = "publish"
      /\ job["service"].at # Len(Tools) => /\ job'["service"].pc = First(job["service"].writes)
                                           /\ job'["service"].at = job["service"].at + 1
  BY <1>0, NextToolFacts
<1>2. job'["service"].pc \in {"publish", "list", "inspect"}
  BY <1>1 DEF First
<1> SUFFICES ASSUME cliRuns' = 0
             PROVE  /\ At("rules", "idle")'
                    /\ \A tool \in Tool : job'["service"].st[tool] = "ok" => Same(tool)'
                    /\ \A i \in 1..Len(Tools) : ~Past(i)' => job'["service"].st[Tools[i]] = "none"
  BY <1>2 DEF OkInv, At
<1>3. cliRuns = 0 /\ job'["service"].exp = job["service"].exp /\ job'["rules"] = job["rules"]
  BY <1>0, CommandRest, CommandSteady DEF Steady
<1>4. /\ At("rules", "idle")
      /\ \A tool \in Tool : job["service"].st[tool] = "ok" => Same(tool)
      /\ \A i \in 1..Len(Tools) : ~Past(i) => job["service"].st[Tools[i]] = "none"
  BY <1>3 DEF OkInv
<1>5. /\ job["service"].at \in 1 .. Len(Tools) /\ Len(Tools) \in Nat
      /\ job["service"].st \in [Tool -> {"none", "ok", "needs_repair", "error"}]
      /\ T("service") \in Tool
  BY <1>0, JobFacts, ToolFacts DEF JobType
<1>6. ASSUME NEW tool \in Tool, job'["service"].st[tool] = "ok" PROVE Same(tool)'
  <2>1. Same(tool)
    BY <1>1, <1>3, <1>4, <1>5, <1>6
  <2> QED BY <1>3, <2>1 DEF Same, Own
<1>7. ASSUME NEW i \in 1 .. Len(Tools), ~Past(i)' PROVE job'["service"].st[Tools[i]] = "none"
  <2>1. job["service"].at # Len(Tools) /\ ~(i < job["service"].at + 1)
    BY <1>1, <1>7 DEF Past
  <2>2. ~(i < job["service"].at) /\ i # job["service"].at
    BY <1>5, <2>1
  <2>3. ~Past(i)
    BY <2>2 DEF Past
  <2>4. Tools[i] # T("service") /\ Tools[i] \in Tool
    BY <1>5, <2>2, ToolFacts DEF T
  <2> QED BY <1>1, <1>4, <1>5, <2>3, <2>4
<1>8. At("rules", "idle")'
  BY <1>3, <1>4 DEF At
<1> QED BY <1>6, <1>7, <1>8

LEMMA ServiceOk ==
    ASSUME ForwardTypeOK, OkInv, Command("service")
    PROVE  OkInv'
<1>0. "service" \in Procs /\ "rules" \in Procs
  BY DEF Procs
<1>1. ~At("service", "idle") /\ job["service"].at \in 1 .. Len(Tools) /\ Len(Tools) \in Nat
  BY <1>0, CommandPlace, JobFacts, ToolFacts
<1>2. ~At("service", "publish") => ~Past(job["service"].at)
  BY <1>1 DEF Past, At
<1>3. ASSUME NEW where \in {"legacy", "flush", "drop", "inspect"}, Goto("service", where),
             ~At("service", "publish")
      PROVE  OkInv'
  BY <1>0, <1>2, <1>3, GotoFacts, OkSameTool
<1>4. CASE List("service")
  <2>1. ~At("service", "publish")
    BY <1>4 DEF List, At
  <2>2. CASE job' = [job EXCEPT !["service"].pc = "delete",
                        !["service"].left = Filter(table[T("service")], OwnRules)]
    BY <1>0, <1>2, <2>1, <2>2, ListFacts, OkSameTool
  <2> QED BY <1>3, <1>4, <2>1, <2>2 DEF List
<1>5. CASE Delete("service")
  <2>1. /\ job["service"].left # <<>> /\ job' = [job EXCEPT !["service"].left = Tail(@)]
        /\ job["service"].pc = "delete"
    BY <1>5 DEF Delete, At
  <2> QED BY <1>0, <1>2, <2>1, DeleteFacts, OkSameTool DEF At
<1>6. CASE DeleteDone("service")
  BY <1>3, <1>6 DEF DeleteDone, At
<1>7. CASE DeleteLegacy("service")
  <2>1. ~At("service", "publish") /\ job["service"].pc = "legacy"
    BY <1>7 DEF DeleteLegacy, At
  <2>2. CASE job' = job
    BY <1>2, <2>1, <2>2, OkSameTool
  <2> QED BY <1>3, <1>7, <2>1, <2>2 DEF DeleteLegacy
<1>8. CASE FlushChain("service")
  BY <1>3, <1>8 DEF FlushChain, At
<1>9. CASE Drop("service")
  <2>1. /\ job' = [job EXCEPT !["service"].pc = "append", !["service"].k = 1]
        /\ ~At("service", "publish")
    BY <1>9 DEF Drop, At
  <2> QED BY <1>0, <1>2, <2>1, DropFacts, OkSameTool
<1>10. CASE Append1("service")
  <2>1. ~At("service", "publish") /\ job["service"].pc = "append"
    BY <1>10 DEF Append1, At
  <2>2. CASE job' = [job EXCEPT !["service"].k = @ + 1]
    BY <1>0, <1>2, <2>1, <2>2, AppendFacts, OkSameTool
  <2>3. CASE NextTool("service", "error") /\ UNCHANGED table
    BY <1>2, <2>1, <2>3, OkNextTool
  <2> QED BY <1>10, <2>2, <2>3 DEF Append1
<1>11. CASE AppendDone("service")
  BY <1>3, <1>11 DEF AppendDone, At
<1>12. CASE Inspect("service")
  <2>1. ~At("service", "publish") /\ UNCHANGED table
    BY <1>12 DEF Inspect, At
  <2>2. CASE NextTool("service", "error") \/ NextTool("service", "needs_repair")
    BY <1>2, <2>1, <2>2, OkNextTool
  <2>3. CASE Goto("service", "chain") /\ ~Differs("service")
    <3>1. Same(T("service"))
      BY <2>3 DEF Differs, Same
    <3> QED BY <1>0, <1>2, <2>1, <2>3, <3>1, GotoFacts, OkSameTool
  <2> QED BY <1>12, <2>2, <2>3 DEF Inspect
<1>13. CASE InspectChain("service")
  <2>1. ~At("service", "publish") /\ At("service", "chain") /\ UNCHANGED table
    BY <1>13 DEF InspectChain, At
  <2>2. PICK state \in {"ok", "needs_repair"} : NextTool("service", state)
    BY <1>13 DEF InspectChain
  <2>3. cliRuns = 0 => Same(T("service"))
    BY <2>1 DEF OkInv
  <2> QED BY <1>2, <2>1, <2>2, <2>3, OkNextTool
<1>14. CASE Publish("service")
  <2>1. /\ Goto("service", "idle") /\ UNCHANGED <<table, cliRuns>>
        /\ published' = job["service"].st
    BY <1>14 DEF Publish
  <2>2. /\ job'["service"].pc = "idle" /\ job'["service"].exp = job["service"].exp
        /\ job'["service"].st = job["service"].st /\ job'["rules"] = job["rules"]
    BY <1>0, <2>1, GotoFacts DEF Steady
  <2>3. \A i \in 1 .. Len(Tools) : Past(i)'
    BY <2>2 DEF Past
  <2> QED BY <2>1, <2>2, <2>3 DEF OkInv, Same, Own, At
<1> QED
  BY <1>4, <1>5, <1>6, <1>7, <1>8, <1>9, <1>10, <1>11, <1>12, <1>13, <1>14
     DEF Command

LEMMA OkNext == ForwardTypeOK /\ OkInv /\ [ForwardNext]_forwardVars => OkInv'
<1> SUFFICES ASSUME ForwardTypeOK, OkInv, [ForwardNext]_forwardVars PROVE OkInv'
  OBVIOUS
<1>0. "service" \in Procs /\ "rules" \in Procs /\ \A p \in Procs : p = "service" \/ p = "rules"
  BY DEF Procs
<1>1. CASE Command("service")
  BY <1>1, ServiceOk
<1>2. CASE Command("rules")
  <2>1. cliRuns' = cliRuns /\ ~At("rules", "idle")
    BY <1>0, <1>2, CommandRest, CommandPlace
  <2> QED BY <2>1 DEF OkInv
<1>3. ASSUME NEW p \in Procs, Expire(p) PROVE OkInv'
  <2>1. /\ Steady(p) /\ job'[p].pc = job[p].pc /\ job'[p].at = job[p].at
        /\ job'[p].st = job[p].st
    BY <1>3, ExpireFacts DEF Expire
  <2>2. UNCHANGED <<table, published, cliRuns>>
    BY <1>3 DEF Expire, Rest
  <2>3. /\ job'["service"].pc = job["service"].pc /\ job'["service"].exp = job["service"].exp
        /\ job'["service"].at = job["service"].at /\ job'["service"].st = job["service"].st
        /\ job'["rules"].pc = job["rules"].pc
    BY <1>0, <2>1 DEF Steady
  <2>4. cliRuns' = 0 => job'["rules"].pc = "idle"
    BY <2>2, <2>3 DEF OkInv, At
  <2> QED BY <2>2, <2>3, <2>4, OkKept
<1>4. ASSUME Reconcile \/ CloseNode \/ StartNode PROVE OkInv'
  <2>1. PICK flags \in [auto : BOOLEAN, owed : BOOLEAN], exp \in Plans :
           ReconcileAuto(flags, exp)
    BY <1>4, ServiceStep
  <2>2. /\ UNCHANGED <<table, cliRuns>> /\ job'["rules"] = job["rules"]
        /\ \/ /\ job'["service"].pc = "list"
              /\ job'["service"].st = [tool \in Tool |-> "none"]
           \/ UNCHANGED job /\ published' = [tool \in Tool |-> "none"]
    BY <2>1, ReconcileFacts
  <2>3. \A i \in 1 .. Len(Tools) : Tools[i] \in Tool
    BY ToolFacts
  <2>4. CASE job'["service"].pc = "list" /\ job'["service"].st = [tool \in Tool |-> "none"]
    BY <2>2, <2>3, <2>4 DEF OkInv, At
  <2>5. CASE UNCHANGED job /\ published' = [tool \in Tool |-> "none"]
    BY <2>2, <2>5 DEF OkInv, Past, Same, Own, T, At
  <2> QED BY <2>2, <2>4, <2>5
<1>5. ASSUME Crash PROVE OkInv'
  <2>1. /\ job'["rules"] = job["rules"] /\ job'["service"].pc = "idle"
        /\ job'["service"].st = [tool \in Tool |-> "none"]
        /\ published' = [tool \in Tool |-> "none"]
    BY <1>5, CrashFacts
  <2>2. UNCHANGED cliRuns
    BY <1>5 DEF Crash
  <2> QED BY <2>1, <2>2 DEF OkInv, At, Past
<1>6. ASSUME RunRules PROVE OkInv'
  <2>1. cliRuns' = cliRuns + 1 /\ cliRuns \in Nat
    BY <1>6, RunFacts DEF ForwardTypeOK
  <2>2. cliRuns' # 0
    BY <2>1
  <2> QED BY <2>2 DEF OkInv
<1>7. ASSUME Edit PROVE OkInv'
  <2>1. UNCHANGED <<table, published, cliRuns, job>>
    BY <1>7 DEF Edit
  <2> QED BY <2>1, OkKept DEF OkInv, At
<1>8. CASE UNCHANGED forwardVars
  <2>1. UNCHANGED <<table, published, cliRuns, job>>
    BY <1>8 DEF forwardVars
  <2> QED BY <2>1, OkKept DEF OkInv, At
<1> QED BY <1>0, <1>1, <1>2, <1>3, <1>4, <1>5, <1>6, <1>7, <1>8 DEF ForwardNext

-----------------------------------------------------------------------------
(* The theorems of PortForward.                                            *)

LEMMA ForwardBegin == ForwardInit => ForwardInv
<1> SUFFICES ASSUME ForwardInit PROVE ForwardInv
  OBVIOUS
<1>1. ForwardTypeOK
  BY ForwardTypeInit
<1>2. PICK j : j = Idle
  OBVIOUS
<1>3. j.pc = "idle" /\ j.exp = <<>> /\ j.st = [tool \in Tool |-> "none"]
  BY <1>2, IdleJob
<1>4. job["service"] = j /\ job["rules"] = j /\ \A p \in Procs : job[p] = j
  BY <1>2 DEF ForwardInit, Procs
<1>5. calm = FALSE /\ published = [tool \in Tool |-> "none"]
  BY <1>2, <1>3 DEF ForwardInit
<1>6. JobInv /\ CalmInv
  BY <1>3, <1>4 DEF JobInv, CalmInv, At, WritePlaces
<1>7. ForwardExact
  BY <1>5 DEF ForwardExact
<1>8. OkInv
  BY <1>3, <1>4, <1>5 DEF OkInv, At, Past
<1> QED BY <1>1, <1>6, <1>7, <1>8 DEF ForwardInv

LEMMA ForwardInductive == ForwardSpec => []ForwardInv
<1>1. ForwardInv /\ [ForwardNext]_forwardVars => ForwardInv'
  BY ForwardTypeNext, JobNext, ForwardExactNext, OkNext DEF ForwardInv
<1> QED BY <1>1, ForwardBegin, PTL DEF ForwardSpec

\* Every variable of PortForward keeps its type: no job deletes what is not
\* the program's own, appends past its list or visits a tool that is not there.
THEOREM ForwardTypes == ForwardSpec => []ForwardTypeOK
<1>1. ForwardInv => ForwardTypeOK
  BY DEF ForwardInv, ForwardTypeOK
<1> QED BY <1>1, ForwardInductive, PTL

\* After a repair or a cleanup of the service that nothing disturbed, every
\* table holds exactly its rules, in order, and the old chain is gone.
THEOREM RepairIsExact == ForwardSpec => []ServiceExact
<1>1. ForwardInv => ServiceExact
  <2> SUFFICES ASSUME ForwardInv, calm, At("service", "idle"), NEW tool \in Tool
               PROVE  /\ Own(tool) = IF phase = "up" /\ auto THEN job["service"].exp ELSE <<>>
                      /\ chain[tool] = "none"
    BY DEF ServiceExact
  <2>1. PICK i \in 1 .. Len(Tools) : tool = Tools[i]
    BY ToolFacts DEF ForwardInv, ForwardTypeOK
  <2>2. Holds(tool)
    BY <2>1 DEF ForwardInv, ForwardExact, Past, At
  <2> QED BY <2>2 DEF ForwardInv, JobInv, Holds
<1> QED BY <1>1, ForwardInductive, PTL

\* Until the rules command first runs, the service says ok of a table only when
\* it holds the service's rules and no other of the program, whichever of its
\* commands failed.
THEOREM OkMeansRepaired == ForwardSpec => []OkIsTrue
<1>1. ForwardInv => OkIsTrue
  BY DEF ForwardInv, OkInv, OkIsTrue, Same
<1> QED BY <1>1, ForwardInductive, PTL

\* No command of either process moves, removes or adds a rule of somebody else.
THEOREM ForeignUntouched == ForwardSpec => ForeignKept
<1>1. ForwardInv => ForwardTypeOK
  BY DEF ForwardInv
<1> QED BY <1>1, ForeignStep, ForwardInductive, PTL DEF ForwardSpec, ForeignKept

=============================================================================
