-------------------------- MODULE DispatcherProofs --------------------------
(***************************************************************************)
(* The properties of the traffic reports and of the dispatcher's links.     *)
(***************************************************************************)
EXTENDS TrafficReport, Links, FiniteSetTheorems, TLAPS

-----------------------------------------------------------------------------
(* Sums over finite sets.  The induction is on the size of the set, in the  *)
(* form of a least counterexample.                                          *)

\* Every nonempty set of numbers has a least one: induction, without an operator.
LEMMA LeastNumber ==
    ASSUME NEW T \in SUBSET Nat, T # {}
    PROVE  \E x \in T : \A y \in T : ~(y < x)
<1>1. PICK R : R = OpToRel(<, Nat)
  OBVIOUS
<1>2. IsWellFoundedOn(R, Nat)
  BY <1>1, NatLessThanWellFounded
<1>3. PICK x \in T : \A y \in T : ~(<<y, x>> \in R)
  BY <1>2, WFMin
<1>4. \A y \in T : y < x => <<y, x>> \in R
  BY <1>1 DEF OpToRel
<1> QED BY <1>3, <1>4

Pick(T) == CHOOSE x \in T : TRUE

\* g is the function that SumFunction(f) is computed by.
Sums(g, f) ==
    g = [T \in SUBSET DOMAIN f |-> IF T = {} THEN 0 ELSE f[Pick(T)] + g[T \ {Pick(T)}]]

LEMMA SumIsChosen == ASSUME NEW f PROVE SumFunction(f) = (CHOOSE g : Sums(g, f))[DOMAIN f]
BY DEF SumFunction, SumFunctionOnSet, FoldFunctionOnSet, MapThenFoldSet, Sums, Pick

LEMMA Smaller ==
    ASSUME NEW S, IsFiniteSet(S), NEW T \in SUBSET S, NEW x \in T
    PROVE  /\ T \ {x} \in SUBSET S /\ Cardinality(T) \in Nat \ {0}
           /\ Cardinality(T \ {x}) = Cardinality(T) - 1
<1>1. IsFiniteSet(T)
  BY FS_Subset
<1>2. Cardinality(T \ {x}) = Cardinality(T) - 1 /\ IsFiniteSet(T \ {x})
  BY <1>1, FS_RemoveElement
<1>3. Cardinality(T) \in Nat /\ Cardinality(T) # 0
  BY <1>1, FS_CardinalityType, FS_EmptySet
<1> QED BY <1>2, <1>3

LEMMA SumsExist ==
    ASSUME NEW S, IsFiniteSet(S), NEW f \in [S -> Int]
    PROVE  \E g : Sums(g, f)
<1> DEFINE Small(n) == {T \in SUBSET S : Cardinality(T) <= n}
           Step(g, T) == IF T = {} THEN 0 ELSE f[Pick(T)] + g[T \ {Pick(T)}]
           Upto(n) == \E g : g = [T \in Small(n) |-> Step(g, T)]
<1>0. \A T \in SUBSET S : T # {} => Pick(T) \in T
  BY DEF Pick
<1>1. Upto(0)
  <2>1. PICK g : g = [T \in Small(0) |-> 0]
    OBVIOUS
  <2>2. \A T \in Small(0) : T = {}
    BY FS_Subset, FS_EmptySet, FS_CardinalityType
  <2>3. g = [T \in Small(0) |-> Step(g, T)]
    BY <2>1, <2>2
  <2> QED BY <2>3
<1>2. ASSUME NEW n \in Nat, Upto(n) PROVE Upto(n + 1)
  <2>1. PICK g : g = [T \in Small(n) |-> Step(g, T)]
    BY <1>2
  <2>2. PICK h : h = [T \in Small(n + 1) |-> Step(g, T)]
    OBVIOUS
  <2>3. \A T \in Small(n) : T \in Small(n + 1)
    BY FS_Subset, FS_CardinalityType
  <2>4. \A T \in Small(n) : h[T] = g[T]
    BY <2>1, <2>2, <2>3
  <2>5. \A T \in Small(n + 1) : T # {} => T \ {Pick(T)} \in Small(n)
    BY <1>0, Smaller
  <2>6. \A T \in Small(n + 1) : Step(h, T) = Step(g, T)
    BY <2>4, <2>5
  <2>7. h = [T \in Small(n + 1) |-> Step(h, T)]
    BY <2>2, <2>6
  <2> QED BY <2>7
<1>3. \A n \in Nat : Upto(n)
  <2> HIDE DEF Upto
  <2> DEFINE Bad == {n \in Nat : ~Upto(n)}
  <2> SUFFICES ASSUME Bad # {} PROVE FALSE
    OBVIOUS
  <2>1. PICK n \in Bad : \A m \in Bad : ~(m < n)
    BY LeastNumber
  <2>2. n \in Nat /\ n # 0 /\ ~Upto(n)
    BY <1>1, <2>1
  <2>3. n - 1 \in Nat /\ n - 1 < n /\ (n - 1) + 1 = n
    BY <2>2
  <2>4. Upto(n - 1)
    BY <2>1, <2>3
  <2>5. Upto((n - 1) + 1)
    BY <1>2, <2>3, <2>4
  <2> QED BY <2>2, <2>3, <2>5
<1>4. Cardinality(S) \in Nat /\ Small(Cardinality(S)) = SUBSET S
  BY FS_CardinalityType, FS_Subset
<1>5. PICK g : g = [T \in Small(Cardinality(S)) |-> Step(g, T)]
  BY <1>3, <1>4
<1>6. Sums(g, f)
  BY <1>4, <1>5 DEF Sums
<1> QED BY <1>6

\* Any element can be split off.
LEMMA SumsSplit ==
    ASSUME NEW S, IsFiniteSet(S), NEW f \in [S -> Int], NEW g, Sums(g, f), NEW T \in SUBSET S
    PROVE  /\ g[T] \in Int /\ g[{}] = 0
           /\ \A x \in T : g[T] = f[x] + g[T \ {x}]
<1> DEFINE Good(U) == g[U] \in Int /\ \A x \in U : g[U] = f[x] + g[U \ {x}]
           Bad == {Cardinality(U) : U \in {V \in SUBSET S : ~Good(V)}}
<1>1. g[{}] = 0
  BY DEF Sums
<1>2. ASSUME NEW U \in SUBSET S, \A V \in SUBSET S : Cardinality(V) < Cardinality(U) => Good(V)
      PROVE  Good(U)
  <2>1. CASE U = {}
    BY <1>1, <2>1
  <2>2. CASE U # {}
    <3>1. PICK y \in U : g[U] = f[y] + g[U \ {y}]
      <4>1. Pick(U) \in U
        BY <2>2 DEF Pick
      <4>2. g[U] = f[Pick(U)] + g[U \ {Pick(U)}]
        BY <2>2 DEF Sums
      <4> QED BY <4>1, <4>2
    <3>2. \A x \in U : U \ {x} \in SUBSET S /\ Cardinality(U \ {x}) < Cardinality(U)
      BY Smaller
    <3>3. \A x \in U : Good(U \ {x})
      BY <1>2, <3>2
    <3>4. g[U] \in Int
      BY <3>1, <3>3
    <3>5. ASSUME NEW x \in U, x # y PROVE g[U] = f[x] + g[U \ {x}]
      <4>1. (U \ {x}) \ {y} = (U \ {y}) \ {x}
        OBVIOUS
      <4>2. g[U \ {x}] = f[y] + g[(U \ {x}) \ {y}]
        BY <3>3, <3>5
      <4>3. g[U \ {y}] = f[x] + g[(U \ {y}) \ {x}]
        BY <3>3, <3>5
      <4>4. g[(U \ {x}) \ {y}] \in Int
        <5>1. y \in U \ {x} /\ U \ {x} \in SUBSET S
          BY <3>5
        <5>2. PICK V : V = U \ {x}
          OBVIOUS
        <5>3. V \in SUBSET S /\ y \in V /\ Cardinality(V) < Cardinality(U)
          BY <3>2, <5>1, <5>2
        <5>4. /\ V \ {y} \in SUBSET S /\ Cardinality(V) \in Nat
              /\ Cardinality(V \ {y}) = Cardinality(V) - 1
          BY <5>3, Smaller
        <5>5. Cardinality(U) \in Nat
          BY Smaller
        <5>6. Cardinality(V \ {y}) < Cardinality(U)
          BY <5>3, <5>4, <5>5
        <5>7. Good(V \ {y})
          BY <1>2, <5>4, <5>6
        <5> QED BY <5>2, <5>7
      <4>5. f[x] \in Int /\ f[y] \in Int
        OBVIOUS
      <4>6. PICK rest : rest = g[(U \ {x}) \ {y}]
        OBVIOUS
      <4>7. g[U \ {y}] = f[x] + rest /\ g[U \ {x}] = f[y] + rest /\ rest \in Int
        BY <4>1, <4>2, <4>3, <4>4, <4>6
      <4> QED BY <3>1, <4>5, <4>7
    <3> QED BY <3>1, <3>4, <3>5
  <2> QED BY <2>1, <2>2
<1>3. Good(T)
  <2> SUFFICES ASSUME ~Good(T) PROVE FALSE
    OBVIOUS
  <2> HIDE DEF Good
  <2>1. Bad # {} /\ Bad \in SUBSET Nat
    BY FS_Subset, FS_CardinalityType
  <2>2. PICK n \in Bad : \A m \in Bad : ~(m < n)
    BY <2>1, LeastNumber
  <2>3. PICK U \in SUBSET S : n = Cardinality(U) /\ ~Good(U)
    BY <2>2
  <2>4. \A V \in SUBSET S : Cardinality(V) < Cardinality(U) => Good(V)
    BY <2>2, <2>3
  <2> QED BY <1>2, <2>3, <2>4
<1> QED BY <1>1, <1>3

\* Sums of larger numbers are larger.
LEMMA SumsGrow ==
    ASSUME NEW S, IsFiniteSet(S), NEW f \in [S -> Int], NEW h \in [S -> Int],
           NEW g, Sums(g, f), NEW k, Sums(k, h), NEW T \in SUBSET S, \A x \in T : f[x] <= h[x]
    PROVE  g[T] <= k[T]
<1> DEFINE Good(U) == g[U] <= k[U]
           Bad == {Cardinality(U) : U \in {V \in SUBSET T : ~Good(V)}}
<1>1. ASSUME NEW U \in SUBSET T, \A V \in SUBSET T : Cardinality(V) < Cardinality(U) => Good(V)
      PROVE  Good(U)
  <2>1. CASE U = {}
    BY <2>1, SumsSplit
  <2>2. CASE U # {}
    <3>1. PICK x \in U : TRUE
      BY <2>2
    <3>2. U \in SUBSET S /\ U \ {x} \in SUBSET T /\ Cardinality(U \ {x}) < Cardinality(U)
      BY <3>1, Smaller
    <3>3. g[U] = f[x] + g[U \ {x}]
      BY <3>1, <3>2, SumsSplit
    <3>6. k[U] = h[x] + k[U \ {x}]
      BY <3>1, <3>2, SumsSplit
    <3>4. g[U \ {x}] \in Int /\ k[U \ {x}] \in Int
      BY <3>2, SumsSplit
    <3>5. g[U \ {x}] <= k[U \ {x}]
      BY <1>1, <3>2
    <3> QED BY <3>1, <3>3, <3>4, <3>5, <3>6
  <2> QED BY <2>1, <2>2
<1>2. SUFFICES ASSUME ~Good(T) PROVE FALSE
  OBVIOUS
<1> HIDE DEF Good
<1>3. Bad # {} /\ Bad \in SUBSET Nat
  BY <1>2, FS_Subset, FS_CardinalityType
<1>4. PICK n \in Bad : \A m \in Bad : ~(m < n)
  BY <1>3, LeastNumber
<1>5. PICK U \in SUBSET T : n = Cardinality(U) /\ ~Good(U)
  BY <1>4
<1>6. \A V \in SUBSET T : Cardinality(V) < Cardinality(U) => Good(V)
  BY <1>4, <1>5
<1> QED BY <1>1, <1>5, <1>6

LEMMA SumFacts ==
    ASSUME NEW S, IsFiniteSet(S), NEW f \in [S -> Int]
    PROVE  \E g : Sums(g, f) /\ SumFunction(f) = g[S]
<1>1. Sums(CHOOSE g : Sums(g, f), f)
  BY SumsExist
<1>2. SumFunction(f) = (CHOOSE g : Sums(g, f))[S]
  BY SumIsChosen
<1> QED BY <1>1, <1>2

LEMMA SumInt ==
    ASSUME NEW S, IsFiniteSet(S), NEW f \in [S -> Int]
    PROVE  SumFunction(f) \in Int
BY SumFacts, SumsSplit

\* The sum grows by no more than one of its terms does.
LEMMA SumBound ==
    ASSUME NEW S, IsFiniteSet(S), NEW f \in [S -> Int], NEW h \in [S -> Int],
           NEW x \in S, NEW d \in Int, h[x] <= f[x] + d, \A y \in S \ {x} : h[y] <= f[y]
    PROVE  SumFunction(h) <= SumFunction(f) + d
<1>1. PICK g : Sums(g, f) /\ SumFunction(f) = g[S]
  BY SumFacts
<1>2. PICK k : Sums(k, h) /\ SumFunction(h) = k[S]
  BY SumFacts
<1>3. g[S] = f[x] + g[S \ {x}]
  BY <1>1, SumsSplit
<1>7. k[S] = h[x] + k[S \ {x}]
  BY <1>2, SumsSplit
<1>4. g[S \ {x}] \in Int /\ k[S \ {x}] \in Int
  BY <1>1, <1>2, SumsSplit
<1>5. k[S \ {x}] <= g[S \ {x}]
  BY <1>1, <1>2, SumsGrow
<1>6. f[x] \in Int /\ h[x] \in Int
  OBVIOUS
<1> QED BY <1>1, <1>2, <1>3, <1>4, <1>5, <1>6, <1>7

\* No term of a sum of naturals exceeds the sum.
LEMMA SumTerm ==
    ASSUME NEW S, IsFiniteSet(S), NEW f \in [S -> Int], \A y \in S : f[y] >= 0, NEW x \in S
    PROVE  f[x] <= SumFunction(f)
<1>1. PICK g : Sums(g, f) /\ SumFunction(f) = g[S]
  BY SumFacts
<1>2. PICK zero, none : zero = [s \in S |-> 0] /\ none = [T \in SUBSET S |-> 0]
  OBVIOUS
<1>3. Sums(none, zero) /\ zero \in [S -> Int]
  BY <1>2 DEF Sums, Pick
<1>4. none[S \ {x}] <= g[S \ {x}]
  BY <1>1, <1>2, <1>3, SumsGrow
<1>5. none[S \ {x}] = 0
  BY <1>2
<1>6. g[S] = f[x] + g[S \ {x}]
  BY <1>1, SumsSplit
<1>7. g[S \ {x}] \in Int
  BY <1>1, SumsSplit
<1> QED BY <1>1, <1>4, <1>5, <1>6, <1>7

LEMMA SumGrows ==
    ASSUME NEW S, IsFiniteSet(S), NEW f \in [S -> Int], NEW h \in [S -> Int],
           \A x \in S : h[x] <= f[x]
    PROVE  SumFunction(h) <= SumFunction(f)
<1>1. PICK g : Sums(g, f) /\ SumFunction(f) = g[S]
  BY SumFacts
<1>2. PICK k : Sums(k, h) /\ SumFunction(h) = k[S]
  BY SumFacts
<1>3. k[S] <= g[S]
  BY <1>1, <1>2, SumsGrow
<1> QED BY <1>1, <1>2, <1>3

\* A sum of nothing but zeros.
LEMMA SumZero ==
    ASSUME NEW S, IsFiniteSet(S), NEW f \in [S -> Int], \A x \in S : f[x] = 0
    PROVE  SumFunction(f) = 0
<1>1. PICK g : Sums(g, f) /\ SumFunction(f) = g[S]
  BY SumFacts
<1>2. PICK none : none = [T \in SUBSET S |-> 0]
  OBVIOUS
<1>3. Sums(none, f)
  BY <1>2 DEF Sums, Pick
<1>4. none[S] <= g[S]
  BY <1>1, <1>3, SumsGrow
<1>6. g[S] <= none[S]
  BY <1>1, <1>3, SumsGrow
<1>5. none[S] = 0 /\ g[S] \in Int
  BY <1>1, <1>2, SumsSplit
<1> QED BY <1>1, <1>4, <1>5, <1>6

\* A sum changes by what one of its terms changes by.
LEMMA SumChange ==
    ASSUME NEW S, IsFiniteSet(S), NEW f \in [S -> Int], NEW h \in [S -> Int],
           NEW x \in S, NEW d \in Int, h[x] = f[x] + d, \A y \in S \ {x} : h[y] = f[y]
    PROVE  SumFunction(h) = SumFunction(f) + d
<1>1. SumFunction(f) \in Int /\ SumFunction(h) \in Int
  BY SumInt
<1>2. f[x] \in Int /\ h[x] \in Int /\ \A y \in S \ {x} : f[y] \in Int /\ h[y] \in Int
  OBVIOUS
<1>3. SumFunction(h) <= SumFunction(f) + d
  BY <1>2, SumBound
<1>4. f[x] <= h[x] + (-d) /\ -d \in Int
  BY <1>2
<1>5. SumFunction(f) <= SumFunction(h) + (-d)
  BY <1>2, <1>4, SumBound
<1> QED BY <1>1, <1>3, <1>5

-----------------------------------------------------------------------------
(* The inductive invariant.                                                *)

\* Connections that are about to store a TrafficCounter.
Storing == {c \in Conn : conn[c].at = "loaded" /\ conn[c].tag = 0}

\* Each of them stores one, and once there is one no connection joins them.
TagInv == tagCounter > 0 => tagCounter + Cardinality(Storing) <= Cardinality(Conn)

Slices == {"peek", "peekTake", "slice", "sliceTake"}
Takes  == {"peekTake", "sliceTake"}

\* What a report holds at each place: nothing that it is about to overwrite,
\* and exactly what it still has to put back.
Orderly(r) ==
    /\ \A u \in User : slice[r][u] > 0 => slot[r][u] # Nil
    /\ pc[r] \in {"idle", "putBack"} => \A u \in User : slice[r][u] = 0
    /\ pc[r] \in Slices => todo[r] \subseteq User /\ \A u \in todo[r] : slice[r][u] = 0
    /\ pc[r] \in Takes <=> cur[r] # NoCur
    /\ pc[r] \in Takes =>
          slice[r][cur[r].user] = 0 /\ cur[r].user \notin todo[r] /\ tag[r] # 0
    /\ pc[r] \in {"unpeek", "rollback"} =>
          todo[r] \subseteq User /\ \A u \in User : u \in todo[r] <=> slice[r][u] > 0
    /\ pc[r] \in Slices \cup {"idle", "unpeek", "drain", "putBack"} =>
          \A u \in AnyUser : report[r][u] = 0
    /\ pc[r] \notin {"restore", "putBack"} => \A u \in AnyUser : restore[r][u] = 0
    /\ pc[r] \in {"restore", "putBack"} =>
          \A u \in AnyUser : u \in todo[r] <=> restore[r][u] > 0

ReportInv == \A r \in Controller : Orderly(r)

\* Somebody knows the storage as one of this user.
Owns(s, u) ==
    /\ u \in User
    /\ \/ \E t \in Tag : counters[t][u] = s
       \/ \E c \in Conn : conn[c].user = u /\ conn[c].storage = s
       \/ \E r \in Controller : cur[r].user = u /\ cur[r].storage = s
       \/ \E r \in Controller : slot[r][u] = s

OwnInv == \A s \in Storage : \A u, v \in User : Owns(s, u) /\ Owns(s, v) => u = v

\* All that the storages of a user hold.
Kept(s, u) == IF Owns(s, u) THEN bytes[s] ELSE 0
Stored(u) == SumFunction([s \in Storage |-> Kept(s, u)])

\* What the panel, the edge daemon and the running reports have of a user's bytes.
Account(u) == panel[u] + edge[u] + InFlight(u)

\* NoByteTwice, of all storages of the user and not just of the present one.
TwiceInv == \A u \in AnyUser \ dups : Account(u) + Stored(u) <= carried[u]

\* The storage that the next report will find, if there is one, and its bytes.
Found(u) == IF tagCounter = 0 THEN Nil ELSE counters[tagCounter][u]
At(u) == IF u \in User /\ Found(u) # Nil THEN bytes[Found(u)] ELSE 0

\* NoByteLost.
LostInv == \A u \in AnyUser \ gaps : carried[u] <= Account(u) + At(u)

\* A user whose bytes cannot be lost has one storage only, in the present
\* TrafficCounter, and everybody who has a storage of the user has this one.
Sole(u) ==
    /\ phase[u] \in {"served", "unlisted"}
    /\ \A t \in Tag : t # tagCounter => counters[t][u] = Nil
    /\ \A c \in Conn : conn[c].user = u =>
          /\ conn[c].tag \in {0, tagCounter}
          /\ conn[c].storage # Nil => conn[c].storage = Found(u)
    /\ \A r \in Controller :
          /\ slot[r][u] # Nil => slot[r][u] = Found(u)
          /\ cur[r].user = u => cur[r].storage = Found(u)

OneStorage == \A u \in User \ gaps : Sole(u)

IInv == TypeOK /\ TagInv /\ ReportInv /\ OwnInv /\ OneStorage /\ TwiceInv /\ LostInv

-----------------------------------------------------------------------------
(* Types.                                                                  *)

\* The bounds are numbers.
LEMMA Numbers ==
    /\ Cardinality(Conn) \in Nat /\ Last \in Nat \ {0}
    /\ IsFiniteSet(Controller) /\ 1 \in Controller
<1>1. Cardinality(Conn) \in Nat
  BY FS_CardinalityType, TrafficAssumption
<1>2. Last \in Nat \ {0}
  BY TrafficAssumption
<1>3. IsFiniteSet(Controller) /\ 1 \in Controller
  BY <1>2, FS_Interval DEF Controller
<1> QED BY <1>1, <1>2, <1>3

\* Where a connection is says what it has.
LEMMA ConnCases ==
    ASSUME TypeOK, NEW c \in Conn
    PROVE  \/ conn[c] = NoConn
           \/ /\ conn[c].at = "loaded" /\ conn[c].user \in User
              /\ conn[c].tag \in 0 .. Cardinality(Conn) /\ conn[c].storage = Nil
              /\ conn[c] = [at |-> "loaded", user |-> conn[c].user,
                            tag |-> conn[c].tag, storage |-> Nil]
           \/ /\ conn[c].at = "open" /\ conn[c].user \in User
              /\ conn[c].tag \in Tag /\ conn[c].storage \in Storage
              /\ conn[c] = [at |-> "open", user |-> conn[c].user,
                            tag |-> conn[c].tag, storage |-> conn[c].storage]
<1>1. conn[c] \in ConnType
  BY DEF TypeOK
<1> QED BY <1>1 DEF ConnType

\* A new TrafficStorage is one nobody has.
LEMMA NewIsUnused ==
    ASSUME NEW s, New(s)
    PROVE  s \in Unused
BY DEF New

\* Connections.
LEMMA ConnTypes ==
    ASSUME TypeOK, TagInv, NEW c \in Conn, ConnStep(c)
    PROVE  TypeOK'
<1> USE Numbers, TrafficAssumption
<1>1. ASSUME NEW u \in User, LoadTagCounter(c, u) PROVE TypeOK'
  <2>1. conn' \in [Conn -> ConnType]
    BY <1>1 DEF LoadTagCounter, TypeOK, ConnType
  <2> QED BY <1>1, <2>1 DEF LoadTagCounter, TypeOK, repVars, histVars
<1>2. CASE StoreTagCounter(c)
  <2>1. tagCounter + 1 \in Tag
    <3>1. c \in Storing /\ Storing \in SUBSET Conn
      BY <1>2 DEF StoreTagCounter, Storing
    <3>2. IsFiniteSet(Storing) /\ Cardinality(Storing) <= Cardinality(Conn)
      BY <3>1, FS_Subset
    <3>3. Cardinality(Storing) \in Nat /\ Cardinality(Storing) # 0
      BY <3>1, <3>2, FS_CardinalityType, FS_EmptySet
    <3>4. tagCounter \in Nat
      BY DEF TypeOK
    <3> QED BY <3>2, <3>3, <3>4 DEF TagInv, Tag
  <2>2. conn[c] \in [at : {"loaded"}, user : User, tag : 0 .. Cardinality(Conn), storage : {Nil}]
    BY <1>2 DEF StoreTagCounter, TypeOK, ConnType, NoConn
  <2>3. conn' \in [Conn -> ConnType]
    <3>1. [conn[c] EXCEPT !.tag = tagCounter + 1] \in ConnType
      BY <2>1, <2>2 DEF ConnType, Tag
    <3>2. conn' = [conn EXCEPT ![c] = [conn[c] EXCEPT !.tag = tagCounter + 1]]
      BY <1>2 DEF StoreTagCounter
    <3> QED BY <3>1, <3>2 DEF TypeOK
  <2>4. tagCounter' \in 0 .. Cardinality(Conn) /\ gaps' \subseteq AnyUser
    BY <1>2, <2>1 DEF StoreTagCounter, TypeOK, Tag, AnyUser
  <2> QED BY <1>2, <2>3, <2>4 DEF StoreTagCounter, TypeOK, repVars
<1>3. ASSUME NEW s \in Storage, GetCounter(c, s) PROVE TypeOK'
  <2>2. conn[c] \in [at : {"loaded"}, user : User, tag : 0 .. Cardinality(Conn), storage : {Nil}]
    BY <1>3 DEF GetCounter, TypeOK, ConnType, NoConn
  <2>1. conn[c].tag \in Tag
    BY <1>3, <2>2 DEF GetCounter, Tag
  <2>3. conn' \in [Conn -> ConnType]
    BY <1>3, <2>1, <2>2 DEF GetCounter, TypeOK, ConnType
  <2>4. bytes' \in [Storage -> Nat] /\ counters' \in [Tag -> [User -> Storage \cup {Nil}]]
    BY <1>3, <2>1, <2>2 DEF GetCounter, TypeOK
  <2> QED BY <1>3, <2>3, <2>4 DEF GetCounter, TypeOK, repVars, histVars
<1>4. CASE Carry(c)
  <2>2. conn[c].user \in User /\ conn[c].storage \in Storage
    <3>1. conn[c].at = "open" /\ conn[c].at # NoConn.at
      BY <1>4 DEF Carry, NoConn
    <3> QED BY <3>1, ConnCases
  <2>3. bytes' \in [Storage -> Nat] /\ carried' \in [AnyUser -> Nat]
    BY <1>4, <2>2 DEF Carry, TypeOK, AnyUser
  <2> QED BY <1>4, <2>3 DEF Carry, TypeOK, repVars
<1>5. CASE CloseConn(c)
  <2>1. conn' \in [Conn -> ConnType]
    BY <1>5 DEF CloseConn, TypeOK, ConnType
  <2> QED BY <1>5, <2>1 DEF CloseConn, TypeOK, repVars, histVars
<1> QED BY <1>1, <1>2, <1>3, <1>4, <1>5 DEF ConnStep

\* Users.
LEMMA UserTypes ==
    ASSUME TypeOK, NEW u \in User, UserStep(u)
    PROVE  TypeOK'
<1>1. phase' \in [User -> {"served", "unlisted", "noUID", "noCounter", "gone"}]
  BY DEF UserStep, Unlist, DeleteUID, DeleteCounter, DeleteLimit, AddUser, TypeOK
<1>2. gaps' \subseteq AnyUser
  BY DEF UserStep, Unlist, DeleteUID, DeleteCounter, DeleteLimit, AddUser, TypeOK,
         AnyUser,
         histVars
<1>3. counters' \in [Tag -> [User -> Storage \cup {Nil}]]
  BY DEF UserStep, Unlist, DeleteUID, DeleteCounter, DeleteLimit, AddUser, TypeOK
<1>4. UNCHANGED <<bytes, tagCounter, conn, edge, repVars, panel, carried, dups, faults>>
  BY DEF UserStep, Unlist, DeleteUID, DeleteCounter, DeleteLimit, AddUser, histVars
<1> QED BY <1>1, <1>2, <1>3, <1>4 DEF TypeOK, repVars

\* A report goes on somewhere.
LEMMA GotoTypes ==
    ASSUME TypeOK, NEW r \in Controller, NEW where \in Places, NEW users \in SUBSET AnyUser,
           Goto(r, where, users)
    PROVE  pc' \in [Controller -> Places] /\ todo' \in [Controller -> SUBSET AnyUser]
BY DEF Goto, TypeOK

\* The report is over.
LEMMA DoneTypes ==
    ASSUME TypeOK, NEW r \in Controller, Done(r), panel' \in [AnyUser -> Nat],
           gaps' \subseteq AnyUser, UNCHANGED <<carried, dups, faults>>
    PROVE  TypeOK'
<1>1. pc' \in [Controller -> Places] /\ todo' \in [Controller -> SUBSET AnyUser]
  BY DEF Done, Goto, TypeOK, Places
<1>2. slice' \in [Controller -> [User -> Nat]] /\ report' \in [Controller -> [AnyUser -> Nat]]
      /\ slot' \in [Controller -> [User -> Storage \cup {Nil}]]
  BY DEF Done, TypeOK, Nowhere, Zero
<1> QED BY <1>1, <1>2 DEF Done, TypeOK, coreVars

\* The maps of a report and of the panel.
LEMMA MergedType ==
    ASSUME TypeOK, NEW r \in Controller
    PROVE  /\ Merged(r) \in [AnyUser -> Nat] /\ Add(panel, Merged(r)) \in [AnyUser -> Nat]
           /\ \A u \in AnyUser :
                 /\ Merged(r)[u] = IF u \in User THEN report[r][u] + slice[r][u] ELSE report[r][u]
                 /\ Add(panel, Merged(r))[u] = panel[u] + Merged(r)[u]
<1>1. report[r] \in [AnyUser -> Nat] /\ slice[r] \in [User -> Nat] /\ panel \in [AnyUser -> Nat]
  BY DEF TypeOK
<1>2. PICK f, g : f = report[r] /\ g = slice[r]
  OBVIOUS
<1>3. PICK h : h = Add(f, g)
  OBVIOUS
<1>4. /\ h \in [AnyUser -> Nat]
      /\ \A u \in AnyUser : h[u] = IF u \in User THEN f[u] + g[u] ELSE f[u]
  BY <1>1, <1>2, <1>3 DEF Add, AnyUser
<1>5. Merged(r) = h
  BY <1>2, <1>3 DEF Merged
<1>6. Add(panel, h) \in [AnyUser -> Nat] /\ \A u \in AnyUser : Add(panel, h)[u] = panel[u] + h[u]
  BY <1>1, <1>4 DEF Add
<1> QED BY <1>2, <1>4, <1>5, <1>6

LEMMA PresentType ==
    /\ Zero \in [AnyUser -> Nat] /\ \A u \in AnyUser : Zero[u] = 0
    /\ \A f \in [AnyUser -> Nat] : Present(f) \subseteq AnyUser
    /\ \A f \in [User -> Nat] : Present(f) \subseteq AnyUser /\ Present(f) \subseteq User
BY DEF Zero, Present, AnyUser

\* Reports.
LEMMA ReportTypes ==
    ASSUME TypeOK, ReportInv, NEW r \in Controller, ReportStep(r)
    PROVE  TypeOK'
<1> USE Numbers, PresentType
<1>u. User \subseteq AnyUser /\ EdgeUser \subseteq AnyUser
  BY DEF AnyUser
<1>1. CASE Begin(r)
  BY <1>1, <1>u DEF Begin, RangeOver, Goto, TypeOK, Places, coreVars, histVars
<1>2. ASSUME NEW u \in User, Look(r, u) PROVE TypeOK'
  <2>1. pc' \in [Controller -> Places] /\ todo' \in [Controller -> SUBSET AnyUser]
    <3>1. PICK where \in {pc[r], "peekTake", "sliceTake"} : Goto(r, where, todo[r] \ {u})
      BY <1>2 DEF Look
    <3>2. where \in Places /\ todo[r] \ {u} \in SUBSET AnyUser
      BY <3>1 DEF TypeOK, Places
    <3> QED BY <3>1, <3>2, GotoTypes
  <2>2. cur' \in [Controller -> {NoCur} \cup [user : User, storage : Storage]]
    <3>1. CASE tag[r] = 0
      BY <1>2, <3>1 DEF Look, TypeOK
    <3>2. CASE tag[r] # 0
      <4>1. tag[r] \in Tag
        BY <3>2 DEF TypeOK, Tag
      <4>2. counters[tag[r]][u] \in Storage \cup {Nil}
        BY <4>1 DEF TypeOK
      <4> QED BY <1>2, <3>2, <4>2 DEF Look, TypeOK
    <3> QED BY <3>1, <3>2
  <2> QED BY <1>2, <2>1, <2>2 DEF Look, TypeOK, coreVars, histVars
<1>3. ASSUME NEW u \in User, Rollback(r, u) PROVE TypeOK'
  <2>1. slot[r][u] \in Storage
    <3>1. slot[r][u] \in Storage \cup {Nil}
      BY DEF TypeOK
    <3>2. slot[r][u] # Nil
      BY <1>3 DEF ReportInv, Orderly, Rollback
    <3> QED BY <3>1, <3>2
  <2>2. bytes' \in [Storage -> Nat] /\ slice' \in [Controller -> [User -> Nat]]
        /\ slot' \in [Controller -> [User -> Storage \cup {Nil}]]
    BY <1>3, <2>1 DEF Rollback, TypeOK
  <2>3. pc' \in [Controller -> Places] /\ todo' \in [Controller -> SUBSET AnyUser]
    BY <1>3 DEF Rollback, Goto, TypeOK, Places
  <2> QED BY <1>3, <2>2, <2>3 DEF Rollback, TypeOK, histVars
<1>4. CASE Take(r)
  <2>1. cur[r] \in [user : User, storage : Storage] /\ tag[r] \in Tag
    <3>1. cur[r] # NoCur /\ tag[r] # 0
      BY <1>4 DEF Take, ReportInv, Orderly, Takes
    <3> QED BY <3>1 DEF TypeOK, Tag
  <2>2. pc' \in [Controller -> Places] /\ todo' \in [Controller -> SUBSET AnyUser]
    BY <1>4 DEF Take, Goto, TypeOK, Places
  <2>3. bytes' \in [Storage -> Nat] /\ slice' \in [Controller -> [User -> Nat]]
        /\ slot' \in [Controller -> [User -> Storage \cup {Nil}]]
    <3>1. cur[r].user \in User /\ cur[r].storage \in Storage /\ bytes[cur[r].storage] \in Nat
      BY <2>1 DEF TypeOK
    <3>2. bytes' = [bytes EXCEPT ![cur[r].storage] = 0]
      BY <1>4 DEF Take
    <3>3. CASE phase[cur[r].user] \in {"served", "unlisted"}
      <4>1. /\ slice' = [slice EXCEPT ![r][cur[r].user] = bytes[cur[r].storage]]
            /\ slot' = [slot EXCEPT ![r][cur[r].user] = cur[r].storage]
        BY <1>4, <3>3 DEF Take
      <4> QED BY <3>1, <3>2, <4>1 DEF TypeOK
    <3>4. CASE phase[cur[r].user] \notin {"served", "unlisted"}
      BY <1>4, <3>1, <3>2, <3>4 DEF Take, TypeOK
    <3> QED BY <3>3, <3>4
  <2>4. counters' \in [Tag -> [User -> Storage \cup {Nil}]]
    <3>1. UNCHANGED counters \/ counters' = [counters EXCEPT ![tag[r]][cur[r].user] = Nil]
      BY <1>4 DEF Take
    <3>2. cur[r].user \in User
      BY <2>1
    <3>3. PICK k \in Tag, v \in User : k = tag[r] /\ v = cur[r].user
      BY <2>1, <3>2
    <3>4. UNCHANGED counters \/ counters' = [counters EXCEPT ![k] = [counters[k] EXCEPT ![v] = Nil]]
      BY <3>1, <3>3
    <3>5. [counters[k] EXCEPT ![v] = Nil] \in [User -> Storage \cup {Nil}]
      BY DEF TypeOK
    <3> QED BY <3>4, <3>5 DEF TypeOK
  <2>5. cur' \in [Controller -> {NoCur} \cup [user : User, storage : Storage]]
    BY <1>4 DEF Take, TypeOK
  <2> QED BY <1>4, <2>2, <2>3, <2>4, <2>5 DEF Take, TypeOK, histVars
<1>5. CASE Sliced(r)
  <2>1. Present(slice[r]) \subseteq AnyUser
    BY DEF TypeOK
  <2>2. pc' \in [Controller -> Places] /\ todo' \in [Controller -> SUBSET AnyUser]
    <3>1. Goto(r, "unpeek", Present(slice[r])) \/ Goto(r, "drain", {})
      BY <1>5 DEF Sliced
    <3> QED BY <2>1, <3>1, GotoTypes DEF Places
  <2> QED BY <1>5, <2>2 DEF Sliced, TypeOK, coreVars, histVars
<1>6. CASE RolledBack(r)
  <2>1. Present(report[r]) \subseteq AnyUser
    BY DEF TypeOK
  <2>2. pc' \in [Controller -> Places] /\ todo' \in [Controller -> SUBSET AnyUser]
        /\ tag' \in [Controller -> 0 .. Cardinality(Conn)]
    <3>1. CASE RangeOver(r, "slice")
      BY <1>u, <3>1 DEF RangeOver, Goto, TypeOK, Places
    <3>2. CASE Goto(r, "putBack", Present(report[r])) /\ UNCHANGED tag
      BY <2>1, <3>2, GotoTypes DEF TypeOK, Places
    <3> QED BY <1>6, <3>1, <3>2 DEF RolledBack
  <2>3. report' \in [Controller -> [AnyUser -> Nat]] /\ restore' \in [Controller -> [AnyUser -> Nat]]
    <3>1. CASE UNCHANGED <<report, restore>>
      BY <3>1 DEF TypeOK
    <3>2. CASE /\ restore' = [restore EXCEPT ![r] = report[r]]
               /\ report' = [report EXCEPT ![r] = Zero]
      BY <3>2 DEF TypeOK
    <3> QED BY <1>6, <3>1, <3>2 DEF RolledBack
  <2> QED BY <1>6, <2>2, <2>3 DEF RolledBack, TypeOK, coreVars, histVars
<1>7. CASE Drain(r)
  <2>1. PICK rest, own : /\ rest = [u \in AnyUser |-> IF u \in Matched THEN 0 ELSE edge[u]]
                          /\ own = [u \in AnyUser |-> IF u \in Matched THEN edge[u] ELSE 0]
    OBVIOUS
  <2>2. rest \in [AnyUser -> Nat] /\ own \in [AnyUser -> Nat] /\ Present(rest) \subseteq AnyUser
    BY <2>1 DEF TypeOK
  <2>3. /\ report' = [report EXCEPT ![r] = own] /\ restore' = [restore EXCEPT ![r] = rest]
        /\ Goto(r, "restore", Present(rest)) /\ edge' = Zero
    BY <1>7, <2>1 DEF Drain
  <2>4. pc' \in [Controller -> Places] /\ todo' \in [Controller -> SUBSET AnyUser]
    BY <2>2, <2>3 DEF Goto, TypeOK, Places
  <2>5. report' \in [Controller -> [AnyUser -> Nat]] /\ restore' \in [Controller -> [AnyUser -> Nat]]
        /\ edge' \in [AnyUser -> Nat]
    BY <2>2, <2>3 DEF TypeOK
  <2> QED BY <1>7, <2>4, <2>5 DEF Drain, TypeOK, coreVars, histVars
<1>8. CASE Restored(r)
  <2>1. pc' \in [Controller -> Places] /\ todo' \in [Controller -> SUBSET AnyUser]
    BY <1>8 DEF Restored, Goto, TypeOK, Places
  <2> QED BY <1>8, <2>1 DEF Restored, TypeOK, coreVars, histVars
<1>9. ASSUME NEW u \in AnyUser, Restore(r, u) PROVE TypeOK'
  <2>1. pc' \in [Controller -> Places] /\ todo' \in [Controller -> SUBSET AnyUser]
    BY <1>9 DEF Restore, Goto, TypeOK, Places
  <2>2. edge' \in [AnyUser -> Nat] /\ restore' \in [Controller -> [AnyUser -> Nat]]
    BY <1>9 DEF Restore, TypeOK
  <2> QED BY <1>9, <2>1, <2>2 DEF Restore, TypeOK, coreVars, histVars
<1>10. CASE Accepted(r)
  <2>1. panel' \in [AnyUser -> Nat]
    BY <1>10, MergedType DEF Accepted
  <2>2. gaps' \subseteq AnyUser /\ Done(r) /\ UNCHANGED <<carried, dups, faults>>
    BY <1>10 DEF Accepted, TypeOK
  <2> QED BY <2>1, <2>2, DoneTypes
<1>11. CASE UnifiedUnsupported(r)
  BY <1>11 DEF UnifiedUnsupported, Goto, TypeOK, Places, coreVars, histVars
<1> QED
  BY <1>1, <1>2, <1>3, <1>4, <1>5, <1>6, <1>7, <1>8, <1>9, <1>10, <1>11
     DEF ReportStep

\* Failures.
LEMMA FaultTypes ==
    ASSUME TypeOK, NEW r \in Controller, NEW applied \in BOOLEAN, FaultStep(r, applied)
    PROVE  TypeOK'
<1> USE PresentType
<1>1. CASE DrainFails(r, applied)
  <2>1. Present(edge) \subseteq AnyUser
    BY DEF TypeOK
  <2>2. edge' \in [AnyUser -> Nat] /\ gaps' \subseteq AnyUser /\ faults' \in Nat
    BY <1>1, <2>1 DEF DrainFails, Fault, TypeOK
  <2>3. pc' \in [Controller -> Places] /\ todo' \in [Controller -> SUBSET AnyUser]
    BY <1>1 DEF DrainFails, Goto, TypeOK, Places
  <2> QED BY <1>1, <2>2, <2>3 DEF DrainFails, TypeOK, coreVars
<1>2. ASSUME NEW u \in AnyUser, RestoreFails(r, u, applied) PROVE TypeOK'
  <2>1. gaps' \subseteq AnyUser /\ faults' \in Nat
    BY <1>2 DEF RestoreFails, Fault, TypeOK
  <2>2. edge' \in [AnyUser -> Nat] /\ restore' \in [Controller -> [AnyUser -> Nat]]
    BY <1>2 DEF RestoreFails, TypeOK
  <2>3. pc' \in [Controller -> Places] /\ todo' \in [Controller -> SUBSET AnyUser]
    BY <1>2 DEF RestoreFails, Goto, TypeOK, Places
  <2> QED BY <1>2, <2>1, <2>2, <2>3 DEF RestoreFails, TypeOK, coreVars
<1>3. CASE UnifiedFails(r, applied) \/ PushFails(r, applied)
  <2>1. Present(Merged(r)) \subseteq AnyUser /\ Present(slice[r]) \subseteq AnyUser
    BY MergedType DEF TypeOK
  <2>2. panel' \in [AnyUser -> Nat] /\ dups' \subseteq AnyUser /\ faults' \in Nat
    BY <1>3, <2>1, MergedType DEF UnifiedFails, PushFails, Booked, Fault, TypeOK
  <2>3. pc' \in [Controller -> Places] /\ todo' \in [Controller -> SUBSET AnyUser]
    <3>1. Goto(r, "push", {}) \/ Goto(r, "rollback", Present(slice[r]))
      BY <1>3 DEF UnifiedFails, PushFails
    <3> QED BY <2>1, <3>1, GotoTypes DEF Places
  <2> QED BY <1>3, <2>2, <2>3 DEF UnifiedFails, PushFails, TypeOK, coreVars
<1>4. CASE PushCancelled(r, applied)
  <2>1. Present(Merged(r)) \subseteq AnyUser
    BY MergedType DEF TypeOK
  <2>2. panel' \in [AnyUser -> Nat] /\ gaps' \subseteq AnyUser
    BY <1>4, <2>1, MergedType DEF PushCancelled, TypeOK
  <2> QED BY <1>4, <2>2, DoneTypes DEF PushCancelled
<1> QED BY <1>1, <1>2, <1>3, <1>4 DEF FaultStep

LEMMA TypeInit == Init => TypeOK /\ TagInv /\ ReportInv
<1> SUFFICES ASSUME Init PROVE TypeOK /\ TagInv /\ ReportInv
  OBVIOUS
<1> USE Numbers, TrafficAssumption
<1>1. TypeOK
  BY DEF Init, TypeOK, Nowhere, Zero, ConnType, Places, Controller
<1>2. TagInv
  BY DEF Init, TagInv
<1>3. ReportInv
  BY DEF Init, ReportInv, Orderly, Slices, Takes, Zero
<1> QED BY <1>1, <1>2, <1>3

LEMMA TypeNext == TypeOK /\ TagInv /\ ReportInv /\ [Next]_vars => TypeOK'
<1> SUFFICES ASSUME TypeOK, TagInv, ReportInv, [Next]_vars PROVE TypeOK'
  OBVIOUS
<1>1. ASSUME NEW c \in setup.conns, ConnStep(c) PROVE TypeOK'
  <2>1. c \in Conn
    BY TrafficAssumption DEF TypeOK
  <2> QED BY <1>1, <2>1, ConnTypes
<1>2. ASSUME NEW u \in setup.edge, EdgeCarry(u) PROVE TypeOK'
  <2>1. u \in AnyUser
    BY TrafficAssumption DEF TypeOK, AnyUser
  <2> QED BY <1>2, <2>1 DEF EdgeCarry, TypeOK, coreVars, repVars
<1>3. CASE Replace
  <2>1. setup.last \in 1 .. Last
    BY TrafficAssumption DEF TypeOK
  <2>2. active' \in Controller
    BY <1>3, <2>1, TrafficAssumption DEF Replace, TypeOK, Controller
  <2> QED BY <1>3, <2>2 DEF Replace, TypeOK, coreVars, histVars
<1>4. CASE UNCHANGED vars
  BY <1>4 DEF vars, coreVars, repVars, histVars, TypeOK
<1> QED BY <1>1, <1>2, <1>3, <1>4, UserTypes, ReportTypes, FaultTypes DEF Next

-----------------------------------------------------------------------------
(* TagInv and ReportInv.                                                   *)

\* A step that leaves the connections alone, or that is not about a
\* connection without a TrafficCounter.
LEMMA TagKept ==
    ASSUME TagInv, UNCHANGED tagCounter, tagCounter > 0 => Storing' = Storing
    PROVE  TagInv'
BY DEF TagInv

LEMMA TagConn ==
    ASSUME TypeOK, TagInv, NEW c \in Conn, ConnStep(c)
    PROVE  TagInv'
<1> USE Numbers, TrafficAssumption
<1>n. NoConn.at = "closed"
  BY DEF NoConn
<1>1. ASSUME NEW u \in User, LoadTagCounter(c, u) PROVE TagInv'
  <2>1. ASSUME tagCounter > 0 PROVE Storing' = Storing
    BY <1>1, <1>n, <2>1 DEF LoadTagCounter, Storing, TypeOK
  <2> QED BY <1>1, <2>1, TagKept DEF LoadTagCounter
<1>2. CASE StoreTagCounter(c)
  <2>1. c \in Storing /\ Storing \in SUBSET Conn /\ tagCounter' = tagCounter + 1 /\ tagCounter \in Nat
    BY <1>2 DEF StoreTagCounter, Storing, TypeOK
  <2>2. conn'[c].tag # 0 /\ \A d \in Conn \ {c} : conn'[d] = conn[d]
    BY <1>2, <2>1 DEF StoreTagCounter, TypeOK
  <2>3. Storing' = Storing \ {c}
    BY <2>2 DEF Storing
  <2>4. IsFiniteSet(Storing) /\ Cardinality(Storing) <= Cardinality(Conn)
    BY <2>1, FS_Subset
  <2>5. Cardinality(Storing \ {c}) = Cardinality(Storing) - 1
    BY <2>1, <2>4, FS_RemoveElement
  <2>6. Cardinality(Storing) \in Nat
    BY <2>4, FS_CardinalityType
  <2> QED BY <2>1, <2>3, <2>4, <2>5, <2>6 DEF TagInv
<1>3. ASSUME NEW s \in Storage, GetCounter(c, s) PROVE TagInv'
  <2>1. conn'[c].at = "open" /\ \A d \in Conn \ {c} : conn'[d] = conn[d]
    BY <1>3 DEF GetCounter, TypeOK
  <2>2. c \notin Storing
    <3>1. conn[c].tag > 0
      BY <1>3 DEF GetCounter
    <3> QED BY <3>1 DEF Storing
  <2>3. Storing' = Storing
    BY <2>1, <2>2 DEF Storing
  <2> QED BY <1>3, <2>3, TagKept DEF GetCounter
<1>4. CASE Carry(c)
  BY <1>4, TagKept DEF Carry, Storing
<1>5. CASE CloseConn(c)
  <2>1. conn'[c] = NoConn /\ \A d \in Conn \ {c} : conn'[d] = conn[d]
    BY <1>5 DEF CloseConn, TypeOK
  <2>2. Storing' = Storing
    BY <1>5, <1>n, <2>1 DEF CloseConn, Storing
  <2> QED BY <1>5, <2>2, TagKept DEF CloseConn
<1> QED BY <1>1, <1>2, <1>3, <1>4, <1>5 DEF ConnStep

\* Report q is as it was; so are all but r, and what no report changes.
Same(q) ==
    /\ pc'[q] = pc[q] /\ todo'[q] = todo[q] /\ tag'[q] = tag[q] /\ cur'[q] = cur[q]
    /\ slice'[q] = slice[q] /\ slot'[q] = slot[q]
    /\ report'[q] = report[q] /\ restore'[q] = restore[q]
OthersSame(r) ==
    /\ \A q \in Controller \ {r} : Same(q)
    /\ UNCHANGED <<setup, tagCounter, phase, conn, active, carried>>

\* What the steps of a report leave alone.
LEMMA OthersKept ==
    ASSUME TypeOK, NEW r \in Controller,
           ReportStep(r) \/ \E applied \in BOOLEAN : FaultStep(r, applied)
    PROVE  OthersSame(r)
<1> USE DEF OthersSame, Same
<1>1. CASE Begin(r) \/ Sliced(r) \/ RolledBack(r)
  BY <1>1 DEF Begin, Sliced, RolledBack, RangeOver, Goto, TypeOK, coreVars, histVars
<1>2. ASSUME NEW u \in User, Look(r, u) \/ Rollback(r, u)
      PROVE  OthersSame(r)
  BY <1>2 DEF Look, Rollback, Goto, TypeOK, coreVars, histVars
<1>3. CASE Take(r)
  BY <1>3 DEF Take, Goto, TypeOK, histVars
<1>4. CASE Drain(r) \/ Restored(r) \/ Accepted(r) \/ UnifiedUnsupported(r)
  BY <1>4 DEF Drain, Restored, Accepted, Done, UnifiedUnsupported, Goto, TypeOK,
              coreVars,
              histVars
<1>5. ASSUME NEW u \in AnyUser, NEW applied \in BOOLEAN,
             Restore(r, u) \/ RestoreFails(r, u, applied)
      PROVE  OthersSame(r)
  BY <1>5 DEF Restore, RestoreFails, Goto, TypeOK, coreVars, histVars
<1>6. ASSUME NEW applied \in BOOLEAN,
             \/ DrainFails(r, applied) \/ UnifiedFails(r, applied)
             \/ PushFails(r, applied) \/ PushCancelled(r, applied)
      PROVE  OthersSame(r)
  BY <1>6 DEF DrainFails, UnifiedFails, PushFails, PushCancelled, Done, Goto,
              TypeOK, coreVars
<1> QED BY <1>1, <1>2, <1>3, <1>4, <1>5, <1>6 DEF ReportStep, FaultStep

\* A step that is not of report q.
LEMMA OrderlyKept ==
    ASSUME TypeOK, NEW q \in Controller, Orderly(q), Same(q)
    PROVE  Orderly(q)'
BY DEF Orderly, Same

LEMMA OrderlyDone ==
    ASSUME TypeOK, NEW r \in Controller, Orderly(r), Done(r), pc[r] \in {"unified", "push"}
    PROVE  Orderly(r)'
<1>1. /\ pc'[r] = "idle" /\ todo'[r] = {} /\ slice'[r] = [u \in User |-> 0]
      /\ slot'[r] = Nowhere /\ report'[r] = Zero /\ restore'[r] = restore[r]
      /\ cur'[r] = cur[r]
  BY DEF Done, Goto, TypeOK
<1> QED BY <1>1, PresentType DEF Orderly, Slices, Takes

\* The report of r itself.
LEMMA OrderlyReport ==
    ASSUME TypeOK, NEW r \in Controller, Orderly(r), ReportStep(r)
    PROVE  Orderly(r)'
<1> USE DEF Slices, Takes
<1>u. User \subseteq AnyUser
  BY DEF AnyUser
<1>t. /\ slice[r] \in [User -> Nat] /\ report[r] \in [AnyUser -> Nat]
      /\ restore[r] \in [AnyUser -> Nat] /\ pc[r] \in Places /\ edge \in [AnyUser -> Nat]
  BY DEF TypeOK
<1>1. CASE Begin(r)
  <2>1. /\ pc[r] = "idle" /\ pc'[r] \in {"peek", "slice"} /\ todo'[r] \subseteq User
        /\ cur'[r] = cur[r] /\ slice'[r] = slice[r] /\ slot'[r] = slot[r]
        /\ report'[r] = report[r] /\ restore'[r] = restore[r]
    BY <1>1 DEF Begin, RangeOver, Goto, TypeOK
  <2> QED BY <2>1 DEF Orderly
<1>2. ASSUME NEW u \in User, Look(r, u) PROVE Orderly(r)'
  <2>1. /\ slice'[r] = slice[r] /\ slot'[r] = slot[r] /\ tag'[r] = tag[r] /\ u \in todo[r]
        /\ report'[r] = report[r] /\ restore'[r] = restore[r] /\ todo'[r] = todo[r] \ {u}
    BY <1>2 DEF Look, Goto, TypeOK
  <2>2. \/ pc[r] \in {"peek", "slice"} /\ pc'[r] = pc[r] /\ cur'[r] = cur[r]
        \/ /\ pc[r] \in {"peek", "slice"} /\ pc'[r] \in {"peekTake", "sliceTake"}
           /\ tag[r] # 0 /\ cur'[r].user = u /\ cur'[r] # NoCur
    <3>1. u # Nil
      BY TrafficAssumption
    <3> QED BY <1>2, <3>1 DEF Look, Goto, TypeOK, NoCur
  <2> QED BY <2>1, <2>2 DEF Orderly
<1>3. ASSUME NEW u \in User, Rollback(r, u) PROVE Orderly(r)'
  <2>1. /\ pc[r] \in {"unpeek", "rollback"} /\ pc'[r] = pc[r] /\ todo'[r] = todo[r] \ {u}
        /\ cur'[r] = cur[r] /\ report'[r] = report[r] /\ restore'[r] = restore[r]
        /\ slice'[r] = [slice[r] EXCEPT ![u] = 0] /\ slot'[r] = [slot[r] EXCEPT ![u] = Nil]
    BY <1>3 DEF Rollback, Goto, TypeOK
  <2>2. slot[r] \in [User -> Storage \cup {Nil}]
    BY DEF TypeOK
  <2> QED BY <1>t, <2>1, <2>2 DEF Orderly
<1>4. CASE Take(r)
  <2>1. /\ pc[r] \in Takes /\ pc'[r] \in {"peek", "slice"} /\ todo'[r] = todo[r]
        /\ cur'[r] = NoCur /\ report'[r] = report[r] /\ restore'[r] = restore[r]
    BY <1>4 DEF Take, Goto, TypeOK
  <2>2. cur[r].user \in User /\ cur[r].storage \in Storage /\ cur[r].user \notin todo[r]
    BY <2>1 DEF Orderly, TypeOK
  <2>3. PICK u \in User, s \in Storage : u = cur[r].user /\ s = cur[r].storage
    BY <2>2
  <2>4. \/ /\ slice'[r] = [slice[r] EXCEPT ![u] = bytes[s]]
           /\ slot'[r] = [slot[r] EXCEPT ![u] = s]
        \/ slice'[r] = slice[r] /\ slot'[r] = slot[r]
    BY <1>4, <2>3 DEF Take, TypeOK
  <2>5. s # Nil /\ slot[r] \in [User -> Storage \cup {Nil}] /\ bytes[s] \in Nat
    BY TrafficAssumption DEF TypeOK
  <2> QED BY <1>t, <2>1, <2>2, <2>3, <2>4, <2>5 DEF Orderly
<1>5. CASE Sliced(r)
  <2>1. /\ cur'[r] = cur[r] /\ slice'[r] = slice[r] /\ slot'[r] = slot[r]
        /\ report'[r] = report[r] /\ restore'[r] = restore[r]
        /\ \/ pc[r] = "peek" /\ pc'[r] = "unpeek" /\ todo'[r] = Present(slice[r])
           \/ pc[r] = "slice" /\ pc'[r] = "drain" /\ todo'[r] = {}
    BY <1>5 DEF Sliced, Goto, TypeOK
  <2>2. Present(slice[r]) = {u \in User : slice[r][u] > 0}
    BY <1>t DEF Present
  <2> QED BY <2>1, <2>2 DEF Orderly
<1>6. CASE RolledBack(r)
  <2>1. cur'[r] = cur[r] /\ slice'[r] = slice[r] /\ slot'[r] = slot[r] /\ todo[r] = {}
    BY <1>6 DEF RolledBack, TypeOK
  <2>2. Present(report[r]) = {u \in AnyUser : report[r][u] > 0}
    BY <1>t DEF Present
  <2>3. CASE pc[r] = "unpeek"
    <3>1. /\ pc'[r] = "slice" /\ todo'[r] \subseteq User
          /\ report'[r] = report[r] /\ restore'[r] = restore[r]
      BY <1>6, <2>3 DEF RolledBack, RangeOver, Goto, TypeOK
    <3>2. \A u \in User : slice[r][u] = 0
      BY <1>t, <2>1, <2>3 DEF Orderly
    <3> QED BY <2>1, <2>3, <3>1, <3>2 DEF Orderly
  <2>4. CASE pc[r] = "rollback"
    <3>1. /\ pc'[r] = "putBack" /\ todo'[r] = Present(report[r])
          /\ report'[r] = Zero /\ restore'[r] = report[r]
      BY <1>6, <2>4 DEF RolledBack, Goto, TypeOK
    <3>2. \A u \in User : slice[r][u] = 0
      BY <1>t, <2>1, <2>4 DEF Orderly
    <3> QED BY <1>t, <2>1, <2>2, <2>4, <3>1, <3>2, PresentType DEF Orderly
  <2> QED BY <1>6, <2>3, <2>4 DEF RolledBack
<1>7. CASE Drain(r)
  <2>1. PICK rest : rest = [u \in AnyUser |-> IF u \in Matched THEN 0 ELSE edge[u]]
    OBVIOUS
  <2>2. /\ pc[r] = "drain" /\ pc'[r] = "restore" /\ todo'[r] = Present(rest) /\ restore'[r] = rest
        /\ cur'[r] = cur[r] /\ slice'[r] = slice[r] /\ slot'[r] = slot[r]
    BY <1>7, <2>1 DEF Drain, Goto, TypeOK
  <2>3. Present(rest) = {u \in AnyUser : rest[u] > 0}
    BY <2>1 DEF Present
  <2> QED BY <2>2, <2>3 DEF Orderly
<1>8. CASE Restored(r)
  <2>1. /\ pc[r] \in {"restore", "putBack"} /\ todo[r] = {} /\ todo'[r] = {}
        /\ cur'[r] = cur[r] /\ slice'[r] = slice[r] /\ slot'[r] = slot[r]
        /\ report'[r] = report[r] /\ restore'[r] = restore[r]
        /\ \/ pc'[r] = "idle" /\ (pc[r] = "putBack" \/ Merged(r) = Zero)
           \/ pc[r] = "restore" /\ pc'[r] \in {"push", "unified"}
    BY <1>8 DEF Restored, Goto, TypeOK
  <2>2. \A u \in AnyUser : restore[r][u] = 0
    BY <1>t, <2>1 DEF Orderly
  <2>3. ASSUME Merged(r) = Zero
        PROVE  /\ \A u \in AnyUser : report[r][u] = 0
               /\ \A u \in User : slice[r][u] = 0
    <3>1. \A u \in AnyUser :
             (IF u \in User THEN report[r][u] + slice[r][u] ELSE report[r][u]) = 0
      BY <2>3, MergedType, PresentType
    <3> QED BY <1>t, <1>u, <3>1
  <2> QED BY <2>1, <2>2, <2>3 DEF Orderly
<1>9. ASSUME NEW u \in AnyUser, Restore(r, u) PROVE Orderly(r)'
  <2>1. /\ pc[r] \in {"restore", "putBack"} /\ pc'[r] = pc[r] /\ todo'[r] = todo[r] \ {u}
        /\ cur'[r] = cur[r] /\ slice'[r] = slice[r] /\ slot'[r] = slot[r]
        /\ report'[r] = report[r] /\ restore'[r] = [restore[r] EXCEPT ![u] = 0]
    BY <1>9 DEF Restore, Goto, TypeOK
  <2> QED BY <1>t, <2>1 DEF Orderly
<1>10. CASE Accepted(r)
  BY <1>10, OrderlyDone DEF Accepted
<1>11. CASE UnifiedUnsupported(r)
  <2>1. /\ pc[r] = "unified" /\ pc'[r] = "push" /\ todo'[r] = {}
        /\ cur'[r] = cur[r] /\ slice'[r] = slice[r] /\ slot'[r] = slot[r]
        /\ report'[r] = report[r] /\ restore'[r] = restore[r]
    BY <1>11 DEF UnifiedUnsupported, Goto, TypeOK
  <2> QED BY <2>1 DEF Orderly
<1> QED
  BY <1>1, <1>2, <1>3, <1>4, <1>5, <1>6, <1>7, <1>8, <1>9, <1>10, <1>11
     DEF ReportStep

LEMMA OrderlyFault ==
    ASSUME TypeOK, NEW r \in Controller, Orderly(r), NEW applied \in BOOLEAN,
           FaultStep(r, applied)
    PROVE  Orderly(r)'
<1> USE DEF Slices, Takes
<1>t. slice[r] \in [User -> Nat] /\ restore[r] \in [AnyUser -> Nat]
  BY DEF TypeOK
<1>1. CASE DrainFails(r, applied)
  <2>1. /\ pc[r] = "drain" /\ pc'[r] = "restore" /\ todo'[r] = {}
        /\ cur'[r] = cur[r] /\ slice'[r] = slice[r] /\ slot'[r] = slot[r]
        /\ report'[r] = report[r] /\ restore'[r] = restore[r]
    BY <1>1 DEF DrainFails, Goto, TypeOK
  <2> QED BY <2>1 DEF Orderly
<1>2. ASSUME NEW u \in AnyUser, RestoreFails(r, u, applied) PROVE Orderly(r)'
  <2>1. /\ pc[r] \in {"restore", "putBack"} /\ pc'[r] = pc[r] /\ todo'[r] = {}
        /\ cur'[r] = cur[r] /\ slice'[r] = slice[r] /\ slot'[r] = slot[r]
        /\ report'[r] = report[r] /\ restore'[r] = Zero
    BY <1>2 DEF RestoreFails, Goto, TypeOK
  <2> QED BY <2>1, PresentType DEF Orderly
<1>3. CASE UnifiedFails(r, applied) \/ PushFails(r, applied)
  <2>1. /\ cur'[r] = cur[r] /\ slice'[r] = slice[r] /\ slot'[r] = slot[r]
        /\ report'[r] = report[r] /\ restore'[r] = restore[r]
        /\ \/ pc[r] = "unified" /\ pc'[r] = "push" /\ todo'[r] = {}
           \/ pc[r] = "push" /\ pc'[r] = "rollback" /\ todo'[r] = Present(slice[r])
    BY <1>3 DEF UnifiedFails, PushFails, Goto, TypeOK
  <2>2. Present(slice[r]) = {u \in User : slice[r][u] > 0}
    BY <1>t DEF Present
  <2> QED BY <2>1, <2>2 DEF Orderly
<1>4. CASE PushCancelled(r, applied)
  BY <1>4, OrderlyDone DEF PushCancelled
<1> QED BY <1>1, <1>2, <1>3, <1>4 DEF FaultStep

LEMMA ControlNext ==
    TypeOK /\ TagInv /\ ReportInv /\ [Next]_vars
        => TagInv' /\ ReportInv'
<1> SUFFICES ASSUME TypeOK, TagInv, ReportInv, [Next]_vars
             PROVE  TagInv' /\ ReportInv'
  OBVIOUS
<1>1. ASSUME NEW c \in setup.conns, ConnStep(c) PROVE TagInv' /\ ReportInv'
  <2>1. c \in Conn
    BY TrafficAssumption DEF TypeOK
  <2>2. \A q \in Controller : Same(q)
    BY <1>1 DEF ConnStep, LoadTagCounter, StoreTagCounter, GetCounter, Carry,
                CloseConn,
                repVars, Same
  <2> QED BY <1>1, <2>1, <2>2, TagConn, OrderlyKept DEF ReportInv
<1>2. ASSUME NEW u, EdgeCarry(u) \/ UserStep(u) \/ Replace \/ UNCHANGED vars
      PROVE  TagInv' /\ ReportInv'
  <2>1. \A q \in Controller : Same(q)
    BY <1>2 DEF EdgeCarry, UserStep, Unlist, DeleteUID, DeleteCounter, DeleteLimit,
                AddUser,
                Replace, vars, repVars, Same
  <2>2. UNCHANGED <<tagCounter, conn>>
    BY <1>2 DEF EdgeCarry, UserStep, Unlist, DeleteUID, DeleteCounter, DeleteLimit,
                AddUser,
                Replace, vars, coreVars
  <2>3. TagInv'
    BY <2>2, TagKept DEF Storing
  <2> QED BY <2>1, <2>3, OrderlyKept DEF ReportInv
<1>3. ASSUME NEW r \in Controller,
             ReportStep(r) \/ \E applied \in BOOLEAN : FaultStep(r, applied)
      PROVE  TagInv' /\ ReportInv'
  <2>1. OthersSame(r)
    BY <1>3, OthersKept
  <2>2. TagInv'
    BY <2>1, TagKept DEF OthersSame, Storing
  <2>3. Orderly(r)'
    BY <1>3, OrderlyReport, OrderlyFault DEF ReportInv
  <2>4. \A q \in Controller \ {r} : Orderly(q)'
    BY <2>1, OrderlyKept DEF OthersSame, ReportInv
  <2> QED BY <2>2, <2>3, <2>4 DEF ReportInv
<1> QED BY <1>1, <1>2, <1>3 DEF Next

-----------------------------------------------------------------------------
(* OwnInv: a storage belongs to one user.                                  *)

\* Nobody comes to know a storage as one of a user that was not one before.
Shrinks == \A s \in Storage : \A u \in User : Owns(s, u)' => Owns(s, u)

LEMMA OwnKept ==
    ASSUME OwnInv, Shrinks
    PROVE  OwnInv'
BY DEF OwnInv, Shrinks

\* A step of report r that only uses storages somebody had.
LEMMA ShrinksReport ==
    ASSUME NEW r \in Controller, OthersSame(r),
           \A t \in Tag : \A v \in User : \A s \in Storage :
                counters'[t][v] = s => counters[t][v] = s,
           \A v \in User : \A s \in Storage :
                /\ cur'[r].user = v /\ cur'[r].storage = s => Owns(s, v)
                /\ slot'[r][v] = s => Owns(s, v)
    PROVE  Shrinks
<1> SUFFICES ASSUME NEW s \in Storage, NEW u \in User, Owns(s, u)' PROVE Owns(s, u)
  BY DEF Shrinks
<1>1. ASSUME NEW t \in Tag, counters'[t][u] = s PROVE Owns(s, u)
  BY <1>1 DEF Owns
<1>2. ASSUME NEW c \in Conn, conn'[c].user = u /\ conn'[c].storage = s PROVE Owns(s, u)
  BY <1>2 DEF Owns, OthersSame
<1>3. ASSUME NEW q \in Controller, cur'[q].user = u /\ cur'[q].storage = s PROVE Owns(s, u)
  <2>1. CASE q = r
    BY <1>3, <2>1
  <2>2. CASE q # r
    BY <1>3, <2>2 DEF OthersSame, Same, Owns
  <2> QED BY <2>1, <2>2
<1>4. ASSUME NEW q \in Controller, slot'[q][u] = s PROVE Owns(s, u)
  <2>1. CASE q = r
    BY <1>4, <2>1
  <2>2. CASE q # r
    BY <1>4, <2>2 DEF OthersSame, Same, Owns
  <2> QED BY <2>1, <2>2
<1> QED BY <1>1, <1>2, <1>3, <1>4 DEF Owns

LEMMA OwnReport ==
    ASSUME TypeOK, ReportInv, NEW r \in Controller,
           ReportStep(r) \/ \E applied \in BOOLEAN : FaultStep(r, applied)
    PROVE  Shrinks
<1> USE TrafficAssumption
<1>o. OthersSame(r)
  BY OthersKept
<1>a. ASSUME UNCHANGED <<counters, cur, slot>> PROVE Shrinks
  <2>1. \A v \in User : \A s \in Storage :
                /\ cur'[r].user = v /\ cur'[r].storage = s => Owns(s, v)
                /\ slot'[r][v] = s => Owns(s, v)
    BY <1>a DEF Owns
  <2> QED BY <1>a, <1>o, <2>1, ShrinksReport
<1>b. ASSUME Done(r) PROVE Shrinks
  <2>1. cur' = cur /\ counters' = counters /\ \A v \in User : slot'[r][v] = Nil
    BY <1>b DEF Done, TypeOK, coreVars, Nowhere
  <2>2. \A v \in User : \A s \in Storage :
                /\ cur'[r].user = v /\ cur'[r].storage = s => Owns(s, v)
                /\ slot'[r][v] = s => Owns(s, v)
    BY <2>1 DEF Owns
  <2> QED BY <1>o, <2>1, <2>2, ShrinksReport
<1>1. ASSUME NEW u \in User, Look(r, u) PROVE Shrinks
  <2>1. counters' = counters /\ slot' = slot
    BY <1>1 DEF Look, coreVars
  <2>2. ASSUME NEW v \in User, NEW s \in Storage, cur'[r].user = v, cur'[r].storage = s
        PROVE  Owns(s, v)
    <3>1. CASE cur' = cur
      BY <2>2, <3>1 DEF Owns
    <3>2. CASE cur' # cur
      <4>1. tag[r] # 0 /\ cur' = [cur EXCEPT ![r] = [user |-> u, storage |-> counters[tag[r]][u]]]
        BY <1>1, <3>2 DEF Look
      <4>2. tag[r] \in Tag /\ counters[tag[r]][u] = s /\ v = u
        BY <2>2, <4>1 DEF TypeOK, Tag
      <4> QED BY <4>2 DEF Owns
    <3> QED BY <3>1, <3>2
  <2>3. \A v \in User : \A s \in Storage : slot'[r][v] = s => Owns(s, v)
    BY <2>1 DEF Owns
  <2> QED BY <1>o, <2>1, <2>2, <2>3, ShrinksReport
<1>2. ASSUME NEW u \in User, Rollback(r, u) PROVE Shrinks
  <2>1. counters' = counters /\ cur' = cur
    BY <1>2 DEF Rollback
  <2>2. ASSUME NEW v \in User, NEW s \in Storage, slot'[r][v] = s
        PROVE  slot[r][v] = s
    BY <1>2, <2>2 DEF Rollback, TypeOK
  <2>3. \A v \in User : \A s \in Storage :
                /\ cur'[r].user = v /\ cur'[r].storage = s => Owns(s, v)
                /\ slot'[r][v] = s => Owns(s, v)
    BY <2>1, <2>2 DEF Owns
  <2> QED BY <1>o, <2>1, <2>3, ShrinksReport
<1>3. CASE Take(r)
  <2>1. cur[r].user \in User /\ cur[r].storage \in Storage /\ tag[r] \in Tag
    <3>1. cur[r] # NoCur /\ tag[r] # 0
      BY <1>3 DEF Take, ReportInv, Orderly, Takes
    <3> QED BY <3>1 DEF TypeOK, Tag
  <2>2. PICK k \in Tag, u \in User, m \in Storage :
            k = tag[r] /\ u = cur[r].user /\ m = cur[r].storage
    BY <2>1
  <2>3. UNCHANGED counters \/ counters' = [counters EXCEPT ![k][u] = Nil]
    BY <1>3, <2>2 DEF Take
  <2>4. \A t \in Tag : \A v \in User : \A s \in Storage :
                counters'[t][v] = s => counters[t][v] = s
    <3>1. counters[k] \in [User -> Storage \cup {Nil}]
      BY DEF TypeOK
    <3>2. PICK f : f = [counters[k] EXCEPT ![u] = Nil]
      OBVIOUS
    <3>3. \A v \in User : \A s \in Storage : f[v] = s => counters[k][v] = s
      BY <3>1, <3>2
    <3>4. UNCHANGED counters \/ counters' = [counters EXCEPT ![k] = f]
      BY <2>3, <3>2
    <3> QED BY <3>3, <3>4 DEF TypeOK
  <2>5. cur'[r] = NoCur
    BY <1>3 DEF Take, TypeOK
  <2>6. \A v \in User : cur'[r].user # v
    BY <2>5 DEF NoCur
  <2>7. UNCHANGED slot \/ slot' = [slot EXCEPT ![r][u] = m]
    BY <1>3, <2>2 DEF Take
  <2>8. Owns(m, u)
    BY <2>2 DEF Owns
  <2>9. ASSUME NEW v \in User, NEW s \in Storage, slot'[r][v] = s PROVE Owns(s, v)
    <3>1. slot[r][v] = s \/ (v = u /\ s = m)
      BY <2>7, <2>9 DEF TypeOK
    <3> QED BY <2>8, <3>1 DEF Owns
  <2> QED BY <1>o, <2>4, <2>6, <2>9, ShrinksReport
<1>4. CASE UNCHANGED <<counters, cur, slot>> \/ Done(r)
  BY <1>4, <1>a, <1>b
<1> QED
  <2>1. ASSUME NEW u \in AnyUser, NEW applied \in BOOLEAN,
               \/ Begin(r) \/ Sliced(r) \/ RolledBack(r) \/ Drain(r) \/ Restored(r)
               \/ Restore(r, u) \/ UnifiedUnsupported(r)
               \/ DrainFails(r, applied) \/ RestoreFails(r, u, applied)
               \/ UnifiedFails(r, applied) \/ PushFails(r, applied)
        PROVE  UNCHANGED <<counters, cur, slot>>
    BY <2>1 DEF Begin, Sliced, RolledBack, Drain, Restored, Restore,
                UnifiedUnsupported,
                DrainFails, RestoreFails, UnifiedFails, PushFails, coreVars
  <2>2. ASSUME NEW applied \in BOOLEAN, Accepted(r) \/ PushCancelled(r, applied)
        PROVE  Done(r)
    BY <2>2 DEF Accepted, PushCancelled
  <2>3. CASE ReportStep(r)
    <3>1. ASSUME Accepted(r) PROVE Shrinks
      BY <1>b, <3>1 DEF Accepted
    <3>2. ASSUME NEW u \in AnyUser, Restore(r, u) PROVE Shrinks
      BY <1>4, <2>1, <3>2
    <3>3. ASSUME \/ Begin(r) \/ Sliced(r) \/ RolledBack(r) \/ Drain(r) \/ Restored(r)
                 \/ UnifiedUnsupported(r)
          PROVE Shrinks
      BY <1>4, <3>3 DEF Begin, Sliced, RolledBack, Drain, Restored,
                        UnifiedUnsupported, coreVars
    <3> QED BY <1>1, <1>2, <1>3, <2>3, <3>1, <3>2, <3>3 DEF ReportStep
  <2>4. ASSUME NEW applied \in BOOLEAN, FaultStep(r, applied) PROVE Shrinks
    <3>1. ASSUME PushCancelled(r, applied) PROVE Shrinks
      BY <1>b, <3>1 DEF PushCancelled
    <3>2. ASSUME NEW u \in AnyUser, RestoreFails(r, u, applied) PROVE Shrinks
      BY <1>4, <2>1, <3>2
    <3>3. ASSUME DrainFails(r, applied) \/ UnifiedFails(r, applied) \/ PushFails(r, applied)
          PROVE Shrinks
      BY <1>4, <3>3 DEF DrainFails, UnifiedFails, PushFails, coreVars
    <3> QED BY <2>4, <3>1, <3>2, <3>3 DEF FaultStep
  <2> QED BY <2>3, <2>4

\* Only GetCounter makes a storage, of one nobody has.
Creates(c, s, u) ==
    /\ New(s) /\ conn[c].at = "loaded" /\ conn[c].tag \in Tag /\ conn[c].user = u
    /\ counters[conn[c].tag][u] = Nil
    /\ counters' = [counters EXCEPT ![conn[c].tag][u] = s]
    /\ bytes' = [bytes EXCEPT ![s] = 0]
    /\ conn' = [conn EXCEPT ![c].at = "open", ![c].storage = s]

LEMMA OwnElse ==
    ASSUME TypeOK, NEW c, NEW u,
           (c \in Conn /\ ConnStep(c)) \/ EdgeCarry(u) \/ (u \in User /\ UserStep(u)) \/ Replace
               \/ UNCHANGED vars
    PROVE  \/ Shrinks
           \/ c \in Conn /\ \E s \in Storage, v \in User : GetCounter(c, s) /\ Creates(c, s, v)
<1> USE TrafficAssumption, Numbers
<1>a. ASSUME UNCHANGED <<cur, slot>>,
             \A t \in Tag : \A v \in User : \A s \in Storage :
                counters'[t][v] = s => counters[t][v] = s,
             \A d \in Conn : \A v \in User : \A s \in Storage :
                conn'[d].user = v /\ conn'[d].storage = s => Owns(s, v)
      PROVE  Shrinks
  <2> SUFFICES ASSUME NEW s \in Storage, NEW v \in User, Owns(s, v)'
               PROVE  Owns(s, v)
    BY DEF Shrinks
  <2>1. ASSUME NEW t \in Tag, counters'[t][v] = s PROVE Owns(s, v)
    BY <1>a, <2>1 DEF Owns
  <2> QED BY <1>a, <2>1 DEF Owns
<1>b. \A d \in Conn : \A v \in User : \A s \in Storage :
          conn[d].user = v /\ conn[d].storage = s => Owns(s, v)
  BY DEF Owns
<1>1. CASE EdgeCarry(u) \/ Replace \/ UNCHANGED vars
  <2>1. UNCHANGED <<counters, conn, cur, slot>>
    BY <1>1 DEF EdgeCarry, Replace, vars, coreVars, repVars
  <2> QED BY <1>a, <1>b, <2>1
<1>2. CASE u \in User /\ UserStep(u)
  <2>1. UNCHANGED <<conn, cur, slot>>
    BY <1>2 DEF UserStep, Unlist, DeleteUID, DeleteCounter, DeleteLimit, AddUser,
                repVars
  <2>2. \A t \in Tag : \A v \in User : \A s \in Storage :
                counters'[t][v] = s => counters[t][v] = s
    <3>1. UNCHANGED counters \/ DeleteCounter(u)
      BY <1>2 DEF UserStep, Unlist, DeleteUID, DeleteLimit, AddUser
    <3>2. ASSUME NEW t \in Tag, DeleteCounter(u)
          PROVE  counters'[t] = counters[t] \/ counters'[t] = [counters[t] EXCEPT ![u] = Nil]
      BY <3>2 DEF DeleteCounter
    <3>3. \A t \in Tag : counters[t] \in [User -> Storage \cup {Nil}]
      BY DEF TypeOK
    <3> QED BY <3>1, <3>2, <3>3
  <2> QED BY <1>a, <1>b, <2>1, <2>2
<1>3. ASSUME c \in Conn, NEW v \in User, LoadTagCounter(c, v) PROVE Shrinks
  <2>1. UNCHANGED <<counters, cur, slot>> /\ \A d \in Conn : d # c => conn'[d] = conn[d]
    BY <1>3 DEF LoadTagCounter, repVars, TypeOK
  <2>2. conn'[c].storage = Nil
    BY <1>3 DEF LoadTagCounter, TypeOK
  <2> QED BY <1>a, <1>b, <2>1, <2>2
<1>4. CASE c \in Conn /\ StoreTagCounter(c)
  <2>1. UNCHANGED <<counters, cur, slot>> /\ \A d \in Conn : d # c => conn'[d] = conn[d]
    BY <1>4 DEF StoreTagCounter, repVars, TypeOK
  <2>2. conn'[c].storage = Nil
    <3>1. conn[c].at = "loaded" /\ NoConn.at # "loaded"
      BY <1>4 DEF StoreTagCounter, NoConn
    <3>2. /\ conn[c].storage = Nil
          /\ conn[c] = [at |-> "loaded", user |-> conn[c].user, tag |-> conn[c].tag,
                        storage |-> Nil]
      BY <1>4, <3>1, ConnCases
    <3> QED BY <1>4, <3>2 DEF StoreTagCounter, TypeOK
  <2> QED BY <1>a, <1>b, <2>1, <2>2
<1>5. CASE c \in Conn /\ Carry(c)
  <2>1. UNCHANGED <<counters, conn, cur, slot>>
    BY <1>5 DEF Carry, repVars
  <2> QED BY <1>a, <1>b, <2>1
<1>6. CASE c \in Conn /\ CloseConn(c)
  <2>1. UNCHANGED <<counters, cur, slot>> /\ \A d \in Conn : d # c => conn'[d] = conn[d]
    BY <1>6 DEF CloseConn, repVars, TypeOK
  <2>2. conn'[c].storage = Nil
    BY <1>6 DEF CloseConn, TypeOK, NoConn
  <2> QED BY <1>a, <1>b, <2>1, <2>2
<1>7. ASSUME c \in Conn, NEW s \in Storage, GetCounter(c, s)
      PROVE  Shrinks \/ \E v \in User : Creates(c, s, v)
  <2>1. conn[c].at = "loaded" /\ NoConn.at # "loaded" /\ conn[c].tag > 0
    BY <1>7 DEF GetCounter, NoConn
  <2>2. /\ conn[c].storage = Nil /\ conn[c].user \in User /\ conn[c].tag \in Tag
        /\ conn[c] = [at |-> "loaded", user |-> conn[c].user, tag |-> conn[c].tag,
                        storage |-> Nil]
    <3>1. /\ conn[c].storage = Nil /\ conn[c].user \in User /\ conn[c].tag \in 0 .. Cardinality(Conn)
          /\ conn[c] = [at |-> "loaded", user |-> conn[c].user, tag |-> conn[c].tag,
                        storage |-> Nil]
      BY <1>7, <2>1, ConnCases
    <3>2. conn[c].tag \in Tag
      BY <2>1, <3>1 DEF Tag
    <3> QED BY <3>1, <3>2
  <2>3. UNCHANGED <<cur, slot>> /\ conn' = [conn EXCEPT ![c].at = "open", ![c].storage = s]
    BY <1>7 DEF GetCounter, repVars
  <2>4. CASE s = counters[conn[c].tag][conn[c].user] /\ UNCHANGED counters
    <3>1. Owns(s, conn[c].user)
      BY <2>2, <2>4 DEF Owns
    <3>2. conn'[c].user = conn[c].user /\ conn'[c].storage = s
      BY <1>7, <2>2, <2>3 DEF TypeOK
    <3>3. \A d \in Conn : d # c => conn'[d] = conn[d]
      BY <1>7, <2>3 DEF TypeOK
    <3> QED BY <1>a, <1>b, <2>3, <2>4, <3>1, <3>2, <3>3
  <2>5. CASE ~(s = counters[conn[c].tag][conn[c].user] /\ UNCHANGED counters)
    BY <1>7, <2>1, <2>2, <2>3, <2>5 DEF GetCounter, Creates
  <2> QED BY <2>4, <2>5
<1> QED BY <1>1, <1>2, <1>3, <1>4, <1>5, <1>6, <1>7 DEF ConnStep

\* The new storage had no owner, and has only one.
LEMMA OwnCreated ==
    ASSUME TypeOK, NEW c \in Conn, NEW s \in Storage, NEW u \in User,
           GetCounter(c, s), Creates(c, s, u)
    PROVE  /\ \A v \in User : ~Owns(s, v)
           /\ \A m \in Storage : \A v \in User :
                 Owns(m, v)' => Owns(m, v) \/ (m = s /\ v = u)
<1>1. \A v \in User : ~Owns(s, v)
  BY NewIsUnused DEF Creates, Unused, Owns
<1>2. UNCHANGED <<cur, slot>>
  BY DEF GetCounter, repVars
<1>3. ASSUME NEW m \in Storage, NEW v \in User, Owns(m, v)', ~(m = s /\ v = u)
      PROVE  Owns(m, v)
  <2>1. PICK k \in Tag : k = conn[c].tag
    BY DEF Creates
  <2>2. counters' = [counters EXCEPT ![k] = [counters[k] EXCEPT ![u] = s]]
    BY <2>1 DEF Creates
  <2>3. ASSUME NEW t \in Tag, counters'[t][v] = m PROVE counters[t][v] = m
    <3>1. CASE t # k
      BY <2>2, <2>3, <3>1 DEF TypeOK
    <3>2. CASE t = k
      <4>1. counters'[t] = [counters[k] EXCEPT ![u] = s] /\ counters[k] \in [User -> Storage \cup {Nil}]
        BY <2>2, <3>2 DEF TypeOK
      <4> QED BY <1>3, <2>3, <3>2, <4>1
    <3> QED BY <3>1, <3>2
  <2>4. ASSUME NEW d \in Conn, conn'[d].user = v, conn'[d].storage = m
        PROVE  conn[d].user = v /\ conn[d].storage = m
    <3>1. CASE d # c
      BY <2>4, <3>1 DEF Creates, TypeOK
    <3>2. CASE d = c
      <4>1. conn[c].at = "loaded" /\ NoConn.at # "loaded"
        BY DEF Creates, NoConn
      <4>2. conn[c] = [at |-> "loaded", user |-> conn[c].user, tag |-> conn[c].tag, storage |-> Nil]
        BY <4>1, ConnCases
      <4>3. conn'[c].user = u /\ conn'[c].storage = s
        BY <4>2 DEF Creates, TypeOK
      <4> QED BY <1>3, <2>4, <3>2, <4>3
    <3> QED BY <3>1, <3>2
  <2> QED BY <1>2, <1>3, <2>3, <2>4 DEF Owns
<1> QED BY <1>1, <1>3

LEMMA OwnNext ==
    ASSUME TypeOK, ReportInv, OwnInv, [Next]_vars
    PROVE  OwnInv'
<1>1. CASE Shrinks
  BY <1>1, OwnKept
<1>2. ASSUME NEW c \in Conn, NEW s \in Storage, NEW u \in User, GetCounter(c, s), Creates(c, s, u)
      PROVE  OwnInv'
  BY <1>2, OwnCreated DEF OwnInv
<1>3. setup.conns \subseteq Conn
  BY TrafficAssumption DEF TypeOK
<1>4. ASSUME NEW c \in Conn, ConnStep(c) PROVE OwnInv'
  BY <1>1, <1>2, <1>4, OwnElse
<1>5. ASSUME NEW u, EdgeCarry(u) \/ (u \in User /\ UserStep(u)) \/ Replace \/ UNCHANGED vars
      PROVE  OwnInv'
  BY <1>1, <1>2, <1>5, OwnElse
<1>6. ASSUME NEW r \in Controller,
             ReportStep(r) \/ \E applied \in BOOLEAN : FaultStep(r, applied)
      PROVE  OwnInv'
  BY <1>1, <1>6, OwnReport
<1> QED BY <1>3, <1>4, <1>5, <1>6 DEF Next

-----------------------------------------------------------------------------
(* The sums.                                                               *)

\* What a user's storages hold.
LEMMA StoredInt ==
    ASSUME TypeOK, NEW u
    PROVE  /\ Stored(u) \in Int
           /\ [s \in Storage |-> Kept(s, u)] \in [Storage -> Int]
           /\ \A s \in Storage : Kept(s, u) \in Int /\ Kept(s, u) >= 0
           /\ \A s \in Storage : Kept(s, u) <= Stored(u)
<1>1. \A s \in Storage : Kept(s, u) \in Int /\ Kept(s, u) >= 0
  BY DEF Kept, TypeOK
<1>2. PICK f : f = [s \in Storage |-> Kept(s, u)]
  OBVIOUS
<1>3. f \in [Storage -> Int] /\ \A s \in Storage : f[s] >= 0
  BY <1>1, <1>2
<1>4. IsFiniteSet(Storage)
  BY TrafficAssumption
<1>5. SumFunction(f) \in Int
  BY <1>3, <1>4, SumInt
<1>6. \A s \in Storage : f[s] <= SumFunction(f)
  BY <1>3, <1>4, SumTerm
<1> QED BY <1>1, <1>2, <1>3, <1>5, <1>6 DEF Stored

LEMMA StoredPositive ==
    ASSUME TypeOK, NEW u
    PROVE  Stored(u) >= 0
<1>1. PICK f, zero : f = [s \in Storage |-> Kept(s, u)] /\ zero = [s \in Storage |-> 0]
  OBVIOUS
<1>2. f \in [Storage -> Int] /\ zero \in [Storage -> Int]
  BY <1>1, StoredInt
<1>3. \A s \in Storage : zero[s] <= f[s]
  BY <1>1, StoredInt
<1>4. SumFunction(zero) <= SumFunction(f)
  BY <1>2, <1>3, SumGrows, TrafficAssumption
<1>5. SumFunction(zero) = 0
  BY <1>1, <1>2, SumZero, TrafficAssumption
<1> QED BY <1>1, <1>2, <1>4, <1>5, SumInt, TrafficAssumption DEF Stored

LEMMA StoredAfter ==
    ASSUME TypeOK', NEW u
    PROVE  Stored(u)' \in Int
<1>1. PICK f : f = [s \in Storage |-> Kept(s, u)']
  OBVIOUS
<1>2. f \in [Storage -> Int]
  BY <1>1 DEF Kept, TypeOK
<1>3. SumFunction(f) \in Int
  BY <1>2, SumInt, TrafficAssumption
<1> QED BY <1>1, <1>3 DEF Stored

\* Every storage of the user holds no more than before.
LEMMA StoredLess ==
    ASSUME TypeOK, TypeOK', NEW u, \A s \in Storage : Kept(s, u)' <= Kept(s, u)
    PROVE  Stored(u)' <= Stored(u)
<1>1. PICK f : f = [s \in Storage |-> Kept(s, u)]
  OBVIOUS
<1>2. PICK h : h = [s \in Storage |-> Kept(s, u)']
  OBVIOUS
<1>3. f \in [Storage -> Int] /\ h \in [Storage -> Int]
  BY <1>1, <1>2 DEF Kept, TypeOK
<1>4. \A s \in Storage : h[s] <= f[s]
  BY <1>1, <1>2
<1>5. SumFunction(h) <= SumFunction(f)
  BY <1>3, <1>4, SumGrows, TrafficAssumption
<1>6. Stored(u) = SumFunction(f) /\ Stored(u)' = SumFunction(h)
  BY <1>1, <1>2 DEF Stored
<1> QED BY <1>5, <1>6

\* One storage of user v changes, and no other; nobody else has that one.
LEMMA StoredChange ==
    ASSUME TypeOK, TypeOK', OwnInv, Shrinks, NEW m \in Storage, NEW v \in User, Owns(m, v),
           NEW d \in Int, bytes'[m] = bytes[m] + d,
           \A s \in Storage \ {m} : bytes'[s] = bytes[s]
    PROVE  /\ Stored(v)' <= Stored(v) + d
           /\ \A u \in AnyUser \ {v} : Stored(u)' <= Stored(u)
<1>0. bytes \in [Storage -> Nat] /\ bytes' \in [Storage -> Nat]
  BY DEF TypeOK
<1>1. PICK f : f = [s \in Storage |-> Kept(s, v)]
  OBVIOUS
<1>2. PICK h : h = [s \in Storage |-> Kept(s, v)']
  OBVIOUS
<1>3. f \in [Storage -> Int] /\ h \in [Storage -> Int]
  BY <1>0, <1>1, <1>2 DEF Kept
<1>4. h[m] <= f[m] + d
  <2>1. f[m] = bytes[m]
    BY <1>1 DEF Kept
  <2>2. h[m] = bytes'[m] \/ h[m] = 0
    BY <1>2 DEF Kept
  <2> QED BY <1>0, <2>1, <2>2
<1>5. \A s \in Storage \ {m} : h[s] <= f[s]
  <2> SUFFICES ASSUME NEW s \in Storage \ {m} PROVE h[s] <= f[s]
    OBVIOUS
  <2>1. h[s] = IF Owns(s, v)' THEN bytes[s] ELSE 0
    BY <1>2 DEF Kept
  <2>2. f[s] = IF Owns(s, v) THEN bytes[s] ELSE 0
    BY <1>1 DEF Kept
  <2>3. Owns(s, v)' => Owns(s, v)
    BY DEF Shrinks
  <2> QED BY <1>0, <2>1, <2>2, <2>3
<1>6. SumFunction(h) <= SumFunction(f) + d
  BY <1>3, <1>4, <1>5, SumBound, TrafficAssumption
<1>7. Stored(v) = SumFunction(f) /\ Stored(v)' = SumFunction(h)
  BY <1>1, <1>2 DEF Stored
<1>8. ASSUME NEW u \in AnyUser \ {v} PROVE Stored(u)' <= Stored(u)
  <2>1. ASSUME NEW s \in Storage PROVE Kept(s, u)' <= Kept(s, u)
    <3>1. Owns(s, u)' => Owns(s, u)
      BY DEF Shrinks, Owns
    <3>2. Owns(s, u) => s # m
      BY <1>8 DEF OwnInv, Owns
    <3>3. Owns(s, u)' => bytes'[s] = bytes[s]
      BY <3>1, <3>2
    <3> QED BY <1>0, <3>1, <3>3 DEF Kept
  <2> QED BY <2>1, StoredLess
<1> QED BY <1>6, <1>7, <1>8

\* No storage changes.
LEMMA StoredKept ==
    ASSUME TypeOK, TypeOK', Shrinks, UNCHANGED bytes, NEW u
    PROVE  Stored(u)' <= Stored(u)
<1>0. bytes \in [Storage -> Nat]
  BY DEF TypeOK
<1>1. ASSUME NEW s \in Storage PROVE Kept(s, u)' <= Kept(s, u)
  <2>1. Owns(s, u)' => Owns(s, u)
    BY DEF Shrinks, Owns
  <2> QED BY <1>0, <2>1 DEF Kept
<1> QED BY <1>1, StoredLess

\* A new storage is empty.
LEMMA StoredCreated ==
    ASSUME TypeOK, TypeOK', NEW c \in Conn, NEW s \in Storage, NEW v \in User,
           GetCounter(c, s), Creates(c, s, v), NEW u
    PROVE  Stored(u)' <= Stored(u)
<1>0. bytes \in [Storage -> Nat] /\ bytes' = [bytes EXCEPT ![s] = 0]
  BY DEF TypeOK, Creates
<1>1. ASSUME NEW m \in Storage PROVE Kept(m, u)' <= Kept(m, u)
  <2>1. CASE m = s
    <3>1. Kept(m, u)' = 0
      BY <1>0, <2>1 DEF Kept
    <3>2. Kept(m, u) \in Int /\ Kept(m, u) >= 0
      BY <1>0 DEF Kept
    <3> QED BY <3>1, <3>2
  <2>2. CASE m # s
    <3>1. Owns(m, u)' => Owns(m, u)
      BY <2>2, OwnCreated DEF Owns
    <3> QED BY <1>0, <2>2, <3>1 DEF Kept
  <2> QED BY <2>1, <2>2
<1> QED BY <1>1, StoredLess

\* What report r holds of user u's bytes.
Part(r, u) == restore[r][u] + report[r][u] + (IF u \in User THEN slice[r][u] ELSE 0)

LEMMA AddAt ==
    ASSUME NEW f \in [AnyUser -> Nat], NEW g \in [User -> Nat], NEW u \in AnyUser
    PROVE  Add(f, g)[u] = f[u] + (IF u \in User THEN g[u] ELSE 0)
BY DEF Add, AnyUser

LEMMA PartIs ==
    ASSUME TypeOK, NEW u \in AnyUser
    PROVE  /\ \A r \in Controller : Part(r, u) \in Nat
           /\ InFlight(u) = SumFunction([r \in Controller |-> Part(r, u)])
           /\ InFlight(u) \in Int
<1>1. ASSUME NEW r \in Controller
      PROVE  Part(r, u) \in Nat /\ restore[r][u] + Merged(r)[u] = Part(r, u)
  <2>1. report[r] \in [AnyUser -> Nat] /\ slice[r] \in [User -> Nat] /\ restore[r] \in [AnyUser -> Nat]
    BY DEF TypeOK
  <2>2. Merged(r)[u] = report[r][u] + (IF u \in User THEN slice[r][u] ELSE 0)
    BY <2>1, AddAt DEF Merged
  <2> QED BY <2>1, <2>2 DEF Part
<1>2. [r \in Controller |-> restore[r][u] + Merged(r)[u]] = [r \in Controller |-> Part(r, u)]
  BY <1>1
<1>3. [r \in Controller |-> Part(r, u)] \in [Controller -> Int]
  BY <1>1
<1>4. SumFunction([r \in Controller |-> Part(r, u)]) \in Int
  BY <1>3, SumInt, Numbers
<1> QED BY <1>1, <1>2, <1>4 DEF InFlight

LEMMA PartAfter ==
    ASSUME TypeOK', NEW u \in AnyUser
    PROVE  /\ \A r \in Controller : Part(r, u)' \in Nat
           /\ InFlight(u)' = SumFunction([r \in Controller |-> Part(r, u)'])
           /\ InFlight(u)' \in Int
<1>1. ASSUME NEW r \in Controller
      PROVE  Part(r, u)' \in Nat /\ restore'[r][u] + Merged(r)'[u] = Part(r, u)'
  <2>1. /\ report'[r] \in [AnyUser -> Nat] /\ slice'[r] \in [User -> Nat]
        /\ restore'[r] \in [AnyUser -> Nat]
    BY DEF TypeOK
  <2>2. Merged(r)'[u] = report'[r][u] + (IF u \in User THEN slice'[r][u] ELSE 0)
    BY <2>1, AddAt DEF Merged
  <2> QED BY <2>1, <2>2 DEF Part
<1>2. [r \in Controller |-> restore'[r][u] + Merged(r)'[u]] = [r \in Controller |-> Part(r, u)']
  BY <1>1
<1>3. [r \in Controller |-> Part(r, u)'] \in [Controller -> Int]
  BY <1>1
<1>4. SumFunction([r \in Controller |-> Part(r, u)']) \in Int
  BY <1>3, SumInt, Numbers
<1> QED BY <1>1, <1>2, <1>4 DEF InFlight

\* What the reports hold changes by what one of them takes or gives.
LEMMA FlightChange ==
    ASSUME TypeOK, TypeOK', NEW r \in Controller, OthersSame(r), NEW u \in AnyUser,
           NEW d \in Int, Part(r, u)' = Part(r, u) + d
    PROVE  InFlight(u)' = InFlight(u) + d
<1>1. PICK f : f = [q \in Controller |-> Part(q, u)]
  OBVIOUS
<1>2. PICK h : h = [q \in Controller |-> Part(q, u)']
  OBVIOUS
<1>3. f \in [Controller -> Int] /\ h \in [Controller -> Int]
  <2>1. \A q \in Controller : Part(q, u) \in Nat
    BY PartIs
  <2>2. \A q \in Controller : Part(q, u)' \in Nat
    BY PartAfter
  <2> QED BY <1>1, <1>2, <2>1, <2>2
<1>4. h[r] = f[r] + d
  BY <1>1, <1>2
<1>5. \A q \in Controller \ {r} : h[q] = f[q]
  BY <1>1, <1>2 DEF Part, OthersSame, Same
<1>6. SumFunction(h) = SumFunction(f) + d
  BY <1>3, <1>4, <1>5, SumChange, Numbers
<1>7. InFlight(u) = SumFunction(f) /\ InFlight(u)' = SumFunction(h)
  BY <1>1, <1>2, PartIs, PartAfter
<1> QED BY <1>6, <1>7

LEMMA FlightKept ==
    ASSUME UNCHANGED <<slice, report, restore>>, NEW u
    PROVE  InFlight(u)' = InFlight(u)
BY DEF InFlight, Merged

\* What report r, the panel and the edge daemon have of user u's bytes.
Books(r, u) == panel[u] + edge[u] + Part(r, u)

LEMMA AccountChange ==
    ASSUME TypeOK, TypeOK', NEW r \in Controller, OthersSame(r), NEW u \in AnyUser
    PROVE  /\ Account(u)' - Account(u) = Books(r, u)' - Books(r, u)
           /\ Account(u) \in Int /\ Account(u)' \in Int
           /\ Books(r, u) \in Int /\ Books(r, u)' \in Int
<1>1. Part(r, u) \in Int /\ InFlight(u) \in Int
  <2>1. Part(r, u) \in Nat /\ InFlight(u) \in Int
    BY PartIs, Zenon
  <2> QED BY <2>1
<1>2. Part(r, u)' \in Int /\ InFlight(u)' \in Int
  <2>1. Part(r, u)' \in Nat /\ InFlight(u)' \in Int
    BY PartAfter, Zenon
  <2> QED BY <2>1
<1>3. PICK d \in Int : d = Part(r, u)' - Part(r, u)
  BY <1>1, <1>2
<1>4. Part(r, u)' = Part(r, u) + d
  BY <1>1, <1>2, <1>3
<1>5. InFlight(u)' = InFlight(u) + d
  BY <1>4, FlightChange
<1>6. panel[u] \in Int /\ edge[u] \in Int /\ panel'[u] \in Int /\ edge'[u] \in Int
  BY DEF TypeOK
<1> QED BY <1>1, <1>2, <1>3, <1>5, <1>6 DEF Account, Books

-----------------------------------------------------------------------------
(* The accounts of a step.                                                 *)

\* A step of a report that touches no storage: it creates no bytes, unless an
\* answer of the panel was lost, and loses none but those it notes.
Balanced(r, u) ==
    /\ UNCHANGED <<bytes, counters>> /\ gaps \subseteq gaps' /\ dups \subseteq dups'
    /\ u \notin dups' => Books(r, u)' <= Books(r, u)
    /\ u \notin gaps' => Books(r, u)' >= Books(r, u)

\* The numbers of which the books consist.
LEMMA BooksTypes ==
    ASSUME TypeOK, NEW r \in Controller, NEW u \in AnyUser
    PROVE  /\ panel[u] \in Nat /\ edge[u] \in Nat /\ restore[r][u] \in Nat /\ report[r][u] \in Nat
           /\ u \in User => slice[r][u] \in Nat
           /\ Part(r, u) \in Nat /\ Books(r, u) \in Nat
<1>1. /\ panel[u] \in Nat /\ edge[u] \in Nat /\ restore[r][u] \in Nat /\ report[r][u] \in Nat
      /\ u \in User => slice[r][u] \in Nat
  BY DEF TypeOK
<1> QED BY <1>1 DEF Part, Books

\* Nothing but the place of the report changes.
LEMMA BalancedKept ==
    ASSUME TypeOK, NEW r \in Controller, NEW u \in AnyUser,
           UNCHANGED <<bytes, counters, gaps, dups, panel, edge, slice, report, restore>>
    PROVE  Balanced(r, u)
<1>1. Books(r, u) \in Nat /\ Books(r, u)' = Books(r, u)
  BY BooksTypes DEF Books, Part
<1> QED BY <1>1 DEF Balanced

\* The report ends, and the panel has booked it or its users are noted.
LEMMA BalancedDone ==
    ASSUME TypeOK, ReportInv, NEW r \in Controller, NEW u \in AnyUser, Done(r),
           pc[r] \in {"unified", "push"}, dups' = dups, gaps \subseteq gaps',
           \/ panel' = Add(panel, Merged(r))
           \/ panel' = panel /\ Present(Merged(r)) \subseteq gaps'
    PROVE  Balanced(r, u)
<1>1. UNCHANGED <<bytes, counters, edge, restore>>
  BY DEF Done, coreVars
<1>2. report'[r] = Zero /\ slice'[r] = [v \in User |-> 0]
  BY DEF Done, TypeOK
<1>3. report'[r][u] = 0 /\ (u \in User => slice'[r][u] = 0)
  BY <1>2, PresentType
<1>4. restore[r][u] = 0
  BY DEF ReportInv, Orderly
<1>5. Part(r, u)' = 0
  BY <1>1, <1>3, <1>4 DEF Part
<1>t. Merged(r) \in [AnyUser -> Nat] /\ Add(panel, Merged(r))[u] = panel[u] + Merged(r)[u]
  BY MergedType
<1>6. Merged(r)[u] = Part(r, u) /\ Part(r, u) \in Nat
  <2>1. Merged(r)[u] = IF u \in User THEN report[r][u] + slice[r][u] ELSE report[r][u]
    BY MergedType
  <2>2. report[r][u] \in Nat /\ Part(r, u) \in Nat /\ (u \in User => slice[r][u] \in Nat)
    BY BooksTypes
  <2> QED BY <1>4, <2>1, <2>2 DEF Part
<1>7. panel[u] \in Nat /\ edge[u] \in Nat
  BY DEF TypeOK
<1>8. CASE panel' = Add(panel, Merged(r))
  <2>1. panel'[u] = panel[u] + Part(r, u)
    BY <1>6, <1>8, <1>t
  <2>2. Books(r, u)' = Books(r, u)
    BY <1>1, <1>5, <1>6, <1>7, <2>1 DEF Books
  <2>3. Books(r, u) \in Nat
    BY BooksTypes
  <2> QED BY <1>1, <2>2, <2>3 DEF Balanced
<1>9. CASE panel' = panel /\ Present(Merged(r)) \subseteq gaps'
  <2>1. u \notin gaps' => Merged(r)[u] = 0
    BY <1>9, <1>t DEF Present
  <2>2. Books(r, u)' = panel[u] + edge[u] /\ Books(r, u) = panel[u] + edge[u] + Part(r, u)
    BY <1>1, <1>5, <1>7, <1>9 DEF Books
  <2> QED BY <1>1, <1>6, <1>7, <2>1, <2>2 DEF Balanced
<1> QED BY <1>8, <1>9

LEMMA BalancedReport ==
    ASSUME TypeOK, ReportInv, NEW r \in Controller, NEW u \in AnyUser, ReportStep(r),
           ~Take(r), \A v \in User : ~Rollback(r, v)
    PROVE  Balanced(r, u)
<1>t. /\ panel[u] \in Nat /\ edge[u] \in Nat /\ restore[r][u] \in Nat /\ report[r][u] \in Nat
      /\ u \in User => slice[r][u] \in Nat
  BY BooksTypes
<1>1. ASSUME NEW v \in User,
             Begin(r) \/ Look(r, v) \/ Sliced(r) \/ Restored(r) \/ UnifiedUnsupported(r)
      PROVE  Balanced(r, u)
  <2>1. UNCHANGED <<bytes, counters, gaps, dups, panel, edge, slice, report, restore>>
    BY <1>1 DEF Begin, Look, Sliced, Restored, UnifiedUnsupported, coreVars,
                histVars
  <2> QED BY <2>1, BalancedKept
<1>2. CASE Begin(r) \/ Sliced(r) \/ Restored(r) \/ UnifiedUnsupported(r)
  <2>1. UNCHANGED <<bytes, counters, gaps, dups, panel, edge, slice, report, restore>>
    BY <1>2 DEF Begin, Sliced, Restored, UnifiedUnsupported, coreVars, histVars
  <2> QED BY <2>1, BalancedKept
<1>3. CASE RolledBack(r)
  <2>1. UNCHANGED <<bytes, counters, gaps, dups, panel, edge, slice>>
    BY <1>3 DEF RolledBack, coreVars, histVars
  <2>2. CASE UNCHANGED <<report, restore>>
    BY <2>1, <2>2, BalancedKept
  <2>3. CASE /\ pc[r] = "rollback" /\ restore' = [restore EXCEPT ![r] = report[r]]
             /\ report' = [report EXCEPT ![r] = Zero]
    <3>1. restore'[r][u] = report[r][u] /\ report'[r][u] = 0
      BY <2>3, PresentType DEF TypeOK
    <3>2. restore[r][u] = 0
      BY <2>3 DEF ReportInv, Orderly
    <3>3. Part(r, u)' = Part(r, u)
      BY <1>t, <2>1, <3>1, <3>2 DEF Part
    <3>4. Books(r, u)' = Books(r, u) /\ Books(r, u) \in Nat
      BY <2>1, <3>3, BooksTypes DEF Books
    <3> QED BY <2>1, <3>4 DEF Balanced
  <2> QED BY <1>3, <2>2, <2>3 DEF RolledBack
<1>4. CASE Drain(r)
  <2>1. UNCHANGED <<bytes, counters, gaps, dups, panel, slice>>
    BY <1>4 DEF Drain, coreVars, histVars
  <2>2. /\ report'[r][u] = IF u \in Matched THEN edge[u] ELSE 0
        /\ restore'[r][u] = IF u \in Matched THEN 0 ELSE edge[u]
        /\ edge'[u] = 0
    BY <1>4, PresentType DEF Drain, TypeOK
  <2>3. restore[r][u] = 0 /\ report[r][u] = 0
    BY <1>4 DEF Drain, ReportInv, Orderly
  <2>4. Books(r, u)' = Books(r, u)
    BY <1>t, <2>1, <2>2, <2>3 DEF Books, Part
  <2>5. Books(r, u) \in Nat
    BY BooksTypes
  <2> QED BY <2>1, <2>4, <2>5 DEF Balanced
<1>5. ASSUME NEW v \in AnyUser, Restore(r, v) PROVE Balanced(r, u)
  <2>1. UNCHANGED <<bytes, counters, gaps, dups, panel, slice, report>>
    BY <1>5 DEF Restore, coreVars, histVars
  <2>2. \/ u = v /\ edge'[u] = edge[u] + restore[r][u] /\ restore'[r][u] = 0
        \/ u # v /\ edge'[u] = edge[u] /\ restore'[r][u] = restore[r][u]
    BY <1>5 DEF Restore, TypeOK
  <2>3. Books(r, u)' = Books(r, u)
    BY <1>t, <2>1, <2>2 DEF Books, Part
  <2>4. Books(r, u) \in Nat
    BY BooksTypes
  <2> QED BY <2>1, <2>3, <2>4 DEF Balanced
<1>6. CASE Accepted(r)
  BY <1>6, BalancedDone DEF Accepted
<1> QED BY <1>1, <1>2, <1>3, <1>4, <1>5, <1>6 DEF ReportStep

LEMMA BalancedFault ==
    ASSUME TypeOK, ReportInv, NEW r \in Controller, NEW u \in AnyUser, NEW applied \in BOOLEAN,
           FaultStep(r, applied)
    PROVE  Balanced(r, u)
<1>t. /\ panel[u] \in Nat /\ edge[u] \in Nat /\ restore[r][u] \in Nat /\ report[r][u] \in Nat
      /\ u \in User => slice[r][u] \in Nat
  BY BooksTypes
<1>p. Part(r, u) \in Nat /\ Books(r, u) \in Nat
  BY BooksTypes
<1>1. CASE DrainFails(r, applied)
  <2>1. /\ UNCHANGED <<bytes, counters, dups, panel, slice, report, restore>>
        /\ gaps \subseteq gaps'
    BY <1>1 DEF DrainFails, coreVars
  <2>2. Part(r, u)' = Part(r, u)
    BY <2>1 DEF Part
  <2>3. edge'[u] <= edge[u] /\ (u \notin gaps' => edge'[u] = edge[u])
    <3>1. edge \in [AnyUser -> Nat]
      BY DEF TypeOK
    <3>2. CASE applied
      <4>1. edge'[u] = 0 /\ (edge[u] > 0 => u \in gaps')
        BY <1>1, <3>1, <3>2, PresentType DEF DrainFails, Present
      <4> QED BY <1>t, <4>1
    <3>3. CASE ~applied
      BY <1>1, <1>t, <3>3 DEF DrainFails
    <3> QED BY <3>2, <3>3
  <2>4. Books(r, u)' = panel[u] + edge'[u] + Part(r, u) /\ Books(r, u) = panel[u] + edge[u] + Part(r, u)
    BY <2>1, <2>2 DEF Books
  <2>5. edge'[u] \in Nat
    <3>1. edge' = edge \/ edge' = Zero
      BY <1>1 DEF DrainFails
    <3> QED BY <1>t, <3>1, PresentType
  <2> QED BY <1>t, <1>p, <2>1, <2>3, <2>4, <2>5 DEF Balanced
<1>2. ASSUME NEW v \in AnyUser, RestoreFails(r, v, applied) PROVE Balanced(r, u)
  <2>1. /\ UNCHANGED <<bytes, counters, dups, panel, slice, report>>
        /\ gaps \subseteq gaps'
    BY <1>2 DEF RestoreFails, coreVars
  <2>2. restore'[r][u] = 0
    BY <1>2, PresentType DEF RestoreFails, TypeOK
  <2>3. u \in todo[r] <=> restore[r][u] > 0
    BY <1>2 DEF RestoreFails, ReportInv, Orderly
  <2>4. \/ edge'[u] = edge[u]
        \/ applied /\ u = v /\ edge'[u] = edge[u] + restore[r][u]
    <3>1. edge \in [AnyUser -> Nat]
      BY DEF TypeOK
    <3> QED BY <1>2, <3>1 DEF RestoreFails
  <2>5. u \notin gaps' => restore[r][u] = 0 \/ edge'[u] = edge[u] + restore[r][u]
    <3>1. CASE applied
      <4>1. u \notin gaps' => u = v \/ u \notin todo[r]
        BY <1>2, <3>1 DEF RestoreFails
      <4>2. u = v => edge'[u] = edge[u] + restore[r][u]
        BY <1>2, <3>1 DEF RestoreFails, TypeOK
      <4> QED BY <1>t, <2>3, <4>1, <4>2
    <3>2. CASE ~applied
      <4>1. u \notin gaps' => u \notin todo[r]
        BY <1>2, <3>2 DEF RestoreFails
      <4> QED BY <1>t, <2>3, <4>1
    <3> QED BY <3>1, <3>2
  <2>6. Books(r, u)' = panel[u] + edge'[u] + (report[r][u] + (IF u \in User THEN slice[r][u] ELSE 0))
    BY <1>t, <2>1, <2>2, <2>4 DEF Books, Part
  <2>7. Books(r, u) = panel[u] + edge[u] + (restore[r][u] + (report[r][u] + (IF u \in User THEN slice[r][u] ELSE 0)))
    BY <1>t DEF Books, Part
  <2>8. PICK x \in Nat : x = report[r][u] + (IF u \in User THEN slice[r][u] ELSE 0)
    BY <1>t
  <2> QED BY <1>t, <2>1, <2>4, <2>5, <2>6, <2>7, <2>8 DEF Balanced
<1>3. CASE UnifiedFails(r, applied) \/ PushFails(r, applied)
  <2>1. /\ UNCHANGED <<bytes, counters, gaps, edge, slice, report, restore>> /\ Booked(r, applied)
        /\ dups \subseteq dups'
    BY <1>3 DEF UnifiedFails, PushFails, coreVars, Booked
  <2>2. Part(r, u)' = Part(r, u)
    BY <2>1 DEF Part
  <2>3. Merged(r)[u] \in Nat /\ Merged(r) \in [AnyUser -> Nat]
        /\ Add(panel, Merged(r))[u] = panel[u] + Merged(r)[u]
    BY MergedType
  <2>4. \/ panel'[u] = panel[u]
        \/ panel'[u] = panel[u] + Merged(r)[u] /\ (Merged(r)[u] > 0 => u \in dups')
    BY <2>1, <2>3 DEF Booked, Present
  <2>5. Books(r, u)' = panel'[u] + edge[u] + Part(r, u) /\ Books(r, u) = panel[u] + edge[u] + Part(r, u)
    BY <2>1, <2>2 DEF Books
  <2> QED BY <1>t, <1>p, <2>1, <2>3, <2>4, <2>5 DEF Balanced
<1>4. CASE PushCancelled(r, applied)
  BY <1>4, BalancedDone DEF PushCancelled
<1> QED BY <1>1, <1>2, <1>3, <1>4 DEF FaultStep

\* The storage a report will find is one of the user's.
LEMMA FoundOwned ==
    ASSUME TypeOK, NEW u \in User, Found(u) # Nil
    PROVE  Found(u) \in Storage /\ Owns(Found(u), u) /\ bytes[Found(u)] \in Nat
<1>1. tagCounter \in Tag /\ Found(u) = counters[tagCounter][u]
  BY Numbers DEF Found, TypeOK, Tag
<1>2. Found(u) \in Storage
  BY <1>1 DEF TypeOK
<1> QED BY <1>1, <1>2 DEF Owns, TypeOK

LEMMA AtType ==
    ASSUME TypeOK, NEW u \in AnyUser
    PROVE  At(u) \in Nat
BY FoundOwned DEF At

LEMMA AtAfter ==
    ASSUME TypeOK', NEW u \in AnyUser
    PROVE  At(u)' \in Int
<1>1. ASSUME u \in User, Found(u)' # Nil PROVE Found(u)' \in Storage
  <2>1. tagCounter' \in Tag /\ Found(u)' = counters'[tagCounter'][u]
    BY <1>1, Numbers DEF Found, TypeOK, Tag
  <2> QED BY <1>1, <2>1 DEF TypeOK
<1> QED BY <1>1 DEF At, TypeOK

\* A storage of another user changes.
LEMMA AtElse ==
    ASSUME TypeOK, OwnInv, NEW m \in Storage, NEW v \in User, Owns(m, v),
           NEW u \in AnyUser \ {v}, \A s \in Storage \ {m} : bytes'[s] = bytes[s],
           u \in User => Found(u)' = Found(u)
    PROVE  At(u)' = At(u)
<1>1. ASSUME u \in User, Found(u) # Nil PROVE bytes'[Found(u)] = bytes[Found(u)]
  <2>1. Found(u) \in Storage /\ Owns(Found(u), u)
    BY <1>1, FoundOwned
  <2>2. Found(u) # m
    BY <1>1, <2>1 DEF OwnInv
  <2> QED BY <2>1, <2>2
<1> QED BY <1>1 DEF At

LEMMA AtKept ==
    ASSUME UNCHANGED <<bytes, counters, tagCounter>>, NEW u
    PROVE  At(u)' = At(u) /\ Found(u)' = Found(u)
BY DEF At, Found

\* What Take does.
LEMMA TakeFacts ==
    ASSUME TypeOK, ReportInv, NEW r \in Controller, Take(r)
    PROVE  \E u \in User, m \in Storage :
              /\ u = cur[r].user /\ m = cur[r].storage /\ Owns(m, u)
              /\ bytes' = [bytes EXCEPT ![m] = 0] /\ bytes[m] \in Nat
              /\ UNCHANGED <<tagCounter, carried, gaps, dups>>
              /\ \A v \in AnyUser \ {u} : Books(r, v)' = Books(r, v)
              /\ \A v \in User \ {u} : Found(v)' = Found(v)
              /\ \/ /\ phase[u] \in {"served", "unlisted"} /\ UNCHANGED counters
                    /\ Books(r, u)' = Books(r, u) + bytes[m]
                 \/ /\ phase[u] \notin {"served", "unlisted"}
                    /\ Books(r, u)' = Books(r, u)
<1>1. cur[r].user \in User /\ cur[r].storage \in Storage /\ tag[r] \in Tag
  <2>1. cur[r] # NoCur /\ tag[r] # 0
    BY DEF Take, ReportInv, Orderly, Takes
  <2> QED BY <2>1, Numbers DEF TypeOK, Tag
<1>2. PICK k \in Tag, u \in User, m \in Storage :
          k = tag[r] /\ u = cur[r].user /\ m = cur[r].storage
  BY <1>1
<1>3. Owns(m, u)
  BY <1>2 DEF Owns
<1>4. /\ bytes' = [bytes EXCEPT ![m] = 0] /\ bytes[m] \in Nat
      /\ UNCHANGED <<tagCounter, carried, gaps, dups, panel, edge, restore, report>>
  BY <1>2 DEF Take, TypeOK, histVars
<1>5. slice[r][u] = 0
  BY <1>2 DEF Take, ReportInv, Orderly, Takes
<1>6. User \subseteq AnyUser /\ slice[r] \in [User -> Nat]
  BY DEF AnyUser, TypeOK
<1>7. CASE phase[u] \in {"served", "unlisted"}
  <2>1. counters' = counters /\ slice' = [slice EXCEPT ![r][u] = bytes[m]]
    BY <1>2, <1>7 DEF Take
  <2>2. slice'[r] = [slice[r] EXCEPT ![u] = bytes[m]]
    BY <2>1 DEF TypeOK
  <2>3. \A v \in AnyUser \ {u} : Books(r, v)' = Books(r, v)
    BY <1>4, <1>6, <2>2 DEF Books, Part
  <2>4. Books(r, u)' = Books(r, u) + bytes[m]
    <3>1. panel[u] \in Nat /\ edge[u] \in Nat /\ restore[r][u] \in Nat /\ report[r][u] \in Nat
      BY <1>6, BooksTypes
    <3>2. slice'[r][u] = bytes[m]
      BY <1>6, <2>2
    <3> QED BY <1>4, <1>5, <3>1, <3>2 DEF Books, Part
  <2>5. \A v \in User \ {u} : Found(v)' = Found(v)
    BY <1>4, <2>1 DEF Found
  <2> QED BY <1>2, <1>3, <1>4, <1>7, <2>1, <2>3, <2>4, <2>5
<1>8. CASE phase[u] \notin {"served", "unlisted"}
  <2>1. slice' = slice /\ counters' = [counters EXCEPT ![k][u] = Nil]
    BY <1>2, <1>8 DEF Take
  <2>2. \A v \in AnyUser : Books(r, v)' = Books(r, v)
    BY <1>4, <2>1 DEF Books, Part
  <2>3. \A t \in Tag : \A v \in User \ {u} : counters'[t][v] = counters[t][v]
    <3>1. counters[k] \in [User -> Storage \cup {Nil}]
      BY DEF TypeOK
    <3>2. PICK f : f = [counters[k] EXCEPT ![u] = Nil]
      OBVIOUS
    <3>3. \A v \in User \ {u} : f[v] = counters[k][v]
      BY <3>1, <3>2
    <3>4. counters' = [counters EXCEPT ![k] = f]
      BY <2>1, <3>2
    <3> QED BY <3>3, <3>4 DEF TypeOK
  <2>4. \A v \in User \ {u} : Found(v)' = Found(v)
    <3>1. tagCounter = 0 \/ tagCounter \in Tag
      BY Numbers DEF TypeOK, Tag
    <3> QED BY <1>4, <2>3, <3>1 DEF Found
  <2> QED BY <1>2, <1>3, <1>4, <1>6, <1>8, <2>2, <2>4
<1> QED BY <1>7, <1>8

\* What Rollback does.
LEMMA RollbackFacts ==
    ASSUME TypeOK, ReportInv, NEW r \in Controller, NEW u \in User, Rollback(r, u)
    PROVE  \E m \in Storage :
              /\ m = slot[r][u] /\ Owns(m, u) /\ slice[r][u] \in Nat
              /\ bytes' = [bytes EXCEPT ![m] = @ + slice[r][u]]
              /\ UNCHANGED <<tagCounter, counters, carried, gaps, dups>>
              /\ \A v \in AnyUser \ {u} : Books(r, v)' = Books(r, v)
              /\ Books(r, u)' = Books(r, u) - slice[r][u]
<1>1. slot[r][u] \in Storage
  <2>1. slot[r][u] \in Storage \cup {Nil}
    BY DEF TypeOK
  <2>2. slot[r][u] # Nil
    BY DEF ReportInv, Orderly, Rollback
  <2> QED BY <2>1, <2>2
<1>2. PICK m \in Storage : m = slot[r][u]
  BY <1>1
<1>3. Owns(m, u)
  BY <1>2 DEF Owns
<1>4. /\ bytes' = [bytes EXCEPT ![m] = @ + slice[r][u]]
      /\ UNCHANGED <<tagCounter, counters, carried, gaps, dups, panel, edge, restore, report>>
  BY <1>2 DEF Rollback, histVars
<1>5. slice'[r] = [slice[r] EXCEPT ![u] = 0] /\ slice[r] \in [User -> Nat] /\ User \subseteq AnyUser
  BY DEF Rollback, TypeOK, AnyUser
<1>6. \A v \in AnyUser \ {u} : Books(r, v)' = Books(r, v)
  BY <1>4, <1>5 DEF Books, Part
<1>7. Books(r, u)' = Books(r, u) - slice[r][u]
  <2>1. panel[u] \in Nat /\ edge[u] \in Nat /\ restore[r][u] \in Nat /\ report[r][u] \in Nat
    BY <1>5, BooksTypes
  <2>2. slice'[r][u] = 0 /\ slice[r][u] \in Nat
    BY <1>5
  <2> QED BY <1>4, <2>1, <2>2 DEF Books, Part
<1> QED BY <1>2, <1>3, <1>4, <1>5, <1>6, <1>7

-----------------------------------------------------------------------------
(* TwiceInv: no step creates traffic.                                      *)

LEMMA TwiceReport ==
    ASSUME TypeOK, TypeOK', ReportInv, OwnInv, TwiceInv, NEW r \in Controller,
           ReportStep(r) \/ \E applied \in BOOLEAN : FaultStep(r, applied)
    PROVE  TwiceInv'
<1>o. OthersSame(r) /\ Shrinks
  BY OthersKept, OwnReport
<1> SUFFICES ASSUME NEW u \in AnyUser, u \notin dups'
             PROVE  Account(u)' + Stored(u)' <= carried'[u]
  BY DEF TwiceInv
<1>a. /\ Account(u)' - Account(u) = Books(r, u)' - Books(r, u)
      /\ Account(u) \in Int /\ Account(u)' \in Int
      /\ Books(r, u) \in Int /\ Books(r, u)' \in Int
  BY <1>o, AccountChange
<1>s. Stored(u) \in Int
  BY StoredInt
<1>c. carried'[u] = carried[u] /\ carried[u] \in Nat
  BY <1>o DEF OthersSame, TypeOK
<1>d. u \notin dups => Account(u) + Stored(u) <= carried[u]
  BY DEF TwiceInv
<1>e. Stored(u)' \in Int
  BY StoredAfter
<1>1. CASE Balanced(r, u)
  <2>1. Stored(u)' <= Stored(u)
    BY <1>1, <1>o, StoredKept DEF Balanced
  <2>2. Books(r, u)' <= Books(r, u) /\ u \notin dups
    BY <1>1 DEF Balanced
  <2> QED BY <1>a, <1>c, <1>d, <1>e, <1>s, <2>1, <2>2
<1>2. CASE Take(r)
  <2>1. PICK v \in User, m \in Storage :
              /\ v = cur[r].user /\ m = cur[r].storage /\ Owns(m, v)
              /\ bytes' = [bytes EXCEPT ![m] = 0] /\ bytes[m] \in Nat
              /\ UNCHANGED <<tagCounter, carried, gaps, dups>>
              /\ \A w \in AnyUser \ {v} : Books(r, w)' = Books(r, w)
              /\ \/ Books(r, v)' = Books(r, v) + bytes[m]
                 \/ Books(r, v)' = Books(r, v)
    BY <1>2, TakeFacts
  <2>2. PICK d \in Int : d = -bytes[m]
    BY <2>1
  <2>3. bytes'[m] = bytes[m] + d /\ \A s \in Storage \ {m} : bytes'[s] = bytes[s]
    BY <2>1, <2>2 DEF TypeOK
  <2>4. /\ Stored(v)' <= Stored(v) + d
        /\ \A w \in AnyUser \ {v} : Stored(w)' <= Stored(w)
    BY <1>o, <2>1, <2>3, StoredChange
  <2>5. CASE u = v
    BY <1>a, <1>c, <1>d, <1>e, <1>s, <2>1, <2>2, <2>4, <2>5
  <2>6. CASE u # v
    <3>1. Stored(u)' <= Stored(u) /\ Books(r, u)' = Books(r, u) /\ u \notin dups
      BY <2>1, <2>4, <2>6
    <3> QED BY <1>a, <1>c, <1>d, <1>e, <1>s, <3>1
  <2> QED BY <2>5, <2>6
<1>3. ASSUME NEW v \in User, Rollback(r, v) PROVE Account(u)' + Stored(u)' <= carried'[u]
  <2>1. PICK m \in Storage :
              /\ m = slot[r][v] /\ Owns(m, v) /\ slice[r][v] \in Nat
              /\ bytes' = [bytes EXCEPT ![m] = @ + slice[r][v]]
              /\ UNCHANGED <<tagCounter, counters, carried, gaps, dups>>
              /\ \A w \in AnyUser \ {v} : Books(r, w)' = Books(r, w)
              /\ Books(r, v)' = Books(r, v) - slice[r][v]
    BY <1>3, RollbackFacts
  <2>2. PICK d \in Int : d = slice[r][v]
    BY <2>1
  <2>3. bytes'[m] = bytes[m] + d /\ \A s \in Storage \ {m} : bytes'[s] = bytes[s]
    BY <2>1, <2>2 DEF TypeOK
  <2>4. /\ Stored(v)' <= Stored(v) + d
        /\ \A w \in AnyUser \ {v} : Stored(w)' <= Stored(w)
    BY <1>o, <2>1, <2>3, StoredChange
  <2>5. CASE u = v
    BY <1>a, <1>c, <1>d, <1>e, <1>s, <2>1, <2>2, <2>4, <2>5
  <2>6. CASE u # v
    <3>1. Stored(u)' <= Stored(u) /\ Books(r, u)' = Books(r, u) /\ u \notin dups
      BY <2>1, <2>4, <2>6
    <3> QED BY <1>a, <1>c, <1>d, <1>e, <1>s, <3>1
  <2> QED BY <2>5, <2>6
<1>4. ASSUME NEW applied \in BOOLEAN, FaultStep(r, applied) PROVE Balanced(r, u)
  BY <1>4, BalancedFault
<1> QED BY <1>1, <1>2, <1>3, <1>4, BalancedReport

\* The steps that are not of a report.
ElseStep(c, v) ==
    \/ c \in Conn /\ ConnStep(c)
    \/ v \in AnyUser /\ EdgeCarry(v)
    \/ v \in User /\ UserStep(v)
    \/ Replace \/ UNCHANGED vars

\* They leave the reports and the panel alone.
LEMMA AccountKept ==
    ASSUME TypeOK, TypeOK', UNCHANGED <<slice, report, restore, panel>>, NEW u \in AnyUser
    PROVE  /\ Account(u)' = Account(u) + (edge'[u] - edge[u])
           /\ Account(u) \in Int /\ edge[u] \in Int /\ edge'[u] \in Int
<1>1. InFlight(u)' = InFlight(u)
  BY FlightKept
<1>2. InFlight(u) \in Int
  BY PartIs
<1>3. panel[u] \in Int /\ edge[u] \in Int /\ edge'[u] \in Int
  BY DEF TypeOK
<1> QED BY <1>1, <1>2, <1>3 DEF Account

LEMMA TwiceElse ==
    ASSUME TypeOK, TypeOK', OwnInv, TwiceInv, NEW c, NEW v, ElseStep(c, v)
    PROVE  TwiceInv'
<1> USE DEF ElseStep
<1>o. UNCHANGED <<slice, report, restore, panel, dups>>
  BY DEF ConnStep, LoadTagCounter, StoreTagCounter, GetCounter, Carry, CloseConn,
         EdgeCarry,
         UserStep, Unlist, DeleteUID, DeleteCounter, DeleteLimit, AddUser, Replace, vars,
         repVars, histVars
<1> SUFFICES ASSUME NEW u \in AnyUser, u \notin dups'
             PROVE  Account(u)' + Stored(u)' <= carried'[u]
  BY DEF TwiceInv
<1>a. /\ Account(u)' = Account(u) + (edge'[u] - edge[u])
      /\ Account(u) \in Int /\ edge[u] \in Int /\ edge'[u] \in Int
  BY <1>o, AccountKept
<1>s. Stored(u) \in Int /\ Stored(u)' \in Int
  BY StoredInt, StoredAfter
<1>c. carried[u] \in Nat
  BY DEF TypeOK
<1>d. Account(u) + Stored(u) <= carried[u]
  BY <1>o DEF TwiceInv
<1>1. CASE c \in Conn /\ Carry(c)
  <2>1. conn[c].user \in User /\ conn[c].storage \in Storage
    <3>1. conn[c].at = "open" /\ conn[c].at # NoConn.at
      BY <1>1 DEF Carry, NoConn
    <3> QED BY <1>1, <3>1, ConnCases
  <2>2. PICK w \in User, m \in Storage : w = conn[c].user /\ m = conn[c].storage
    BY <2>1
  <2>3. Owns(m, w) /\ edge' = edge /\ UNCHANGED <<counters, conn, cur, slot>>
    BY <1>1, <2>2 DEF Carry, Owns, repVars
  <2>4. Shrinks
    BY <2>3 DEF Shrinks, Owns
  <2>5. bytes'[m] = bytes[m] + 1 /\ \A s \in Storage \ {m} : bytes'[s] = bytes[s]
    BY <1>1, <2>2 DEF Carry, TypeOK
  <2>6. /\ Stored(w)' <= Stored(w) + 1
        /\ \A x \in AnyUser \ {w} : Stored(x)' <= Stored(x)
    BY <2>3, <2>4, <2>5, StoredChange
  <2>7. carried'[u] = IF u = w THEN carried[u] + 1 ELSE carried[u]
    BY <1>1, <2>2 DEF Carry, TypeOK
  <2> QED BY <1>a, <1>c, <1>d, <1>s, <2>3, <2>6, <2>7
<1>2. CASE v \in AnyUser /\ EdgeCarry(v)
  <2>1. UNCHANGED <<bytes, counters, conn, cur, slot>>
    BY <1>2 DEF EdgeCarry, coreVars, repVars
  <2>2. Shrinks
    BY <2>1 DEF Shrinks, Owns
  <2>3. Stored(u)' <= Stored(u)
    BY <2>1, <2>2, StoredKept
  <2>4. /\ carried'[u] = IF u = v THEN carried[u] + 1 ELSE carried[u]
        /\ edge'[u] = IF u = v THEN edge[u] + 1 ELSE edge[u]
    BY <1>2 DEF EdgeCarry, TypeOK
  <2> QED BY <1>a, <1>c, <1>d, <1>s, <2>3, <2>4
<1>3. CASE ~(c \in Conn /\ Carry(c)) /\ ~(v \in AnyUser /\ EdgeCarry(v))
  <2>1. UNCHANGED <<carried, edge>>
    BY <1>3 DEF ConnStep, LoadTagCounter, StoreTagCounter, GetCounter, CloseConn,
         UserStep, Unlist, DeleteUID, DeleteCounter, DeleteLimit, AddUser, Replace, vars,
         repVars, histVars
  <2>2. ASSUME c \in Conn, NEW s \in Storage, NEW w \in User, GetCounter(c, s), Creates(c, s, w)
        PROVE  Stored(u)' <= Stored(u)
    BY <2>2, StoredCreated
  <2>3. \/ bytes' = bytes
        \/ c \in Conn /\ \E s \in Storage : GetCounter(c, s) /\ bytes' # bytes
    <3>1. ASSUME (v \in User /\ UserStep(v)) \/ Replace \/ UNCHANGED vars PROVE bytes' = bytes
      BY <3>1 DEF UserStep, Unlist, DeleteUID, DeleteCounter, DeleteLimit, AddUser,
                  Replace, vars,
                  coreVars
    <3>2. ASSUME c \in Conn, NEW w \in User, LoadTagCounter(c, w) PROVE UNCHANGED bytes
      BY <3>2 DEF LoadTagCounter
    <3>3. ASSUME c \in Conn, StoreTagCounter(c) \/ CloseConn(c) PROVE UNCHANGED bytes
      BY <3>3 DEF StoreTagCounter, CloseConn
    <3>4. ASSUME c \in Conn, ConnStep(c), bytes' # bytes
          PROVE  \E s \in Storage : GetCounter(c, s) /\ bytes' # bytes
      BY <1>3, <3>2, <3>3, <3>4 DEF ConnStep
    <3> QED BY <1>3, <3>1, <3>4, SMT
  <2>4. \/ Shrinks
        \/ c \in Conn /\ \E s \in Storage, w \in User : GetCounter(c, s) /\ Creates(c, s, w)
    <3>1. (c \in Conn /\ ConnStep(c)) \/ EdgeCarry(v) \/ (v \in User /\ UserStep(v)) \/ Replace
               \/ UNCHANGED vars
      OBVIOUS
    <3> QED BY <3>1, OwnElse
  <2>5. Stored(u)' <= Stored(u)
    <3>1. CASE UNCHANGED bytes
      BY <2>2, <2>4, <3>1, StoredKept
    <3>2. ASSUME c \in Conn, NEW s \in Storage, GetCounter(c, s), bytes' # bytes
          PROVE  Stored(u)' <= Stored(u)
      <4>1. conn[c].at = "loaded" /\ NoConn.at # "loaded" /\ conn[c].tag > 0
        BY <3>2 DEF GetCounter, NoConn
      <4>2. conn[c].user \in User /\ conn[c].tag \in 0 .. Cardinality(Conn)
        BY <3>2, <4>1, ConnCases
      <4>3. conn[c].tag \in Tag
        BY <4>1, <4>2, Numbers DEF Tag
      <4>4. Creates(c, s, conn[c].user)
        BY <3>2, <4>1, <4>3 DEF GetCounter, Creates
      <4> QED BY <2>2, <3>2, <4>2, <4>4
    <3> QED BY <2>3, <3>1, <3>2
  <2> QED BY <1>a, <1>c, <1>d, <1>s, <2>1, <2>5
<1> QED BY <1>1, <1>2, <1>3

-----------------------------------------------------------------------------
(* OneStorage and LostInv: no step of a report loses bytes unnoted.        *)

LEMMA SoleKept ==
    ASSUME TypeOK, NEW r \in Controller, OthersSame(r), NEW u \in User, Sole(u),
           \A t \in Tag : counters'[t][u] = counters[t][u],
           slot'[r][u] # Nil => slot'[r][u] = Found(u),
           cur'[r].user = u => cur'[r].storage = Found(u)
    PROVE  Sole(u)'
<1>1. tagCounter = 0 \/ tagCounter \in Tag
  BY Numbers DEF TypeOK, Tag
<1>2. Found(u)' = Found(u)
  BY <1>1 DEF Found, OthersSame
<1>3. \A q \in Controller : /\ slot'[q][u] # Nil => slot'[q][u] = Found(u)
                            /\ cur'[q].user = u => cur'[q].storage = Found(u)
  BY DEF Sole, OthersSame, Same
<1> QED BY <1>2, <1>3 DEF Sole, OthersSame

LEMMA SoleReport ==
    ASSUME TypeOK, ReportInv, OneStorage, NEW r \in Controller, NEW u \in User \ gaps,
           ReportStep(r) \/ \E applied \in BOOLEAN : FaultStep(r, applied)
    PROVE  Sole(u)'
<1> USE TrafficAssumption, Numbers
<1>o. OthersSame(r)
  BY OthersKept
<1>s. Sole(u)
  BY DEF OneStorage
<1>k. /\ slot[r][u] # Nil => slot[r][u] = Found(u)
      /\ cur[r].user = u => cur[r].storage = Found(u)
  BY <1>s DEF Sole
<1>a. ASSUME UNCHANGED <<counters, cur, slot>> PROVE Sole(u)'
  BY <1>a, <1>o, <1>s, <1>k, SoleKept
<1>b. ASSUME Done(r) PROVE Sole(u)'
  <2>1. cur' = cur /\ counters' = counters /\ slot'[r][u] = Nil
    BY <1>b DEF Done, TypeOK, coreVars, Nowhere
  <2> QED BY <1>o, <1>s, <1>k, <2>1, SoleKept
<1>1. ASSUME NEW v \in User, Look(r, v) PROVE Sole(u)'
  <2>1. counters' = counters /\ slot' = slot
    BY <1>1 DEF Look, coreVars
  <2>2. ASSUME cur'[r].user = u PROVE cur'[r].storage = Found(u)
    <3>1. CASE cur' = cur
      BY <1>k, <2>2, <3>1
    <3>2. CASE cur' # cur
      <4>1. /\ tag[r] # 0 /\ counters[tag[r]][v] # Nil
            /\ cur' = [cur EXCEPT ![r] = [user |-> v, storage |-> counters[tag[r]][v]]]
        BY <1>1, <3>2 DEF Look
      <4>2. tag[r] \in Tag /\ cur'[r].storage = counters[tag[r]][v] /\ v = u
        BY <2>2, <4>1 DEF TypeOK, Tag
      <4>3. tag[r] = tagCounter
        BY <1>s, <4>1, <4>2 DEF Sole
      <4> QED BY <4>1, <4>2, <4>3 DEF Found
    <3> QED BY <3>1, <3>2
  <2> QED BY <1>o, <1>s, <1>k, <2>1, <2>2, SoleKept
<1>2. ASSUME NEW v \in User, Rollback(r, v) PROVE Sole(u)'
  <2>1. counters' = counters /\ cur' = cur
    BY <1>2 DEF Rollback
  <2>2. slot'[r][u] = slot[r][u] \/ slot'[r][u] = Nil
    BY <1>2 DEF Rollback, TypeOK
  <2> QED BY <1>o, <1>s, <1>k, <2>1, <2>2, SoleKept
<1>3. CASE Take(r)
  <2>1. cur[r].user \in User /\ cur[r].storage \in Storage /\ tag[r] \in Tag
    <3>1. cur[r] # NoCur /\ tag[r] # 0
      BY <1>3 DEF Take, ReportInv, Orderly, Takes
    <3> QED BY <3>1 DEF TypeOK, Tag
  <2>2. PICK k \in Tag, v \in User, m \in Storage :
            k = tag[r] /\ v = cur[r].user /\ m = cur[r].storage
    BY <2>1
  <2>3. cur'[r] = NoCur
    BY <1>3 DEF Take, TypeOK
  <2>4. cur'[r].user # u
    BY <2>3 DEF NoCur
  <2>5. CASE phase[v] \in {"served", "unlisted"}
    <3>1. counters' = counters /\ slot' = [slot EXCEPT ![r][v] = m]
      BY <1>3, <2>2, <2>5 DEF Take
    <3>2. slot'[r][u] = slot[r][u] \/ (u = v /\ slot'[r][u] = m)
      BY <3>1 DEF TypeOK
    <3>3. slot'[r][u] # Nil => slot'[r][u] = Found(u)
      BY <1>k, <2>2, <3>2
    <3> QED BY <1>o, <1>s, <2>4, <3>1, <3>3, SoleKept
  <2>6. CASE phase[v] \notin {"served", "unlisted"}
    <3>1. slot' = slot /\ counters' = [counters EXCEPT ![k][v] = Nil]
      BY <1>3, <2>2, <2>6 DEF Take
    <3>2. v # u
      BY <1>s, <2>6 DEF Sole
    <3>3. \A t \in Tag : counters'[t][u] = counters[t][u]
      <4>1. counters[k] \in [User -> Storage \cup {Nil}]
        BY DEF TypeOK
      <4>2. PICK f : f = [counters[k] EXCEPT ![v] = Nil]
        OBVIOUS
      <4>3. f[u] = counters[k][u]
        BY <3>2, <4>1, <4>2
      <4>4. counters' = [counters EXCEPT ![k] = f]
        BY <3>1, <4>2
      <4> QED BY <4>3, <4>4 DEF TypeOK
    <3> QED BY <1>o, <1>s, <1>k, <2>4, <3>1, <3>3, SoleKept
  <2> QED BY <2>5, <2>6
<1>4. CASE ReportStep(r)
  <2>1. ASSUME Accepted(r) PROVE Sole(u)'
    BY <1>b, <2>1 DEF Accepted
  <2>2. ASSUME NEW v \in AnyUser, Restore(r, v) PROVE Sole(u)'
    BY <1>a, <2>2 DEF Restore, coreVars
  <2>3. ASSUME \/ Begin(r) \/ Sliced(r) \/ RolledBack(r) \/ Drain(r) \/ Restored(r)
               \/ UnifiedUnsupported(r)
        PROVE Sole(u)'
    BY <1>a, <2>3 DEF Begin, Sliced, RolledBack, Drain, Restored,
                      UnifiedUnsupported, coreVars
  <2> QED BY <1>1, <1>2, <1>3, <1>4, <2>1, <2>2, <2>3 DEF ReportStep
<1>5. ASSUME NEW applied \in BOOLEAN, FaultStep(r, applied) PROVE Sole(u)'
  <2>1. ASSUME PushCancelled(r, applied) PROVE Sole(u)'
    BY <1>b, <2>1 DEF PushCancelled
  <2>2. ASSUME NEW v \in AnyUser, RestoreFails(r, v, applied) PROVE Sole(u)'
    BY <1>a, <2>2 DEF RestoreFails, coreVars
  <2>3. ASSUME DrainFails(r, applied) \/ UnifiedFails(r, applied) \/ PushFails(r, applied)
        PROVE Sole(u)'
    BY <1>a, <2>3 DEF DrainFails, UnifiedFails, PushFails, coreVars
  <2> QED BY <1>5, <2>1, <2>2, <2>3 DEF FaultStep
<1> QED BY <1>4, <1>5

LEMMA LostReport ==
    ASSUME TypeOK, TypeOK', ReportInv, OwnInv, OneStorage, LostInv, NEW r \in Controller,
           ReportStep(r) \/ \E applied \in BOOLEAN : FaultStep(r, applied)
    PROVE  LostInv' /\ OneStorage'
<1>o. OthersSame(r)
  BY OthersKept
<1>b. ASSUME NEW u \in AnyUser
      PROVE  Balanced(r, u) \/ Take(r) \/ \E v \in User : Rollback(r, v)
  <2>1. ASSUME NEW applied \in BOOLEAN, FaultStep(r, applied) PROVE Balanced(r, u)
    BY <2>1, BalancedFault
  <2> QED BY <2>1, BalancedReport
<1>g. \A u \in AnyUser : u \in gaps => u \in gaps'
  <2>1. ASSUME Take(r) PROVE gaps' = gaps
    BY <2>1, TakeFacts
  <2>2. ASSUME NEW v \in User, Rollback(r, v) PROVE gaps' = gaps
    BY <2>2, RollbackFacts
  <2> QED BY <1>b, <2>1, <2>2 DEF Balanced
<1>1. OneStorage'
  BY <1>g, SoleReport DEF OneStorage, AnyUser
<1>2. ASSUME NEW u \in AnyUser, u \notin gaps' PROVE carried'[u] <= Account(u)' + At(u)'
  <2>a. /\ Account(u)' - Account(u) = Books(r, u)' - Books(r, u)
        /\ Account(u) \in Int /\ Account(u)' \in Int
        /\ Books(r, u) \in Int /\ Books(r, u)' \in Int
    BY <1>o, AccountChange
  <2>c. carried'[u] = carried[u] /\ carried[u] \in Nat
    BY <1>o DEF OthersSame, TypeOK
  <2>d. carried[u] <= Account(u) + At(u) /\ At(u) \in Nat
    BY <1>2, <1>g, AtType DEF LostInv
  <2>s. u \in User => Sole(u)
    BY <1>2, <1>g DEF OneStorage
  <2>1. CASE Balanced(r, u)
    <3>1. At(u)' = At(u)
      BY <1>o, <2>1, AtKept DEF Balanced, OthersSame
    <3>2. Books(r, u)' >= Books(r, u)
      BY <1>2, <2>1 DEF Balanced
    <3> QED BY <2>a, <2>c, <2>d, <3>1, <3>2
  <2>2. CASE Take(r)
    <3>1. PICK v \in User, m \in Storage :
              /\ v = cur[r].user /\ m = cur[r].storage /\ Owns(m, v)
              /\ bytes' = [bytes EXCEPT ![m] = 0] /\ bytes[m] \in Nat
              /\ UNCHANGED <<tagCounter, carried, gaps, dups>>
              /\ \A w \in AnyUser \ {v} : Books(r, w)' = Books(r, w)
              /\ \A w \in User \ {v} : Found(w)' = Found(w)
              /\ \/ /\ phase[v] \in {"served", "unlisted"} /\ UNCHANGED counters
                    /\ Books(r, v)' = Books(r, v) + bytes[m]
                 \/ /\ phase[v] \notin {"served", "unlisted"}
                    /\ Books(r, v)' = Books(r, v)
      BY <2>2, TakeFacts
    <3>2. bytes'[m] = 0 /\ \A s \in Storage \ {m} : bytes'[s] = bytes[s]
      BY <3>1 DEF TypeOK
    <3>3. CASE u = v
      <4>1. Found(u) = m /\ m # Nil /\ phase[v] \in {"served", "unlisted"}
        BY <2>s, <3>1, <3>3, TrafficAssumption DEF Sole
      <4>2. Books(r, u)' = Books(r, u) + bytes[m] /\ Found(u)' = m
        BY <3>1, <3>3, <4>1 DEF Found
      <4>3. At(u) = bytes[m] /\ At(u)' = 0
        BY <3>2, <3>3, <4>1, <4>2 DEF At
      <4> QED BY <2>a, <2>c, <2>d, <3>1, <4>2, <4>3
    <3>4. CASE u # v
      <4>1. Books(r, u)' = Books(r, u)
        BY <3>1, <3>4
      <4>2. At(u)' = At(u)
        BY <3>1, <3>2, <3>4, AtElse
      <4> QED BY <2>a, <2>c, <2>d, <4>1, <4>2
    <3> QED BY <3>3, <3>4
  <2>3. ASSUME NEW v \in User, Rollback(r, v) PROVE carried'[u] <= Account(u)' + At(u)'
    <3>1. PICK m \in Storage :
              /\ m = slot[r][v] /\ Owns(m, v) /\ slice[r][v] \in Nat
              /\ bytes' = [bytes EXCEPT ![m] = @ + slice[r][v]]
              /\ UNCHANGED <<tagCounter, counters, carried, gaps, dups>>
              /\ \A w \in AnyUser \ {v} : Books(r, w)' = Books(r, w)
              /\ Books(r, v)' = Books(r, v) - slice[r][v]
      BY <2>3, RollbackFacts
    <3>2. bytes'[m] = bytes[m] + slice[r][v] /\ \A s \in Storage \ {m} : bytes'[s] = bytes[s]
      BY <3>1 DEF TypeOK
    <3>f. \A w \in User : Found(w)' = Found(w)
      BY <3>1 DEF Found
    <3>3. CASE u = v
      <4>1. Found(u) = m /\ m # Nil
        BY <2>s, <3>1, <3>3, TrafficAssumption DEF Sole
      <4>2. At(u) = bytes[m] /\ At(u)' = bytes[m] + slice[r][v]
        BY <3>2, <3>3, <3>f, <4>1 DEF At
      <4> QED BY <2>a, <2>c, <2>d, <3>1, <3>3, <4>2
    <3>4. CASE u # v
      <4>1. Books(r, u)' = Books(r, u)
        BY <3>1, <3>4
      <4>2. At(u)' = At(u)
        BY <3>1, <3>2, <3>4, <3>f, AtElse
      <4> QED BY <2>a, <2>c, <2>d, <4>1, <4>2
    <3> QED BY <3>3, <3>4
  <2> QED BY <1>b, <2>1, <2>2, <2>3
<1> QED BY <1>1, <1>2 DEF LostInv

\* One storage, for a step that does not change TrafficCounters and reports.
LEMMA SoleSame ==
    ASSUME NEW u \in User, Sole(u), UNCHANGED <<counters, tagCounter, slot, cur, phase>>,
           \A d \in Conn : conn'[d].user = u =>
               /\ conn'[d].tag \in {0, tagCounter}
               /\ conn'[d].storage # Nil => conn'[d].storage = Found(u)
    PROVE  Sole(u)'
<1>1. Found(u)' = Found(u)
  BY DEF Found
<1> QED BY <1>1 DEF Sole

\* A second first connection: it notes every user somebody has a storage of.
LEMMA SoleStored ==
    ASSUME TypeOK, TypeOK', OneStorage, NEW c \in Conn, StoreTagCounter(c), NEW u \in User \ gaps'
    PROVE  Sole(u)' /\ Found(u) = Nil /\ Found(u)' = Nil
<1> USE TrafficAssumption, Numbers
<1>1. /\ Sole(u) /\ ~(tagCounter > 0 /\ counters[tagCounter][u] # Nil)
      /\ \A d \in Conn : ~(conn[d].tag > 0 /\ conn[d].user = u)
  BY DEF StoreTagCounter, OneStorage
<1>2. /\ tagCounter' = tagCounter + 1 /\ tagCounter \in Nat /\ tagCounter' \in Tag
      /\ UNCHANGED <<counters, phase, slot, cur>>
  BY DEF StoreTagCounter, repVars, TypeOK, Tag
<1>3. \A t \in Tag : counters[t][u] = Nil
  <2>1. tagCounter \in Tag => tagCounter > 0
    BY DEF Tag
  <2> QED BY <1>1, <2>1 DEF Sole
<1>4. Found(u) = Nil
  BY <1>1, <1>2 DEF Found
<1>5. Found(u)' = Nil
  BY <1>2, <1>3 DEF Found
<1>6. \A q \in Controller : slot[q][u] = Nil /\ cur[q].user # u
  <2>1. \A q \in Controller : cur[q].user = u => cur[q].storage \in Storage
    BY DEF TypeOK, NoCur
  <2> QED BY <1>1, <1>4, <2>1 DEF Sole
<1>7. ASSUME NEW d \in Conn, conn'[d].user = u
      PROVE  conn'[d].tag \in {0, tagCounter'} /\ conn'[d].storage = Nil
  <2>1. CASE d = c
    <3>1. conn[c].at = "loaded" /\ NoConn.at # "loaded"
      BY DEF StoreTagCounter, NoConn
    <3>2. /\ conn[c].storage = Nil
          /\ conn[c] = [at |-> "loaded", user |-> conn[c].user, tag |-> conn[c].tag,
                        storage |-> Nil]
      BY <3>1, ConnCases
    <3>3. conn'[c].tag = tagCounter' /\ conn'[c].storage = Nil
      BY <1>2, <3>2 DEF StoreTagCounter, TypeOK
    <3> QED BY <2>1, <3>3
  <2>2. CASE d # c
    <3>1. conn'[d] = conn[d]
      BY <2>2 DEF StoreTagCounter, TypeOK
    <3>2. conn[d].tag \in Nat
      <4>1. NoConn.tag \in Nat /\ Tag \subseteq Nat /\ 0 .. Cardinality(Conn) \subseteq Nat
        BY DEF NoConn, Tag
      <4> QED BY <4>1, ConnCases
    <3>3. conn[d].tag = 0
      BY <1>1, <1>7, <3>1, <3>2
    <3>4. conn[d].storage = Nil
      <4>1. NoConn.storage = Nil
        BY DEF NoConn
      <4>2. \A t \in Tag : t # 0
        BY DEF Tag
      <4> QED BY <3>3, <4>1, <4>2, ConnCases
    <3> QED BY <3>1, <3>3, <3>4
  <2> QED BY <2>1, <2>2
<1>8. Sole(u)'
  <2>1. phase'[u] \in {"served", "unlisted"}
    BY <1>1, <1>2 DEF Sole
  <2>2. \A t \in Tag : counters'[t][u] = Nil
    BY <1>2, <1>3
  <2>3. \A q \in Controller : slot'[q][u] = Nil /\ cur'[q].user # u
    BY <1>2, <1>6
  <2> QED BY <1>7, <2>1, <2>2, <2>3 DEF Sole
<1> QED BY <1>4, <1>5, <1>8

\* GetCounter: the connection joins the user's storage, or makes it.
LEMMA SoleGot ==
    ASSUME TypeOK, OneStorage, NEW c \in Conn, NEW s \in Storage, GetCounter(c, s),
           NEW u \in User \ gaps
    PROVE  /\ Sole(u)'
           /\ \/ UNCHANGED <<bytes, counters>>
              \/ /\ bytes' = [bytes EXCEPT ![s] = 0] /\ \A v \in User : ~Owns(s, v)
                 /\ \/ Found(u) = Nil /\ Found(u)' = s
                    \/ Found(u)' = Found(u)
<1> USE TrafficAssumption, Numbers
<1>1. Sole(u)
  BY DEF OneStorage
<1>2. conn[c].at = "loaded" /\ NoConn.at # "loaded" /\ conn[c].tag > 0
  BY DEF GetCounter, NoConn
<1>3. /\ conn[c].user \in User /\ conn[c].tag \in 0 .. Cardinality(Conn)
      /\ conn[c] = [at |-> "loaded", user |-> conn[c].user, tag |-> conn[c].tag, storage |-> Nil]
  BY <1>2, ConnCases
<1>4. PICK k \in Tag, v \in User : k = conn[c].tag /\ v = conn[c].user
  BY <1>2, <1>3 DEF Tag
<1>5. u = v => k = tagCounter
  BY <1>1, <1>2, <1>4 DEF Sole
<1>6. UNCHANGED <<tagCounter, phase, slot, cur>>
  BY DEF GetCounter, repVars
<1>7. conn'[c].user = v /\ conn'[c].tag = k /\ conn'[c].storage = s
  BY <1>3, <1>4 DEF GetCounter, TypeOK
<1>8. \A d \in Conn : d # c => conn'[d] = conn[d]
  BY DEF GetCounter, TypeOK
<1>9. CASE s = counters[k][v] /\ UNCHANGED <<bytes, counters>>
  <2>1. u = v => s = Found(u)
    <3>1. k # 0
      BY DEF Tag
    <3> QED BY <1>5, <1>9, <3>1 DEF Found
  <2>2. ASSUME NEW d \in Conn, conn'[d].user = u
        PROVE  /\ conn'[d].tag \in {0, tagCounter}
               /\ conn'[d].storage # Nil => conn'[d].storage = Found(u)
    <3>1. CASE d = c
      BY <1>5, <1>7, <2>1, <2>2, <3>1
    <3>2. CASE d # c
      BY <1>1, <1>8, <2>2, <3>2 DEF Sole
    <3> QED BY <3>1, <3>2
  <2>3. Sole(u)'
    BY <1>1, <1>6, <1>9, <2>2, SoleSame
  <2> QED BY <1>9, <2>3
<1>10. CASE /\ counters[k][v] = Nil /\ New(s)
            /\ counters' = [counters EXCEPT ![k][v] = s]
            /\ bytes' = [bytes EXCEPT ![s] = 0]
  <2>1. \A w \in User : ~Owns(s, w)
    BY <1>10, NewIsUnused DEF Unused, Owns
  <2>2. counters'[k] = [counters[k] EXCEPT ![v] = s] /\ counters[k] \in [User -> Storage \cup {Nil}]
    BY <1>10 DEF TypeOK
  <2>3. \A t \in Tag : t # k => counters'[t] = counters[t]
    BY <1>10 DEF TypeOK
  <2>4. k # 0 /\ (tagCounter = 0 \/ tagCounter \in Tag)
    BY DEF Tag, TypeOK
  <2>5. CASE u # v
    <3>1. \A t \in Tag : counters'[t][u] = counters[t][u]
      BY <2>2, <2>3, <2>5
    <3>2. Found(u)' = Found(u)
      BY <1>6, <2>4, <3>1 DEF Found
    <3>3. \A d \in Conn : conn'[d].user = u => d # c
      BY <1>7, <2>5
    <3>4. \A d \in Conn : conn'[d].user = u =>
               /\ conn'[d].tag \in {0, tagCounter}
               /\ conn'[d].storage # Nil => conn'[d].storage = Found(u)
      BY <1>1, <1>8, <3>3 DEF Sole
    <3>5. Sole(u)'
      BY <1>1, <1>6, <3>1, <3>2, <3>4 DEF Sole
    <3> QED BY <1>10, <2>1, <3>2, <3>5
  <2>6. CASE u = v
    <3>1. k = tagCounter /\ Found(u) = Nil
      BY <1>5, <1>10, <2>4, <2>6 DEF Found
    <3>2. Found(u)' = s
      BY <1>6, <2>2, <2>4, <2>6, <3>1 DEF Found
    <3>3. \A t \in Tag : t # tagCounter => counters'[t][u] = Nil
      BY <1>1, <2>3, <3>1 DEF Sole
    <3>4. \A q \in Controller : slot[q][u] = Nil /\ cur[q].user # u
      <4>1. \A q \in Controller : cur[q].user = u => cur[q].storage \in Storage
        BY DEF TypeOK, NoCur
      <4> QED BY <1>1, <3>1, <4>1 DEF Sole
    <3>5. ASSUME NEW d \in Conn, conn'[d].user = u
          PROVE  /\ conn'[d].tag \in {0, tagCounter}
                 /\ conn'[d].storage # Nil => conn'[d].storage = s
      <4>1. CASE d = c
        BY <1>7, <3>1, <4>1
      <4>2. CASE d # c
        BY <1>1, <1>8, <3>1, <3>5, <4>2 DEF Sole
      <4> QED BY <4>1, <4>2
    <3>6. Sole(u)'
      BY <1>1, <1>6, <3>2, <3>3, <3>4, <3>5 DEF Sole
    <3> QED BY <1>10, <2>1, <3>1, <3>2, <3>6
  <2> QED BY <2>5, <2>6
<1> QED BY <1>4, <1>9, <1>10 DEF GetCounter

\* Who is being deleted is noted.
LEMMA SoleUser ==
    ASSUME TypeOK, OneStorage, NEW v \in User, UserStep(v), NEW u \in User \ gaps'
    PROVE  u \notin gaps /\ Sole(u)' /\ Found(u)' = Found(u)
<1> USE TrafficAssumption, Numbers
<1>1. gaps \subseteq gaps'
  BY DEF UserStep, Unlist, DeleteUID, DeleteCounter, DeleteLimit, AddUser, histVars
<1>2. u \notin gaps /\ Sole(u)
  BY <1>1 DEF OneStorage
<1>3. UNCHANGED <<conn, tagCounter, slot, cur>>
  BY DEF UserStep, Unlist, DeleteUID, DeleteCounter, DeleteLimit, AddUser, repVars
<1>4. phase'[u] \in {"served", "unlisted"}
  <2>1. CASE u # v
    <3>1. phase'[u] = phase[u]
      BY <2>1 DEF UserStep, Unlist, DeleteUID, DeleteCounter, DeleteLimit, AddUser,
                  TypeOK
    <3> QED BY <1>2, <3>1 DEF Sole
  <2>2. CASE u = v
    <3>1. ~DeleteUID(v)
      BY <2>2 DEF DeleteUID
    <3>2. ~DeleteCounter(v) /\ ~DeleteLimit(v) /\ ~AddUser(v)
      BY <1>2, <2>2 DEF Sole, DeleteCounter, DeleteLimit, AddUser
    <3> QED BY <2>2, <3>1, <3>2 DEF UserStep, Unlist, TypeOK
  <2> QED BY <2>1, <2>2
<1>5. \A t \in Tag : counters'[t][u] = counters[t][u]
  <2>1. CASE DeleteCounter(v)
    <3>1. u # v
      BY <1>2, <2>1 DEF Sole, DeleteCounter
    <3>2. \A t \in Tag : \/ counters'[t] = counters[t]
                         \/ counters'[t] = [counters[t] EXCEPT ![v] = Nil]
      BY <2>1 DEF DeleteCounter
    <3>3. \A t \in Tag : counters[t] \in [User -> Storage \cup {Nil}]
      BY DEF TypeOK
    <3> QED BY <3>1, <3>2, <3>3
  <2>2. CASE ~DeleteCounter(v)
    BY <2>2 DEF UserStep, Unlist, DeleteUID, DeleteLimit, AddUser
  <2> QED BY <2>1, <2>2
<1>6. Found(u)' = Found(u)
  <2>1. tagCounter = 0 \/ tagCounter \in Tag
    BY DEF TypeOK, Tag
  <2> QED BY <1>3, <1>5, <2>1 DEF Found
<1>7. Sole(u)'
  BY <1>2, <1>3, <1>4, <1>5, <1>6 DEF Sole
<1> QED BY <1>2, <1>6, <1>7

LEMMA SoleElse ==
    ASSUME TypeOK, TypeOK', OneStorage, NEW c, NEW v, ElseStep(c, v), NEW u \in User \ gaps'
    PROVE  u \notin gaps /\ Sole(u)'
<1> USE TrafficAssumption
<1>n. NoConn.user = Nil
  BY DEF NoConn
<1>1. CASE v \in User /\ UserStep(v)
  BY <1>1, SoleUser
<1>2. CASE ~(v \in User /\ UserStep(v))
  <2>1. gaps \subseteq gaps'
    BY <1>2 DEF ElseStep, ConnStep, LoadTagCounter, StoreTagCounter, GetCounter,
                Carry, CloseConn,
                EdgeCarry, Replace, vars, histVars
  <2>2. u \notin gaps /\ Sole(u)
    BY <2>1 DEF OneStorage
  <2>o. \A d \in Conn : conn[d].user = u =>
               /\ conn[d].tag \in {0, tagCounter}
               /\ conn[d].storage # Nil => conn[d].storage = Found(u)
    BY <2>2 DEF Sole
  <2>3. ASSUME UNCHANGED <<counters, tagCounter, slot, cur, phase, conn>> PROVE Sole(u)'
    BY <2>2, <2>3, <2>o, SoleSame
  <2>4. ASSUME (c \in Conn /\ Carry(c)) \/ EdgeCarry(v) \/ Replace \/ UNCHANGED vars
        PROVE  Sole(u)'
    BY <2>3, <2>4 DEF Carry, EdgeCarry, Replace, vars, coreVars, repVars
  <2>5. ASSUME c \in Conn, NEW w \in User, LoadTagCounter(c, w) PROVE Sole(u)'
    <3>1. UNCHANGED <<counters, tagCounter, slot, cur, phase>>
      BY <2>5 DEF LoadTagCounter, repVars
    <3>2. /\ conn'[c].tag = tagCounter /\ conn'[c].storage = Nil
          /\ \A d \in Conn : d # c => conn'[d] = conn[d]
      BY <2>5 DEF LoadTagCounter, TypeOK
    <3>3. ASSUME NEW d \in Conn, conn'[d].user = u
          PROVE  /\ conn'[d].tag \in {0, tagCounter}
                 /\ conn'[d].storage # Nil => conn'[d].storage = Found(u)
      BY <2>o, <3>2, <3>3
    <3> QED BY <2>2, <3>1, <3>3, SoleSame
  <2>6. ASSUME c \in Conn, CloseConn(c) PROVE Sole(u)'
    <3>1. UNCHANGED <<counters, tagCounter, slot, cur, phase>>
      BY <2>6 DEF CloseConn, repVars
    <3>2. conn'[c] = NoConn /\ \A d \in Conn : d # c => conn'[d] = conn[d]
      BY <2>6 DEF CloseConn, TypeOK
    <3>3. ASSUME NEW d \in Conn, conn'[d].user = u
          PROVE  /\ conn'[d].tag \in {0, tagCounter}
                 /\ conn'[d].storage # Nil => conn'[d].storage = Found(u)
      <4>1. d # c
        BY <1>n, <3>2, <3>3
      <4> QED BY <2>o, <3>2, <3>3, <4>1
    <3> QED BY <2>2, <3>1, <3>3, SoleSame
  <2>7. ASSUME c \in Conn, StoreTagCounter(c) PROVE Sole(u)'
    BY <2>7, SoleStored
  <2>8. ASSUME c \in Conn, NEW s \in Storage, GetCounter(c, s) PROVE Sole(u)'
    BY <2>2, <2>8, SoleGot
  <2> QED BY <1>2, <2>2, <2>4, <2>5, <2>6, <2>7, <2>8 DEF ElseStep, ConnStep
<1> QED BY <1>1, <1>2

LEMMA LostElse ==
    ASSUME TypeOK, TypeOK', OwnInv, OneStorage, LostInv, NEW c, NEW v, ElseStep(c, v)
    PROVE  LostInv' /\ OneStorage'
<1> USE TrafficAssumption
<1>o. UNCHANGED <<slice, report, restore, panel>>
  BY DEF ElseStep, ConnStep, LoadTagCounter, StoreTagCounter, GetCounter, Carry,
         CloseConn,
         EdgeCarry, UserStep, Unlist, DeleteUID, DeleteCounter, DeleteLimit, AddUser, Replace, vars,
         repVars, histVars
<1>g. gaps \subseteq gaps'
  BY DEF ElseStep, ConnStep, LoadTagCounter, StoreTagCounter, GetCounter, Carry,
         CloseConn,
         EdgeCarry, UserStep, Unlist, DeleteUID, DeleteCounter, DeleteLimit, AddUser, Replace, vars,
         repVars, histVars
<1>1. OneStorage'
  BY SoleElse DEF OneStorage
<1>2. ASSUME NEW u \in AnyUser, u \notin gaps' PROVE carried'[u] <= Account(u)' + At(u)'
  <2>a. /\ Account(u)' = Account(u) + (edge'[u] - edge[u])
        /\ Account(u) \in Int /\ edge[u] \in Int /\ edge'[u] \in Int
    BY <1>o, AccountKept
  <2>c. carried[u] \in Nat
    BY DEF TypeOK
  <2>d. carried[u] <= Account(u) + At(u) /\ At(u) \in Nat
    BY <1>2, <1>g, AtType DEF LostInv
  <2>s. u \in User => Sole(u)
    BY <1>2, <1>g DEF OneStorage
  <2>1. CASE c \in Conn /\ Carry(c)
    <3>1. conn[c].user \in User /\ conn[c].storage \in Storage
      <4>1. conn[c].at = "open" /\ conn[c].at # NoConn.at
        BY <2>1 DEF Carry, NoConn
      <4> QED BY <2>1, <4>1, ConnCases
    <3>2. PICK w \in User, m \in Storage : w = conn[c].user /\ m = conn[c].storage
      BY <3>1
    <3>3. Owns(m, w) /\ edge' = edge /\ UNCHANGED <<counters, tagCounter>>
      BY <2>1, <3>2 DEF Carry, Owns
    <3>4. bytes'[m] = bytes[m] + 1 /\ \A s \in Storage \ {m} : bytes'[s] = bytes[s]
      BY <2>1, <3>2 DEF Carry, TypeOK
    <3>5. carried'[u] = IF u = w THEN carried[u] + 1 ELSE carried[u]
      BY <2>1, <3>2 DEF Carry, TypeOK
    <3>6. Found(u)' = Found(u)
      BY <3>3 DEF Found
    <3>7. CASE u = w
      <4>1. Found(u) = m /\ m # Nil
        BY <2>1, <2>s, <3>2, <3>7 DEF Sole
      <4>2. At(u) = bytes[m] /\ At(u)' = bytes[m] + 1
        BY <3>4, <3>6, <3>7, <4>1 DEF At
      <4> QED BY <2>a, <2>c, <2>d, <3>3, <3>5, <3>7, <4>2
    <3>8. CASE u # w
      <4>1. At(u)' = At(u)
        BY <3>3, <3>4, <3>6, <3>8, AtElse
      <4> QED BY <2>a, <2>c, <2>d, <3>3, <3>5, <3>8, <4>1
    <3> QED BY <3>7, <3>8
  <2>2. CASE v \in AnyUser /\ EdgeCarry(v)
    <3>1. UNCHANGED <<bytes, counters, tagCounter>>
      BY <2>2 DEF EdgeCarry, coreVars
    <3>2. At(u)' = At(u)
      BY <3>1, AtKept
    <3>3. /\ carried'[u] = IF u = v THEN carried[u] + 1 ELSE carried[u]
          /\ edge'[u] = IF u = v THEN edge[u] + 1 ELSE edge[u]
      BY <2>2 DEF EdgeCarry, TypeOK
    <3> QED BY <2>a, <2>c, <2>d, <3>2, <3>3
  <2>3. CASE ~(c \in Conn /\ Carry(c)) /\ ~(v \in AnyUser /\ EdgeCarry(v))
    <3>1. UNCHANGED <<carried, edge>>
      BY <2>3 DEF ElseStep, ConnStep, LoadTagCounter, StoreTagCounter, GetCounter,
                  CloseConn,
           UserStep, Unlist, DeleteUID, DeleteCounter, DeleteLimit, AddUser, Replace, vars,
           repVars, histVars
    <3>2. At(u)' >= At(u)
      <4>0. ASSUME UNCHANGED <<bytes, counters, tagCounter>> PROVE At(u)' >= At(u)
        BY <2>d, <4>0, AtKept
      <4>1. ASSUME v \in User, UserStep(v) PROVE At(u)' >= At(u)
        <5>1. UNCHANGED bytes
          BY <4>1 DEF UserStep, Unlist, DeleteUID, DeleteCounter, DeleteLimit,
                      AddUser
        <5>2. u \in User => Found(u)' = Found(u)
          BY <1>2, <4>1, SoleUser
        <5>3. At(u)' = At(u)
          BY <5>1, <5>2 DEF At
        <5> QED BY <2>d, <5>3
      <4>2. ASSUME c \in Conn, StoreTagCounter(c) PROVE At(u)' >= At(u)
        <5>1. u \in User => Found(u)' = Nil /\ Found(u) = Nil
          BY <1>2, <4>2, SoleStored
        <5>2. At(u)' = 0 /\ At(u) = 0
          BY <5>1 DEF At
        <5> QED BY <5>2
      <4>3. ASSUME c \in Conn, NEW s \in Storage, GetCounter(c, s) PROVE At(u)' >= At(u)
        <5>1. CASE u \notin User
          <6>1. At(u)' = 0 /\ At(u) = 0
            BY <5>1 DEF At
          <6> QED BY <6>1
        <5>2. CASE u \in User
          <6>1. \/ UNCHANGED <<bytes, counters>>
                \/ /\ bytes' = [bytes EXCEPT ![s] = 0] /\ \A w \in User : ~Owns(s, w)
                   /\ \/ Found(u) = Nil /\ Found(u)' = s
                      \/ Found(u)' = Found(u)
            BY <1>2, <1>g, <4>3, <5>2, SoleGot
          <6>2. UNCHANGED tagCounter
            BY <4>3 DEF GetCounter
          <6>3. CASE /\ bytes' = [bytes EXCEPT ![s] = 0]
                     /\ Found(u) = Nil /\ Found(u)' = s
            <7>1. At(u) = 0 /\ At(u)' = 0
              BY <5>2, <6>3 DEF At, TypeOK
            <7> QED BY <7>1
          <6>4. CASE /\ bytes' = [bytes EXCEPT ![s] = 0] /\ \A w \in User : ~Owns(s, w)
                     /\ Found(u)' = Found(u)
            <7>1. Found(u) # Nil => Found(u) \in Storage /\ Found(u) # s
              BY <5>2, <6>4, FoundOwned
            <7>2. Found(u) # Nil => bytes'[Found(u)] = bytes[Found(u)]
              BY <6>4, <7>1 DEF TypeOK
            <7>3. At(u)' = At(u)
              BY <5>2, <6>4, <7>2 DEF At
            <7> QED BY <2>d, <7>3
          <6> QED BY <4>0, <6>1, <6>2, <6>3, <6>4
        <5> QED BY <5>1, <5>2
      <4>4. ASSUME c \in Conn, NEW w \in User, LoadTagCounter(c, w) PROVE At(u)' >= At(u)
        BY <4>0, <4>4 DEF LoadTagCounter
      <4>5. ASSUME c \in Conn, CloseConn(c) PROVE At(u)' >= At(u)
        BY <4>0, <4>5 DEF CloseConn
      <4>6. ASSUME Replace \/ UNCHANGED vars PROVE At(u)' >= At(u)
        BY <4>0, <4>6 DEF Replace, vars, coreVars
      <4> QED BY <2>3, <4>1, <4>2, <4>3, <4>4, <4>5, <4>6 DEF ElseStep, ConnStep
    <3>3. At(u)' \in Int
      BY AtAfter
    <3> QED BY <2>a, <2>c, <2>d, <3>1, <3>2, <3>3
  <2> QED BY <2>1, <2>2, <2>3
<1> QED BY <1>1, <1>2 DEF LostInv

-----------------------------------------------------------------------------
(* The theorems.                                                           *)

\* At first there are no bytes.
LEMMA AccountInit == Init => OwnInv /\ OneStorage /\ TwiceInv /\ LostInv
<1> SUFFICES ASSUME Init PROVE OwnInv /\ OneStorage /\ TwiceInv /\ LostInv
  OBVIOUS
<1> USE TrafficAssumption, Numbers
<1>1. TypeOK
  BY TypeInit
<1>2. \A s \in Storage : \A u \in User : ~Owns(s, u)
  BY DEF Init, Owns, Nowhere, NoConn, NoCur
<1>3. OwnInv
  BY <1>2 DEF OwnInv
<1>4. OneStorage
  BY DEF Init, OneStorage, Sole, Nowhere, NoConn, NoCur
<1>5. ASSUME NEW u \in AnyUser PROVE InFlight(u) = 0 /\ panel[u] = 0 /\ edge[u] = 0 /\ carried[u] = 0
  <2>1. PICK f : f = [r \in Controller |-> Part(r, u)]
    OBVIOUS
  <2>2. \A r \in Controller : f[r] = 0
    BY <2>1 DEF Init, Part, Zero
  <2>3. f \in [Controller -> Int]
    BY <2>1, <2>2
  <2>4. SumFunction(f) = 0
    BY <2>2, <2>3, SumZero
  <2>5. InFlight(u) = SumFunction(f)
    BY <1>1, <2>1, PartIs
  <2> QED BY <2>4, <2>5 DEF Init, Zero
<1>6. ASSUME NEW u \in AnyUser PROVE Stored(u) = 0
  <2>1. PICK f : f = [s \in Storage |-> Kept(s, u)]
    OBVIOUS
  <2>2. \A s \in Storage : f[s] = 0
    BY <2>1 DEF Init, Kept
  <2>3. f \in [Storage -> Int]
    BY <2>1, <2>2
  <2>4. SumFunction(f) = 0
    BY <2>2, <2>3, SumZero
  <2> QED BY <2>1, <2>4 DEF Stored
<1>7. TwiceInv
  <2>1. \A u \in AnyUser : Account(u) = 0 /\ Stored(u) = 0 /\ carried[u] = 0
    BY <1>5, <1>6 DEF Account
  <2> QED BY <2>1 DEF TwiceInv
<1>8. LostInv
  <2>1. \A u \in AnyUser : Account(u) = 0 /\ At(u) \in Nat /\ carried[u] = 0
    BY <1>1, <1>5, AtType DEF Account
  <2> QED BY <2>1 DEF LostInv
<1> QED BY <1>3, <1>4, <1>7, <1>8

LEMMA InvNext == IInv /\ [Next]_vars => IInv'
<1> SUFFICES ASSUME TypeOK, TagInv, ReportInv, OwnInv, OneStorage, TwiceInv, LostInv, [Next]_vars
             PROVE  IInv'
  BY DEF IInv
<1>1. TypeOK' /\ TagInv' /\ ReportInv'
  BY TypeNext, ControlNext
<1>2. OwnInv'
  BY OwnNext
<1>3. ASSUME NEW r \in Controller,
             ReportStep(r) \/ \E applied \in BOOLEAN : FaultStep(r, applied)
      PROVE  OneStorage' /\ TwiceInv' /\ LostInv'
  BY <1>1, <1>3, TwiceReport, LostReport
<1>4. ASSUME NEW c, NEW v, ElseStep(c, v) PROVE OneStorage' /\ TwiceInv' /\ LostInv'
  BY <1>1, <1>4, TwiceElse, LostElse
<1>5. setup.conns \subseteq Conn /\ setup.edge \subseteq AnyUser
  BY TrafficAssumption DEF TypeOK, AnyUser
<1>6. \/ \E r \in Controller : ReportStep(r) \/ \E applied \in BOOLEAN : FaultStep(r, applied)
      \/ \E c, v : ElseStep(c, v)
  BY <1>5 DEF Next, ElseStep
<1> QED BY <1>1, <1>2, <1>3, <1>4, <1>6 DEF IInv

LEMMA Inductive == Spec => []IInv
<1>1. Init => IInv
  BY TypeInit, AccountInit DEF IInv
<1> QED BY <1>1, InvNext, PTL DEF Spec

\* Every variable of TrafficReport keeps its type: no connection counts on a
\* TrafficStorage it does not have, and no report swaps, rolls back or restores
\* what is not there.
THEOREM TypeCorrect == Spec => []TypeOK
<1>1. IInv => TypeOK
  BY DEF IInv
<1> QED BY <1>1, Inductive, PTL

\* The bytes of a user are booked, wait, or are part of a running report,
\* while others are deleted, requests fail and the controller is replaced, but
\* for the exceptions NoByteLost names.
THEOREM NothingLost == Spec => []NoByteLost
<1>1. IInv => NoByteLost
  <2> SUFFICES ASSUME IInv, NEW u \in AnyUser \ gaps
               PROVE  carried[u] <= panel[u] + Waiting(u) + InFlight(u)
    BY DEF NoByteLost
  <2>1. TypeOK /\ carried[u] <= Account(u) + At(u)
    BY DEF IInv, LostInv
  <2>2. Waiting(u) = edge[u] + At(u)
    <3>1. tagCounter \in Nat
      BY <2>1, Numbers DEF TypeOK
    <3> QED BY <3>1 DEF Waiting, At, Found
  <2>3. InFlight(u) \in Int /\ At(u) \in Int
    <3>1. InFlight(u) \in Int
      BY <2>1, PartIs
    <3>2. At(u) \in Nat
      BY <2>1, AtType
    <3> QED BY <3>1, <3>2
  <2>4. panel[u] \in Int /\ edge[u] \in Int /\ carried[u] \in Int
    BY <2>1 DEF TypeOK
  <2> QED BY <2>1, <2>2, <2>3, <2>4 DEF Account
<1> QED BY <1>1, Inductive, PTL

\* Swapping, rolling back, draining and restoring create no traffic: a byte is
\* booked twice only when the answer to a booked request was lost.
THEOREM NothingTwice == Spec => []NoByteTwice
<1>1. IInv => NoByteTwice
  <2> SUFFICES ASSUME IInv, NEW u \in AnyUser \ dups
               PROVE  panel[u] + Waiting(u) + InFlight(u) <= carried[u]
    BY DEF NoByteTwice
  <2>1. TypeOK /\ Account(u) + Stored(u) <= carried[u]
    BY DEF IInv, TwiceInv
  <2>2. Waiting(u) = edge[u] + At(u)
    <3>1. tagCounter \in Nat
      BY <2>1, Numbers DEF TypeOK
    <3> QED BY <3>1 DEF Waiting, At, Found
  <2>3. InFlight(u) \in Int /\ At(u) \in Int /\ Stored(u) \in Int
    <3>1. InFlight(u) \in Int
      BY <2>1, PartIs
    <3>2. At(u) \in Nat
      BY <2>1, AtType
    <3>3. Stored(u) \in Int
      BY <2>1, StoredInt
    <3> QED BY <3>1, <3>2, <3>3
  <2>4. panel[u] \in Int /\ edge[u] \in Int /\ carried[u] \in Int
    BY <2>1 DEF TypeOK
  <2>5. At(u) <= Stored(u)
    <3>1. CASE u \in User /\ Found(u) # Nil
      <4>1. Found(u) \in Storage /\ Owns(Found(u), u)
        BY <2>1, <3>1, FoundOwned
      <4>2. Kept(Found(u), u) = At(u)
        BY <3>1, <4>1 DEF Kept, At
      <4>3. \A s \in Storage : Kept(s, u) <= Stored(u)
        BY <2>1, StoredInt
      <4> QED BY <4>1, <4>2, <4>3
    <3>2. CASE ~(u \in User /\ Found(u) # Nil)
      <4>1. At(u) = 0
        BY <3>2 DEF At
      <4>3. 0 <= Stored(u)
        BY <2>1, StoredPositive
      <4> QED BY <4>1, <4>3
    <3> QED BY <3>1, <3>2
  <2> QED BY <2>1, <2>2, <2>3, <2>4, <2>5 DEF Account
<1> QED BY <1>1, Inductive, PTL

-----------------------------------------------------------------------------
(* The inductive invariant of Links.                                       *)

\* A whole connection is where CloseAll looks for it, or in its hands; and
\* whatever CloseAll finds or holds is a connection of that manager.
Registered ==
    /\ \A c \in Link : place[c] = "open" => c \in links[mine[c]] \/ c \in batch
    /\ \A m \in Manager : \A c \in links[m] : mine[c] = m /\ place[c] = "open"
    /\ \A c \in batch : mine[c] = target /\ place[c] \in {"open", "half", "closed"}
    /\ batch # {} => del = "closing"

\* During a deletion nobody is authenticated, so that every connection is one
\* of a life that is over.
Lives ==
    /\ \A c \in Link : since[c] <= life
    /\ del # "idle" => ~proxy /\ \A c \in Link : place[c] # "none" => since[c] < life

\* Nobody has to close c any more, or nobody can.
Excused(c) == c \in late \/ mine[c] \in orphans

\* The deletion that is meant for c has not looked up the LinkManager yet.
Current(c) == since[c] = life \/ (since[c] = life - 1 /\ del = "load")

\* A connection that has a LinkManager has the user's, until the deletion looks
\* it up; then the open ones have the one that CloseAll empties.
Held ==
    \A c \in Link :
        /\ place[c] \in {"add", "open"} /\ Current(c)
               => mine[c] = managers \/ Excused(c)
        /\ place[c] = "open" /\ since[c] = life - 1 /\ del \in {"closeAll", "closing"}
               => mine[c] = target \/ Excused(c)

LinksInv == LinksTypeOK /\ Registered /\ Lives /\ Held /\ DeletedUserCut

-----------------------------------------------------------------------------
(* Each part of it, step by step.                                          *)

\* At first there are no connections.
LEMMA LinksBegin == LinksInit => LinksInv
<1> SUFFICES ASSUME LinksInit PROVE LinksInv
  OBVIOUS
<1> USE LinksAssumption DEF LinksInit
<1>1. LinksTypeOK
  BY DEF LinksTypeOK
<1>2. Registered /\ Lives /\ Held /\ DeletedUserCut
  BY DEF Registered, Lives, Held, Current, DeletedUserCut, Outlived
<1> QED BY <1>1, <1>2 DEF LinksInv

\* Types: a step that uses a LinkManager has one.
LEMMA LinksTypeNext == LinksTypeOK /\ [LinksNext]_linksVars => LinksTypeOK'
<1> SUFFICES ASSUME LinksTypeOK, [LinksNext]_linksVars PROVE LinksTypeOK'
  OBVIOUS
<1> USE LinksAssumption DEF LinksTypeOK, userVars, connVars, delVars
<1>1. ASSUME NEW c \in Link, Accept(c) PROVE LinksTypeOK'
  BY <1>1 DEF Accept, MoveOn
<1>2. ASSUME NEW c \in Link, CheckLimit(c) PROVE LinksTypeOK'
  BY <1>2 DEF CheckLimit, MoveOn
<1>3. ASSUME NEW c \in Link, Reject(c) PROVE LinksTypeOK'
  BY <1>3 DEF Reject, MoveOn
<1>4. ASSUME NEW c \in Link, LoadManager(c) PROVE LinksTypeOK'
  BY <1>4 DEF LoadManager, MoveOn
<1>5. ASSUME NEW c \in Link, StoreManager(c) PROVE LinksTypeOK'
  BY <1>5 DEF StoreManager, MoveOn
<1>6. ASSUME NEW c \in Link, AddLink(c) PROVE LinksTypeOK'
  BY <1>6 DEF AddLink, MoveOn
<1>7. ASSUME NEW c \in Link, Forget(c) PROVE LinksTypeOK'
  BY <1>7 DEF Forget, MoveOn
<1>8. ASSUME NEW c \in Link, EndLink(c) PROVE LinksTypeOK'
  BY <1>8 DEF EndLink, CloseWriter, MoveOn
<1>9. ASSUME NEW c \in Link, CloseOne(c) PROVE LinksTypeOK'
  BY <1>9 DEF CloseOne, MoveOn
<1>10. ASSUME NEW m \in Manager, Collect(m) PROVE LinksTypeOK'
  BY <1>10 DEF Collect
<1>11. CASE RemoveUser
  <2>1. proxy' \in BOOLEAN /\ known' \in BOOLEAN
    BY <1>11, Zenon DEF RemoveUser, LinksTypeOK
  <2>2. life' \in 0 .. MaxLife
    BY <1>11 DEF RemoveUser
  <2> QED BY <1>11, <2>1, <2>2 DEF RemoveUser, LinksTypeOK, connVars
<1>12. CASE LoadTarget
  BY <1>12 DEF LoadTarget
<1>13. CASE CloseAll
  BY <1>13 DEF CloseAll
<1>14. CASE ClosedBatch
  BY <1>14 DEF ClosedBatch
<1>15. CASE DropManager
  BY <1>15 DEF DropManager
<1>16. CASE ForgetLimits
  BY <1>16 DEF ForgetLimits
<1>17. CASE AddUsers
  BY <1>17 DEF AddUsers
<1>18. CASE AddLimits
  BY <1>18 DEF AddLimits
<1>19. CASE UNCHANGED linksVars
  BY <1>19 DEF linksVars
<1> QED
  BY <1>1, <1>2, <1>3, <1>4, <1>5, <1>6, <1>7, <1>8, <1>9, <1>10,
     <1>11, <1>12, <1>13, <1>14, <1>15, <1>16, <1>17, <1>18, <1>19
     DEF LinksNext, Dispatch, Delete

\* A connection leaves its manager's links only when it closes or when
\* CloseAll takes it.
LEMMA RegisteredNext == LinksTypeOK /\ Registered /\ [LinksNext]_linksVars => Registered'
<1> SUFFICES ASSUME LinksTypeOK, Registered, [LinksNext]_linksVars PROVE Registered'
  OBVIOUS
<1> USE DEF LinksTypeOK, Registered, userVars, connVars, delVars
<1>1. ASSUME NEW c \in Link, Accept(c) PROVE Registered'
  BY <1>1 DEF Accept, MoveOn
<1>2. ASSUME NEW c \in Link, CheckLimit(c) PROVE Registered'
  BY <1>2 DEF CheckLimit, MoveOn
<1>3. ASSUME NEW c \in Link, Reject(c) PROVE Registered'
  BY <1>3 DEF Reject, MoveOn
<1>4. ASSUME NEW c \in Link, LoadManager(c) PROVE Registered'
  BY <1>4 DEF LoadManager, MoveOn
<1>5. ASSUME NEW c \in Link, StoreManager(c) PROVE Registered'
  BY <1>5 DEF StoreManager, MoveOn
<1>6. ASSUME NEW c \in Link, AddLink(c) PROVE Registered'
  BY <1>6 DEF AddLink, MoveOn
<1>7. ASSUME NEW c \in Link, Forget(c) PROVE Registered'
  BY <1>7 DEF Forget, MoveOn
<1>8. ASSUME NEW c \in Link, EndLink(c) PROVE Registered'
  BY <1>8 DEF EndLink, CloseWriter, MoveOn
<1>9. ASSUME NEW c \in Link, CloseOne(c) PROVE Registered'
  BY <1>9 DEF CloseOne, MoveOn
<1>10. ASSUME NEW m \in Manager, Collect(m) PROVE Registered'
  BY <1>10 DEF Collect
<1>11. CASE RemoveUser
  BY <1>11 DEF RemoveUser
<1>12. CASE LoadTarget
  BY <1>12 DEF LoadTarget
<1>13. CASE CloseAll
  BY <1>13 DEF CloseAll
<1>14. CASE ClosedBatch
  BY <1>14 DEF ClosedBatch
<1>15. CASE DropManager
  BY <1>15 DEF DropManager
<1>16. CASE ForgetLimits
  BY <1>16 DEF ForgetLimits
<1>17. CASE AddUsers
  BY <1>17 DEF AddUsers
<1>18. CASE AddLimits
  BY <1>18 DEF AddLimits
<1>19. CASE UNCHANGED linksVars
  BY <1>19 DEF linksVars
<1> QED
  BY <1>1, <1>2, <1>3, <1>4, <1>5, <1>6, <1>7, <1>8, <1>9, <1>10,
     <1>11, <1>12, <1>13, <1>14, <1>15, <1>16, <1>17, <1>18, <1>19
     DEF LinksNext, Dispatch, Delete

\* The life of the user only grows, at a moment without a deletion.
LEMMA LivesNext == LinksTypeOK /\ Registered /\ Lives /\ [LinksNext]_linksVars => Lives'
<1> SUFFICES ASSUME LinksTypeOK, Registered, Lives, [LinksNext]_linksVars PROVE Lives'
  OBVIOUS
<1> USE DEF LinksTypeOK, Lives, userVars, connVars, delVars
<1>1. ASSUME NEW c \in Link, Accept(c) PROVE Lives'
  BY <1>1 DEF Accept, MoveOn
<1>2. ASSUME NEW c \in Link, CheckLimit(c) PROVE Lives'
  BY <1>2 DEF CheckLimit, MoveOn
<1>3. ASSUME NEW c \in Link, Reject(c) PROVE Lives'
  BY <1>3 DEF Reject, MoveOn
<1>4. ASSUME NEW c \in Link, LoadManager(c) PROVE Lives'
  BY <1>4 DEF LoadManager, MoveOn
<1>5. ASSUME NEW c \in Link, StoreManager(c) PROVE Lives'
  BY <1>5 DEF StoreManager, MoveOn
<1>6. ASSUME NEW c \in Link, AddLink(c) PROVE Lives'
  BY <1>6 DEF AddLink, MoveOn
<1>7. ASSUME NEW c \in Link, Forget(c) PROVE Lives'
  BY <1>7 DEF Forget, MoveOn
<1>8. ASSUME NEW c \in Link, EndLink(c) PROVE Lives'
  BY <1>8 DEF EndLink, CloseWriter, MoveOn
<1>9. ASSUME NEW c \in Link, CloseOne(c) PROVE Lives'
  BY <1>9 DEF CloseOne, MoveOn, Registered
<1>10. ASSUME NEW m \in Manager, Collect(m) PROVE Lives'
  BY <1>10 DEF Collect
<1>11. CASE RemoveUser
  BY <1>11 DEF RemoveUser
<1>12. CASE LoadTarget
  BY <1>12 DEF LoadTarget
<1>13. CASE CloseAll
  BY <1>13 DEF CloseAll
<1>14. CASE ClosedBatch
  BY <1>14 DEF ClosedBatch
<1>15. CASE DropManager
  BY <1>15 DEF DropManager
<1>16. CASE ForgetLimits
  BY <1>16 DEF ForgetLimits
<1>17. CASE AddUsers
  BY <1>17 DEF AddUsers
<1>18. CASE AddLimits
  BY <1>18 DEF AddLimits
<1>19. CASE UNCHANGED linksVars
  BY <1>19 DEF linksVars
<1> QED
  BY <1>1, <1>2, <1>3, <1>4, <1>5, <1>6, <1>7, <1>8, <1>9, <1>10,
     <1>11, <1>12, <1>13, <1>14, <1>15, <1>16, <1>17, <1>18, <1>19
     DEF LinksNext, Dispatch, Delete

\* Who has a manager that is no longer the user's, or not the one that is
\* being emptied, is excused.
LEMMA HeldNext == LinksTypeOK /\ Lives /\ Held /\ [LinksNext]_linksVars => Held'
<1> SUFFICES ASSUME LinksTypeOK, Lives, Held, [LinksNext]_linksVars PROVE Held'
  OBVIOUS
<1> USE DEF LinksTypeOK, Lives, Held, Current, Excused, userVars, connVars, delVars
<1>1. ASSUME NEW c \in Link, Accept(c) PROVE Held'
  BY <1>1 DEF Accept, MoveOn
<1>2. ASSUME NEW c \in Link, CheckLimit(c) PROVE Held'
  BY <1>2 DEF CheckLimit, MoveOn
<1>3. ASSUME NEW c \in Link, Reject(c) PROVE Held'
  BY <1>3 DEF Reject, MoveOn
<1>4. ASSUME NEW c \in Link, LoadManager(c) PROVE Held'
  BY <1>4 DEF LoadManager, MoveOn
<1>5. ASSUME NEW c \in Link, StoreManager(c) PROVE Held'
  BY <1>5 DEF StoreManager, MoveOn
<1>6. ASSUME NEW c \in Link, AddLink(c) PROVE Held'
  BY <1>6 DEF AddLink, MoveOn, TooLate
<1>7. ASSUME NEW c \in Link, Forget(c) PROVE Held'
  BY <1>7 DEF Forget, MoveOn
<1>8. ASSUME NEW c \in Link, EndLink(c) PROVE Held'
  BY <1>8 DEF EndLink, CloseWriter, MoveOn
<1>9. ASSUME NEW c \in Link, CloseOne(c) PROVE Held'
  BY <1>9 DEF CloseOne, MoveOn
<1>10. ASSUME NEW m \in Manager, Collect(m) PROVE Held'
  BY <1>10 DEF Collect
<1>11. CASE RemoveUser
  BY <1>11 DEF RemoveUser
<1>12. CASE LoadTarget
  BY <1>12 DEF LoadTarget
<1>13. CASE CloseAll
  BY <1>13 DEF CloseAll
<1>14. CASE ClosedBatch
  BY <1>14 DEF ClosedBatch
<1>15. CASE DropManager
  BY <1>15 DEF DropManager
<1>16. CASE ForgetLimits
  BY <1>16 DEF ForgetLimits
<1>17. CASE AddUsers
  BY <1>17 DEF AddUsers
<1>18. CASE AddLimits
  BY <1>18 DEF AddLimits
<1>19. CASE UNCHANGED linksVars
  BY <1>19 DEF linksVars
<1> QED
  BY <1>1, <1>2, <1>3, <1>4, <1>5, <1>6, <1>7, <1>8, <1>9, <1>10,
     <1>11, <1>12, <1>13, <1>14, <1>15, <1>16, <1>17, <1>18, <1>19
     DEF LinksNext, Dispatch, Delete

\* CloseAll leaves with an empty manager, and what comes later is late.
LEMMA CutNext ==
    LinksTypeOK /\ Registered /\ Lives /\ Held /\ DeletedUserCut /\ [LinksNext]_linksVars
        => DeletedUserCut'
<1> SUFFICES ASSUME LinksTypeOK, Registered, Lives, Held, DeletedUserCut, [LinksNext]_linksVars
             PROVE  DeletedUserCut'
  OBVIOUS
<1> USE DEF LinksTypeOK, Registered, Lives, Held, Current, DeletedUserCut, Excused, Outlived,
            userVars, connVars, delVars
<1>1. ASSUME NEW c \in Link, Accept(c) PROVE DeletedUserCut'
  BY <1>1 DEF Accept, MoveOn
<1>2. ASSUME NEW c \in Link, CheckLimit(c) PROVE DeletedUserCut'
  BY <1>2 DEF CheckLimit, MoveOn
<1>3. ASSUME NEW c \in Link, Reject(c) PROVE DeletedUserCut'
  BY <1>3 DEF Reject, MoveOn
<1>4. ASSUME NEW c \in Link, LoadManager(c) PROVE DeletedUserCut'
  BY <1>4 DEF LoadManager, MoveOn
<1>5. ASSUME NEW c \in Link, StoreManager(c) PROVE DeletedUserCut'
  BY <1>5 DEF StoreManager, MoveOn
<1>6. ASSUME NEW c \in Link, AddLink(c) PROVE DeletedUserCut'
  BY <1>6 DEF AddLink, MoveOn, TooLate
<1>7. ASSUME NEW c \in Link, Forget(c) PROVE DeletedUserCut'
  BY <1>7 DEF Forget, MoveOn
<1>8. ASSUME NEW c \in Link, EndLink(c) PROVE DeletedUserCut'
  BY <1>8 DEF EndLink, CloseWriter, MoveOn
<1>9. ASSUME NEW c \in Link, CloseOne(c) PROVE DeletedUserCut'
  BY <1>9 DEF CloseOne, MoveOn
<1>10. ASSUME NEW m \in Manager, Collect(m) PROVE DeletedUserCut'
  BY <1>10 DEF Collect
<1>11. CASE RemoveUser
  BY <1>11 DEF RemoveUser
<1>12. CASE LoadTarget
  BY <1>12 DEF LoadTarget
<1>13. CASE CloseAll
  BY <1>13 DEF CloseAll
<1>14. CASE ClosedBatch
  BY <1>14 DEF ClosedBatch
<1>15. CASE DropManager
  BY <1>15 DEF DropManager
<1>16. CASE ForgetLimits
  BY <1>16 DEF ForgetLimits
<1>17. CASE AddUsers
  BY <1>17 DEF AddUsers
<1>18. CASE AddLimits
  BY <1>18 DEF AddLimits
<1>19. CASE UNCHANGED linksVars
  BY <1>19 DEF linksVars
<1> QED
  BY <1>1, <1>2, <1>3, <1>4, <1>5, <1>6, <1>7, <1>8, <1>9, <1>10,
     <1>11, <1>12, <1>13, <1>14, <1>15, <1>16, <1>17, <1>18, <1>19
     DEF LinksNext, Dispatch, Delete

-----------------------------------------------------------------------------
(* The theorems of Links.                                                  *)

\* The parts together are inductive.
LEMMA LinksInductive == LinksSpec => []LinksInv
<1>1. LinksInv /\ [LinksNext]_linksVars => LinksInv'
  BY LinksTypeNext, RegisteredNext, LivesNext, HeldNext, CutNext DEF LinksInv
<1> QED BY <1>1, LinksBegin, PTL DEF LinksSpec

\* Every variable of Links keeps its type, and a nil LinkManager is never used.
THEOREM LinksTypeCorrect == LinksSpec => []LinksTypeOK
<1>1. LinksInv => LinksTypeOK
  BY DEF LinksInv
<1> QED BY <1>1, LinksInductive, PTL

\* DelUsers closes of every connection of the deleted user the direction that
\* its LinkManager holds, however many connections register while it closes
\* others, but for the two exceptions DeletedUserCut names.
THEOREM DeletionCuts == LinksSpec => []DeletedUserCut
<1>1. LinksInv => DeletedUserCut
  BY DEF LinksInv
<1> QED BY <1>1, LinksInductive, PTL

=============================================================================
