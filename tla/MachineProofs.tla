--------------------------- MODULE MachineProofs ---------------------------
(***************************************************************************)
(* Proofs about Machine, for any number of profiles, nodes, changes,       *)
(* failures and restarts.                                                  *)
(***************************************************************************)
EXTENDS Machine, FiniteSetTheorems, TLAPS

-----------------------------------------------------------------------------
(* The invariants.                                                         *)

\* Where Reconcile has fetched, and where the slots are those of nodes.
Reconciling == {"fetch", "remove", "apply"}
Before      == {"loop", "resolve", "fetch"}

\* No two slots of S have one key.
Unique(S) == \A c, d \in S : Key(c.entry) = Key(d.entry) => c = d

\* No slot that was applied, or started, is still to be.
Apart == \A c \in next, d \in left : Key(c.entry) # Key(d.entry)

\* The core serves exactly the slots of S.
Served(S) ==
    \A k \in Keys :
        \/ \E c \in S : Key(c.entry) = k /\ tasks[k] = 1 /\ inbound[k] = c.info
        \/ (\A c \in S : Key(c.entry) # k) /\ tasks[k] = 0 /\ inbound[k] = Nil

\* What the loop has in hand at each place.
LoopInv ==
    /\ at = "resolve" => cand = NoCand
    /\ at \in {"resolve", "fetch", "remove", "close"} => next = {}
    /\ at \in {"remove", "apply"} => left \subseteq nodes
    /\ at = "apply" => \A c \in next : cand[Key(c.entry)] = Nil

\* Which controllers are running: those of the manager, but for the ones that the
\* loop has closed, replaced or started already.
CoreInv ==
    ~twice =>
        /\ Unique(nodes)
        /\ at \in Before => Served(nodes)
        /\ at \in {"remove", "close"} => Unique(left) /\ Served(left)
        /\ at = "apply" => /\ Unique(left) /\ Unique(next) /\ Apart
                           /\ Served(left \cup next)
        /\ at = "build" => Served({})
        /\ at = "start" => Unique(left) /\ Unique(next) /\ Apart /\ Served(next)

\* Clients never know more than the panel has, nor does the loop.
VersionInv ==
    /\ \A k \in Keys : /\ hash[k] <= version[k]
                       /\ cand[k] # Nil => cand[k] <= version[k]
    /\ at \in {"build", "start"} =>
          \A c \in next : c.info <= version[Key(c.entry)]
    /\ at = "start" => \A c \in left : c.info <= version[Key(c.entry)]

\* The client of a running controller knows what it runs, or something newer; in the
\* second case it has asked for a reload.
Behind(S) == \A c \in S : c.info <= hash[Key(c.entry)]
Told(c)   == hash[Key(c.entry)] = c.info \/ reloadCh

\* A reload fetched what the clients had asked for, and what it could not fetch is a
\* failure.
ToldInv ==
    ~twice =>
        /\ at \in Before => Behind(nodes)
        /\ at \in {"remove", "apply"} => Behind(left)
        /\ at \in {"apply", "start"} => Behind(next)
        /\ at \in Reconciling =>
              \A k \in Keys : cand[k] # Nil => hash[k] <= cand[k] \/ reloadCh
        /\ at = "fetch" =>
              \A e \in want \ left : cand[Key(e)] # Nil \/ fail # {}
        /\ at = "remove" => \A e \in want : cand[Key(e)] # Nil \/ fail # {}
        /\ at = "apply" => \A c \in left : cand[Key(c.entry)] # Nil \/ fail # {}
        /\ at \in {"apply", "start"} => \A c \in next : Told(c) \/ fail # {}
        /\ at = "loop" => \A c \in nodes : Told(c) \/ failures # {}

\* The core has the routes of the slots of S.
Routes(S) == \A c \in S : HasRoutes(c.info) => routes[Key(c.entry)] = c.info

\* A node that Reconcile starts or replaces has no custom routes.
RouteInv ==
    ~twice =>
        /\ at \in Before \cup {"remove", "apply"} => Routes(nodes)
        /\ at \in {"apply", "start"} => Routes(next)
        /\ at = "start" => Routes(left)
        /\ at \in {"remove", "apply"} =>
              \A k \in Keys : cand[k] # Nil /\ HasRoutes(cand[k]) =>
                 \E c \in nodes : Key(c.entry) = k /\ SameNode(c)

-----------------------------------------------------------------------------
(* Types, by group of variables.                                           *)

PanelOK == mode \in Modes /\ listed \in [Profile -> SUBSET Id] /\ version \in [Keys -> Nat]

LeftOK == /\ at = "resolve" => left \subseteq Profile
          /\ at \in {"fetch", "build"} => left \subseteq Entry
          /\ at \notin {"resolve", "fetch", "build"} => left \subseteq Slots

LoopOK ==
    /\ at \in {"dead", "loop", "resolve", "fetch", "remove", "apply", "close", "build",
               "start"}
    /\ LeftOK
    /\ full \in BOOLEAN /\ lost \subseteq Profile /\ want \subseteq Entry
    /\ cand \in [Keys -> Nat \cup {Nil}] /\ next \subseteq Slots /\ fail \subseteq Entry

NodeOK == /\ nodes \subseteq Slots /\ failures \subseteq Entry
          /\ routes \in [Keys -> Nat \cup {Nil}]

CoreOK == /\ inbound \in [Keys -> Nat \cup {Nil}] /\ tasks \in [Keys -> Nat]
          /\ hash \in [Keys -> Nat]

FlagOK == reloadCh \in BOOLEAN /\ watch \in {"off", "idle", "sleep", "cool"}

Types == PanelOK /\ LoopOK /\ NodeOK /\ CoreOK /\ FlagOK

\* The groups together are TypeOK.
LEMMA TypeGroups == Types => TypeOK
BY DEF TypeOK, Types, PanelOK, LoopOK, LeftOK, NodeOK, CoreOK, FlagOK

\* The key of an entry.
LEMMA KeyType == ASSUME NEW e \in Entry PROVE Key(e) \in Keys
BY DEF Key, Keys, Entry

\* A slot and what it is made of.
LEMMA SlotType ==
    /\ \A e \in Entry, v \in Nat : /\ Slot(e, v) \in Slots
                                   /\ Slot(e, v).entry = e /\ Slot(e, v).info = v
    /\ \A c \in Slots : c.entry \in Entry /\ c.info \in Nat
BY DEF Slot, Slots

\* The types hold at the start.
LEMMA TypesInit == Init => Types
<1> SUFFICES ASSUME Init PROVE Types
  OBVIOUS
<1>1. PanelOK /\ NodeOK /\ CoreOK /\ FlagOK
  BY DEF Init, PanelOK, NodeOK, CoreOK, FlagOK, NoCand
<1>2. LoopOK
  BY DEF Init, LoopOK, LeftOK, NoCand
<1> QED BY <1>1, <1>2 DEF Types

\* An error that ends the process, or is noted.
LEMMA FailureType ==
    ASSUME Types, NEW e \in Entry, at \in {"fetch", "build"}, MachineFailure(e)
    PROVE  LoopOK'
<1>1. CASE Die
  BY <1>1 DEF Die, Types, LoopOK, LeftOK
<1>2. CASE ~Die
  BY <1>2 DEF MachineFailure, Types, LoopOK, LeftOK
<1> QED BY <1>1, <1>2

\* A reload starts.
LEMMA LoadType ==
    ASSUME Types, Load, full' \in BOOLEAN
    PROVE  LoopOK'
<1>1. {e \in Entry : e[2] \in listed[e[1]]} \subseteq Entry
  OBVIOUS
<1> QED BY <1>1 DEF Load, NoCand, Types, LoopOK, LeftOK

\* Every step keeps the types.
LEMMA TypesNext == Types /\ [Next]_vars => Types'
<1> SUFFICES ASSUME Types, [Next]_vars PROVE Types'
  OBVIOUS
<1>type. PanelOK /\ LoopOK /\ NodeOK /\ CoreOK /\ FlagOK
  BY DEF Types
<1>panel. ASSUME UNCHANGED panelVars PROVE PanelOK'
  BY <1>panel, <1>type DEF panelVars, PanelOK
<1>loop. ASSUME UNCHANGED loopVars PROVE LoopOK'
  BY <1>loop, <1>type DEF loopVars, LoopOK, LeftOK
<1>node. ASSUME UNCHANGED nodeVars PROVE NodeOK'
  BY <1>node, <1>type DEF nodeVars, NodeOK
<1>core. ASSUME UNCHANGED coreVars PROVE CoreOK'
  BY <1>core, <1>type DEF coreVars, CoreOK
<1>flag. ASSUME UNCHANGED <<reloadCh, watch>> PROVE FlagOK'
  BY <1>flag, <1>type DEF FlagOK
<1>die. ASSUME Die PROVE LoopOK'
  BY <1>die, <1>type DEF Die, LoopOK, LeftOK
<1>fault. ASSUME NEW e \in Entry, ApplyFailure(e), UNCHANGED <<mode, nodes>>, at = "apply",
                 left' \subseteq left, next' \subseteq Slots
          PROVE  LoopOK'
  <2>1. cand' \in [Keys -> Nat \cup {Nil}]
    BY <1>fault, <1>type, KeyType DEF ApplyFailure, LoopOK
  <2>2. fail' \subseteq Entry /\ at' \in {"apply", "dead"} /\ UNCHANGED <<full, lost, want>>
    BY <1>fault, <1>type DEF ApplyFailure, LoopOK
  <2> QED BY <1>fault, <2>1, <2>2, <1>type DEF LoopOK, LeftOK
<1>1. ASSUME NEW e \in Entry, ChangeNode(Key(e)) PROVE Types'
  <2>1. PanelOK'
    BY <1>1, <1>type, KeyType DEF ChangeNode, PanelOK
  <2> QED BY <1>1, <2>1, <1>loop, <1>node, <1>core, <1>flag DEF ChangeNode, Types
<1>2. ASSUME NEW p \in Profile, NEW ids \in SUBSET Id, EditList(p, ids) PROVE Types'
  <2>1. PanelOK' /\ FlagOK'
    BY <1>2, <1>type DEF EditList, PanelOK, FlagOK
  <2> QED BY <1>2, <2>1, <1>loop, <1>node, <1>core DEF EditList, Types
<1>3. ASSUME WatchReload \/ WatchAgain \/ Invalidate \/ Tick PROVE Types'
  <2>1. FlagOK'
    BY <1>3, <1>type DEF WatchReload, WatchAgain, Invalidate, Tick, FlagOK
  <2> QED BY <1>3, <2>1, <1>panel, <1>loop, <1>node, <1>core
          DEF WatchReload, WatchAgain, Invalidate, Tick, Types
<1>4. ASSUME NEW k \in Keys, ConfigCheck(k) PROVE Types'
  <2>1. CoreOK' /\ FlagOK'
    BY <1>4, <1>type DEF ConfigCheck, CoreOK, FlagOK, PanelOK
  <2> QED BY <1>4, <2>1, <1>panel, <1>loop, <1>node DEF ConfigCheck, Types
<1>5. ASSUME BeginReload PROVE Types'
  <2>1. LoopOK'
    BY <1>5, LoadType DEF BeginReload
  <2>2. FlagOK'
    BY <1>5, <1>type DEF BeginReload, FlagOK
  <2> QED BY <1>5, <2>1, <2>2, <1>panel, <1>node, <1>core DEF BeginReload, Types
<1>6. ASSUME NEW p \in Profile, ResolveProfile(p) PROVE Types'
  <2>1. {p} \X listed[p] \subseteq Entry
    BY <1>type DEF PanelOK, Entry
  <2>2. LoopOK'
    BY <1>6, <2>1, <1>type DEF ResolveProfile, LoopOK, LeftOK
  <2> QED BY <1>6, <2>2, <1>panel, <1>node, <1>core, <1>flag
     DEF ResolveProfile, Types
<1>7. ASSUME NEW p \in Profile, ProfileFails(p) PROVE Types'
  <2>1. LoopOK'
    <3>1. CASE Die
      BY <3>1, <1>die
    <3>2. CASE ~Die
      BY <1>7, <3>2, <1>type DEF ProfileFails, LoopOK, LeftOK
    <3> QED BY <3>1, <3>2
  <2> QED BY <1>7, <2>1, <1>panel, <1>node, <1>core, <1>flag DEF ProfileFails, Types
<1>8. ASSUME Resolved PROVE Types'
  <2>1. LoopOK'
    <3>1. CASE Die
      BY <3>1, <1>die
    <3>2. CASE ~Die
      BY <1>8, <3>2, <1>type DEF Resolved, LoopOK, LeftOK, NodeOK
    <3> QED BY <3>1, <3>2
  <2> QED BY <1>8, <2>1, <1>panel, <1>node, <1>core, <1>flag DEF Resolved, Types
<1>9. ASSUME NEW e \in Entry, Fetch(e) PROVE Types'
  <2>1. LoopOK'
    <3>1. CASE MachineFailure(e)
      BY <1>9, <3>1, FailureType DEF Fetch
    <3>2. CASE ~MachineFailure(e)
      <4>1. version[Key(e)] \in Nat
        BY <1>type, KeyType DEF PanelOK
      <4> QED BY <1>9, <3>2, <4>1, <1>type DEF Fetch, LoopOK, LeftOK
    <3> QED BY <3>1, <3>2
  <2> QED BY <1>9, <2>1, <1>panel, <1>node, <1>core, <1>flag DEF Fetch, Types
<1>10. ASSUME NEW e \in Entry, FetchFails(e) \/ BuildFails(e) PROVE Types'
  <2>1. LoopOK'
    BY <1>10, FailureType DEF FetchFails, BuildFails
  <2> QED BY <1>10, <2>1, <1>panel, <1>node, <1>core, <1>flag
     DEF FetchFails, BuildFails, Types
<1>11. ASSUME KeepExisting PROVE Types'
  <2>1. LoopOK' /\ NodeOK'
    BY <1>11, <1>type DEF KeepExisting, LoopOK, LeftOK, NodeOK
  <2> QED BY <1>11, <2>1, <1>panel, <1>core, <1>flag DEF KeepExisting, Types
<1>12. ASSUME NEW S \in Current, Decide(S) PROVE Types'
  <2>1. S \subseteq Slots
    BY <1>type DEF Current, NodeOK
  <2>2. LoopOK'
    BY <1>12, <2>1, <1>type DEF Decide, LoopOK, LeftOK, NodeOK, NoCand
  <2> QED BY <1>12, <2>2, <1>panel, <1>node, <1>core, <1>flag DEF Decide, Types
<1>close. ASSUME NEW c \in Slots, CloseController(Key(c.entry)) PROVE CoreOK'
  BY <1>close, <1>type, KeyType, SlotType DEF CloseController, CoreOK
<1>13. ASSUME NEW c \in left, Remove(c) \/ CloseNode(c) PROVE Types'
  <2>1. c \in Slots
    BY <1>13, <1>type DEF Remove, CloseNode, LoopOK, LeftOK
  <2>2. CoreOK'
    BY <1>13, <2>1, <1>close DEF Remove, CloseNode
  <2>3. LoopOK'
    <3>1. CASE Die
      BY <3>1, <1>die
    <3>2. CASE ~Die
      BY <1>13, <3>2, <1>type DEF Remove, CloseNode, LoopOK, LeftOK
    <3> QED BY <3>1, <3>2
  <2> QED BY <1>13, <2>2, <2>3, <1>panel, <1>node, <1>flag
     DEF Remove, CloseNode, Types
<1>14. ASSUME Removed PROVE Types'
  <2>1. LoopOK'
    BY <1>14, <1>type DEF Removed, LoopOK, LeftOK
  <2> QED BY <1>14, <2>1, <1>panel, <1>node, <1>core, <1>flag DEF Removed, Types
<1>15. ASSUME NEW c \in left, KeepSlot(c) PROVE Types'
  <2>1. LoopOK'
    BY <1>15, <1>type DEF KeepSlot, LoopOK, LeftOK
  <2> QED BY <1>15, <2>1, <1>panel, <1>node, <1>core, <1>flag DEF KeepSlot, Types
<1>16. ASSUME NEW c \in left, NEW e \in want, ReplaceController(c, e) PROVE Types'
  <2>1. e \in Entry /\ Key(e) \in Keys /\ cand[Key(e)] \in Nat
    BY <1>16, <1>type, KeyType DEF ReplaceController, Changed, LoopOK
  <2>2. Slot(e, cand[Key(e)]) \in Slots
    BY <2>1, SlotType
  <2>3. LoopOK'
    BY <1>16, <2>1, <2>2, <1>type DEF ReplaceController, Changed, LoopOK, LeftOK
  <2>4. CoreOK'
    BY <1>16, <2>1, <1>type DEF ReplaceController, Activate, CoreOK
  <2> QED BY <1>16, <2>3, <2>4, <1>panel, <1>node, <1>flag
     DEF ReplaceController, Types
<1>17. ASSUME NEW c \in left, NEW e \in want, PrepareFails(c, e) PROVE Types'
  <2>1. e \in Entry /\ c \in Slots /\ next \subseteq Slots
    BY <1>17, <1>type DEF PrepareFails, Changed, LoopOK, LeftOK
  <2>2. LoopOK'
    BY <1>17, <2>1, <1>fault DEF PrepareFails, Changed, panelVars, nodeVars
  <2> QED BY <1>17, <2>2, <1>panel, <1>node, <1>core, <1>flag
     DEF PrepareFails, Types
<1>18. ASSUME NEW c \in left, NEW e \in want, ReplaceFails(c, e) PROVE Types'
  <2>1. e \in Entry /\ c \in Slots /\ next \subseteq Slots
    BY <1>18, <1>type DEF ReplaceFails, Changed, LoopOK, LeftOK
  <2>2. LoopOK'
    BY <1>18, <2>1, <1>fault DEF ReplaceFails, Changed, panelVars, nodeVars
  <2>3. CoreOK'
    BY <1>18, <2>1, <1>close DEF ReplaceFails, Changed
  <2> QED BY <1>18, <2>2, <2>3, <1>panel, <1>node, <1>flag DEF ReplaceFails, Types
<1>19. ASSUME NEW e \in Entry, StartNew(e) PROVE Types'
  <2>1. Key(e) \in Keys /\ cand[Key(e)] \in Nat
    BY <1>19, <1>type, KeyType DEF StartNew, NewNode, LoopOK
  <2>2. Slot(e, cand[Key(e)]) \in Slots
    BY <2>1, SlotType
  <2>3. LoopOK'
    BY <1>19, <2>1, <2>2, <1>type DEF StartNew, NewNode, LoopOK, LeftOK
  <2>4. CoreOK'
    BY <1>19, <2>1, <1>type DEF StartNew, Activate, CoreOK
  <2> QED BY <1>19, <2>3, <2>4, <1>panel, <1>node, <1>flag DEF StartNew, Types
<1>20. ASSUME NEW e \in Entry, StartNewFails(e) PROVE Types'
  <2>1. next \subseteq Slots
    BY <1>type DEF LoopOK
  <2>2. LoopOK'
    BY <1>20, <2>1, <1>fault DEF StartNewFails, NewNode, panelVars, nodeVars
  <2>3. CoreOK'
    BY <1>20, <1>type, KeyType DEF StartNewFails, CoreOK
  <2> QED BY <1>20, <2>2, <2>3, <1>panel, <1>node, <1>flag DEF StartNewFails, Types
<1>21. ASSUME NodesClosed PROVE Types'
  <2>1. LoopOK' /\ CoreOK'
    BY <1>21, <1>type DEF NodesClosed, LoopOK, LeftOK, CoreOK
  <2> QED BY <1>21, <2>1, <1>panel, <1>node, <1>flag DEF NodesClosed, Types
<1>22. ASSUME NEW e \in Entry, Build(e) PROVE Types'
  <2>1. Slot(e, version[Key(e)]) \in Slots
    BY <1>type, KeyType, SlotType DEF PanelOK
  <2>2. LoopOK'
    BY <1>22, <2>1, <1>type DEF Build, LoopOK, LeftOK
  <2> QED BY <1>22, <2>2, <1>panel, <1>node, <1>core, <1>flag DEF Build, Types
<1>23. ASSUME Built PROVE Types'
  <2>1. LoopOK'
    BY <1>23, <1>type DEF Built, LoopOK, LeftOK
  <2>2. {c.info : c \in next} \subseteq Nat
    BY <1>type, SlotType DEF LoopOK
  <2>3. routes' \in [Keys -> {Nil} \cup {c.info : c \in next}]
    BY <1>23 DEF Built
  <2>4. NodeOK'
    BY <1>23, <2>2, <2>3, <1>type DEF Built, NodeOK
  <2> QED BY <1>23, <2>1, <2>4, <1>panel, <1>core, <1>flag DEF Built, Types
<1>24. ASSUME NEW c \in left, StartNode(c) PROVE Types'
  <2>1. c \in Slots /\ c.info \in Nat /\ Key(c.entry) \in Keys
    BY <1>24, <1>type, SlotType, KeyType DEF StartNode, LoopOK, LeftOK
  <2>2. LoopOK'
    BY <1>24, <2>1, <1>type DEF StartNode, LoopOK, LeftOK
  <2>3. CoreOK'
    BY <1>24, <2>1, <1>type DEF StartNode, Activate, CoreOK
  <2> QED BY <1>24, <2>2, <2>3, <1>panel, <1>node, <1>flag DEF StartNode, Types
<1>25. ASSUME NEW c \in left, StartNodeFails(c) PROVE Types'
  <2>1. c \in Slots /\ c.entry \in Entry /\ Key(c.entry) \in Keys
    BY <1>25, <1>type, SlotType, KeyType DEF StartNodeFails, LoopOK, LeftOK
  <2>2. LoopOK'
    <3>1. CASE Die
      BY <3>1, <1>die
    <3>2. CASE ~Die
      BY <1>25, <2>1, <3>2, <1>type DEF StartNodeFails, LoopOK, LeftOK
    <3> QED BY <3>1, <3>2
  <2>3. CoreOK'
    BY <1>25, <2>1, <1>type DEF StartNodeFails, CoreOK
  <2> QED BY <1>25, <2>2, <2>3, <1>panel, <1>node, <1>flag DEF StartNodeFails, Types
<1>26. ASSUME Finish PROVE Types'
  <2>1. LoopOK' /\ NodeOK' /\ FlagOK'
    BY <1>26, <1>type DEF Finish, LoopOK, LeftOK, NodeOK, FlagOK
  <2> QED BY <1>26, <2>1, <1>panel, <1>core DEF Finish, Types
<1>27. ASSUME Crash PROVE Types'
  BY <1>27, <1>die, <1>panel, <1>node, <1>core, <1>flag DEF Crash, Types
<1>28. ASSUME Boot PROVE Types'
  <2>1. LoopOK'
    BY <1>28, LoadType DEF Boot
  <2>2. NodeOK' /\ CoreOK' /\ FlagOK'
    BY <1>28 DEF Boot, NodeOK, CoreOK, FlagOK, NoCand
  <2> QED BY <1>28, <2>1, <2>2, <1>panel DEF Boot, Types
<1>29. ASSUME UNCHANGED vars PROVE Types'
  BY <1>29, <1>panel, <1>loop, <1>node, <1>core, <1>flag DEF vars, Types
<1>30. ASSUME ReconcileStep PROVE Types'
  BY <1>30, <1>9, <1>10, <1>11, <1>12, <1>13, <1>14, <1>15, <1>16, <1>17, <1>18,
     <1>19, <1>20
     DEF ReconcileStep
<1>31. ASSUME FullStep PROVE Types'
  BY <1>31, <1>10, <1>13, <1>21, <1>22, <1>23, <1>24, <1>25 DEF FullStep
<1>32. ASSUME LoopStep PROVE Types'
  BY <1>32, <1>5, <1>6, <1>7, <1>8, <1>26, <1>30, <1>31 DEF LoopStep
<1> QED BY <1>1, <1>2, <1>3, <1>4, <1>27, <1>28, <1>29, <1>32 DEF Next

-----------------------------------------------------------------------------
(* What the loop has in hand.                                              *)

\* The steps of the file, its watcher and the tickers: they ask for a reload at most.
Outside == \/ \E p \in Profile, ids \in SUBSET Id : EditList(p, ids)
           \/ WatchReload \/ WatchAgain \/ Invalidate \/ Tick \/ UNCHANGED vars

\* They leave the loop, the nodes and the core alone.
LEMMA OutsideSame ==
    ASSUME Types, Outside
    PROVE  /\ UNCHANGED <<mode, version, loopVars, nodeVars, coreVars, twice>>
           /\ reloadCh' \in {reloadCh, TRUE}
<1>1. UNCHANGED <<mode, version, loopVars, nodeVars, coreVars, twice>>
  BY DEF Outside, EditList, WatchReload, WatchAgain, Invalidate, Tick, vars,
         panelVars,
         historyVars
<1>2. reloadCh' \in {reloadCh, TRUE}
  BY DEF Outside, EditList, WatchReload, WatchAgain, Invalidate, Tick, vars
<1> QED BY <1>1, <1>2

\* No step changes the mode, so keys stay what they are.
LEMMA ModeSame == [Next]_vars => mode' = mode
BY DEF Next, LoopStep, ReconcileStep, FullStep, BeginReload, ResolveProfile,
       ProfileFails,
       Resolved, Fetch, FetchFails, KeepExisting, Decide, Remove, Removed, KeepSlot,
       ReplaceController, PrepareFails, ReplaceFails, StartNew, StartNewFails, CloseNode,
       NodesClosed, Build, BuildFails, Built, StartNode, StartNodeFails, Finish, Crash, Boot,
       ChangeNode, ConfigCheck, EditList, WatchReload, WatchAgain, Invalidate, Tick, panelVars,
       vars

\* The same for the keys of sets of slots.
LEMMA KeySame ==
    ASSUME mode' = mode
    PROVE  /\ \A e : Key(e)' = Key(e)
           /\ \A S : Unique(S)' = Unique(S)
BY DEF Key, Unique

\* Every step is one of these.
LEMMA Steps ==
    ASSUME Next
    PROVE  \/ Outside \/ BeginReload \/ Boot \/ Crash \/ Resolved \/ Finish
           \/ \E e \in Entry : ChangeNode(Key(e))
           \/ \E k \in Keys : ConfigCheck(k)
           \/ \E p \in Profile : ResolveProfile(p) \/ ProfileFails(p)
           \/ \E e \in Entry : \/ Fetch(e) \/ FetchFails(e) \/ StartNew(e) \/ StartNewFails(e)
                               \/ Build(e) \/ BuildFails(e)
           \/ KeepExisting \/ Removed \/ NodesClosed \/ Built
           \/ \E S \in Current : Decide(S)
           \/ \E c \in left : \/ Remove(c) \/ KeepSlot(c) \/ CloseNode(c) \/ StartNode(c)
                              \/ StartNodeFails(c)
           \/ \E c \in left, e \in want :
                 ReplaceController(c, e) \/ PrepareFails(c, e) \/ ReplaceFails(c, e)
BY DEF Next, LoopStep, ReconcileStep, FullStep, Outside

\* The outcomes of a failure.
LEMMA FailureSteps ==
    /\ \A e : MachineFailure(e) =>
          \/ at' = "dead"
          \/ /\ fail' = fail \cup {e} /\ left' = left \ {e}
             /\ UNCHANGED <<at, full, lost, want, cand, next>>
    /\ \A e : ApplyFailure(e) =>
          \/ at' = "dead"
          \/ /\ fail' = fail \cup {e} /\ cand' = [cand EXCEPT ![Key(e)] = Nil]
             /\ UNCHANGED <<at, full, lost, want>>
BY DEF MachineFailure, ApplyFailure, Die

\* The loop starts with empty hands.
LEMMA LoopInit == Init => LoopInv
BY DEF Init, LoopInv

\* Every step keeps LoopInv.
LEMMA LoopNext == Types /\ LoopInv /\ [Next]_vars => LoopInv'
<1> SUFFICES ASSUME Types, LoopInv, [Next]_vars PROVE LoopInv'
  OBVIOUS
<1>type. /\ cand \in [Keys -> Nat \cup {Nil}] /\ next \subseteq Slots /\ want \subseteq Entry
  BY DEF Types, LoopOK
<1>key. mode' = mode /\ \A e : Key(e)' = Key(e)
  BY ModeSame, KeySame
<1>dead. ASSUME at' \in {"dead", "loop", "build", "start"} PROVE LoopInv'
  BY <1>dead DEF LoopInv
<1>same. ASSUME UNCHANGED <<at, next, cand, nodes>>, left' \subseteq left PROVE LoopInv'
  BY <1>same, <1>key DEF LoopInv
<1>before. ASSUME at' \in {"resolve", "fetch", "close"}, next' = {},
                  at' = "resolve" => cand' = NoCand
           PROVE  LoopInv'
  BY <1>before DEF LoopInv
<1>cand. ASSUME NEW e \in Entry, cand' = [cand EXCEPT ![Key(e)] = Nil],
                UNCHANGED <<at, nodes>>, left' \subseteq left, at = "apply",
                \A c \in next' : c \in next \/ Key(c.entry) = Key(e)
         PROVE  LoopInv'
  <2>1. cand'[Key(e)] = Nil /\ \A k \in Keys : cand'[k] \in {cand[k], Nil}
    BY <1>cand, <1>type, KeyType
  <2>2. \A c \in next : cand'[Key(c.entry)] = Nil
    BY <1>cand, <2>1, <1>type, KeyType, SlotType DEF LoopInv
  <2> QED BY <1>cand, <2>1, <2>2, <1>key DEF LoopInv
<1>slot. \A c \in left : at \in {"remove", "apply"} => c.entry \in Entry
  BY SlotType DEF Types, LoopOK, LeftOK
<1>1. CASE \/ Outside \/ \E e \in Entry : ChangeNode(Key(e))
           \/ \E k \in Keys : ConfigCheck(k)
  BY <1>1, <1>same, OutsideSame DEF ChangeNode, ConfigCheck, loopVars, nodeVars
<1>2. CASE BeginReload \/ Boot
  BY <1>2, <1>before DEF BeginReload, Boot, Load
<1>3. CASE Resolved \/ \E p \in Profile : ResolveProfile(p) \/ ProfileFails(p)
  <2>1. \/ at' = "dead"
        \/ /\ at' \in {"resolve", "fetch", "close"} /\ UNCHANGED <<next, cand>>
           /\ at = "resolve"
    BY <1>3 DEF Resolved, ResolveProfile, ProfileFails, Die
  <2> QED BY <2>1, <1>dead, <1>before DEF LoopInv
<1>4. CASE \E e \in Entry : Fetch(e) \/ FetchFails(e)
  <2>1. at' = "dead" \/ (at' = "fetch" /\ next' = next /\ at = "fetch")
    BY <1>4, FailureSteps DEF Fetch, FetchFails
  <2> QED BY <2>1, <1>dead, <1>before DEF LoopInv
<1>5. ASSUME NEW S \in Current, Decide(S) PROVE LoopInv'
  <2>1. S \subseteq nodes /\ next = {}
    BY <1>5 DEF Decide, Current, LoopInv
  <2> QED BY <1>5, <2>1 DEF Decide, LoopInv, nodeVars
<1>6. ASSUME NEW c \in left, Remove(c) \/ CloseNode(c) PROVE LoopInv'
  <2>1. \/ at' = "dead"
        \/ UNCHANGED <<at, next, cand, nodes>> /\ left' \subseteq left
    BY <1>6 DEF Remove, CloseNode, Die, nodeVars
  <2> QED BY <2>1, <1>dead, <1>same
<1>7. CASE Removed
  BY <1>7 DEF Removed, LoopInv, nodeVars
<1>8. ASSUME NEW c \in left, KeepSlot(c) PROVE LoopInv'
  <2>1. c.entry \in Entry
    BY <1>8, <1>slot DEF KeepSlot
  <2> QED BY <1>8, <2>1, <1>cand DEF KeepSlot, nodeVars
<1>9. ASSUME NEW c \in left, NEW e \in want, ReplaceController(c, e) PROVE LoopInv'
  <2>1. e \in Entry /\ at = "apply" /\ cand[Key(e)] \in Nat
    BY <1>9, <1>type, KeyType DEF ReplaceController, Changed
  <2>2. \A d \in next' : d \in next \/ Key(d.entry) = Key(e)
    BY <1>9, <2>1, SlotType DEF ReplaceController
  <2> QED BY <1>9, <2>1, <2>2, <1>cand DEF ReplaceController, nodeVars
<1>10. ASSUME NEW c \in left, NEW e \in want, PrepareFails(c, e) \/ ReplaceFails(c, e)
       PROVE  LoopInv'
  <2>1. e \in Entry /\ at = "apply" /\ Key(e) = Key(c.entry) /\ nodes' = nodes
        /\ left' \subseteq left
    BY <1>10, <1>type DEF PrepareFails, ReplaceFails, Changed, nodeVars
  <2>2. \A d \in next' : d \in next \/ Key(d.entry) = Key(e)
    BY <1>10, <2>1 DEF PrepareFails, ReplaceFails
  <2>3. at' = "dead" \/ (cand' = [cand EXCEPT ![Key(e)] = Nil] /\ at' = at)
    BY <1>10, FailureSteps DEF PrepareFails, ReplaceFails
  <2> QED BY <2>1, <2>2, <2>3, <1>cand, <1>dead
<1>11. ASSUME NEW e \in Entry, StartNew(e) PROVE LoopInv'
  <2>1. at = "apply" /\ cand[Key(e)] \in Nat
    BY <1>11, <1>type, KeyType DEF StartNew, NewNode
  <2>2. \A d \in next' : d \in next \/ Key(d.entry) = Key(e)
    BY <1>11, <2>1, SlotType DEF StartNew
  <2> QED BY <1>11, <2>1, <2>2, <1>cand DEF StartNew, nodeVars
<1>12. ASSUME NEW e \in Entry, StartNewFails(e) PROVE LoopInv'
  <2>1. at' = "dead" \/ (cand' = [cand EXCEPT ![Key(e)] = Nil] /\ at' = at)
    BY <1>12, FailureSteps DEF StartNewFails
  <2> QED BY <1>12, <2>1, <1>cand, <1>dead DEF StartNewFails, NewNode, nodeVars
<1>13. CASE \/ KeepExisting \/ NodesClosed \/ Built \/ Finish \/ Crash
            \/ \E e \in Entry : Build(e) \/ BuildFails(e)
            \/ \E c \in left : StartNode(c) \/ StartNodeFails(c)
  BY <1>13, <1>dead, FailureSteps DEF KeepExisting, NodesClosed, Built, Finish,
                                      Crash, Build,
     BuildFails, StartNode, StartNodeFails, Die
<1>14. CASE Next
  BY <1>14, Steps, <1>1, <1>2, <1>3, <1>4, <1>5, <1>6, <1>7, <1>8, <1>9, <1>10,
     <1>11, <1>12,
     <1>13
<1>15. CASE UNCHANGED vars
  BY <1>15, <1>1 DEF Outside
<1> QED BY <1>14, <1>15

-----------------------------------------------------------------------------
(* Versions.                                                               *)

\* The panel's versions only grow.
LEMMA VersionGrows ==
    ASSUME Types, [Next]_vars
    PROVE  \A k \in Keys : version[k] \in Nat /\ version'[k] \in Nat /\ version[k] <= version'[k]
<1>0. version \in [Keys -> Nat]
  BY DEF Types, PanelOK
<1>1. CASE version' = version
  BY <1>0, <1>1
<1>2. ASSUME NEW e \in Entry, ChangeNode(Key(e))
      PROVE  \A k \in Keys : version'[k] \in Nat /\ version[k] <= version'[k]
  BY <1>0, <1>2, KeyType DEF ChangeNode
<1> QED BY <1>0, <1>1, <1>2
        DEF Next, LoopStep, ReconcileStep, FullStep, BeginReload, ResolveProfile,
            ProfileFails, Resolved, Fetch, FetchFails, KeepExisting, Decide, Remove, Removed,
            KeepSlot, ReplaceController, PrepareFails, ReplaceFails, StartNew, StartNewFails,
            CloseNode, NodesClosed, Build, BuildFails, Built, StartNode, StartNodeFails,
            Finish, Crash, Boot, ConfigCheck, EditList, WatchReload, WatchAgain, Invalidate,
            Tick, panelVars, vars

\* The keys of slots.
LEMMA SlotKey == ASSUME NEW c \in Slots PROVE Key(c.entry) \in Keys /\ c.info \in Nat
BY KeyType, SlotType

\* At the start nothing is known.
LEMMA VersionInit == Init => VersionInv
BY DEF Init, VersionInv, NoCand

\* Every step keeps VersionInv.
LEMMA VersionNext == Types /\ LoopInv /\ VersionInv /\ [Next]_vars => VersionInv'
<1> SUFFICES ASSUME Types, LoopInv, VersionInv, [Next]_vars PROVE VersionInv'
  OBVIOUS
<1>type. /\ cand \in [Keys -> Nat \cup {Nil}] /\ next \subseteq Slots /\ want \subseteq Entry
         /\ hash \in [Keys -> Nat]
  BY DEF Types, LoopOK, CoreOK
<1>nil. Nil \notin Nat
  BY MachineAssumption
<1>grow. \A k \in Keys : version[k] \in Nat /\ version'[k] \in Nat /\ version[k] <= version'[k]
  BY VersionGrows
<1>key. \A e : Key(e)' = Key(e)
  BY ModeSame, KeySame
<1> DEFINE HashOK == \A k \in Keys : hash'[k] \in Nat /\ hash'[k] <= version[k]
           CandOK == \A k \in Keys : cand'[k] # Nil => /\ cand'[k] \in Nat
                                                       /\ cand'[k] <= version[k]
           SlotsOK(S) == \A c \in S : /\ Key(c.entry) \in Keys /\ c.info \in Nat
                                      /\ c.info <= version[Key(c.entry)]
<1>parts. ASSUME HashOK, CandOK, at' \in {"build", "start"} => SlotsOK(next'),
                 at' = "start" => SlotsOK(left')
          PROVE  VersionInv'
  <2>1. \A k \in Keys : hash'[k] <= version'[k] /\ (cand'[k] # Nil => cand'[k] <= version'[k])
    BY <1>parts, <1>grow
  <2>2. ASSUME NEW S, SlotsOK(S) PROVE \A c \in S : c.info <= version'[Key(c.entry)]
    BY <2>2, <1>grow
  <2> HIDE DEF HashOK, CandOK, SlotsOK
  <2> QED BY <1>parts, <2>1, <2>2, <1>key DEF VersionInv
<1>hash. ASSUME hash' = hash PROVE HashOK
  BY <1>hash, <1>type DEF VersionInv
<1>cand. ASSUME cand' = cand PROVE CandOK
  BY <1>cand, <1>type DEF VersionInv
<1>candnil. ASSUME NEW k, cand' = [cand EXCEPT ![k] = Nil] PROVE CandOK
  BY <1>candnil, <1>type DEF VersionInv
<1>nocand. ASSUME cand' = NoCand PROVE CandOK
  BY <1>nocand DEF NoCand
<1>next. ASSUME at \in {"build", "start"} PROVE SlotsOK(next)
  BY <1>next, <1>type, SlotKey DEF VersionInv
<1>left. ASSUME at = "start" PROVE SlotsOK(left)
  <2>1. left \subseteq Slots
    BY <1>left DEF Types, LoopOK, LeftOK
  <2> QED BY <1>left, <2>1, SlotKey DEF VersionInv
<1>away. ASSUME HashOK, CandOK, at' \notin {"build", "start"} PROVE VersionInv'
  <2> HIDE DEF HashOK, CandOK, SlotsOK
  <2> QED BY <1>away, <1>parts
<1>same. ASSUME HashOK, CandOK, UNCHANGED <<at, next, left>> PROVE VersionInv'
  <2> HIDE DEF HashOK, CandOK, SlotsOK
  <2> QED BY <1>same, <1>parts, <1>next, <1>left
<1> HIDE DEF HashOK, CandOK, SlotsOK
<1>1. CASE Outside \/ \E e \in Entry : ChangeNode(Key(e))
  BY <1>1, OutsideSame, <1>same, <1>hash, <1>cand DEF ChangeNode, loopVars, coreVars
<1>2. ASSUME NEW k \in Keys, ConfigCheck(k) PROVE VersionInv'
  <2>1. HashOK
    BY <1>2, <1>type, <1>grow DEF ConfigCheck, HashOK, VersionInv
  <2> QED BY <1>2, <2>1, <1>same, <1>cand DEF ConfigCheck, loopVars
<1>3. CASE BeginReload
  BY <1>3, <1>away, <1>hash, <1>nocand DEF BeginReload, Load, coreVars
<1>4. CASE Boot
  <2>1. HashOK
    BY <1>4, <1>grow DEF Boot, HashOK
  <2> QED BY <1>4, <2>1, <1>away, <1>nocand DEF Boot, Load
<1>5. CASE \/ Resolved \/ KeepExisting \/ Removed \/ Crash
           \/ \E p \in Profile : ResolveProfile(p) \/ ProfileFails(p)
           \/ \E e \in Entry : FetchFails(e)
           \/ \E c \in left : Remove(c) \/ CloseNode(c)
  <2>1. UNCHANGED <<hash, cand>>
    BY <1>5 DEF Resolved, KeepExisting, Removed, Crash, ResolveProfile,
                ProfileFails,
       FetchFails, MachineFailure, Remove, CloseNode, CloseController, Die, coreVars
  <2>2. at' \notin {"build", "start"}
    BY <1>5, FailureSteps DEF Resolved, KeepExisting, Removed, Crash,
                              ResolveProfile,
       ProfileFails, FetchFails, Remove, CloseNode, Die
  <2> QED BY <2>1, <2>2, <1>away, <1>hash, <1>cand
<1>6. ASSUME NEW e \in Entry, Fetch(e) PROVE VersionInv'
  <2>1. hash' = hash /\ at' \notin {"build", "start"}
    BY <1>6, FailureSteps DEF Fetch, coreVars
  <2>2. CandOK
    <3>1. CASE cand' = cand
      BY <3>1, <1>cand
    <3>2. CASE cand' = [cand EXCEPT ![Key(e)] = version[Key(e)]]
      BY <3>2, <1>type, <1>grow, KeyType DEF CandOK, VersionInv
    <3> QED BY <1>6, <3>1, <3>2 DEF Fetch, MachineFailure, Die
  <2> QED BY <2>1, <2>2, <1>away, <1>hash
<1>7. ASSUME NEW S \in Current, Decide(S) PROVE VersionInv'
  <2>1. hash' = hash /\ at' \notin {"build", "start"} /\ (cand' = cand \/ cand' = NoCand)
    BY <1>7 DEF Decide, coreVars
  <2> QED BY <2>1, <1>away, <1>hash, <1>cand, <1>nocand
<1>8. CASE \/ \E c \in left : KeepSlot(c)
           \/ \E c \in left, e \in want : PrepareFails(c, e) \/ ReplaceFails(c, e)
           \/ \E e \in Entry : StartNewFails(e)
  <2>1. hash' = hash /\ at' \notin {"build", "start"}
    BY <1>8, FailureSteps DEF KeepSlot, PrepareFails, ReplaceFails, StartNewFails,
                              Changed,
       NewNode, CloseController, coreVars
  <2>2. cand' = cand \/ \E k : cand' = [cand EXCEPT ![k] = Nil]
    BY <1>8 DEF KeepSlot, PrepareFails, ReplaceFails, StartNewFails, ApplyFailure
  <2> QED BY <2>1, <2>2, <1>away, <1>hash, <1>cand, <1>candnil
<1>activate. ASSUME NEW k \in Keys, NEW v \in Nat, v <= version[k], Activate(k, v) PROVE HashOK
  BY <1>activate, <1>type DEF Activate, HashOK, VersionInv
<1>9. ASSUME NEW c \in left, NEW e \in want, ReplaceController(c, e) PROVE VersionInv'
  <2>1. Key(e) \in Keys /\ cand[Key(e)] \in Nat /\ cand[Key(e)] <= version[Key(e)]
    BY <1>9, <1>type, KeyType DEF ReplaceController, Changed, VersionInv
  <2>2. at' = "apply"
    BY <1>9 DEF ReplaceController, Changed
  <2> QED BY <1>9, <2>1, <2>2, <1>away, <1>activate, <1>candnil
     DEF ReplaceController
<1>10. ASSUME NEW e \in Entry, StartNew(e) PROVE VersionInv'
  <2>1. Key(e) \in Keys /\ cand[Key(e)] \in Nat /\ cand[Key(e)] <= version[Key(e)]
    BY <1>10, <1>type, KeyType DEF StartNew, NewNode, VersionInv
  <2>2. at' = "apply"
    BY <1>10 DEF StartNew, NewNode
  <2> QED BY <1>10, <2>1, <2>2, <1>away, <1>activate, <1>candnil DEF StartNew
<1>11. CASE NodesClosed
  <2>1. SlotsOK(next')
    BY <1>11 DEF NodesClosed, LoopInv, SlotsOK
  <2> QED BY <1>11, <2>1, <1>parts, <1>hash, <1>cand DEF NodesClosed
<1>12. ASSUME NEW e \in Entry, Build(e) PROVE VersionInv'
  <2>1. SlotsOK(next')
    <3>1. SlotsOK(next) /\ next' = next \cup {Slot(e, version[Key(e)])}
      BY <1>12, <1>next DEF Build
    <3>2. SlotsOK({Slot(e, version[Key(e)])})
      BY <1>grow, KeyType, SlotType DEF SlotsOK
    <3> QED BY <3>1, <3>2 DEF SlotsOK
  <2> QED BY <1>12, <2>1, <1>parts, <1>hash, <1>cand DEF Build, coreVars
<1>13. ASSUME NEW e \in Entry, BuildFails(e) PROVE VersionInv'
  <2>1. hash' = hash /\ cand' = cand /\ (at' = "dead" \/ (at' = "build" /\ next' = next))
    BY <1>13, FailureSteps DEF BuildFails, MachineFailure, Die, coreVars
  <2>2. at = "build"
    BY <1>13 DEF BuildFails
  <2> QED BY <2>1, <2>2, <1>parts, <1>away, <1>hash, <1>cand, <1>next
<1>14. CASE Built
  <2>1. SlotsOK(left') /\ SlotsOK(next')
    BY <1>14, <1>next DEF Built, SlotsOK
  <2> QED BY <1>14, <2>1, <1>parts, <1>hash, <1>cand DEF Built, coreVars
<1>15. ASSUME NEW c \in left, StartNode(c) PROVE VersionInv'
  <2>1. SlotsOK(left) /\ SlotsOK(next)
    BY <1>15, <1>left, <1>next DEF StartNode
  <2>2. SlotsOK(left') /\ SlotsOK(next')
    BY <1>15, <2>1 DEF StartNode, SlotsOK
  <2>3. HashOK
    BY <1>15, <2>1, <1>activate DEF StartNode, SlotsOK
  <2> QED BY <1>15, <2>2, <2>3, <1>parts, <1>cand DEF StartNode
<1>16. ASSUME NEW c \in left, StartNodeFails(c) PROVE VersionInv'
  <2>1. SlotsOK(left) /\ SlotsOK(next)
    BY <1>16, <1>left, <1>next DEF StartNodeFails
  <2>2. UNCHANGED <<hash, cand>> /\ (at' = "dead" \/ (next' = next /\ left' \subseteq left))
    BY <1>16 DEF StartNodeFails, Die
  <2>3. at' = "dead" \/ (SlotsOK(left') /\ SlotsOK(next'))
    BY <2>1, <2>2 DEF SlotsOK
  <2> QED BY <2>2, <2>3, <1>parts, <1>hash, <1>cand
<1>17. CASE Finish
  BY <1>17, <1>away, <1>hash, <1>cand DEF Finish, coreVars
<1>18. CASE Next
  BY <1>18, Steps, <1>1, <1>2, <1>3, <1>4, <1>5, <1>6, <1>7, <1>8, <1>9, <1>10,
     <1>11, <1>12,
     <1>13, <1>14, <1>15, <1>16, <1>17
<1>19. CASE UNCHANGED vars
  BY <1>19, <1>1 DEF Outside
<1> QED BY <1>18, <1>19

-----------------------------------------------------------------------------
(* Which controllers are running.                                          *)

\* Served after a step.
ServedNow(S) ==
    \A k \in Keys :
        \/ \E c \in S : Key(c.entry) = k /\ tasks'[k] = 1 /\ inbound'[k] = c.info
        \/ (\A c \in S : Key(c.entry) # k) /\ tasks'[k] = 0 /\ inbound'[k] = Nil

\* A process that has started a node twice has done so until it ends.
LEMMA TwiceStays == ASSUME Types, Next, ~Boot PROVE twice => twice'
BY Steps, OutsideSame
   DEF BeginReload, ResolveProfile, ProfileFails, Resolved, Fetch, FetchFails, KeepExisting,
       Decide, Remove, Removed, KeepSlot, ReplaceController, PrepareFails, ReplaceFails,
       StartNew, StartNewFails, CloseNode, NodesClosed, Build, BuildFails, Built, StartNode,
       StartNodeFails, Finish, Crash, ChangeNode, ConfigCheck, historyVars

\* A controller is closed.
LEMMA ServedClose ==
    ASSUME Types, NEW S \in SUBSET Slots, NEW c \in S, Unique(S), Served(S),
           CloseController(Key(c.entry))
    PROVE  ServedNow(S \ {c})
<1> SUFFICES ASSUME NEW k \in Keys
             PROVE  \/ \E d \in S \ {c} : /\ Key(d.entry) = k /\ tasks'[k] = 1
                                          /\ inbound'[k] = d.info
                    \/ /\ \A d \in S \ {c} : Key(d.entry) # k
                       /\ tasks'[k] = 0 /\ inbound'[k] = Nil
  BY DEF ServedNow
<1>0. tasks \in [Keys -> Nat] /\ inbound \in [Keys -> Nat \cup {Nil}]
  BY DEF Types, CoreOK
<1>1. CASE Key(c.entry) = k
  <2>1. tasks[k] = 1
    BY <1>1 DEF Served
  <2>2. tasks'[k] = 0 /\ inbound'[k] = Nil
    BY <1>0, <1>1, <2>1 DEF CloseController
  <2> QED BY <1>1, <2>2 DEF Unique
<1>2. CASE Key(c.entry) # k
  <2>1. tasks'[k] = tasks[k] /\ inbound'[k] = inbound[k]
    BY <1>0, <1>2 DEF CloseController
  <2> QED BY <1>2, <2>1 DEF Served
<1> QED BY <1>1, <1>2

\* A controller is started for a key that has none.
LEMMA ServedStart ==
    ASSUME Types, NEW S \in SUBSET Slots, NEW c \in Slots, Served(S),
           \A d \in S : Key(d.entry) # Key(c.entry), Activate(Key(c.entry), c.info),
           tasks' = [tasks EXCEPT ![Key(c.entry)] = @ + 1]
    PROVE  ServedNow(S \cup {c})
<1> SUFFICES ASSUME NEW k \in Keys
             PROVE  \/ \E d \in S \cup {c} : /\ Key(d.entry) = k /\ tasks'[k] = 1
                                             /\ inbound'[k] = d.info
                    \/ /\ \A d \in S \cup {c} : Key(d.entry) # k
                       /\ tasks'[k] = 0 /\ inbound'[k] = Nil
  BY DEF ServedNow
<1>0. tasks \in [Keys -> Nat] /\ inbound \in [Keys -> Nat \cup {Nil}]
  BY DEF Types, CoreOK
<1>1. CASE Key(c.entry) = k
  <2>1. tasks[k] = 0
    BY <1>1 DEF Served
  <2>2. tasks'[k] = 1 /\ inbound'[k] = c.info
    BY <1>0, <1>1, <2>1 DEF Activate
  <2> QED BY <1>1, <2>2
<1>2. CASE Key(c.entry) # k
  <2>1. tasks'[k] = tasks[k] /\ inbound'[k] = inbound[k]
    BY <1>0, <1>2 DEF Activate
  <2> QED BY <1>2, <2>1 DEF Served
<1> QED BY <1>1, <1>2

\* A controller is replaced by another of the same key.
LEMMA ServedReplace ==
    ASSUME Types, NEW S \in SUBSET Slots, NEW c \in S, NEW d \in Slots, Unique(S), Served(S),
           Key(d.entry) = Key(c.entry), Activate(Key(c.entry), d.info), tasks' = tasks
    PROVE  ServedNow((S \ {c}) \cup {d})
<1> SUFFICES ASSUME NEW k \in Keys
             PROVE  \/ \E b \in (S \ {c}) \cup {d} : /\ Key(b.entry) = k /\ tasks'[k] = 1
                                                     /\ inbound'[k] = b.info
                    \/ /\ \A b \in (S \ {c}) \cup {d} : Key(b.entry) # k
                       /\ tasks'[k] = 0 /\ inbound'[k] = Nil
  BY DEF ServedNow
<1>0. inbound \in [Keys -> Nat \cup {Nil}]
  BY DEF Types, CoreOK
<1>1. CASE Key(c.entry) = k
  <2>1. tasks[k] = 1
    BY <1>1 DEF Served
  <2>2. inbound'[k] = d.info
    BY <1>0, <1>1 DEF Activate
  <2> QED BY <1>1, <2>1, <2>2
<1>2. CASE Key(c.entry) # k
  <2>1. inbound'[k] = inbound[k]
    BY <1>0, <1>2 DEF Activate
  <2> QED BY <1>2, <2>1 DEF Served
<1> QED BY <1>1, <1>2

\* A controller that was not running fails to start.
LEMMA ServedFails ==
    ASSUME Types, NEW S, NEW k \in Keys, Served(S), \A d \in S : Key(d.entry) # k,
           inbound' = [inbound EXCEPT ![k] = Nil], tasks' = tasks
    PROVE  ServedNow(S)
<1>1. inbound[k] = Nil /\ inbound \in [Keys -> Nat \cup {Nil}]
  BY DEF Served, Types, CoreOK
<1>2. inbound' = inbound
  BY <1>1
<1> QED BY <1>2 DEF Served, ServedNow

\* Without two controllers of one key, Current is what there is.
LEMMA CurrentIsNodes == ASSUME NEW S \in Current, Unique(nodes) PROVE S = nodes
<1>1. S \subseteq nodes /\ KeysOf(S) = KeysOf(nodes)
  BY DEF Current
<1>2. ASSUME NEW c \in nodes PROVE c \in S
  <2>1. Key(c.entry) \in KeysOf(S)
    BY <1>1 DEF KeysOf
  <2>2. PICK d \in S : Key(d.entry) = Key(c.entry)
    BY <2>1 DEF KeysOf
  <2> QED BY <1>1, <2>2 DEF Unique
<1> QED BY <1>1, <1>2

\* At the start nothing runs.
LEMMA CoreInit == Init => CoreInv
BY DEF Init, CoreInv, Unique, Served, Before

\* Every step keeps CoreInv.
LEMMA CoreNext == Types /\ LoopInv /\ CoreInv /\ [Next]_vars => CoreInv'
<1> SUFFICES ASSUME Types, LoopInv, CoreInv, [Next]_vars, ~twice' PROVE CoreInv'
  BY DEF CoreInv
<1>key. mode' = mode /\ (\A e : Key(e)' = Key(e)) /\ \A S : Unique(S)' <=> Unique(S)
  BY ModeSame, KeySame
<1>goal. ASSUME Unique(nodes'),
                at' \in Before => ServedNow(nodes'),
                at' \in {"remove", "close"} => Unique(left') /\ ServedNow(left'),
                at' = "apply" => /\ Unique(left') /\ Unique(next') /\ ServedNow(left' \cup next')
                                 /\ \A c \in next', d \in left' : Key(c.entry) # Key(d.entry),
                at' = "build" => ServedNow({}),
                at' = "start" => /\ Unique(left') /\ Unique(next') /\ ServedNow(next')
                                 /\ \A c \in next', d \in left' : Key(c.entry) # Key(d.entry)
         PROVE  CoreInv'
  BY <1>goal, <1>key DEF CoreInv, Unique, Served, ServedNow, Apart
<1>boot. CASE Boot
  BY <1>boot, <1>goal DEF Boot, Load, Unique, ServedNow, Before
<1> SUFFICES ASSUME ~Boot PROVE CoreInv'
  BY <1>boot
<1>0. ~twice
  BY TwiceStays DEF vars, historyVars
<1>type. nodes \subseteq Slots /\ next \subseteq Slots /\ want \subseteq Entry
         /\ (at \notin {"resolve", "fetch", "build"} => left \subseteq Slots)
         /\ cand \in [Keys -> Nat \cup {Nil}]
  BY DEF Types, LoopOK, LeftOK, NodeOK
<1>nodes. Unique(nodes)
  BY <1>0 DEF CoreInv
<1>now. ASSUME UNCHANGED <<tasks, inbound>>, NEW S, Served(S) PROVE ServedNow(S)
  BY <1>now DEF Served, ServedNow
<1>dead. ASSUME at' = "dead", nodes' = nodes PROVE CoreInv'
  BY <1>dead, <1>goal, <1>nodes DEF Before
<1>same. ASSUME UNCHANGED <<at, nodes, left, next, tasks, inbound>> PROVE CoreInv'
  BY <1>same, <1>key, <1>0 DEF CoreInv, Unique, Served, Apart
<1>before. ASSUME at' \in Before, at \in Before, UNCHANGED <<nodes, tasks, inbound>>
           PROVE  CoreInv'
  BY <1>before, <1>now, <1>goal, <1>nodes, <1>0 DEF CoreInv, Before
<1>1. CASE \/ Outside \/ \E e \in Entry : ChangeNode(Key(e))
           \/ \E k \in Keys : ConfigCheck(k)
  BY <1>1, <1>same, OutsideSame DEF ChangeNode, ConfigCheck, loopVars, nodeVars,
                                    coreVars
<1>2. CASE BeginReload \/ KeepExisting
  BY <1>2, <1>before DEF BeginReload, Load, KeepExisting, nodeVars, coreVars, Before
<1>3. CASE Crash
  BY <1>3, <1>dead DEF Crash, Die, nodeVars
<1>4. CASE \/ \E p \in Profile : ResolveProfile(p) \/ ProfileFails(p)
           \/ \E e \in Entry : Fetch(e) \/ FetchFails(e)
  <2>1. UNCHANGED <<nodes, tasks, inbound>> /\ at' \in {at, "dead"} /\ at \in Before
    BY <1>4, FailureSteps DEF ResolveProfile, ProfileFails, Fetch, FetchFails, Die,
                              nodeVars,
       coreVars, Before
  <2> QED BY <2>1, <1>before, <1>dead
<1>5. CASE Resolved
  <2>1. UNCHANGED <<nodes, tasks, inbound>> /\ at \in Before
    BY <1>5 DEF Resolved, nodeVars, coreVars, Before
  <2>2. at' \in {"fetch", "dead"} \/ (at' = "close" /\ left' = nodes)
    BY <1>5 DEF Resolved, Die
  <2>3. CASE at' = "close" /\ left' = nodes
    BY <2>1, <2>3, <1>now, <1>goal, <1>nodes, <1>0 DEF CoreInv, Before
  <2> QED BY <2>1, <2>2, <2>3, <1>before, <1>dead DEF Before
<1>6. ASSUME NEW S \in Current, Decide(S) PROVE CoreInv'
  <2>1. UNCHANGED <<nodes, tasks, inbound>> /\ at \in Before
    BY <1>6 DEF Decide, nodeVars, coreVars, Before
  <2>2. at' \in {"close", "remove"} /\ left' = nodes
    BY <1>6, <1>nodes, CurrentIsNodes DEF Decide
  <2> QED BY <2>1, <2>2, <1>now, <1>goal, <1>nodes, <1>0 DEF CoreInv, Before
<1>7. ASSUME NEW c \in left, Remove(c) \/ CloseNode(c) PROVE CoreInv'
  <2>1. at \in {"remove", "close"} /\ nodes' = nodes /\ CloseController(Key(c.entry))
    BY <1>7 DEF Remove, CloseNode, nodeVars
  <2>2. at' = "dead" \/ (at' = at /\ left' = left \ {c})
    BY <1>7 DEF Remove, CloseNode, Die
  <2>3. Unique(left) /\ Served(left) /\ left \subseteq Slots
    BY <2>1, <1>0, <1>type DEF CoreInv
  <2>4. ServedNow(left \ {c}) /\ Unique(left \ {c})
    BY <2>1, <2>3, ServedClose DEF Unique
  <2> QED BY <2>1, <2>2, <2>4, <1>dead, <1>goal, <1>nodes DEF Before
<1>8. CASE Removed
  <2>1. Unique(left) /\ Served(left) /\ next = {} /\ left \cup next = left
    BY <1>8, <1>0 DEF Removed, CoreInv, LoopInv
  <2>2. UNCHANGED <<nodes, left, next, tasks, inbound>> /\ at' = "apply"
    BY <1>8 DEF Removed, nodeVars, coreVars
  <2>3. ServedNow(left \cup next) /\ Unique(next)
    BY <2>1, <2>2, <1>now DEF Unique
  <2> QED BY <2>1, <2>2, <2>3, <1>goal, <1>nodes DEF Before
<1>apply. ASSUME at = "apply"
          PROVE  /\ Unique(left) /\ Unique(next) /\ Apart /\ Served(left \cup next)
                 /\ Unique(left \cup next) /\ left \subseteq Slots
  <2>1. Unique(left) /\ Unique(next) /\ Apart /\ Served(left \cup next) /\ left \subseteq Slots
    BY <1>apply, <1>0, <1>type DEF CoreInv
  <2> QED BY <2>1 DEF Unique, Apart
<1>moves. ASSUME NEW c \in left, at = "apply", at' \in {"apply", "dead"}, left' = left \ {c},
                 next' = next \cup {c}, UNCHANGED <<nodes, tasks, inbound>>
          PROVE  CoreInv'
  <2>1. left' \cup next' = left \cup next
    BY <1>moves
  <2>2. ServedNow(left' \cup next')
    BY <1>moves, <2>1, <1>now, <1>apply
  <2>3. Unique(left') /\ Unique(next')
        /\ \A b \in next', d \in left' : Key(b.entry) # Key(d.entry)
    BY <1>moves, <1>apply DEF Unique, Apart
  <2> QED BY <1>moves, <2>2, <2>3, <1>goal, <1>nodes DEF Before
<1>9. ASSUME NEW c \in left, KeepSlot(c) PROVE CoreInv'
  BY <1>9, <1>moves DEF KeepSlot, nodeVars, coreVars
<1>10. ASSUME NEW c \in left, NEW e \in want, PrepareFails(c, e) PROVE CoreInv'
  <2>1. at = "apply" /\ at' \in {"apply", "dead"} /\ UNCHANGED <<nodes, tasks, inbound>>
    BY <1>10, FailureSteps DEF PrepareFails, Changed, nodeVars, coreVars
  <2> QED BY <1>10, <2>1, <1>moves DEF PrepareFails
<1>11. ASSUME NEW c \in left, NEW e \in want, ReplaceController(c, e) PROVE CoreInv'
  <2>1. /\ at = "apply" /\ at' = "apply" /\ UNCHANGED <<nodes, tasks>>
        /\ Key(e) = Key(c.entry) /\ e \in Entry /\ cand[Key(e)] \in Nat
    BY <1>11, <1>type, KeyType DEF ReplaceController, Changed, nodeVars
  <2>2. PICK d \in Slots : d = Slot(e, cand[Key(e)]) /\ d.entry = e /\ d.info = cand[Key(e)]
    BY <2>1, SlotType
  <2>3. next' = next \cup {d} /\ left' = left \ {c} /\ Activate(Key(c.entry), d.info)
    BY <1>11, <2>1, <2>2 DEF ReplaceController
  <2>4. c \notin next
    BY <2>1, <1>apply DEF Apart
  <2>5. left' \cup next' = ((left \cup next) \ {c}) \cup {d}
    BY <2>3, <2>4
  <2>6. left \cup next \in SUBSET Slots /\ c \in left \cup next
    BY <2>1, <1>apply, <1>type
  <2>7. ServedNow(left' \cup next')
    BY <2>1, <2>2, <2>3, <2>5, <2>6, <1>apply, ServedReplace
  <2>8. Unique(left') /\ Unique(next')
        /\ \A b \in next', f \in left' : Key(b.entry) # Key(f.entry)
    BY <2>1, <2>2, <2>3, <1>apply DEF Unique, Apart
  <2> QED BY <2>1, <2>7, <2>8, <1>goal, <1>nodes DEF Before
<1>12. ASSUME NEW c \in left, NEW e \in want, ReplaceFails(c, e) PROVE CoreInv'
  <2>1. /\ at = "apply" /\ at' \in {"apply", "dead"} /\ UNCHANGED <<nodes, next>>
        /\ left' = left \ {c} /\ CloseController(Key(c.entry))
    BY <1>12, FailureSteps DEF ReplaceFails, Changed, nodeVars
  <2>2. c \notin next
    BY <2>1, <1>apply DEF Apart
  <2>3. left' \cup next' = (left \cup next) \ {c}
    BY <2>1, <2>2
  <2>4. left \cup next \in SUBSET Slots /\ c \in left \cup next
    BY <2>1, <1>apply, <1>type
  <2>5. ServedNow(left' \cup next')
    BY <2>1, <2>3, <2>4, <1>apply, ServedClose
  <2>6. Unique(left') /\ Unique(next')
        /\ \A b \in next', f \in left' : Key(b.entry) # Key(f.entry)
    BY <2>1, <1>apply DEF Unique, Apart
  <2> QED BY <2>1, <2>5, <2>6, <1>goal, <1>nodes DEF Before
<1>free. ASSUME NEW e \in Entry, NewNode(e)
         PROVE  \A d \in left \cup next : Key(d.entry) # Key(e)
  BY <1>free DEF NewNode, SlotOf, LoopInv
<1>13. ASSUME NEW e \in Entry, StartNew(e) PROVE CoreInv'
  <2>1. /\ at = "apply" /\ at' = "apply" /\ UNCHANGED <<nodes, left>>
        /\ cand[Key(e)] \in Nat /\ NewNode(e)
    BY <1>13, <1>type, KeyType DEF StartNew, NewNode, nodeVars
  <2>2. PICK d \in Slots : d = Slot(e, cand[Key(e)]) /\ d.entry = e /\ d.info = cand[Key(e)]
    BY <2>1, SlotType
  <2>3. /\ next' = next \cup {d} /\ Activate(Key(d.entry), d.info)
        /\ tasks' = [tasks EXCEPT ![Key(d.entry)] = @ + 1]
    BY <1>13, <2>2 DEF StartNew
  <2>4. \A b \in left \cup next : Key(b.entry) # Key(d.entry)
    BY <2>1, <2>2, <1>free
  <2>5. left' \cup next' = (left \cup next) \cup {d} /\ left \cup next \in SUBSET Slots
    BY <2>1, <2>3, <1>apply, <1>type
  <2>6. ServedNow(left' \cup next')
    BY <2>1, <2>3, <2>4, <2>5, <1>apply, ServedStart
  <2>7. Unique(left') /\ Unique(next')
        /\ \A b \in next', f \in left' : Key(b.entry) # Key(f.entry)
    BY <2>1, <2>3, <2>4, <1>apply DEF Unique, Apart
  <2> QED BY <2>1, <2>6, <2>7, <1>goal, <1>nodes DEF Before
<1>14. ASSUME NEW e \in Entry, StartNewFails(e) PROVE CoreInv'
  <2>1. /\ at = "apply" /\ at' \in {"apply", "dead"} /\ UNCHANGED <<nodes, left, next, tasks>>
        /\ inbound' = [inbound EXCEPT ![Key(e)] = Nil] /\ NewNode(e)
    BY <1>14, FailureSteps DEF StartNewFails, NewNode, nodeVars
  <2>2. ServedNow(left' \cup next')
    BY <2>1, <1>free, <1>apply, KeyType, ServedFails
  <2> QED BY <2>1, <2>2, <1>apply, <1>goal, <1>nodes DEF Before, Apart
<1>15. CASE NodesClosed
  <2>1. Served({}) /\ inbound' = [k \in Keys |-> Nil] /\ tasks' = tasks
        /\ nodes' = nodes /\ at' = "build"
    BY <1>15, <1>0 DEF NodesClosed, CoreInv, nodeVars
  <2>2. ServedNow({})
    BY <2>1 DEF Served, ServedNow
  <2> QED BY <2>1, <2>2, <1>goal, <1>nodes DEF Before
<1>16. CASE \E e \in Entry : Build(e) \/ BuildFails(e)
  <2>1. at = "build" /\ at' \in {"build", "dead"} /\ UNCHANGED <<nodes, tasks, inbound>>
    BY <1>16, FailureSteps DEF Build, BuildFails, nodeVars, coreVars
  <2>2. ServedNow({})
    BY <2>1, <1>now, <1>0 DEF CoreInv
  <2> QED BY <2>1, <2>2, <1>goal, <1>nodes DEF Before
<1>17. CASE Built
  <2>1. /\ at = "build" /\ at' = "start" /\ left' = next /\ next' = {}
        /\ UNCHANGED <<nodes, tasks, inbound>> /\ Unique(next)
    BY <1>17 DEF Built, coreVars, Unique
  <2>2. ServedNow({})
    BY <2>1, <1>now, <1>0 DEF CoreInv
  <2> QED BY <2>1, <2>2, <1>goal, <1>nodes DEF Before, Unique
<1>start. ASSUME at = "start"
          PROVE  Unique(left) /\ Unique(next) /\ Apart /\ Served(next) /\ left \subseteq Slots
  BY <1>start, <1>0, <1>type DEF CoreInv
<1>18. ASSUME NEW c \in left, StartNode(c) PROVE CoreInv'
  <2>1. /\ at = "start" /\ at' = "start" /\ nodes' = nodes
        /\ next' = next \cup {c} /\ left' = left \ {c} /\ Activate(Key(c.entry), c.info)
        /\ tasks' = [tasks EXCEPT ![Key(c.entry)] = @ + 1]
    BY <1>18 DEF StartNode, nodeVars
  <2>2. c \in Slots /\ \A d \in next : Key(d.entry) # Key(c.entry)
    BY <2>1, <1>start DEF Apart
  <2>3. ServedNow(next')
    BY <2>1, <2>2, <1>start, <1>type, ServedStart
  <2>4. Unique(left') /\ Unique(next')
        /\ \A b \in next', f \in left' : Key(b.entry) # Key(f.entry)
    BY <2>1, <1>start DEF Unique, Apart
  <2> QED BY <2>1, <2>3, <2>4, <1>goal, <1>nodes DEF Before
<1>19. ASSUME NEW c \in left, StartNodeFails(c) PROVE CoreInv'
  <2>1. at = "start" /\ nodes' = nodes
    BY <1>19 DEF StartNodeFails, nodeVars
  <2>2. CASE at' = "dead"
    BY <2>1, <2>2, <1>dead
  <2>3. CASE at' # "dead"
    <3>1. /\ at' = "start" /\ UNCHANGED <<next, tasks>> /\ left' = left \ {c}
          /\ inbound' = [inbound EXCEPT ![Key(c.entry)] = Nil]
      BY <1>19, <2>1, <2>3 DEF StartNodeFails, Die
    <3>2. Key(c.entry) \in Keys /\ \A d \in next : Key(d.entry) # Key(c.entry)
      BY <2>1, <1>start, SlotKey DEF Apart
    <3>3. ServedNow(next')
      BY <2>1, <3>1, <3>2, <1>start, ServedFails
    <3>4. Unique(left') /\ Unique(next')
          /\ \A b \in next', f \in left' : Key(b.entry) # Key(f.entry)
      BY <2>1, <3>1, <1>start DEF Unique, Apart
    <3> QED BY <2>1, <3>1, <3>3, <3>4, <1>goal, <1>nodes DEF Before
  <2> QED BY <2>2, <2>3
<1>20. CASE Finish
  <2>1. at \in {"apply", "start"} /\ left = {} /\ at' = "loop" /\ nodes' = next
        /\ UNCHANGED <<tasks, inbound>>
    BY <1>20 DEF Finish, coreVars
  <2>2. left \cup next = next
    BY <2>1
  <2>3. Served(next) /\ Unique(next)
    BY <2>1, <2>2, <1>apply, <1>start
  <2> QED BY <2>1, <2>3, <1>now, <1>goal DEF Before
<1>21. CASE Next
  BY <1>21, Steps, <1>1, <1>2, <1>3, <1>4, <1>5, <1>6, <1>7, <1>8, <1>9, <1>10,
     <1>11, <1>12,
     <1>13, <1>14, <1>15, <1>16, <1>17, <1>18, <1>19, <1>20
<1>22. CASE UNCHANGED vars
  BY <1>22, <1>1 DEF Outside
<1> QED BY <1>21, <1>22

-----------------------------------------------------------------------------
(* What the clients have told.                                             *)

\* Behind and Told after a step.
BehindNow(S) == \A c \in S : c.info <= hash'[Key(c.entry)]
ToldNow(c)   == hash'[Key(c.entry)] = c.info \/ reloadCh'

\* At the start nothing runs.
LEMMA ToldInit == Init => ToldInv
BY DEF Init, ToldInv, Behind, Before, Reconciling

\* A client that starts with what is fetched knows no less than it runs, and the
\* others know what they knew.
LEMMA ActivateKnows ==
    ASSUME Types, NEW k \in Keys, NEW v \in Nat, Activate(k, v)
    PROVE  hash'[k] = v /\ \A j \in Keys : j # k => hash'[j] = hash[j]
BY DEF Activate, Types, CoreOK

\* Every step keeps ToldInv.
LEMMA ToldNext ==
    Types /\ LoopInv /\ CoreInv /\ VersionInv /\ ToldInv /\ [Next]_vars => ToldInv'
<1> SUFFICES ASSUME Types, LoopInv, CoreInv, VersionInv, ToldInv, [Next]_vars, ~twice'
             PROVE  ToldInv'
  BY DEF ToldInv
<1>key. mode' = mode /\ \A e : Key(e)' = Key(e)
  BY ModeSame, KeySame
<1>goal. ASSUME at' \in Before => BehindNow(nodes'),
                at' \in {"remove", "apply"} => BehindNow(left'),
                at' \in {"apply", "start"} => BehindNow(next'),
                at' \in Reconciling =>
                    \A k \in Keys : cand'[k] # Nil => hash'[k] <= cand'[k] \/ reloadCh',
                at' = "fetch" =>
                    \A e \in want' \ left' : cand'[Key(e)] # Nil \/ fail' # {},
                at' = "remove" => \A e \in want' : cand'[Key(e)] # Nil \/ fail' # {},
                at' = "apply" => \A c \in left' : cand'[Key(c.entry)] # Nil \/ fail' # {},
                at' \in {"apply", "start"} => \A c \in next' : ToldNow(c) \/ fail' # {},
                at' = "loop" => \A c \in nodes' : ToldNow(c) \/ failures' # {}
         PROVE  ToldInv'
  BY <1>goal, <1>key DEF ToldInv, Behind, BehindNow, Told, ToldNow
<1>boot. CASE Boot
  BY <1>boot, <1>goal DEF Boot, Load, BehindNow, Before, Reconciling
<1> SUFFICES ASSUME ~Boot PROVE ToldInv'
  BY <1>boot
<1>0. ~twice
  BY TwiceStays DEF vars, historyVars
<1>type. /\ nodes \subseteq Slots /\ next \subseteq Slots /\ want \subseteq Entry
         /\ (at \notin {"resolve", "fetch", "build"} => left \subseteq Slots)
         /\ cand \in [Keys -> Nat \cup {Nil}] /\ hash \in [Keys -> Nat]
         /\ version \in [Keys -> Nat] /\ reloadCh \in BOOLEAN
  BY DEF Types, LoopOK, LeftOK, NodeOK, CoreOK, PanelOK, FlagOK
<1>nil. Nil \notin Nat
  BY MachineAssumption
<1>now. ASSUME hash' = hash PROVE \A S : Behind(S) => BehindNow(S)
  BY <1>now DEF Behind, BehindNow
<1>told. ASSUME hash' = hash, reloadCh' \in {reloadCh, TRUE} PROVE \A c : Told(c) => ToldNow(c)
  BY <1>told, <1>type DEF Told, ToldNow
<1>away. ASSUME at' \in {"dead", "close", "build"} PROVE ToldInv'
  BY <1>away, <1>goal DEF Before, Reconciling
<1>same. ASSUME UNCHANGED <<at, left, want, cand, next, fail, nodes, failures, hash>>,
                reloadCh' \in {reloadCh, TRUE}
         PROVE  ToldInv'
  BY <1>same, <1>key, <1>0, <1>type DEF ToldInv, Behind, Told
<1>before. ASSUME at \in Before PROVE Behind(nodes)
  BY <1>before, <1>0 DEF ToldInv
<1>1. CASE Outside \/ \E e \in Entry : ChangeNode(Key(e))
  <2>1. UNCHANGED <<at, left, want, cand, next, fail, nodes, failures, hash>>
        /\ reloadCh' \in {reloadCh, TRUE}
    BY <1>1, OutsideSame DEF ChangeNode, loopVars, nodeVars, coreVars
  <2> QED BY <2>1, <1>same
<1>2. ASSUME NEW k \in Keys, ConfigCheck(k) PROVE ToldInv'
  <2>1. UNCHANGED <<at, left, want, cand, next, fail, nodes, failures>> /\ reloadCh' = TRUE
    BY <1>2 DEF ConfigCheck, loopVars, nodeVars
  <2>2. \A j \in Keys : hash[j] \in Nat /\ hash'[j] \in Nat /\ hash[j] <= hash'[j]
    BY <1>2, <1>type DEF ConfigCheck, VersionInv
  <2>3. ASSUME NEW S, S \subseteq Slots, Behind(S) PROVE BehindNow(S)
    <3> SUFFICES ASSUME NEW c \in S PROVE c.info <= hash'[Key(c.entry)]
      BY DEF BehindNow
    <3>1. c \in Slots /\ c.info <= hash[Key(c.entry)]
      BY <2>3 DEF Behind
    <3>2. Key(c.entry) \in Keys /\ c.info \in Nat
      BY <3>1, SlotKey
    <3> QED BY <3>1, <3>2, <2>2
  <2>4. at \in Before => BehindNow(nodes)
    BY <2>3, <1>before, <1>type
  <2>5. at \in {"remove", "apply"} => BehindNow(left)
    BY <2>3, <1>type, <1>0 DEF ToldInv
  <2>6. at \in {"apply", "start"} => BehindNow(next)
    BY <2>3, <1>type, <1>0 DEF ToldInv
  <2>7. /\ at = "fetch" => \A e \in want \ left : cand[Key(e)] # Nil \/ fail # {}
        /\ at = "remove" => \A e \in want : cand[Key(e)] # Nil \/ fail # {}
        /\ at = "apply" => \A c \in left : cand[Key(c.entry)] # Nil \/ fail # {}
    BY <1>0 DEF ToldInv
  <2> QED BY <2>1, <2>4, <2>5, <2>6, <2>7, <1>goal DEF ToldNow
<1>3. CASE BeginReload
  <2>1. at' = "resolve" /\ UNCHANGED <<nodes, hash>> /\ at \in Before
    BY <1>3 DEF BeginReload, Load, nodeVars, coreVars, Before
  <2> QED BY <2>1, <1>before, <1>now, <1>goal DEF Before, Reconciling
<1>4. CASE Crash
  BY <1>4, <1>away DEF Crash, Die
<1>5. CASE \E p \in Profile : ResolveProfile(p) \/ ProfileFails(p)
  <2>1. at' \in {"resolve", "dead"} /\ UNCHANGED <<nodes, hash>> /\ at \in Before
    BY <1>5 DEF ResolveProfile, ProfileFails, Die, nodeVars, coreVars, Before
  <2> QED BY <2>1, <1>away, <1>before, <1>now, <1>goal DEF Before, Reconciling
<1>6. CASE Resolved
  <2>1. at = "resolve" /\ UNCHANGED <<nodes, hash, cand, want>> /\ cand = NoCand
    BY <1>6 DEF Resolved, Die, nodeVars, coreVars, LoopInv
  <2>2. at' \in {"dead", "close"} \/ (at' = "fetch" /\ left' = want')
    BY <1>6 DEF Resolved, Die
  <2>3. CASE at' = "fetch" /\ left' = want'
    <3>1. Behind(nodes) /\ \A k \in Keys : cand'[k] = Nil
      BY <2>1, <1>before DEF NoCand, Before
    <3> QED BY <2>1, <2>3, <3>1, <1>now, <1>goal DEF Before
  <2> QED BY <2>2, <2>3, <1>away
<1>fetch. ASSUME at = "fetch"
          PROVE  /\ \A k \in Keys : cand[k] # Nil => hash[k] <= cand[k] \/ reloadCh
                 /\ \A e \in want \ left : cand[Key(e)] # Nil \/ fail # {}
                 /\ Behind(nodes)
  BY <1>fetch, <1>0 DEF ToldInv, Before, Reconciling
<1>failed. ASSUME NEW e, at = "fetch", MachineFailure(e), UNCHANGED <<nodes, hash, reloadCh>>
           PROVE  ToldInv'
  <2>1. CASE at' = "dead"
    BY <2>1, <1>away
  <2>2. CASE at' # "dead"
    <3>1. at' = "fetch" /\ fail' # {} /\ cand' = cand
      BY <1>failed, <2>2, FailureSteps
    <3> QED BY <1>failed, <3>1, <1>fetch, <1>now, <1>goal
  <2> QED BY <2>1, <2>2
<1>7. ASSUME NEW e \in Entry, Fetch(e) PROVE ToldInv'
  <2>1. at = "fetch" /\ UNCHANGED <<nodes, hash, reloadCh>>
    BY <1>7 DEF Fetch, nodeVars, coreVars
  <2>2. CASE MachineFailure(e)
    BY <2>1, <2>2, <1>failed
  <2>3. CASE ~MachineFailure(e)
    <3>1. /\ cand' = [cand EXCEPT ![Key(e)] = version[Key(e)]] /\ left' = left \ {e}
          /\ UNCHANGED <<at, want, fail>>
      BY <1>7, <2>3 DEF Fetch
    <3>2. /\ Key(e) \in Keys /\ cand'[Key(e)] = version[Key(e)]
          /\ \A k \in Keys : k # Key(e) => cand'[k] = cand[k]
      BY <3>1, <1>type, KeyType
    <3>3. version[Key(e)] # Nil /\ hash[Key(e)] <= version[Key(e)]
      BY <3>2, <1>type, <1>nil DEF VersionInv
    <3>4. \A k \in Keys : cand'[k] # Nil => hash'[k] <= cand'[k] \/ reloadCh'
      BY <2>1, <3>2, <3>3, <1>fetch
    <3>5. \A f \in want' \ left' : cand'[Key(f)] # Nil \/ fail' # {}
      <4> SUFFICES ASSUME NEW f \in want, f \notin left \ {e}
                   PROVE  cand'[Key(f)] # Nil \/ fail # {}
        BY <3>1
      <4>1. CASE Key(f) = Key(e)
        BY <4>1, <3>2, <3>3
      <4>2. CASE Key(f) # Key(e)
        <5>1. f \in want \ left /\ Key(f) \in Keys
          BY <4>2, <1>type, KeyType
        <5> QED BY <4>2, <5>1, <3>2, <2>1, <1>fetch
      <4> QED BY <4>1, <4>2
    <3> QED BY <2>1, <3>1, <3>4, <3>5, <1>fetch, <1>now, <1>goal
  <2> QED BY <2>2, <2>3
<1>8. ASSUME NEW e \in Entry, FetchFails(e) PROVE ToldInv'
  BY <1>8, <1>failed DEF FetchFails, nodeVars, coreVars
<1>9. CASE KeepExisting
  <2>1. at = "fetch" /\ at' = "loop" /\ UNCHANGED <<nodes, hash>> /\ failures' # {}
    BY <1>9 DEF KeepExisting, coreVars
  <2> QED BY <2>1, <1>fetch, <1>now, <1>goal DEF Reconciling
<1>10. ASSUME NEW S \in Current, Decide(S) PROVE ToldInv'
  <2>1. /\ at = "fetch" /\ left = {} /\ UNCHANGED <<want, nodes, hash, reloadCh>>
        /\ S \subseteq nodes
    BY <1>10 DEF Decide, nodeVars, coreVars, Current
  <2>2. at' = "close" \/ (at' = "remove" /\ left' = S /\ UNCHANGED <<cand, fail>>)
    BY <1>10 DEF Decide
  <2>3. CASE at' = "remove" /\ left' = S /\ UNCHANGED <<cand, fail>>
    <3>1. BehindNow(left')
      BY <2>1, <2>3, <1>fetch DEF Behind, BehindNow
    <3>2. \A e \in want' : cand'[Key(e)] # Nil \/ fail' # {}
      BY <2>1, <2>3, <1>fetch
    <3> QED BY <2>1, <2>3, <3>1, <3>2, <1>fetch, <1>goal DEF Before
  <2> QED BY <2>2, <2>3, <1>away
<1>remove. ASSUME at = "remove"
           PROVE  /\ \A k \in Keys : cand[k] # Nil => hash[k] <= cand[k] \/ reloadCh
                  /\ \A e \in want : cand[Key(e)] # Nil \/ fail # {}
                  /\ Behind(left)
  BY <1>remove, <1>0 DEF ToldInv, Reconciling
<1>11. ASSUME NEW c \in left, Remove(c) PROVE ToldInv'
  <2>1. at = "remove" /\ UNCHANGED <<hash, reloadCh>>
    BY <1>11 DEF Remove, CloseController
  <2>2. at' = "dead" \/ (at' = "remove" /\ left' = left \ {c} /\ UNCHANGED <<want, cand, fail>>)
    BY <1>11, <2>1 DEF Remove, Die
  <2>3. CASE at' = "remove" /\ left' = left \ {c} /\ UNCHANGED <<want, cand, fail>>
    <3>1. BehindNow(left')
      BY <2>1, <2>3, <1>remove DEF Behind, BehindNow
    <3> QED BY <2>1, <2>3, <3>1, <1>remove, <1>goal DEF Before
  <2> QED BY <2>2, <2>3, <1>away
<1>12. CASE Removed
  <2>1. /\ at = "remove" /\ at' = "apply" /\ UNCHANGED <<left, want, cand, next, fail, hash,
                                                         reloadCh>>
        /\ KeysOf(left) \subseteq {Key(e) : e \in want} /\ next = {}
    BY <1>12 DEF Removed, coreVars, LoopInv
  <2>2. ASSUME NEW c \in left PROVE cand[Key(c.entry)] # Nil \/ fail # {}
    <3>1. Key(c.entry) \in KeysOf(left)
      BY DEF KeysOf
    <3>2. PICK e \in want : Key(e) = Key(c.entry)
      BY <2>1, <3>1
    <3> QED BY <2>1, <3>2, <1>remove
  <2>3. BehindNow(left') /\ BehindNow(next')
    BY <2>1, <1>remove, <1>now DEF BehindNow
  <2> QED BY <2>1, <2>2, <2>3, <1>remove, <1>goal DEF Before
<1>apply. ASSUME at = "apply"
          PROVE  /\ \A k \in Keys : cand[k] # Nil => hash[k] <= cand[k] \/ reloadCh
                 /\ \A c \in left : cand[Key(c.entry)] # Nil \/ fail # {}
                 /\ \A c \in next : Told(c) \/ fail # {}
                 /\ Behind(left) /\ Behind(next) /\ Unique(left) /\ Apart
                 /\ left \subseteq Slots
  BY <1>apply, <1>0, <1>type DEF ToldInv, Reconciling, CoreInv
<1>applied. ASSUME at = "apply", at' = "apply", left' \subseteq left,
                   \A c \in next' : /\ c.info <= hash'[Key(c.entry)]
                                    /\ ToldNow(c) \/ fail' # {},
                   \A k \in Keys : cand'[k] # Nil => /\ cand'[k] = cand[k]
                                                     /\ hash'[k] = hash[k],
                   \A c \in left' : /\ hash'[Key(c.entry)] = hash[Key(c.entry)]
                                    /\ cand'[Key(c.entry)] = cand[Key(c.entry)] \/ fail' # {},
                   fail \subseteq fail', reloadCh' = reloadCh
            PROVE  ToldInv'
  <2>1. BehindNow(left') /\ BehindNow(next')
    BY <1>applied, <1>apply DEF Behind, BehindNow
  <2>2. \A c \in left' : cand'[Key(c.entry)] # Nil \/ fail' # {}
    BY <1>applied, <1>apply
  <2>3. \A k \in Keys : cand'[k] # Nil => hash'[k] <= cand'[k] \/ reloadCh'
    BY <1>applied, <1>apply
  <2> QED BY <1>applied, <2>1, <2>2, <2>3, <1>goal DEF Before
<1>candnil. ASSUME NEW k \in Keys, cand' = [cand EXCEPT ![k] = Nil]
            PROVE  cand'[k] = Nil /\ \A j \in Keys : j # k => cand'[j] = cand[j]
  BY <1>candnil, <1>type
<1>13. ASSUME NEW c \in left, KeepSlot(c) PROVE ToldInv'
  <2>1. /\ at = "apply" /\ at' = "apply" /\ left' = left \ {c} /\ next' = next \cup {c}
        /\ cand' = [cand EXCEPT ![Key(c.entry)] = Nil] /\ UNCHANGED <<fail, hash, reloadCh>>
        /\ cand[Key(c.entry)] = Nil \/ cand[Key(c.entry)] = c.info
    BY <1>13 DEF KeepSlot, SameNode, coreVars
  <2>2. c \in Slots /\ c.info \in Nat /\ Key(c.entry) \in Keys /\ c.info <= hash[Key(c.entry)]
    BY <2>1, <1>apply, SlotKey DEF Behind
  <2>3. Told(c) \/ fail # {}
    <3>1. CASE cand[Key(c.entry)] = Nil
      BY <2>1, <3>1, <1>apply
    <3>2. CASE cand[Key(c.entry)] = c.info
      <4>1. hash[Key(c.entry)] <= c.info \/ reloadCh
        BY <2>1, <2>2, <3>2, <1>apply, <1>nil
      <4> QED BY <4>1, <2>2, <1>type DEF Told
    <3> QED BY <2>1, <3>1, <3>2
  <2>4. \A d \in left' : d \in Slots /\ Key(d.entry) # Key(c.entry)
    BY <2>1, <1>apply DEF Unique
  <2>5. \A d \in left' : cand'[Key(d.entry)] = cand[Key(d.entry)]
    BY <2>1, <2>2, <2>4, <1>candnil, SlotKey
  <2>6. \A k \in Keys : cand'[k] # Nil => cand'[k] = cand[k] /\ hash'[k] = hash[k]
    BY <2>1, <2>2, <1>candnil
  <2>7. \A d \in next' : d.info <= hash'[Key(d.entry)] /\ (ToldNow(d) \/ fail' # {})
    BY <2>1, <2>2, <2>3, <1>apply, <1>told DEF Behind
  <2> QED BY <2>1, <2>5, <2>6, <2>7, <1>applied
<1>14. ASSUME NEW c \in left, NEW e \in want, PrepareFails(c, e) \/ ReplaceFails(c, e)
       PROVE  ToldInv'
  <2>1. /\ at = "apply" /\ left' = left \ {c} /\ UNCHANGED <<hash, reloadCh>>
        /\ next' \subseteq next \cup {c} /\ ApplyFailure(e) /\ e \in Entry
    BY <1>14, <1>type DEF PrepareFails, ReplaceFails, Changed, CloseController,
                          coreVars
  <2>2. CASE at' = "dead"
    BY <2>2, <1>away
  <2>3. CASE at' # "dead"
    <3>1. at' = "apply" /\ fail' = fail \cup {e} /\ cand' = [cand EXCEPT ![Key(e)] = Nil]
      BY <2>1, <2>3, FailureSteps
    <3>2. \A k \in Keys : cand'[k] # Nil => cand'[k] = cand[k] /\ hash'[k] = hash[k]
      BY <2>1, <3>1, <1>candnil, KeyType
    <3>3. \A d \in next' : d.info <= hash'[Key(d.entry)]
      BY <2>1, <1>apply DEF Behind
    <3> QED BY <2>1, <3>1, <3>2, <3>3, <1>applied
  <2> QED BY <2>2, <2>3
<1>started. ASSUME NEW e \in Entry, at = "apply", at' = "apply", cand[Key(e)] \in Nat,
                   Activate(Key(e), cand[Key(e)]), next' = next \cup {Slot(e, cand[Key(e)])},
                   cand' = [cand EXCEPT ![Key(e)] = Nil], left' \subseteq left,
                   UNCHANGED <<fail, reloadCh>>,
                   \A d \in left' \cup next : Key(d.entry) # Key(e)
            PROVE  ToldInv'
  <2>1. Key(e) \in Keys
    BY KeyType
  <2>2. PICK n \in Slots : n = Slot(e, cand[Key(e)]) /\ n.entry = e /\ n.info = cand[Key(e)]
    BY <1>started, SlotType
  <2>3. hash'[Key(e)] = n.info /\ \A j \in Keys : j # Key(e) => hash'[j] = hash[j]
    BY <1>started, <2>1, <2>2, ActivateKnows
  <2>4. \A d \in left' \cup next : Key(d.entry) \in Keys /\ hash'[Key(d.entry)] = hash[Key(d.entry)]
    BY <1>started, <2>3, <1>apply, <1>type, SlotKey
  <2>5. \A d \in left' : cand'[Key(d.entry)] = cand[Key(d.entry)]
    BY <1>started, <2>1, <2>4, <1>candnil
  <2>6. \A k \in Keys : cand'[k] # Nil => cand'[k] = cand[k] /\ hash'[k] = hash[k]
    BY <1>started, <2>1, <2>3, <1>candnil
  <2>7. ASSUME NEW d \in next' PROVE d.info <= hash'[Key(d.entry)] /\ (ToldNow(d) \/ fail' # {})
    <3>1. CASE d = n
      BY <2>2, <2>3, <3>1, SlotKey DEF ToldNow
    <3>2. CASE d \in next
      BY <1>started, <2>4, <3>2, <1>apply DEF Behind, Told, ToldNow
    <3> QED BY <1>started, <2>2, <3>1, <3>2
  <2> QED BY <1>started, <2>4, <2>5, <2>6, <2>7, <1>applied
<1>15. ASSUME NEW c \in left, NEW e \in want, ReplaceController(c, e) PROVE ToldInv'
  <2>1. /\ at = "apply" /\ at' = "apply" /\ left' = left \ {c} /\ UNCHANGED <<fail, reloadCh>>
        /\ Key(e) = Key(c.entry) /\ e \in Entry /\ cand[Key(e)] \in Nat
    BY <1>15, <1>type, KeyType DEF ReplaceController, Changed
  <2>2. \A d \in left' \cup next : Key(d.entry) # Key(e)
    BY <2>1, <1>apply DEF Unique, Apart
  <2>3. /\ Activate(Key(e), cand[Key(e)]) /\ next' = next \cup {Slot(e, cand[Key(e)])}
        /\ cand' = [cand EXCEPT ![Key(e)] = Nil]
    BY <1>15 DEF ReplaceController
  <2> QED BY <2>1, <2>2, <2>3, <1>started
<1>16. ASSUME NEW e \in Entry, StartNew(e) PROVE ToldInv'
  <2>1. /\ at = "apply" /\ at' = "apply" /\ UNCHANGED <<left, fail, reloadCh>>
        /\ cand[Key(e)] \in Nat /\ cand[Key(e)] # Nil /\ SlotOf(Key(e)) = {}
    BY <1>16, <1>type, KeyType DEF StartNew, NewNode
  <2>2. \A d \in left' \cup next : Key(d.entry) # Key(e)
    BY <2>1 DEF SlotOf, LoopInv
  <2>3. /\ Activate(Key(e), cand[Key(e)]) /\ next' = next \cup {Slot(e, cand[Key(e)])}
        /\ cand' = [cand EXCEPT ![Key(e)] = Nil]
    BY <1>16 DEF StartNew
  <2> QED BY <2>1, <2>2, <2>3, <1>started
<1>17. ASSUME NEW e \in Entry, StartNewFails(e) PROVE ToldInv'
  <2>1. at = "apply" /\ UNCHANGED <<left, next, hash, reloadCh>> /\ ApplyFailure(e)
    BY <1>17 DEF StartNewFails, NewNode
  <2>2. CASE at' = "dead"
    BY <2>2, <1>away
  <2>3. CASE at' # "dead"
    <3>1. at' = "apply" /\ fail' = fail \cup {e} /\ cand' = [cand EXCEPT ![Key(e)] = Nil]
      BY <2>1, <2>3, FailureSteps
    <3>2. \A k \in Keys : cand'[k] # Nil => cand'[k] = cand[k] /\ hash'[k] = hash[k]
      BY <2>1, <3>1, <1>candnil, KeyType
    <3>3. \A d \in next' : d.info <= hash'[Key(d.entry)]
      BY <2>1, <1>apply DEF Behind
    <3> QED BY <2>1, <3>1, <3>2, <3>3, <1>applied
  <2> QED BY <2>2, <2>3
<1>18. CASE \/ NodesClosed \/ \E e \in Entry : Build(e) \/ BuildFails(e)
            \/ \E c \in left : CloseNode(c)
  BY <1>18, <1>away, FailureSteps DEF NodesClosed, Build, BuildFails, CloseNode, Die
<1>19. CASE Built
  BY <1>19, <1>goal DEF Built, BehindNow, Before, Reconciling
<1>start. ASSUME at = "start"
          PROVE  /\ Behind(next) /\ Apart /\ left \subseteq Slots
                 /\ \A c \in next : Told(c) \/ fail # {}
  BY <1>start, <1>0, <1>type DEF ToldInv, CoreInv
<1>20. ASSUME NEW c \in left, StartNode(c) PROVE ToldInv'
  <2>1. /\ at = "start" /\ at' = "start" /\ next' = next \cup {c} /\ UNCHANGED <<fail, reloadCh>>
        /\ Activate(Key(c.entry), c.info)
    BY <1>20 DEF StartNode
  <2>2. c.info \in Nat /\ Key(c.entry) \in Keys
    BY <2>1, <1>start, SlotKey
  <2>3. hash'[Key(c.entry)] = c.info /\ \A j \in Keys : j # Key(c.entry) => hash'[j] = hash[j]
    BY <2>1, <2>2, ActivateKnows
  <2>4. \A d \in next : Key(d.entry) # Key(c.entry) /\ Key(d.entry) \in Keys
    BY <2>1, <1>start, <1>type, SlotKey DEF Apart
  <2>5. ASSUME NEW d \in next' PROVE d.info <= hash'[Key(d.entry)] /\ (ToldNow(d) \/ fail' # {})
    <3>1. CASE d = c
      BY <2>2, <2>3, <3>1 DEF ToldNow
    <3>2. CASE d \in next
      BY <2>1, <2>3, <2>4, <3>2, <1>start DEF Behind, Told, ToldNow
    <3> QED BY <2>1, <3>1, <3>2
  <2> QED BY <2>1, <2>5, <1>goal DEF BehindNow, Before, Reconciling
<1>21. ASSUME NEW c \in left, StartNodeFails(c) PROVE ToldInv'
  <2>1. at = "start" /\ UNCHANGED <<hash, reloadCh>>
    BY <1>21 DEF StartNodeFails
  <2>2. at' = "dead" \/ (at' = "start" /\ fail' # {} /\ next' = next)
    BY <1>21, <2>1 DEF StartNodeFails, Die
  <2>3. BehindNow(next)
    BY <2>1, <1>start, <1>now
  <2> QED BY <2>1, <2>2, <2>3, <1>goal, <1>away DEF Before, Reconciling
<1>22. CASE Finish
  <2>1. /\ at \in {"apply", "start"} /\ at' = "loop" /\ nodes' = next /\ failures' = fail
        /\ UNCHANGED <<hash, reloadCh>>
    BY <1>22 DEF Finish, coreVars
  <2>2. Behind(next) /\ \A c \in next : Told(c) \/ fail # {}
    BY <2>1, <1>apply, <1>start
  <2>3. BehindNow(next) /\ \A c \in next : ToldNow(c) \/ fail # {}
    BY <2>1, <2>2, <1>now, <1>told
  <2> QED BY <2>1, <2>3, <1>goal DEF Before, Reconciling
<1>23. CASE Next
  BY <1>23, Steps, <1>1, <1>2, <1>3, <1>4, <1>5, <1>6, <1>7, <1>8, <1>9, <1>10,
     <1>11, <1>12,
     <1>13, <1>14, <1>15, <1>16, <1>17, <1>18, <1>19, <1>20, <1>21, <1>22
<1>24. CASE UNCHANGED vars
  BY <1>24, <1>1 DEF Outside
<1> QED BY <1>23, <1>24

-----------------------------------------------------------------------------
(* Custom routes.                                                          *)

\* Routes after a step, and what RouteInv says of the candidates.
RoutesNow(S) == \A c \in S : HasRoutes(c.info) => routes'[Key(c.entry)] = c.info
RoutedIsSame ==
    \A k \in Keys : cand[k] # Nil /\ HasRoutes(cand[k]) =>
       \E c \in nodes : Key(c.entry) = k /\ First(c.entry) /\ cand[k] = c.info

\* At the start nothing runs.
LEMMA RouteInit == Init => RouteInv
BY DEF Init, RouteInv, Routes, Before

\* Every step keeps RouteInv.
LEMMA RouteNext ==
    Types /\ LoopInv /\ CoreInv /\ RouteInv /\ [Next]_vars
        => RouteInv'
<1> SUFFICES ASSUME Types, LoopInv, CoreInv, RouteInv, [Next]_vars, ~twice'
             PROVE  RouteInv'
  BY DEF RouteInv
<1>key. mode' = mode /\ \A e : Key(e)' = Key(e)
  BY ModeSame, KeySame
<1>goal. ASSUME at' \in Before \cup {"remove", "apply"} => RoutesNow(nodes'),
                at' \in {"apply", "start"} => RoutesNow(next'),
                at' = "start" => RoutesNow(left'),
                at' \in {"remove", "apply"} =>
                    /\ want' = want
                    /\ \A k \in Keys : cand'[k] # Nil /\ HasRoutes(cand'[k]) =>
                       \E c \in nodes' : Key(c.entry) = k /\ First(c.entry) /\ cand'[k] = c.info
         PROVE  RouteInv'
  <2>1. want' = want => \A e : First(e) => First(e)'
    BY <1>key DEF First
  <2> QED BY <2>1, <1>goal, <1>key DEF RouteInv, Routes, RoutesNow, SameNode, HasRoutes
<1>boot. CASE Boot
  BY <1>boot, <1>goal DEF Boot, Load, RoutesNow
<1> SUFFICES ASSUME ~Boot PROVE RouteInv'
  BY <1>boot
<1>0. ~twice
  BY TwiceStays DEF vars, historyVars
<1>type. /\ nodes \subseteq Slots /\ next \subseteq Slots /\ want \subseteq Entry
         /\ cand \in [Keys -> Nat \cup {Nil}] /\ routes \in [Keys -> Nat \cup {Nil}]
         /\ (at \notin {"resolve", "fetch", "build"} => left \subseteq Slots)
  BY DEF Types, LoopOK, LeftOK, NodeOK
<1>now. ASSUME routes' = routes PROVE \A S : Routes(S) => RoutesNow(S)
  BY <1>now DEF Routes, RoutesNow
<1>away. ASSUME at' \in {"dead", "close", "build"} PROVE RouteInv'
  BY <1>away, <1>goal DEF Before
<1>same. ASSUME UNCHANGED <<at, left, want, cand, next, nodes, routes>> PROVE RouteInv'
  <2>1. \A e : First(e) => First(e)'
    BY <1>same, <1>key DEF First
  <2> QED BY <2>1, <1>same, <1>key, <1>0 DEF RouteInv, Routes, SameNode, HasRoutes
<1>before. ASSUME at \in Before, at' \in Before, UNCHANGED <<nodes, routes>> PROVE RouteInv'
  <2>1. RoutesNow(nodes')
    BY <1>before, <1>now, <1>0 DEF RouteInv
  <2> QED BY <1>before, <2>1, <1>goal DEF Before
<1>1. CASE \/ Outside \/ \E e \in Entry : ChangeNode(Key(e))
           \/ \E k \in Keys : ConfigCheck(k)
  BY <1>1, <1>same, OutsideSame DEF ChangeNode, ConfigCheck, loopVars, nodeVars
<1>2. CASE BeginReload \/ KeepExisting
  BY <1>2, <1>before DEF BeginReload, Load, KeepExisting, nodeVars, Before
<1>3. CASE \/ Resolved \/ \E p \in Profile : ResolveProfile(p) \/ ProfileFails(p)
           \/ \E e \in Entry : Fetch(e) \/ FetchFails(e)
  <2>1. UNCHANGED <<nodes, routes>> /\ at \in Before
    BY <1>3 DEF Resolved, ResolveProfile, ProfileFails, Fetch, FetchFails, nodeVars,
                Before
  <2>2. at' \in {"resolve", "fetch", "dead", "close"}
    BY <1>3, FailureSteps DEF Resolved, ResolveProfile, ProfileFails, Fetch,
                              FetchFails, Die
  <2> QED BY <2>1, <2>2, <1>before, <1>away DEF Before
<1>4. CASE \/ Crash \/ NodesClosed \/ \E e \in Entry : Build(e) \/ BuildFails(e)
           \/ \E c \in left : CloseNode(c)
  BY <1>4, <1>away, FailureSteps DEF Crash, NodesClosed, Build, BuildFails,
                                     CloseNode, Die
<1>5. ASSUME NEW S \in Current, Decide(S) PROVE RouteInv'
  <2>1. at = "fetch" /\ UNCHANGED <<want, nodes, routes>>
    BY <1>5 DEF Decide, nodeVars
  <2>2. at' = "close" \/ (at' = "remove" /\ ~NeedsFullReload /\ cand' = cand)
    BY <1>5 DEF Decide
  <2>3. CASE at' = "remove" /\ ~NeedsFullReload /\ cand' = cand
    <3>1. ASSUME NEW k \in Keys, cand[k] # Nil, HasRoutes(cand[k])
          PROVE  \E c \in nodes : Key(c.entry) = k /\ First(c.entry) /\ cand[k] = c.info
      <4>1. k \in KeysOf(nodes)
        BY <2>3, <3>1 DEF NeedsFullReload
      <4>2. PICK c \in nodes : Key(c.entry) = k
        BY <4>1 DEF KeysOf
      <4>3. SameNode(c)
        BY <2>3, <3>1, <4>2 DEF NeedsFullReload
      <4> QED BY <4>2, <4>3 DEF SameNode
    <3>2. RoutesNow(nodes')
      BY <2>1, <1>now, <1>0 DEF RouteInv, Before
    <3> QED BY <2>1, <2>3, <3>1, <3>2, <1>goal
  <2> QED BY <2>2, <2>3, <1>away
<1>apply. ASSUME at \in {"remove", "apply"}
          PROVE  /\ Routes(nodes) /\ (at = "apply" => Routes(next)) /\ RoutedIsSame
                 /\ left \subseteq nodes /\ Unique(nodes)
  BY <1>apply, <1>0 DEF RouteInv, LoopInv, CoreInv, RoutedIsSame, SameNode
<1>applied. ASSUME at \in {"remove", "apply"}, at' \in {"remove", "apply"},
                   UNCHANGED <<want, nodes, routes>>,
                   at' = "apply" => Routes(next'),
                   \A k \in Keys : cand'[k] \in {cand[k], Nil}
            PROVE  RouteInv'
  <2>1. RoutesNow(nodes') /\ (at' = "apply" => RoutesNow(next'))
    BY <1>applied, <1>apply, <1>now
  <2>2. ASSUME NEW k \in Keys, cand'[k] # Nil, HasRoutes(cand'[k])
        PROVE  \E c \in nodes' : Key(c.entry) = k /\ First(c.entry) /\ cand'[k] = c.info
    <3>1. cand'[k] = cand[k]
      BY <1>applied, <2>2
    <3> QED BY <1>applied, <2>2, <3>1, <1>apply DEF RoutedIsSame
  <2> QED BY <1>applied, <2>1, <2>2, <1>goal
<1>candnil. ASSUME NEW k, cand' = [cand EXCEPT ![k] = Nil]
            PROVE  \A j \in Keys : cand'[j] \in {cand[j], Nil}
  BY <1>candnil, <1>type
<1>6. ASSUME NEW c \in left, Remove(c) PROVE RouteInv'
  <2>1. /\ at = "remove"
        /\ \/ at' = "dead"
           \/ at' = "remove" /\ UNCHANGED <<want, nodes, routes, cand>>
    BY <1>6 DEF Remove, Die, nodeVars
  <2> QED BY <2>1, <1>applied, <1>away
<1>7. CASE Removed
  <2>1. at = "remove" /\ at' = "apply" /\ UNCHANGED <<want, nodes, routes, cand>> /\ next' = {}
    BY <1>7 DEF Removed, nodeVars, LoopInv
  <2>2. Routes(next')
    BY <2>1 DEF Routes
  <2> QED BY <2>1, <2>2, <1>applied
<1>8. ASSUME NEW c \in left, KeepSlot(c) PROVE RouteInv'
  <2>1. /\ at = "apply" /\ at' = "apply" /\ UNCHANGED <<want, nodes, routes>>
        /\ next' = next \cup {c} /\ cand' = [cand EXCEPT ![Key(c.entry)] = Nil]
    BY <1>8 DEF KeepSlot, nodeVars
  <2>2. Routes(next')
    BY <2>1, <1>apply DEF Routes
  <2> QED BY <2>1, <2>2, <1>applied, <1>candnil
<1>9. ASSUME NEW c \in left, NEW e \in want, PrepareFails(c, e) \/ ReplaceFails(c, e)
      PROVE  RouteInv'
  <2>1. /\ at = "apply" /\ UNCHANGED <<nodes, routes>> /\ ApplyFailure(e)
        /\ next' \subseteq next \cup {c}
    BY <1>9 DEF PrepareFails, ReplaceFails, Changed, nodeVars
  <2>2. Routes(next')
    BY <2>1, <1>apply DEF Routes
  <2>3. CASE at' = "dead"
    BY <2>3, <1>away
  <2>4. CASE at' # "dead"
    <3>1. at' = "apply" /\ want' = want /\ cand' = [cand EXCEPT ![Key(e)] = Nil]
      BY <2>1, <2>4, FailureSteps
    <3> QED BY <2>1, <2>2, <3>1, <1>applied, <1>candnil
  <2> QED BY <2>3, <2>4
<1>started. ASSUME NEW e \in Entry, at = "apply", at' = "apply", cand[Key(e)] \in Nat,
                   next' = next \cup {Slot(e, cand[Key(e)])},
                   cand' = [cand EXCEPT ![Key(e)] = Nil], UNCHANGED <<want, nodes, routes>>,
                   HasRoutes(cand[Key(e)]) => routes[Key(e)] = cand[Key(e)]
            PROVE  RouteInv'
  <2>1. PICK n \in Slots : n = Slot(e, cand[Key(e)]) /\ n.entry = e /\ n.info = cand[Key(e)]
    BY <1>started, SlotType
  <2>2. Routes(next')
    BY <1>started, <2>1, <1>apply DEF Routes
  <2> QED BY <1>started, <2>2, <1>applied, <1>candnil
<1>10. ASSUME NEW c \in left, NEW e \in want, ReplaceController(c, e) PROVE RouteInv'
  <2>1. /\ at = "apply" /\ at' = "apply" /\ UNCHANGED <<want, nodes, routes>>
        /\ Key(e) = Key(c.entry) /\ e \in Entry /\ Key(e) \in Keys /\ cand[Key(e)] \in Nat
        /\ cand[Key(e)] # Nil /\ ~SameNode(c)
        /\ next' = next \cup {Slot(e, cand[Key(e)])} /\ cand' = [cand EXCEPT ![Key(e)] = Nil]
    BY <1>10, <1>type, KeyType DEF ReplaceController, Changed, nodeVars
  <2>2. ~HasRoutes(cand[Key(e)])
    <3> SUFFICES ASSUME HasRoutes(cand[Key(e)]) PROVE FALSE
      OBVIOUS
    <3>1. PICK b \in nodes : /\ Key(b.entry) = Key(e) /\ First(b.entry)
                             /\ cand[Key(e)] = b.info
      BY <2>1, <1>apply DEF RoutedIsSame
    <3>2. b = c
      BY <2>1, <3>1, <1>apply DEF Unique
    <3> QED BY <2>1, <3>1, <3>2 DEF SameNode
  <2> QED BY <2>1, <2>2, <1>started
<1>11. ASSUME NEW e \in Entry, StartNew(e) PROVE RouteInv'
  <2>1. /\ at = "apply" /\ at' = "apply" /\ UNCHANGED <<want, nodes, routes>>
        /\ Key(e) \in Keys /\ cand[Key(e)] \in Nat /\ cand[Key(e)] # Nil
        /\ next' = next \cup {Slot(e, cand[Key(e)])} /\ cand' = [cand EXCEPT ![Key(e)] = Nil]
    BY <1>11, <1>type, KeyType DEF StartNew, NewNode, nodeVars
  <2>2. ASSUME HasRoutes(cand[Key(e)]) PROVE routes[Key(e)] = cand[Key(e)]
    <3>1. PICK b \in nodes : Key(b.entry) = Key(e) /\ cand[Key(e)] = b.info
      BY <2>1, <2>2, <1>apply DEF RoutedIsSame
    <3> QED BY <2>1, <2>2, <3>1, <1>apply DEF Routes
  <2> QED BY <2>1, <2>2, <1>started
<1>12. ASSUME NEW e \in Entry, StartNewFails(e) PROVE RouteInv'
  <2>1. at = "apply" /\ UNCHANGED <<nodes, routes, next>> /\ ApplyFailure(e)
    BY <1>12 DEF StartNewFails, NewNode, nodeVars
  <2>2. CASE at' = "dead"
    BY <2>2, <1>away
  <2>3. CASE at' # "dead"
    <3>1. at' = "apply" /\ want' = want /\ cand' = [cand EXCEPT ![Key(e)] = Nil]
      BY <2>1, <2>3, FailureSteps
    <3> QED BY <2>1, <3>1, <1>apply, <1>applied, <1>candnil
  <2> QED BY <2>2, <2>3
<1>13. CASE Built
  <2>1. at = "build" /\ at' = "start" /\ left' = next /\ next' = {} /\ Unique(next)
    BY <1>13 DEF Built, Unique
  <2>2. ASSUME NEW c \in next, HasRoutes(c.info) PROVE routes'[Key(c.entry)] = c.info
    <3>1. Key(c.entry) \in Keys
      BY <1>type, SlotKey
    <3>2. PICK k \in Keys : k = Key(c.entry)
      BY <3>1
    <3>3. PICK S : S = {b.info : b \in {d \in next : Key(d.entry) = k /\ HasRoutes(d.info)}}
      OBVIOUS
    <3>4. IF S = {} THEN routes'[k] = Nil ELSE routes'[k] \in S
      BY <1>13, <3>3 DEF Built
    <3>5. \A v \in S : v = c.info
      BY <2>1, <3>2, <3>3 DEF Unique
    <3>6. c.info \in S
      BY <2>2, <3>2, <3>3
    <3> QED BY <3>2, <3>4, <3>5, <3>6
  <2> QED BY <2>1, <2>2, <1>goal DEF RoutesNow, Before
<1>start. ASSUME at = "start" PROVE Routes(left) /\ Routes(next)
  BY <1>start, <1>0 DEF RouteInv
<1>14. ASSUME NEW c \in left, StartNode(c) \/ StartNodeFails(c) PROVE RouteInv'
  <2>1. at = "start" /\ routes' = routes
    BY <1>14 DEF StartNode, StartNodeFails, nodeVars
  <2>2. at' = "dead" \/ (at' = "start" /\ left' = left \ {c} /\ next' \subseteq next \cup {c})
    BY <1>14, <2>1 DEF StartNode, StartNodeFails, Die
  <2>3. CASE at' = "start" /\ left' = left \ {c} /\ next' \subseteq next \cup {c}
    <3>1. RoutesNow(left') /\ RoutesNow(next')
      BY <2>1, <2>3, <1>start DEF Routes, RoutesNow
    <3> QED BY <2>3, <3>1, <1>goal DEF Before
  <2> QED BY <2>2, <2>3, <1>away
<1>15. CASE Finish
  <2>1. at \in {"apply", "start"} /\ at' = "loop" /\ nodes' = next /\ routes' = routes
    BY <1>15 DEF Finish
  <2>2. Routes(next)
    BY <2>1, <1>apply, <1>start
  <2> QED BY <2>1, <2>2, <1>now, <1>goal
<1>16. CASE Next
  BY <1>16, Steps, <1>1, <1>2, <1>3, <1>4, <1>5, <1>6, <1>7, <1>8, <1>9, <1>10,
     <1>11, <1>12,
     <1>13, <1>14, <1>15
<1>17. CASE UNCHANGED vars
  BY <1>17, <1>1 DEF Outside
<1> QED BY <1>16, <1>17

-----------------------------------------------------------------------------
(* The theorems.                                                           *)

\* All of it together.
MachineInv == Types /\ LoopInv /\ CoreInv /\ VersionInv /\ ToldInv /\ RouteInv

\* The invariant holds throughout.
THEOREM Invariant == Spec => []MachineInv
<1>1. Init => MachineInv
  BY TypesInit, LoopInit, CoreInit, VersionInit, ToldInit, RouteInit DEF MachineInv
<1>2. MachineInv /\ [Next]_vars => MachineInv'
  BY TypesNext, LoopNext, CoreNext, VersionNext, ToldNext, RouteNext DEF MachineInv
<1> QED BY <1>1, <1>2, PTL DEF Spec

\* Every variable keeps its type, whatever fails and restarts (server.go, node.go,
\* machine.go).
THEOREM TypeCorrect == Spec => []TypeOK
<1>1. MachineInv => TypeOK
  BY TypeGroups DEF MachineInv
<1> QED BY <1>1, Invariant, PTL

\* Between reloads the core serves exactly the controllers of the node manager,
\* however the reloads before went (Reconcile, reload, Node.Start, Node.Close).
THEOREM SlotsMatch == Spec => []SlotsMatchCore
<1>1. MachineInv => SlotsMatchCore
  <2> SUFFICES ASSUME MachineInv, at = "loop", ~twice, NEW k \in Keys
               PROVE  LET S == {c \in nodes : Key(c.entry) = k} IN
                      /\ Cardinality(S) = tasks[k] /\ tasks[k] <= 1
                      /\ IF S = {} THEN inbound[k] = Nil
                         ELSE \A c \in S : inbound[k] = c.info
    BY DEF SlotsMatchCore
  <2>1. Unique(nodes) /\ Served(nodes)
    BY DEF MachineInv, CoreInv, Before
  <2> DEFINE S == {c \in nodes : Key(c.entry) = k}
  <2>2. CASE \E c \in nodes : Key(c.entry) = k
    <3>1. PICK c \in nodes : Key(c.entry) = k /\ tasks[k] = 1 /\ inbound[k] = c.info
      BY <2>1, <2>2 DEF Served
    <3>2. S = {c}
      BY <2>1, <3>1 DEF Unique
    <3>3. Cardinality(S) = 1
      BY <3>2, FS_Singleton
    <3> QED BY <3>1, <3>2, <3>3
  <2>3. CASE \A c \in nodes : Key(c.entry) # k
    <3>1. tasks[k] = 0 /\ inbound[k] = Nil
      BY <2>1, <2>3 DEF Served
    <3>2. S = {}
      BY <2>3
    <3>3. Cardinality(S) = 0
      BY <3>2, FS_EmptySet
    <3> QED BY <3>1, <3>2, <3>3
  <2> QED BY <2>2, <2>3
<1> QED BY <1>1, Invariant, PTL

\* A change that the client of a running node reported, and will not report again, is
\* in the node manager, in ReloadCh or among the failures (executeNodeConfigCheck,
\* Reconcile, handleMachineFailure).
THEOREM ChangesKept == Spec => []ChangeNotForgotten
<1>1. MachineInv => ChangeNotForgotten
  BY DEF MachineInv, ToldInv, Told, ChangeNotForgotten
<1> QED BY <1>1, Invariant, PTL

\* A node with custom routes runs only on a core that was built with them
\* (machineReconcileNeedsFullReload, GetCustomConfig).
THEOREM RoutesMatch == Spec => []RoutesInCore
<1>1. MachineInv => RoutesInCore
  BY DEF MachineInv, RouteInv, Routes, RoutesInCore, Before
<1> QED BY <1>1, Invariant, PTL

\* Where Reconcile removes and applies, only these steps stop an inbound.
LEMMA Stops ==
    ASSUME Types, Next, at \in {"remove", "apply"}, NEW k \in Keys,
           inbound[k] # Nil, inbound'[k] = Nil, ~Boot
    PROVE  \/ \E c \in left : Remove(c) /\ Key(c.entry) = k
           \/ \E c \in left, e \in want : ReplaceFails(c, e) /\ Key(c.entry) = k
           \/ \E e \in Entry : StartNewFails(e) /\ Key(e) = k
<1>type. /\ inbound \in [Keys -> Nat \cup {Nil}] /\ cand \in [Keys -> Nat \cup {Nil}]
         /\ want \subseteq Entry /\ Nil \notin Nat
  BY MachineAssumption DEF Types, CoreOK, LoopOK
<1>1. inbound' # inbound
  OBVIOUS
<1>other. ASSUME NEW j, inbound' = [inbound EXCEPT ![j] = Nil] PROVE j = k
  BY <1>other, <1>type
<1>active. ASSUME NEW j \in Keys, cand[j] # Nil, Activate(j, cand[j]) PROVE FALSE
  BY <1>active, <1>type DEF Activate
<1>2. ASSUME NEW c \in left, Remove(c) PROVE Key(c.entry) = k
  BY <1>2, <1>other DEF Remove, CloseController
<1>3. ASSUME NEW c \in left, NEW e \in want, ReplaceFails(c, e) PROVE Key(c.entry) = k
  BY <1>3, <1>other DEF ReplaceFails, Changed, CloseController
<1>4. ASSUME NEW e \in Entry, StartNewFails(e) PROVE Key(e) = k
  BY <1>4, <1>other DEF StartNewFails
<1>5. ASSUME NEW c \in left, NEW e \in want, ReplaceController(c, e) PROVE FALSE
  BY <1>5, <1>active, <1>type, KeyType DEF ReplaceController, Changed
<1>6. ASSUME NEW e \in Entry, StartNew(e) PROVE FALSE
  BY <1>6, <1>active, KeyType DEF StartNew, NewNode
<1>7. CASE \/ Outside \/ BeginReload \/ Crash \/ Resolved \/ Finish
           \/ \E e \in Entry : ChangeNode(Key(e))
           \/ \E j \in Keys : ConfigCheck(j)
           \/ \E p \in Profile : ResolveProfile(p) \/ ProfileFails(p)
           \/ \E e \in Entry : Fetch(e) \/ FetchFails(e) \/ Build(e) \/ BuildFails(e)
           \/ KeepExisting \/ Removed \/ NodesClosed \/ Built
           \/ \E S \in Current : Decide(S)
  BY <1>7, <1>1, OutsideSame DEF BeginReload, Crash, Resolved, Finish, ChangeNode,
                                 ConfigCheck,
     ResolveProfile, ProfileFails, Fetch, FetchFails, Build, BuildFails, KeepExisting, Removed,
     NodesClosed, Built, Decide, coreVars
<1>8. CASE \/ \E c \in left : KeepSlot(c) \/ CloseNode(c) \/ StartNode(c) \/ StartNodeFails(c)
           \/ \E c \in left, e \in want : PrepareFails(c, e)
  BY <1>8, <1>1 DEF KeepSlot, CloseNode, StartNode, StartNodeFails, PrepareFails,
                    coreVars
<1> QED BY Steps, <1>2, <1>3, <1>4, <1>5, <1>6, <1>7, <1>8

\* Where Reconcile removes and applies, only these steps let go of a slot.
LEMMA Drops ==
    ASSUME Types, Next, at \in {"remove", "apply"}, at' # "dead", NEW c \in left,
           c \notin left' \cup next'
    PROVE  Remove(c) \/ \E e \in want : ReplaceFails(c, e) \/ ReplaceController(c, e)
<1>1. left' # left /\ \A d : left' = left \ {d} => d = c
  OBVIOUS
<1>2. ASSUME NEW d \in left, Remove(d) PROVE d = c
  BY <1>2, <1>1 DEF Remove, Die
<1>3. ASSUME NEW d \in left, NEW e \in want, ReplaceFails(d, e) \/ ReplaceController(d, e)
      PROVE  d = c
  BY <1>3, <1>1 DEF ReplaceFails, ReplaceController
<1>4. ASSUME NEW d \in left,
             KeepSlot(d) \/ \E e \in want : PrepareFails(d, e)
      PROVE  FALSE
  BY <1>4, <1>1 DEF KeepSlot, PrepareFails
<1>5. CASE \/ Outside \/ Crash \/ Removed
           \/ \E e \in Entry : ChangeNode(Key(e)) \/ StartNew(e) \/ StartNewFails(e)
           \/ \E j \in Keys : ConfigCheck(j)
  <2>1. \/ at' = "dead" \/ left' = left
    <3>1. CASE Outside
      BY <3>1, OutsideSame DEF loopVars
    <3>2. CASE Crash \/ Removed
      BY <3>2 DEF Crash, Die, Removed
    <3>3. CASE \E e \in Entry : ChangeNode(Key(e)) \/ StartNew(e) \/ StartNewFails(e)
      BY <3>3 DEF ChangeNode, StartNew, StartNewFails, loopVars
    <3>4. CASE \E j \in Keys : ConfigCheck(j)
      BY <3>4 DEF ConfigCheck, loopVars
    <3> QED BY <1>5, <3>1, <3>2, <3>3, <3>4
  <2> QED BY <1>1, <2>1
<1>8. CASE \/ BeginReload \/ Resolved \/ KeepExisting \/ NodesClosed \/ Built
           \/ \E p \in Profile : ResolveProfile(p) \/ ProfileFails(p)
           \/ \E e \in Entry : Fetch(e) \/ FetchFails(e) \/ Build(e) \/ BuildFails(e)
           \/ \E S \in Current : Decide(S)
  BY <1>8 DEF BeginReload, Resolved, ResolveProfile, ProfileFails, Fetch, FetchFails, Build,
              BuildFails, KeepExisting, NodesClosed, Built, Decide
<1>6. CASE Finish \/ Boot
  BY <1>6 DEF Finish, Boot
<1>7. CASE \E d \in left : CloseNode(d) \/ StartNode(d) \/ StartNodeFails(d)
  BY <1>7 DEF CloseNode, StartNode, StartNodeFails
<1> QED BY Steps, <1>2, <1>3, <1>4, <1>5, <1>6, <1>7, <1>8

\* Reconcile stops or replaces the controller of a node only if the node is not wanted
\* any more, or its NodeInfo changed, or another profile lists it first (Reconcile,
\* sameMachineNode, StartReplacing, closeController).
THEOREM StopsOnlyChanged == Spec => OnlyChangedNodesStop
<1> DEFINE Reason(c) ==
        \/ Key(c.entry) \notin {Key(e) : e \in want}
        \/ cand[Key(c.entry)] \notin {Nil, c.info} \/ ~First(c.entry)
<1>1. ASSUME MachineInv, [Next]_vars, ~twice, NEW c \in nodes, Closes(c) PROVE Reason(c)
  <2>0. at \in {"remove", "apply"} /\ inbound[Key(c.entry)] # Nil
    BY <1>1 DEF Closes
  <2>1. Types /\ LoopInv /\ CoreInv /\ left \subseteq nodes /\ Unique(nodes)
    BY <1>1, <2>0 DEF MachineInv, LoopInv, CoreInv
  <2>2. c \in Slots /\ Key(c.entry) \in Keys
    BY <2>1, SlotKey DEF Types, NodeOK
  <2>3. Next /\ ~Boot
    BY <1>1 DEF Closes, vars, coreVars, loopVars, Boot
  <2>changed. ASSUME NEW e \in want, Changed(c, e) PROVE Reason(c)
    BY <2>changed DEF Changed, SameNode
  <2>4. ASSUME NEW d \in left, Remove(d), Key(d.entry) = Key(c.entry) PROVE Reason(c)
    BY <2>4 DEF Remove
  <2>5. CASE inbound'[Key(c.entry)] = Nil
    <3>1. ASSUME NEW d \in left, NEW e \in want, ReplaceFails(d, e), Key(d.entry) = Key(c.entry)
          PROVE  Reason(c)
      <4>1. d = c
        BY <2>1, <3>1, <1>1 DEF Unique
      <4> QED BY <3>1, <4>1, <2>changed DEF ReplaceFails
    <3>2. ASSUME NEW e \in Entry, StartNewFails(e), Key(e) = Key(c.entry) PROVE FALSE
      <4>1. at = "apply" /\ cand[Key(e)] # Nil /\ \A d \in left : Key(d.entry) # Key(e)
        BY <3>2 DEF StartNewFails, NewNode, SlotOf
      <4>2. \A d \in left \cup next : Key(d.entry) # Key(c.entry)
        BY <2>1, <3>2, <4>1 DEF LoopInv
      <4>3. Served(left \cup next)
        BY <2>1, <4>1, <1>1 DEF CoreInv
      <4> QED BY <2>0, <2>2, <4>2, <4>3 DEF Served
    <3> HIDE DEF Reason
    <3> QED BY <2>0, <2>1, <2>2, <2>3, <2>4, <2>5, <3>1, <3>2, Stops
  <2>6. CASE at' # "dead" /\ c \in left \ (left' \cup next')
    <3>2. Remove(c) \/ \E e \in want : ReplaceFails(c, e) \/ ReplaceController(c, e)
      BY <2>0, <2>1, <2>3, <2>6, Drops
    <3>3. Remove(c) \/ \E e \in want : Changed(c, e)
      BY <3>2 DEF ReplaceFails, ReplaceController
    <3> HIDE DEF Reason
    <3> QED BY <2>4, <2>6, <2>changed, <3>3
  <2> QED BY <1>1, <2>5, <2>6 DEF Closes
<1>2. MachineInv /\ [Next]_vars => [~twice => \A c \in nodes : Closes(c) => Reason(c)]_vars
  BY <1>1
<1> HIDE DEF Reason
<1>3. Spec => [][~twice => \A c \in nodes : Closes(c) => Reason(c)]_vars
  BY <1>2, Invariant, PTL DEF Spec
<1> QED BY <1>3 DEF OnlyChangedNodesStop, Reason

=============================================================================
