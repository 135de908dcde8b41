------------------------------ MODULE Machine ------------------------------
(***************************************************************************)
(* The server loop (cmd/server.go) and the node manager it drives          *)
(* (node/node.go, node/machine.go): how the set of running controllers     *)
(* follows the panel.                                                      *)
(*                                                                         *)
(* The loop is one goroutine.  While it reloads, the panel goes on         *)
(* changing, the config monitors of the running controllers go on          *)
(* noticing it, and realtime messages go on asking for a reload; all of    *)
(* them meet in ReloadCh, a channel of capacity one to which nobody waits  *)
(* to send.  A reload in machine mode reconciles the running controllers   *)
(* with the wanted ones; otherwise, and when custom routes change, it      *)
(* closes everything and starts anew.  An error ends the process, which    *)
(* the service manager starts again (script/install.sh, Restart=always).   *)
(*                                                                         *)
(* An entry <<p, id>> is a conf.NodeConfig: node id as profile p lists it. *)
(* Profiles are those of a machine, or the one node list of the config     *)
(* file; their numbers are their order in the file, which is the order of  *)
(* newConf.NodeConfigs.  A NodeInfo is the number of its version.  Nodes   *)
(* are taken in any order, but of one machineNodeKey the first one comes   *)
(* first.  The tag and the machineNodeKey of an entry are one value.       *)
(***************************************************************************)
EXTENDS Integers, FiniteSets

CONSTANTS
    Profile,         \* machine profiles, numbered
    Id,              \* node ids
    Nil,             \* no version
    Modes,           \* machine mode or not, what to do on errors, and the panels
    Routed,          \* versions of a NodeInfo with custom routes
    MaxChanges,      \* bound: changes of a node on the panel
    MaxEdits,        \* bound: changes of the lists of nodes of machines
    MaxSaves,        \* bound: changes of the list in the config file
    MaxFaults        \* bound: failed requests, failed starts, crashes

ASSUME MachineAssumption ==
    /\ Modes \subseteq [machine : BOOLEAN, continueOnError : BOOLEAN,
                         sameHost : BOOLEAN, fallback : BOOLEAN]
    /\ \A m \in Modes : m.continueOnError => m.machine
    /\ Routed \subseteq Nat /\ Profile \subseteq Nat /\ Nil \notin Nat
    /\ {MaxChanges, MaxEdits, MaxSaves, MaxFaults} \subseteq Nat

Entry == Profile \X Id

\* The values of machineNodeKey, for profiles of one panel and of several.
Keys == Entry \cup ({Nil} \X Id)

VARIABLES
    mode,       \* MachineConfig, the same for the life of the program; do all
                \* profiles belong to one panel; do the nodes listen on all
                \* addresses
    listed,     \* panel (or config file): the nodes of each profile
    version,    \* panel: the NodeInfo of each node
    at,         \* where the server loop is
    full,       \* is this a start or a full reload, not a reconcile?
    left,       \* profiles, entries or keys the loop still has to go through
    lost,       \* profiles that could not be fetched in this reload
    want,       \* newConf.NodeConfigs
    cand,       \* candidates: the NodeInfo fetched for each wanted key
    next,       \* controllers built or kept so far: nextControllers
    fail,       \* result.Failures
    nodes,      \* n.controllers, n.NodeInfos and n.configs
    failures,   \* n.failures
    inbound,    \* core: the NodeInfo each tag's inbound was built from
    routes,     \* core: the NodeInfo whose custom routes each tag has
    tasks,      \* controllers with running tasks, by tag
    hash,       \* responseBodyHash of the client of the running controller
    reloadCh,   \* is there a message in ReloadCh?
    watch,      \* the config watcher: "off", "idle", "sleep" or "cool"
    changes, edits, faults,
    missed,     \* history: the config file changed and the watcher dropped it
    twice       \* history: this process has built two controllers of one key

panelVars == <<mode, listed, version, changes, edits>>
loopVars  == <<at, full, left, lost, want, cand, next, fail>>
nodeVars  == <<nodes, failures, routes>>
coreVars  == <<inbound, tasks, hash>>
historyVars == <<missed, twice>>
vars == <<panelVars, loopVars, nodeVars, coreVars, reloadCh, watch, faults,
          historyVars>>

\* MachineConfig.Enabled and MachineOptions.ContinueOnError.
Machine         == mode.machine
ContinueOnError == mode.continueOnError

\* machineNodeKey: API host and node id, without the machine.
Key(e) == IF mode.sameHost THEN <<Nil, e[2]>> ELSE e

NoCand == [k \in Keys |-> Nil]

\* The slot of a controller: its config and its NodeInfo.
Slot(e, v) == [entry |-> e, info |-> v]
KeysOf(S)  == {Key(c.entry) : c \in S}

Fault == faults < MaxFaults /\ faults' = faults + 1

\* currentMachineSlots: of two controllers with one key the later one is
\* kept; Current is the set of maps this can give.
Current == {S \in SUBSET nodes :
              /\ KeysOf(S) = KeysOf(nodes)
              /\ \A c, d \in S : Key(c.entry) = Key(d.entry) => c = d}

-----------------------------------------------------------------------------
(* The panel and the config file.                                          *)

\* A node is changed on the panel.
ChangeNode(k) ==
    /\ changes < MaxChanges
    /\ version' = [version EXCEPT ![k] = @ + 1]
    /\ changes' = changes + 1
    /\ UNCHANGED <<mode, listed, edits, loopVars, nodeVars, coreVars, reloadCh, watch,
                   faults, historyVars>>

\* A profile gets another list of nodes.  Without machine mode the list is in
\* the config file: the watcher ignores an event within ten seconds of the
\* last one it took, and sleeps five seconds before it asks for a reload.
EditList(p, ids) ==
    /\ edits < (IF Machine THEN MaxEdits ELSE MaxSaves) /\ ids # listed[p]
    /\ listed' = [listed EXCEPT ![p] = ids]
    /\ edits' = edits + 1
    /\ watch' = IF ~Machine /\ watch = "idle" THEN "sleep" ELSE watch
    /\ missed' = (missed \/ (~Machine /\ watch \in {"off", "cool"}))
    /\ UNCHANGED <<mode, version, changes, loopVars, nodeVars, coreVars, reloadCh,
                   faults, twice>>

\* The five seconds are over.
WatchReload ==
    /\ watch = "sleep"
    /\ watch' = "cool"
    /\ reloadCh' = TRUE
    /\ UNCHANGED <<panelVars, loopVars, nodeVars, coreVars, faults, historyVars>>

\* The ten seconds are over.
WatchAgain ==
    /\ watch = "cool"
    /\ watch' = "idle"
    /\ UNCHANGED <<panelVars, loopVars, nodeVars, coreVars, reloadCh, faults, historyVars>>

-----------------------------------------------------------------------------
(* Requests for a reload.                                                  *)

\* Faulty variant: asks for no reload.
ConfigCheckNoSignal(k) ==
    /\ tasks[k] > 0 /\ hash[k] # version[k]
    /\ hash' = [hash EXCEPT ![k] = version[k]]
    /\ UNCHANGED <<panelVars, loopVars, nodeVars, inbound, tasks, reloadCh, watch,
                   faults, historyVars>>

\* executeNodeConfigCheck: a NodeInfo its client has not seen asks for a
\* reload.  The client will not report this NodeInfo again.
ConfigCheck(k) ==
    /\ tasks[k] > 0 /\ hash[k] # version[k]
    /\ hash' = [hash EXCEPT ![k] = version[k]]
    /\ reloadCh' = TRUE
    /\ UNCHANGED <<panelVars, loopVars, nodeVars, inbound, tasks, watch, faults, historyVars>>

\* enqueueRealtimeReload, the machine's realtime connection and the reload
\* hint of the status report ask for a reload that may not be needed.
Invalidate ==
    /\ at # "dead"
    /\ reloadCh' = TRUE
    /\ UNCHANGED <<panelVars, loopVars, nodeVars, coreVars, watch, faults, historyVars>>

\* machineFailureRetryTicker and machineReconcileTicker.
Tick ==
    /\ at = "loop"
    /\ failures # {} \/ Machine
    /\ reloadCh' = TRUE
    /\ UNCHANGED <<panelVars, loopVars, nodeVars, coreVars, watch, faults, historyVars>>

-----------------------------------------------------------------------------
(* The loop: start of a reload, ResolveMachineNodeConfigs.                 *)

\* An error ends the process.
Die == /\ at' = "dead" /\ left' = {}
       /\ UNCHANGED <<full, lost, want, cand, next, fail>>

\* LoadFromPath: without machine mode the file has the list of nodes.
Load ==
    /\ at' = "resolve"
    /\ left' = IF Machine THEN Profile ELSE {}
    /\ want' = IF Machine THEN {} ELSE {e \in Entry : e[2] \in listed[e[1]]}
    /\ lost' = {} /\ cand' = NoCand /\ next' = {} /\ fail' = {}
    /\ missed' = FALSE

BeginReload ==
    /\ at = "loop" /\ reloadCh
    /\ Load /\ full' = ~Machine
    /\ reloadCh' = FALSE
    /\ UNCHANGED <<panelVars, nodeVars, coreVars, watch, faults, twice>>

ResolveProfile(p) ==
    /\ at = "resolve" /\ p \in left
    /\ want' = want \cup ({p} \X listed[p])
    /\ left' = left \ {p}
    /\ UNCHANGED <<panelVars, at, full, lost, cand, next, fail, nodeVars, coreVars,
                   reloadCh, watch, faults, historyVars>>

\* "Machine profile skipped": the profile's nodes are not wanted.
ProfileFails(p) ==
    /\ at = "resolve" /\ p \in left /\ Machine /\ Fault
    /\ IF ContinueOnError
       THEN /\ left' = left \ {p} /\ lost' = lost \cup {p}
            /\ UNCHANGED <<at, full, want, cand, next, fail>>
       ELSE Die
    /\ UNCHANGED <<panelVars, nodeVars, coreVars, reloadCh, watch, historyVars>>

\* "no machine nodes resolved" is an error.
Resolved ==
    /\ at = "resolve" /\ left = {}
    /\ IF Machine /\ want = {} THEN Die
       ELSE /\ at' = IF full THEN "close" ELSE "fetch"
            /\ left' = IF full THEN nodes ELSE want
            /\ UNCHANGED <<full, lost, want, cand, next, fail>>
    /\ UNCHANGED <<panelVars, nodeVars, coreVars, reloadCh, watch, faults, historyVars>>

-----------------------------------------------------------------------------
(* Reconcile.                                                              *)

\* handleMachineFailure.
MachineFailure(e) ==
    IF ContinueOnError
    THEN /\ fail' = fail \cup {e} /\ left' = left \ {e}
         /\ UNCHANGED <<at, full, lost, want, cand, next>>
    ELSE Die

Fetched == KeysOf({Slot(e, 0) : e \in want \ left})

\* Of the wanted entries with the key of e, e is the first: candidates and
\* orderedKeys are made from it.
First(e) == e \in want /\ \A f \in want : Key(f) = Key(e) => e[1] <= f[1]

\* GetNodeInfo of a new client; a second entry with one key is a failure.
Fetch(e) ==
    /\ at = "fetch" /\ e \in left
    /\ First(e) \/ Key(e) \in Fetched
    /\ IF Key(e) \in Fetched THEN MachineFailure(e)
       ELSE /\ cand' = [cand EXCEPT ![Key(e)] = version[Key(e)]]
            /\ left' = left \ {e}
            /\ UNCHANGED <<at, full, lost, want, next, fail>>
    /\ UNCHANGED <<panelVars, nodeVars, coreVars, reloadCh, watch, faults, historyVars>>

FetchFails(e) ==
    /\ at = "fetch" /\ e \in left /\ First(e) /\ Fault
    /\ MachineFailure(e)
    /\ UNCHANGED <<panelVars, nodeVars, coreVars, reloadCh, watch, historyVars>>

HasRoutes(v) == v \in Routed

\* Faulty variant: takes every node for changed.
SameNodeNever(c) == FALSE

\* sameMachineNode: the config is the candidate's, which is the first one that
\* lists the node, and the NodeInfo is the one fetched.
SameNode(c) == First(c.entry) /\ cand[Key(c.entry)] = c.info

\* Faulty variant: a new node with custom routes needs no full reload.
NeedsFullReloadNotForNew ==
    LET wanted == {Key(e) : e \in want} IN
    \/ \E c \in nodes : Key(c.entry) \notin wanted /\ HasRoutes(c.info)
    \/ \E c \in nodes :
          /\ cand[Key(c.entry)] # Nil
          /\ ~SameNode(c)
          /\ HasRoutes(c.info) \/ HasRoutes(cand[Key(c.entry)])

\* machineReconcileNeedsFullReload.
NeedsFullReload ==
    LET wanted == {Key(e) : e \in want} IN
    \/ \E c \in nodes : Key(c.entry) \notin wanted /\ HasRoutes(c.info)
    \/ \E k \in Keys :
          /\ cand[k] # Nil
          /\ \/ k \notin KeysOf(nodes) /\ HasRoutes(cand[k])
             \/ \E c \in nodes :
                   /\ Key(c.entry) = k
                   /\ ~SameNode(c)
                   /\ HasRoutes(c.info) \/ HasRoutes(cand[k])

\* Every wanted node failed: the existing ones are kept.
KeepExisting ==
    /\ at = "fetch" /\ left = {}
    /\ cand = NoCand /\ fail # {} /\ ContinueOnError
    /\ failures' = fail
    /\ at' = "loop"
    /\ UNCHANGED <<panelVars, full, left, lost, want, cand, next, fail, nodes,
                   routes, coreVars, reloadCh, watch, faults, historyVars>>

Decide(current) ==
    /\ at = "fetch" /\ left = {}
    /\ ~(cand = NoCand /\ fail # {} /\ ContinueOnError)
    /\ IF NeedsFullReload
       THEN at' = "close" /\ full' = TRUE /\ left' = nodes
            /\ cand' = NoCand /\ fail' = {}
       ELSE /\ at' = "remove" /\ left' = current
            /\ UNCHANGED <<full, cand, fail>>
    /\ UNCHANGED <<panelVars, lost, want, next, nodeVars, coreVars, reloadCh,
                   watch, faults, historyVars>>

\* Controller.Close: the tasks stop, then DelNode, which knows the tag or
\* fails.
CloseController(k) ==
    /\ tasks' = [tasks EXCEPT ![k] = IF @ > 0 THEN @ - 1 ELSE 0]
    /\ inbound' = [inbound EXCEPT ![k] = Nil]
    /\ UNCHANGED hash

\* left holds the current slots; those that are wanted move on to apply.
Remove(c) ==
    LET k == Key(c.entry) IN
    /\ at = "remove" /\ c \in left /\ k \notin {Key(e) : e \in want}
    /\ CloseController(k)
    /\ IF inbound[k] = Nil THEN Die
       ELSE left' = left \ {c} /\ UNCHANGED <<at, full, lost, want, cand, next, fail>>
    /\ UNCHANGED <<panelVars, nodeVars, reloadCh, watch, faults, historyVars>>

Removed ==
    /\ at = "remove" /\ KeysOf(left) \subseteq {Key(e) : e \in want}
    /\ at' = "apply"
    /\ UNCHANGED <<panelVars, full, left, lost, want, cand, next, fail, nodeVars,
                   coreVars, reloadCh, watch, faults, historyVars>>

\* The entry of want that a key stands for, and what is left to apply: the
\* wanted keys whose slot is not yet in next and that have not failed.
SlotOf(k) == {c \in left : Key(c.entry) = k}

\* A node that could not be fetched, or did not change, stays as it is.
KeepSlot(c) ==
    LET k == Key(c.entry) IN
    /\ at = "apply" /\ c \in left
    /\ cand[k] = Nil \/ SameNode(c)
    /\ next' = next \cup {c} /\ left' = left \ {c}
    /\ cand' = [cand EXCEPT ![k] = Nil]
    /\ UNCHANGED <<panelVars, at, full, lost, want, fail, nodeVars, coreVars,
                   reloadCh, watch, faults, historyVars>>

\* activatePreparedStart succeeds.
Activate(k, v) ==
    /\ inbound' = [inbound EXCEPT ![k] = v]
    /\ hash' = [hash EXCEPT ![k] = v]

\* StartReplacing: prepare, close the old controller, activate.
Changed(c, e) ==
    /\ at = "apply" /\ c \in left /\ First(e) /\ Key(e) = Key(c.entry)
    /\ cand[Key(e)] # Nil /\ ~SameNode(c)

ReplaceController(c, e) ==
    LET k == Key(e) IN
    /\ Changed(c, e) /\ inbound[k] # Nil
    /\ Activate(k, cand[k]) /\ UNCHANGED tasks
    /\ next' = next \cup {Slot(e, cand[k])} /\ left' = left \ {c}
    /\ cand' = [cand EXCEPT ![k] = Nil]
    /\ UNCHANGED <<panelVars, at, full, lost, want, fail, nodeVars, reloadCh, watch,
                   faults, historyVars>>

ApplyFailure(e) ==
    IF ContinueOnError
    THEN /\ fail' = fail \cup {e} /\ cand' = [cand EXCEPT ![Key(e)] = Nil]
         /\ UNCHANGED <<at, full, lost, want>>
    ELSE at' = "dead" /\ UNCHANGED <<full, lost, want, cand, fail>>

\* The new controller cannot be prepared: the old one stays.
PrepareFails(c, e) ==
    /\ Changed(c, e) /\ Fault
    /\ ApplyFailure(e)
    /\ next' = next \cup {c} /\ left' = left \ {c}
    /\ UNCHANGED <<panelVars, nodeVars, coreVars, reloadCh, watch, historyVars>>

\* Faulty variant: reports the old controller as still active.
ReplaceFailsKeepsOld(c, e) ==
    /\ Changed(c, e)
    /\ IF inbound[Key(e)] = Nil THEN UNCHANGED faults ELSE Fault
    /\ CloseController(Key(e))
    /\ ApplyFailure(e)
    /\ left' = left \ {c} /\ next' = next \cup {c}
    /\ UNCHANGED <<panelVars, nodeVars, reloadCh, watch, historyVars>>

\* The old controller cannot be closed, or the new one not be activated: both
\* are gone.
ReplaceFails(c, e) ==
    /\ Changed(c, e)
    /\ IF inbound[Key(e)] = Nil THEN UNCHANGED faults ELSE Fault
    /\ CloseController(Key(e))
    /\ ApplyFailure(e)
    /\ left' = left \ {c} /\ UNCHANGED next
    /\ UNCHANGED <<panelVars, nodeVars, reloadCh, watch, historyVars>>

NewNode(e) ==
    /\ at = "apply" /\ First(e)
    /\ cand[Key(e)] # Nil /\ SlotOf(Key(e)) = {}

StartNew(e) ==
    LET k == Key(e) IN
    /\ NewNode(e)
    /\ Activate(k, cand[k]) /\ tasks' = [tasks EXCEPT ![k] = @ + 1]
    /\ next' = next \cup {Slot(e, cand[k])}
    /\ cand' = [cand EXCEPT ![k] = Nil]
    /\ UNCHANGED <<panelVars, at, full, left, lost, want, fail, nodeVars, reloadCh,
                   watch, faults, historyVars>>

\* The controller that failed to start is closed.
StartNewFails(e) ==
    /\ NewNode(e) /\ Fault
    /\ ApplyFailure(e)
    /\ inbound' = [inbound EXCEPT ![Key(e)] = Nil]
    /\ UNCHANGED <<panelVars, left, next, nodeVars, tasks, hash, reloadCh, watch, historyVars>>

-----------------------------------------------------------------------------
(* Start and full reload.                                                  *)

\* Node.Close, one controller after the other, then V2Core.Close.
CloseNode(c) ==
    LET k == Key(c.entry) IN
    /\ at = "close" /\ c \in left
    /\ CloseController(k)
    /\ IF inbound[k] = Nil THEN Die
       ELSE left' = left \ {c} /\ UNCHANGED <<at, full, lost, want, cand, next, fail>>
    /\ UNCHANGED <<panelVars, nodeVars, reloadCh, watch, faults, historyVars>>

NodesClosed ==
    /\ at = "close" /\ left = {}
    /\ at' = "build" /\ left' = want
    /\ inbound' = [k \in Keys |-> Nil]
    /\ UNCHANGED <<panelVars, full, lost, want, cand, next, fail, nodeVars, tasks,
                   hash, reloadCh, watch, faults, historyVars>>

\* newWithFactory.
Build(e) ==
    /\ at = "build" /\ e \in left
    /\ next' = next \cup {Slot(e, version[Key(e)])}
    /\ left' = left \ {e}
    /\ UNCHANGED <<panelVars, at, full, lost, want, cand, fail, nodeVars, coreVars,
                   reloadCh, watch, faults, historyVars>>

BuildFails(e) ==
    /\ at = "build" /\ e \in left /\ Fault
    /\ MachineFailure(e)
    /\ UNCHANGED <<panelVars, nodeVars, coreVars, reloadCh, watch, historyVars>>

\* The core starts with the custom routes of the nodes that were built, each
\* route for the tag of its node (GetCustomConfig).
Built ==
    /\ at = "build" /\ left = {}
    /\ at' = "start" /\ left' = next /\ next' = {}
    /\ routes' \in {r \in [Keys -> {Nil} \cup {c.info : c \in next}] :
          \A k \in Keys :
              LET S == {c.info : c \in {d \in next : Key(d.entry) = k /\ HasRoutes(d.info)}}
              IN  IF S = {} THEN r[k] = Nil ELSE r[k] \in S}
    /\ twice' = (twice \/ \E c, d \in next : c # d /\ Key(c.entry) = Key(d.entry))
    /\ UNCHANGED <<panelVars, full, lost, want, cand, fail, nodes, failures,
                   coreVars, reloadCh, watch, faults, missed>>

\* Node.Start.  AddNode does not take a tag twice, but for a node that listens
\* on all addresses it removes the inbound of that tag and tries again.
StartNode(c) ==
    LET k == Key(c.entry) IN
    /\ at = "start" /\ c \in left
    /\ inbound[k] = Nil \/ mode.fallback
    /\ Activate(k, c.info) /\ tasks' = [tasks EXCEPT ![k] = @ + 1]
    /\ next' = next \cup {c} /\ left' = left \ {c}
    /\ UNCHANGED <<panelVars, at, full, lost, want, cand, fail, nodeVars, reloadCh,
                   watch, faults, historyVars>>

\* The controller that failed to start is closed: DelNode removes the tag.
StartNodeFails(c) ==
    LET k == Key(c.entry) IN
    /\ at = "start" /\ c \in left
    /\ IF inbound[k] # Nil /\ ~mode.fallback THEN UNCHANGED faults ELSE Fault
    /\ IF ContinueOnError
       THEN /\ fail' = fail \cup {c.entry} /\ left' = left \ {c}
            /\ inbound' = [inbound EXCEPT ![k] = Nil]
            /\ UNCHANGED <<at, full, lost, want, cand, next>>
       ELSE Die /\ UNCHANGED inbound
    /\ UNCHANGED <<panelVars, nodeVars, tasks, hash, reloadCh, watch, historyVars>>

-----------------------------------------------------------------------------

\* Faulty variant: the failures are forgotten.
FinishNoFailures ==
    /\ \/ at = "apply" /\ left = {} /\ cand = NoCand
       \/ at = "start" /\ left = {}
    /\ at' = "loop"
    /\ nodes' = next /\ failures' = {}
    /\ watch' = IF ~Machine /\ watch = "off" THEN "idle" ELSE watch
    /\ UNCHANGED <<panelVars, full, left, lost, want, cand, next, fail, routes,
                   coreVars, reloadCh, faults, historyVars>>

\* The end of Reconcile, or of reload and of the start; the watcher starts
\* after the first start.
Finish ==
    /\ \/ at = "apply" /\ left = {} /\ cand = NoCand
       \/ at = "start" /\ left = {}
    /\ at' = "loop"
    /\ nodes' = next /\ failures' = fail
    /\ watch' = IF ~Machine /\ watch = "off" THEN "idle" ELSE watch
    /\ UNCHANGED <<panelVars, full, left, lost, want, cand, next, fail, routes,
                   coreVars, reloadCh, faults, historyVars>>

Crash ==
    /\ at # "dead" /\ Fault
    /\ Die
    /\ UNCHANGED <<panelVars, nodeVars, coreVars, reloadCh, watch, historyVars>>

\* The service manager starts the process again: serverHandle.
Boot ==
    /\ at = "dead"
    /\ Load /\ full' = TRUE
    /\ nodes' = {} /\ failures' = {} /\ routes' = NoCand
    /\ inbound' = [k \in Keys |-> Nil] /\ tasks' = [k \in Keys |-> 0]
    /\ hash' = [k \in Keys |-> 0]
    /\ reloadCh' = FALSE /\ watch' = "off" /\ twice' = FALSE
    /\ UNCHANGED <<panelVars, faults>>

Init ==
    /\ mode \in Modes
    /\ listed \in [Profile -> SUBSET Id] /\ version = [k \in Keys |-> 0]
    /\ at = "resolve" /\ full = TRUE
    /\ left = (IF Machine THEN Profile ELSE {})
    /\ want = (IF Machine THEN {} ELSE {e \in Entry : e[2] \in listed[e[1]]})
    /\ lost = {} /\ cand = NoCand /\ next = {} /\ fail = {}
    /\ nodes = {} /\ failures = {} /\ routes = NoCand
    /\ inbound = [k \in Keys |-> Nil] /\ tasks = [k \in Keys |-> 0]
    /\ hash = [k \in Keys |-> 0]
    /\ reloadCh = FALSE /\ watch = "off"
    /\ changes = 0 /\ edits = 0 /\ faults = 0
    /\ missed = FALSE /\ twice = FALSE

ReconcileStep ==
    \/ \E e \in Entry : Fetch(e) \/ FetchFails(e) \/ StartNew(e) \/ StartNewFails(e)
    \/ KeepExisting \/ \E S \in Current : Decide(S)
    \/ \E c \in left : Remove(c) \/ KeepSlot(c)
    \/ Removed
    \/ \E c \in left, e \in want :
          ReplaceController(c, e) \/ PrepareFails(c, e) \/ ReplaceFails(c, e)

FullStep ==
    \/ \E c \in left : CloseNode(c) \/ StartNode(c) \/ StartNodeFails(c)
    \/ \E e \in Entry : Build(e) \/ BuildFails(e)
    \/ NodesClosed \/ Built

LoopStep ==
    \/ BeginReload \/ Resolved \/ Finish
    \/ \E p \in Profile : ResolveProfile(p) \/ ProfileFails(p)
    \/ (at \in {"fetch", "remove", "apply"} /\ ReconcileStep)
    \/ (at \in {"close", "build", "start"} /\ FullStep)

Next ==
    \/ LoopStep \/ Tick \/ Invalidate \/ Crash \/ Boot
    \/ \E e \in Entry : ChangeNode(Key(e))
    \/ \E k \in Keys : ConfigCheck(k)
    \/ \E p \in Profile, ids \in SUBSET Id : EditList(p, ids)
    \/ WatchReload \/ WatchAgain

Spec == Init /\ [][Next]_vars

\* The loop runs, its tickers tick, the monitors of running controllers look
\* again and again, and the service manager restarts the process.
Fairness ==
    /\ WF_vars(LoopStep) /\ WF_vars(Tick) /\ WF_vars(Boot)
    /\ WF_vars(WatchReload) /\ WF_vars(WatchAgain)
    /\ \A k \in Keys : WF_vars(ConfigCheck(k))

FairSpec == Spec /\ Fairness

-----------------------------------------------------------------------------
(* Properties.                                                             *)

Slots == [entry : Entry, info : Nat]

\* Every variable keeps its type; left holds what the loop goes through where
\* it is.
TypeOK ==
    /\ mode \in Modes
    /\ listed \in [Profile -> SUBSET Id] /\ version \in [Keys -> Nat]
    /\ at \in {"dead", "loop", "resolve", "fetch", "remove", "apply", "close",
               "build", "start"}
    /\ left \subseteq (CASE at = "resolve" -> Profile
                         [] at \in {"fetch", "build"} -> Entry
                         [] OTHER -> Slots)
    /\ full \in BOOLEAN /\ lost \subseteq Profile /\ want \subseteq Entry
    /\ cand \in [Keys -> Nat \cup {Nil}] /\ next \subseteq Slots /\ fail \subseteq Entry
    /\ nodes \subseteq Slots /\ failures \subseteq Entry
    /\ inbound \in [Keys -> Nat \cup {Nil}] /\ tasks \in [Keys -> Nat]
    /\ routes \in [Keys -> Nat \cup {Nil}]
    /\ hash \in [Keys -> Nat] /\ reloadCh \in BOOLEAN
    /\ watch \in {"off", "idle", "sleep", "cool"}

\* Between reloads the core serves exactly the controllers of the node manager,
\* each from the NodeInfo the manager has for it, and each has one set of
\* tasks: no reload, however it failed, leaves an inbound or a controller
\* behind that nobody can close, or a slot that serves nothing.  The exception
\* is a process whose start, unlike Reconcile, took a node that two profiles of
\* one panel list for two nodes.
SlotsMatchCore ==
    at = "loop" /\ ~twice =>
        \A k \in Keys :
            LET S == {c \in nodes : Key(c.entry) = k} IN
            /\ Cardinality(S) = tasks[k] /\ tasks[k] <= 1
            /\ IF S = {} THEN inbound[k] = Nil
               ELSE \A c \in S : inbound[k] = c.info

\* A change of a node that runs is not forgotten: the manager has it, or the
\* node's client has not seen it, or a reload is pending, or the retry ticker
\* will ask for one.  The client reports a change once.  (Of two controllers of
\* one node, see SlotsMatchCore, the later one may have told of a change that
\* the earlier one has not.)
ChangeNotForgotten ==
    at = "loop" /\ ~twice =>
        \A c \in nodes :
            LET k == Key(c.entry) IN
            \/ c.info = version[k] \/ hash[k] # version[k]
            \/ reloadCh \/ failures # {}

\* Custom routes are built into the core when it starts.  A node with custom
\* routes runs only on a core that has exactly these routes for its tag (two
\* controllers of one node share a tag and its routes).
RoutesInCore ==
    at = "loop" /\ ~twice =>
        \A c \in nodes : HasRoutes(c.info) => routes[Key(c.entry)] = c.info

\* This step of Reconcile closes the running controller of slot c: its inbound
\* goes, or the slot is neither left to do nor kept.
Closes(c) ==
    /\ at \in {"remove", "apply"} /\ inbound[Key(c.entry)] # Nil
    /\ \/ inbound'[Key(c.entry)] = Nil
       \/ at' # "dead" /\ c \in left \ (left' \cup next')

\* Reconcile stops or replaces the controller of a node only if the node is no
\* longer wanted, or its NodeInfo changed, or the profile it runs for is not
\* the first that lists it (any more): then the node is replaced, and possibly
\* lost, although the profile it runs for lists it unchanged.  But for that, a
\* failure elsewhere never interrupts a node.  (Of two controllers of one node
\* Reconcile sees one, and closing it stops the other as well.)
OnlyChangedNodesStop ==
    [][~twice => \A c \in nodes : Closes(c) =>
          \/ Key(c.entry) \notin {Key(e) : e \in want}
          \/ cand[Key(c.entry)] \notin {Nil, c.info} \/ ~First(c.entry)]_vars

\* What should be served.
Wanted == [k \in Keys |-> IF \E e \in Entry : e[2] \in listed[e[1]] /\ Key(e) = k
                          THEN version[k] ELSE Nil]

\* A machine without nodes does not run.
NothingListed == Machine /\ \A p \in Profile : listed[p] = {}

\* Once the panel stays as it is and nothing fails any more, every listed node
\* is served between reloads as the panel has it, and no other, and reloads
\* end.  Two things are left as they are until somebody asks for a reload, or
\* the process restarts: a file saved while the watcher does not look, and a
\* node the process started twice.
Converges ==
    /\ <>[](at = "loop" => inbound = Wanted \/ missed \/ twice)
    /\ []<>(at = "loop" \/ NothingListed)

\* "expected existing node to stay active" after a "temporary panel error": a
\* reload stops no node because its panel could not be asked.
ExistingStaysActive ==
    [][\A c \in nodes :
          LET k == Key(c.entry) IN
          at = "remove" /\ inbound[k] # Nil /\ inbound'[k] = Nil
              => c.entry[1] \notin lost]_vars

=============================================================================
