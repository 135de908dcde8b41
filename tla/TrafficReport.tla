--------------------------- MODULE TrafficReport ---------------------------
(***************************************************************************)
(* Counting and reporting the traffic of a node's users.                   *)
(*                                                                         *)
(* Each connection adds its bytes to a TrafficStorage that getLink looked  *)
(* up once and that it keeps by pointer.  The periodic                     *)
(* reportUserTrafficTask swaps the storages' values out, drains the edge   *)
(* daemon, and sends both to the panel, by one unified report or by the    *)
(* legacy push; what the panel does not take is put back.  At the same     *)
(* time users are deleted and added, and a controller may be replaced by a *)
(* new one on the same core while the old one still runs its report.       *)
(*                                                                         *)
(* Upload and download are treated alike by the code and are one number    *)
(* here; emails stand for users, as they are keyed by tag and uuid.  The   *)
(* online devices that travel in the same report are in module Limiter.    *)
(***************************************************************************)
EXTENDS Integers, FiniteSets, Functions

CONSTANTS
    User,         \* users of this node
    EdgeUser,     \* users the edge daemon serves, of this and of other nodes
    Conn,         \* connections
    Storage,      \* bound: TrafficStorage objects
    Nil,          \* no storage, no user
    Last,         \* bound: controllers, numbered from 1 in order of start
    Setups        \* the minima of the panel's config, and bounds: see Setup

ASSUME TrafficAssumption ==
    /\ Nil \notin User /\ Nil \notin Storage
    /\ IsFiniteSet(Conn) /\ IsFiniteSet(Storage)
    /\ Last \in Nat \ {0}
    /\ \A p \in Setups :
          /\ p.conns \subseteq Conn /\ p.edge \subseteq EdgeUser /\ p.last \in 1 .. Last
          /\ {p.reportMin, p.deviceMin, p.maxBytes, p.maxFaults} \subseteq Nat

VARIABLES
    setup,        \* the member of Setups this behaviour is about
    bytes,        \* value of each TrafficStorage
    tagCounter,   \* the TrafficCounter stored for the tag, 0 if there is none
    counters,     \* each TrafficCounter: user -> storage
    phase,        \* how far the deletion of each user has got
    conn,         \* each connection's progress through getLink
    edge,         \* bytes the edge daemon holds
    active,       \* the controller whose report task is not closed
    pc,           \* where each controller's report is
    todo,         \* users the running Range or loop still has to visit
    tag,          \* the TrafficCounter the slice ranges over
    cur,          \* the user and storage that were just looked at
    slice,        \* core bytes taken, by user
    slot,         \* the storages they were taken from (rollbackItems)
    report,       \* edge bytes to be reported (reportRecords)
    restore,      \* edge bytes to be put back (restoreRecords)
    legacyOnly,   \* the panel has no unified report (featureUnsupported)
    panel,        \* bytes the panel has booked
    carried,      \* history: bytes carried
    gaps,         \* history: users whose bytes may have been lost
    dups,         \* history: users whose bytes may have been booked twice
    faults        \* number of faults so far

\* NodeReportMinTraffic and DeviceOnlineMinTraffic, in bytes.
ReportMin == setup.reportMin
DeviceMin == setup.deviceMin
\* Bounds: bytes carried for each user, failed calls.
MaxBytes  == setup.maxBytes
MaxFaults == setup.maxFaults

Controller == 1 .. Last
\* Each TrafficCounter is stored by another connection (StoreTagCounter).
Tag        == 1 .. Cardinality(Conn)
AnyUser    == User \cup EdgeUser

coreVars == <<bytes, tagCounter, counters, phase, conn>>
repVars  == <<setup, active, pc, todo, tag, cur, slice, slot, report, restore,
              legacyOnly>>
histVars == <<panel, carried, gaps, dups, faults>>
vars     == <<coreVars, edge, repVars, histVars>>

Zero       == [u \in AnyUser |-> 0]
Nowhere    == [u \in User |-> Nil]
NoConn     == [at |-> "closed", user |-> Nil, tag |-> 0, storage |-> Nil]
Present(f) == {u \in DOMAIN f : f[u] > 0}
Add(f, g)  == [u \in DOMAIN f |-> IF u \in DOMAIN g THEN f[u] + g[u] ELSE f[u]]

Fault == faults < MaxFaults /\ faults' = faults + 1

-----------------------------------------------------------------------------
(* Connections: the counter part of getLink and DispatchLink.              *)

\* The limiter knows the user until UpdateUser, the last step of a deletion.
\* The tag's TrafficCounter is loaded (0: there is none).
LoadTagCounter(c, u) ==
    /\ conn[c] = NoConn /\ phase[u] # "gone"
    /\ conn' = [conn EXCEPT ![c] = [at |-> "loaded", user |-> u,
                                    tag |-> tagCounter, storage |-> Nil]]
    /\ UNCHANGED <<bytes, tagCounter, counters, phase, edge, repVars, histVars>>

\* No TrafficCounter was there: store a new one, over one that another
\* connection may have stored since.
StoreTagCounter(c) ==
    /\ conn[c].at = "loaded" /\ conn[c].tag = 0
    /\ tagCounter' = tagCounter + 1
    /\ gaps' = gaps \cup {u \in User :
                             \/ tagCounter > 0 /\ counters[tagCounter][u] # Nil
                             \/ \E d \in Conn : conn[d].tag > 0 /\ conn[d].user = u}
    /\ conn' = [conn EXCEPT ![c].tag = tagCounter + 1]
    /\ UNCHANGED <<bytes, counters, phase, edge, repVars, panel, carried, dups,
                   faults>>

Unused == {s \in Storage : /\ \A t \in Tag, u \in User : counters[t][u] # s
                           /\ \A c \in Conn : conn[c].storage # s
                           /\ \A r \in Controller : cur[r].storage # s
                           /\ \A r \in Controller, u \in User : slot[r][u] # s}

\* A new TrafficStorage; which one stands for it does not matter.
New(s) == Unused # {} /\ s = CHOOSE n \in Unused : TRUE

\* TrafficCounter.GetCounter, on the TrafficCounter this connection has.
GetCounter(c, s) ==
    LET t == conn[c].tag  u == conn[c].user IN
    /\ conn[c].at = "loaded" /\ t > 0
    /\ \/ s = counters[t][u] /\ UNCHANGED <<bytes, counters>>
       \/ /\ counters[t][u] = Nil /\ New(s)
          /\ counters' = [counters EXCEPT ![t][u] = s]
          /\ bytes' = [bytes EXCEPT ![s] = 0]
    /\ conn' = [conn EXCEPT ![c].at = "open", ![c].storage = s]
    /\ UNCHANGED <<tagCounter, phase, edge, repVars, histVars>>

Carry(c) ==
    LET u == conn[c].user IN
    /\ conn[c].at = "open" /\ carried[u] < MaxBytes
    /\ bytes' = [bytes EXCEPT ![conn[c].storage] = @ + 1]
    /\ carried' = [carried EXCEPT ![u] = @ + 1]
    /\ UNCHANGED <<tagCounter, counters, phase, conn, edge, repVars, panel,
                   gaps, dups, faults>>

CloseConn(c) ==
    /\ conn[c].at = "open"
    /\ conn' = [conn EXCEPT ![c] = NoConn]
    /\ UNCHANGED <<bytes, tagCounter, counters, phase, edge, repVars, histVars>>

\* A sidecar of the edge daemon carries a byte.
EdgeCarry(u) ==
    /\ carried[u] < MaxBytes
    /\ edge' = [edge EXCEPT ![u] = @ + 1]
    /\ carried' = [carried EXCEPT ![u] = @ + 1]
    /\ UNCHANGED <<coreVars, repVars, panel, gaps, dups, faults>>

-----------------------------------------------------------------------------
(* Deletion and addition of users, as the user sync performs them.         *)

\* GetUserTrafficSlice holds users.mapLock for reading.
Slicing(r) == pc[r] \in {"peek", "peekTake", "slice", "sliceTake"}

\* executeNodeUserSync takes the new list over.
Unlist(u) ==
    /\ phase[u] = "served"
    /\ phase' = [phase EXCEPT ![u] = "unlisted"]
    /\ UNCHANGED <<bytes, tagCounter, counters, conn, edge, repVars, histVars>>

\* DelUsers: the uid, under mapLock.  From here on bytes may be dropped.
DeleteUID(u) ==
    /\ phase[u] = "unlisted" /\ \A r \in Controller : ~Slicing(r)
    /\ phase' = [phase EXCEPT ![u] = "noUID"]
    /\ gaps' = gaps \cup {u}
    /\ UNCHANGED <<bytes, tagCounter, counters, conn, edge, repVars, panel,
                   carried, dups, faults>>

\* DelUsers: the counter.
DeleteCounter(u) ==
    /\ phase[u] = "noUID"
    /\ phase' = [phase EXCEPT ![u] = "noCounter"]
    /\ counters' = [t \in Tag |-> IF t = tagCounter
                                  THEN [counters[t] EXCEPT ![u] = Nil]
                                  ELSE counters[t]]
    /\ UNCHANGED <<bytes, tagCounter, conn, edge, repVars, histVars>>

\* Limiter.UpdateUser.
DeleteLimit(u) ==
    /\ phase[u] = "noCounter"
    /\ phase' = [phase EXCEPT ![u] = "gone"]
    /\ UNCHANGED <<bytes, tagCounter, counters, conn, edge, repVars, histVars>>

AddUser(u) ==
    /\ phase[u] = "gone" /\ \A r \in Controller : ~Slicing(r)
    /\ phase' = [phase EXCEPT ![u] = "served"]
    /\ UNCHANGED <<bytes, tagCounter, counters, conn, edge, repVars, histVars>>

-----------------------------------------------------------------------------
(* reportUserTrafficTask.                                                  *)

\* Controller r goes on at a place, with users left to visit there.
Goto(r, where, users) ==
    /\ pc' = [pc EXCEPT ![r] = where]
    /\ todo' = [todo EXCEPT ![r] = users]

NoCur == [user |-> Nil, storage |-> Nil]

\* GetUserTrafficSlice: Range over the TrafficCounter stored for the tag.
RangeOver(r, where) ==
    /\ Goto(r, where, IF tagCounter = 0 THEN {}
                      ELSE {u \in User : counters[tagCounter][u] # Nil})
    /\ tag' = [tag EXCEPT ![r] = tagCounter]

\* DeviceMin > 0: a first slice only tells which users were active.
Begin(r) ==
    /\ r = active /\ pc[r] = "idle"
    /\ RangeOver(r, IF DeviceMin > 0 THEN "peek" ELSE "slice")
    /\ UNCHANGED <<coreVars, edge, setup, active, cur, slice, slot, report, restore,
                   legacyOnly, histVars>>

Threshold(r) == IF pc[r] = "peek" THEN DeviceMin ELSE ReportMin

\* GetUserTrafficSlice, one entry of Range: Load and compare ...
Look(r, u) ==
    LET s == IF tag[r] = 0 THEN Nil ELSE counters[tag[r]][u] IN
    /\ pc[r] \in {"peek", "slice"} /\ u \in todo[r]
    /\ IF s # Nil /\ bytes[s] > Threshold(r)
       THEN /\ Goto(r, IF pc[r] = "peek" THEN "peekTake" ELSE "sliceTake",
                    todo[r] \ {u})
            /\ cur' = [cur EXCEPT ![r] = [user |-> u, storage |-> s]]
       ELSE Goto(r, pc[r], todo[r] \ {u}) /\ UNCHANGED cur
    /\ UNCHANGED <<coreVars, edge, setup, active, slice, slot, report, restore,
                   legacyOnly, histVars, tag>>

\* Faulty variant: loads the value where the code swaps it out.
TakeLoadOnly(r) ==
    LET u == cur[r].user  s == cur[r].storage IN
    /\ pc[r] \in {"peekTake", "sliceTake"}
    /\ Goto(r, IF pc[r] = "peekTake" THEN "peek" ELSE "slice", todo[r])
    /\ cur' = [cur EXCEPT ![r] = NoCur]
    /\ slice' = [slice EXCEPT ![r][u] = bytes[s]]
    /\ slot' = [slot EXCEPT ![r][u] = s]
    /\ UNCHANGED <<coreVars, edge, setup, active, report, restore, legacyOnly,
                   histVars, tag>>

\* ... then Swap(0).  The bytes of a user without uid are dropped.
Take(r) ==
    LET u == cur[r].user  s == cur[r].storage IN
    /\ pc[r] \in {"peekTake", "sliceTake"}
    /\ Goto(r, IF pc[r] = "peekTake" THEN "peek" ELSE "slice", todo[r])
    /\ cur' = [cur EXCEPT ![r] = NoCur]
    /\ bytes' = [bytes EXCEPT ![s] = 0]
    /\ IF phase[u] \in {"served", "unlisted"}
       THEN /\ slice' = [slice EXCEPT ![r][u] = bytes[s]]
            /\ slot' = [slot EXCEPT ![r][u] = s]
            /\ UNCHANGED counters
       ELSE /\ counters' = [counters EXCEPT ![tag[r]][u] = Nil]
            /\ UNCHANGED <<slice, slot>>
    /\ UNCHANGED <<tagCounter, phase, conn, edge, setup, active, report, restore,
                   legacyOnly, histVars, tag>>

\* The slice is complete: a peek is rolled back, a slice goes on to the edge.
Sliced(r) ==
    /\ todo[r] = {}
    /\ \/ pc[r] = "peek" /\ Goto(r, "unpeek", Present(slice[r]))
       \/ pc[r] = "slice" /\ Goto(r, "drain", {})
    /\ UNCHANGED <<coreVars, edge, setup, active, cur, slice, slot, report, restore,
                   legacyOnly, histVars, tag>>

\* One item of the rollback that GetUserTrafficSlice returned.
Rollback(r, u) ==
    /\ pc[r] \in {"unpeek", "rollback"} /\ u \in todo[r]
    /\ Goto(r, pc[r], todo[r] \ {u})
    /\ bytes' = [bytes EXCEPT ![slot[r][u]] = @ + slice[r][u]]
    /\ slice' = [slice EXCEPT ![r][u] = 0]
    /\ slot' = [slot EXCEPT ![r][u] = Nil]
    /\ UNCHANGED <<tagCounter, counters, phase, conn, edge, setup, active, cur,
                   report, restore, legacyOnly, histVars, tag>>

\* Faulty variant: the report ends after the peek.
RolledBackEnds(r) ==
    /\ todo[r] = {} /\ pc[r] \in {"unpeek", "rollback"}
    /\ Goto(r, "idle", {})
    /\ UNCHANGED <<coreVars, edge, setup, active, tag, cur, slice, slot, report,
                   restore, legacyOnly, histVars>>

\* After a peek comes the slice that is reported; after a failed push the
\* edge traffic is put back as well.
RolledBack(r) ==
    /\ todo[r] = {}
    /\ \/ /\ pc[r] = "unpeek"
          /\ RangeOver(r, "slice")
          /\ UNCHANGED <<report, restore>>
       \/ /\ pc[r] = "rollback"
          /\ Goto(r, "putBack", Present(report[r]))
          /\ restore' = [restore EXCEPT ![r] = report[r]]
          /\ report' = [report EXCEPT ![r] = Zero]
          /\ UNCHANGED tag
    /\ UNCHANGED <<coreVars, edge, setup, active, cur, slice, slot, legacyOnly, histVars>>

-----------------------------------------------------------------------------
(* Edge traffic.                                                           *)

\* The records this controller reports: its own, listed, above the minimum.
Matched == {u \in User : phase[u] = "served" /\ edge[u] > ReportMin}

\* Faulty variant: forgets the records it does not report.
DrainForgetsForeign(r) ==
    /\ pc[r] = "drain"
    /\ report' = [report EXCEPT ![r] =
                    [u \in AnyUser |-> IF u \in Matched THEN edge[u] ELSE 0]]
    /\ edge' = Zero
    /\ Goto(r, "restore", {})
    /\ UNCHANGED <<coreVars, setup, active, cur, slice, slot, restore, legacyOnly,
                   histVars, tag>>

\* drainEdgeUserTraffic: the daemon's traffic is taken and sorted.
Drain(r) ==
    LET rest == [u \in AnyUser |-> IF u \in Matched THEN 0 ELSE edge[u]] IN
    /\ pc[r] = "drain"
    /\ report' = [report EXCEPT ![r] =
                    [u \in AnyUser |-> IF u \in Matched THEN edge[u] ELSE 0]]
    /\ restore' = [restore EXCEPT ![r] = rest]
    /\ edge' = Zero
    /\ Goto(r, "restore", Present(rest))
    /\ UNCHANGED <<coreVars, setup, active, cur, slice, slot, legacyOnly, histVars, tag>>

\* The drain fails: what the daemon gave away in a lost answer is lost.
DrainFails(r, applied) ==
    /\ pc[r] = "drain" /\ Fault
    /\ edge' = IF applied THEN Zero ELSE edge
    /\ gaps' = gaps \cup (IF applied THEN Present(edge) ELSE {})
    /\ Goto(r, "restore", {})
    /\ UNCHANGED <<coreVars, setup, active, cur, slice, slot, report, restore,
                   legacyOnly, panel, carried, dups, tag>>

\* restoreEdgeTraffic, record by record.
Restore(r, u) ==
    /\ pc[r] \in {"restore", "putBack"} /\ u \in todo[r]
    /\ Goto(r, pc[r], todo[r] \ {u})
    /\ edge' = [edge EXCEPT ![u] = @ + restore[r][u]]
    /\ restore' = [restore EXCEPT ![r][u] = 0]
    /\ UNCHANGED <<coreVars, setup, active, cur, slice, slot, report, legacyOnly,
                   histVars, tag>>

\* The first error ends the loop: the records left are lost.  The one that
\* failed may have arrived.
RestoreFails(r, u, applied) ==
    /\ pc[r] \in {"restore", "putBack"} /\ u \in todo[r] /\ Fault
    /\ Goto(r, pc[r], {})
    /\ edge' = IF applied THEN [edge EXCEPT ![u] = @ + restore[r][u]] ELSE edge
    /\ gaps' = gaps \cup (IF applied THEN todo[r] \ {u} ELSE todo[r])
    /\ restore' = [restore EXCEPT ![r] = Zero]
    /\ UNCHANGED <<coreVars, setup, active, cur, slice, slot, report, legacyOnly,
                   panel, carried, dups, tag>>

-----------------------------------------------------------------------------
(* The panel.                                                              *)

\* The merged traffic of the report: mergeUserTraffic.
Merged(r) == Add(report[r], slice[r])

\* Edge records are restored; send what there is.
Restored(r) ==
    /\ pc[r] \in {"restore", "putBack"} /\ todo[r] = {}
    /\ Goto(r, IF pc[r] = "putBack" \/ Merged(r) = Zero THEN "idle"
               ELSE IF legacyOnly[r] THEN "push" ELSE "unified", {})
    /\ UNCHANGED <<coreVars, edge, setup, active, cur, slice, slot, report, restore,
                   legacyOnly, histVars, tag>>

\* The report is over and what it held is booked (or given up).
Done(r) ==
    /\ Goto(r, "idle", {})
    /\ slice' = [slice EXCEPT ![r] = [u \in User |-> 0]]
    /\ slot' = [slot EXCEPT ![r] = Nowhere]
    /\ report' = [report EXCEPT ![r] = Zero]
    /\ UNCHANGED <<coreVars, edge, setup, active, cur, restore, legacyOnly, tag>>

\* ReportSnapshot or ReportUserTraffic succeeds.
Accepted(r) ==
    /\ pc[r] \in {"unified", "push"}
    /\ panel' = Add(panel, Merged(r))
    /\ Done(r)
    /\ UNCHANGED <<carried, gaps, dups, faults>>

\* 404 or 405: never try the unified report again.
UnifiedUnsupported(r) ==
    /\ pc[r] = "unified"
    /\ legacyOnly' = [legacyOnly EXCEPT ![r] = TRUE]
    /\ Goto(r, "push", {})
    /\ UNCHANGED <<coreVars, edge, setup, active, cur, slice, slot, report, restore,
                   histVars, tag>>

\* A request fails; the panel may have booked it all the same.
Booked(r, applied) ==
    /\ panel' = IF applied THEN Add(panel, Merged(r)) ELSE panel
    /\ dups' = dups \cup (IF applied THEN Present(Merged(r)) ELSE {})

\* Any other error of ReportSnapshot: fall back to the legacy push.
UnifiedFails(r, applied) ==
    /\ pc[r] = "unified" /\ Fault
    /\ Booked(r, applied)
    /\ Goto(r, "push", {})
    /\ UNCHANGED <<coreVars, edge, setup, active, cur, slice, slot, report, restore,
                   legacyOnly, carried, gaps, tag>>

\* ReportUserTraffic returns an error: roll back, put edge traffic back.
PushFails(r, applied) ==
    /\ pc[r] = "push" /\ Fault
    /\ Booked(r, applied)
    /\ Goto(r, "rollback", Present(slice[r]))
    /\ UNCHANGED <<coreVars, edge, setup, active, cur, slice, slot, report, restore,
                   legacyOnly, carried, gaps, tag>>

\* The task was closed: a cancelled push counts as a success.
PushCancelled(r, applied) ==
    /\ pc[r] = "push" /\ r # active
    /\ panel' = IF applied THEN Add(panel, Merged(r)) ELSE panel
    /\ gaps' = gaps \cup (IF applied THEN {} ELSE Present(Merged(r)))
    /\ Done(r)
    /\ UNCHANGED <<carried, dups, faults>>

\* StartReplacing: the old controller's tasks are closed, without waiting for
\* a report that runs, and the new one's are started, on the same core.
Replace ==
    /\ active < setup.last
    /\ active' = active + 1
    /\ UNCHANGED <<setup, coreVars, edge, pc, todo, cur, slice, slot, report, restore,
                   legacyOnly, histVars, tag>>

-----------------------------------------------------------------------------

Init ==
    /\ setup \in Setups
    /\ bytes = [s \in Storage |-> 0]
    /\ tagCounter = 0
    /\ counters = [t \in Tag |-> Nowhere]
    /\ phase = [u \in User |-> "served"]
    /\ conn = [c \in Conn |-> NoConn]
    /\ edge = Zero
    /\ active = 1
    /\ pc = [r \in Controller |-> "idle"]
    /\ todo = [r \in Controller |-> {}]
    /\ tag = [r \in Controller |-> 0]
    /\ cur = [r \in Controller |-> NoCur]
    /\ slice = [r \in Controller |-> [u \in User |-> 0]]
    /\ slot = [r \in Controller |-> Nowhere]
    /\ report = [r \in Controller |-> Zero]
    /\ restore = [r \in Controller |-> Zero]
    /\ legacyOnly = [r \in Controller |-> FALSE]
    /\ panel = Zero
    /\ carried = Zero
    /\ gaps = {} /\ dups = {} /\ faults = 0

ConnStep(c) ==
    \/ \E u \in User : LoadTagCounter(c, u)
    \/ StoreTagCounter(c)
    \/ \E s \in Storage : GetCounter(c, s)
    \/ Carry(c) \/ CloseConn(c)

UserStep(u) ==
    Unlist(u) \/ DeleteUID(u) \/ DeleteCounter(u) \/ DeleteLimit(u) \/ AddUser(u)

ReportStep(r) ==
    \/ Begin(r)
    \/ \E u \in User : Look(r, u) \/ Rollback(r, u)
    \/ Take(r) \/ Sliced(r) \/ RolledBack(r)
    \/ Drain(r) \/ Restored(r)
    \/ \E u \in AnyUser : Restore(r, u)
    \/ Accepted(r) \/ UnifiedUnsupported(r)

FaultStep(r, applied) ==
    \/ DrainFails(r, applied)
    \/ \E u \in AnyUser : RestoreFails(r, u, applied)
    \/ UnifiedFails(r, applied) \/ PushFails(r, applied)
    \/ PushCancelled(r, applied)

Next ==
    \/ \E c \in setup.conns : ConnStep(c)
    \/ \E u \in setup.edge : EdgeCarry(u)
    \/ \E u \in User : UserStep(u)
    \/ \E r \in Controller : ReportStep(r)
    \/ \E r \in Controller, applied \in BOOLEAN : FaultStep(r, applied)
    \/ Replace

Spec == Init /\ [][Next]_vars

\* A running report goes on, and the active controller's task starts another.
Fairness == \A r \in Controller : WF_vars(ReportStep(r))

FairSpec == Spec /\ Fairness

-----------------------------------------------------------------------------
(* Properties.                                                             *)

\* A connection that is registered has a user, an open one a TrafficStorage
\* as well; a report names the storage only between Load and Swap.
ConnType ==
    {NoConn} \cup
    [at : {"loaded"}, user : User, tag : 0 .. Cardinality(Conn), storage : {Nil}] \cup
    [at : {"open"}, user : User, tag : Tag, storage : Storage]

Places == {"idle", "peek", "peekTake", "unpeek", "slice", "sliceTake", "drain", "restore",
           "unified", "push", "rollback", "putBack"}

\* Every variable has the shape the code gives it.
TypeOK ==
    /\ setup \in Setups
    /\ bytes \in [Storage -> Nat]
    /\ conn \in [Conn -> ConnType]
    /\ pc \in [Controller -> Places] /\ todo \in [Controller -> SUBSET AnyUser]
    /\ cur \in [Controller -> {NoCur} \cup [user : User, storage : Storage]]
    /\ legacyOnly \in [Controller -> BOOLEAN]
    /\ carried \in [AnyUser -> Nat] /\ faults \in Nat
    /\ gaps \subseteq AnyUser /\ dups \subseteq AnyUser
    /\ tagCounter \in 0 .. Cardinality(Conn)
    /\ counters \in [Tag -> [User -> Storage \cup {Nil}]]
    /\ phase \in [User -> {"served", "unlisted", "noUID", "noCounter", "gone"}]
    /\ active \in Controller /\ tag \in [Controller -> 0 .. Cardinality(Conn)]
    /\ slot \in [Controller -> [User -> Storage \cup {Nil}]]
    /\ slice \in [Controller -> [User -> Nat]]
    /\ report \in [Controller -> [AnyUser -> Nat]]
    /\ restore \in [Controller -> [AnyUser -> Nat]]
    /\ edge \in [AnyUser -> Nat] /\ panel \in [AnyUser -> Nat]

\* Bytes of a user that a running report holds.
InFlight(u) ==
    SumFunction([r \in Controller |-> restore[r][u] + Merged(r)[u]])

\* Bytes of a user that a later report will find.
Waiting(u) ==
    edge[u] + (IF u \in User /\ tagCounter > 0 /\ counters[tagCounter][u] # Nil
               THEN bytes[counters[tagCounter][u]] ELSE 0)

\* No byte is lost: it is booked, waits for the next report or is part of a
\* running one.  The exceptions are a deleted user, a push cancelled by the
\* replacement of the controller, a failing edge daemon, and two first
\* connections of the tag that both store a TrafficCounter.
NoByteLost ==
    \A u \in AnyUser \ gaps :
        carried[u] <= panel[u] + Waiting(u) + InFlight(u)

\* No byte is booked twice, unless the answer to a booked request was lost:
\* swapping, rolling back, draining and restoring never create traffic.
NoByteTwice ==
    \A u \in AnyUser \ dups :
        panel[u] + Waiting(u) + InFlight(u) <= carried[u]

\* Every user that stays is reported: what the counters and the edge daemon
\* hold falls to the reporting minimum and stays there, through failures and
\* the replacement of the controller.
EventuallyReported ==
    \A u \in User : <>[](phase[u] = "served" => u \in gaps \/ Waiting(u) <= 2 * ReportMin)

=============================================================================
