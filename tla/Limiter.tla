------------------------------ MODULE Limiter ------------------------------
(***************************************************************************)
(* The limiter of one node: how many devices (source addresses) each user  *)
(* may use at a time, and how fast.                                        *)
(*                                                                         *)
(* CheckLimit runs in the goroutine of every new connection, without a     *)
(* lock, on maps it shares with the other connections, with the report of  *)
(* online devices (GetOnlineDevice, CommitOnlineDeviceReport), with the    *)
(* pull of the panel's alive list (SetAliveSnapshot) and with the user     *)
(* sync (UpdateUser, UpdateUserInfo).  A step here is one access to a      *)
(* shared map, or several that the properties do not tell apart: the       *)
(* counts of CheckLimit, a deletion of a user from its maps.               *)
(*                                                                         *)
(* The device map of a user is a sync.Map reached through UserOnlineIP: it *)
(* is an object of its own here (Map), because a connection keeps a        *)
(* pointer to it while others remove it from UserOnlineIP.  A user's uid   *)
(* and its uuid are one value.  Every user has the device limit Limit.     *)
(***************************************************************************)
EXTENDS Integers, FiniteSets

CONSTANTS
    User,         \* users of the node
    IP,           \* source addresses
    Checker,      \* connections being set up at the same time
    Map,          \* bound: device maps
    Nil,          \* no map, user, speed or bucket
    Speed,        \* values of SpeedLimit, 0 for none
    Setups        \* the node's settings, and bounds: see below

ASSUME LimiterAssumption ==
    /\ Nil \notin User /\ Nil \notin Map /\ Nil \notin Speed
    /\ Speed \subseteq Nat /\ IsFiniteSet(IP) /\ IsFiniteSet(Checker)
    /\ \A p \in Setups :
          /\ p.users \subseteq User /\ p.speeds \subseteq Speed /\ p.ips \subseteq IP
          /\ p.checkers \subseteq Checker /\ p.elsewhere \subseteq User
          /\ p.limit \in Nat \ {0} /\ {p.udp, p.loose, p.filter, p.reports} \subseteq BOOLEAN
          /\ p.alive \subseteq SUBSET IP /\ {p.maxChanges, p.maxPulls, p.maxFaults} \subseteq Nat

VARIABLES
    setup,        \* the member of Setups this behaviour is about
    limitInfo,    \* UserLimitInfo: each user's SpeedLimit, Nil if unknown
    online,       \* UserOnlineIP: the device map of each user
    maps,         \* addresses in each device map
    old,          \* OldUserOnline: address -> owner, older than the last pull?
    bucket,       \* SpeedLimiter: the speed of each user's bucket
    aliveList,    \* aliveList: devices of each user the panel counts
    aliveIPList,  \* aliveIPList
    check,        \* the locals of each running CheckLimit
    rep,          \* the locals of the report
    pull,         \* the alive list being pulled
    sync,         \* the user whose bucket UpdateUserInfo still has to drop
    panelIPs,     \* the panel's alive devices, of this node and of others
    reported,     \* history: addresses this node reported, by user
    abroad,       \* history: addresses other nodes had alive, by user
    quiet,        \* history: nothing reported and nothing pulled so far
    admitted,     \* history: addresses admitted and never reported yet
    orphaned,     \* history: those of them stored in a map that was gone or going
    overlapped,   \* history: users changed while they were connecting
    changes, pulls, faults

\* DeviceLimit, or the node's default for users without one.
Limit     == setup.limit
\* hysteria2 and tuic connections are tracked by their UDP source.
Udp       == setup.udp
\* aliveMode 1: the panel sends the alive addresses, too.
LooseMode == setup.loose
\* DeviceOnlineMinTraffic > 0: the devices of idle users are not reported.
Filter    == setup.filter

stateVars == <<setup, limitInfo, online, maps, old, bucket, aliveList, aliveIPList>>
histVars  == <<reported, abroad, quiet, admitted, orphaned, overlapped>>
vars == <<stateVars, check, rep, pull, sync, panelIPs, histVars, changes,
          pulls, faults>>

NoEntry == [user |-> Nil, pulled |-> FALSE]
Idle    == [at |-> "idle", user |-> Nil, ip |-> Nil, speed |-> Nil,
            known |-> 0, map |-> Nil, created |-> FALSE]
NoRep   == [at |-> "idle", dev |-> {}, left |-> {}, pulled |-> FALSE,
            drop |-> Nil]
NoPull  == [at |-> "idle", ips |-> [u \in User |-> {}]]

\* The addresses in UserOnlineIP for a user.
Pending(u) == IF online[u] = Nil THEN {} ELSE maps[online[u]]

-----------------------------------------------------------------------------
(* CheckLimit.                                                             *)

\* Faulty variant: does not compare the owner of the address.
KnownAnyOwner(u, i) ==
    old[i].user # Nil \/ (LooseMode /\ i \in aliveIPList[u])

\* isKnownAliveIP: this node reported it for this user before, or the panel says
\* that it is alive for this user, on whatever node.
Known(u, i) == old[i].user = u \/ (LooseMode /\ i \in aliveIPList[u])

\* recentReportedLocalIPCount: reported after the last pull.
RecentReported(u) == Cardinality({i \in IP : old[i].user = u /\ ~old[i].pulled})

\* UserLimitInfo.Load: a user that is not there is rejected, and nothing
\* changes.
RejectUnknown(u) == limitInfo[u] = Nil /\ UNCHANGED vars

Enter(c, u, i) ==
    /\ check[c] = Idle
    /\ limitInfo[u] # Nil
    /\ check' = [check EXCEPT ![c] = [Idle EXCEPT !.at = "count", !.user = u,
                                        !.ip = i, !.speed = limitInfo[u]]]
    /\ UNCHANGED <<stateVars, rep, pull, sync, panelIPs, histVars, changes,
                   pulls, faults>>

\* getAliveIP and recentReportedLocalIPCount.
Count(c) ==
    LET u == check[c].user IN
    /\ check[c].at = "count"
    /\ check' = [check EXCEPT ![c].at = "map",
                              ![c].known = aliveList[u] + RecentReported(u)]
    /\ UNCHANGED <<stateVars, rep, pull, sync, panelIPs, histVars, changes,
                   pulls, faults>>

\* The connections, other than those in C, that are at work for a user.
Others(u, C) == {d \in Checker \ C : check[d].user = u}

\* UserOnlineIP.Delete.  Connections that hold the map may still store in it.
RemoveMap(u) == online' = [online EXCEPT ![u] = Nil]

Unused == {m \in Map : /\ \A u \in User : online[u] # m
                       /\ \A c \in Checker : check[c].map # m}

\* getOrCreateUserOnlineIPMap.
GetMap(c, m) ==
    LET u == check[c].user IN
    /\ check[c].at = "map"
    /\ \/ /\ online[u] = m
          /\ check' = [check EXCEPT ![c].at = "decide", ![c].map = m]
          /\ UNCHANGED <<online, maps>>
       \/ /\ online[u] = Nil /\ Unused # {}
          /\ m = CHOOSE n \in Unused : TRUE
          /\ online' = [online EXCEPT ![u] = m]
          /\ maps' = [maps EXCEPT ![m] = {}]
          /\ check' = [check EXCEPT ![c].at = "decide", ![c].map = m,
                                    ![c].created = TRUE]
    /\ UNCHANGED <<setup, limitInfo, old, bucket, aliveList, aliveIPList, rep, pull,
                   sync, panelIPs, histVars, changes, pulls, faults>>

\* pendingNewIPCount, in the map that UserOnlineIP has now.
PendingNew(u) == {i \in Pending(u) : ~Known(u, i)}

\* Faulty variant: one device too many.
HasRoomForOneMore(c) ==
    LET k == check[c] IN
    \/ k.ip \in maps[k.map]
    \/ Known(k.user, k.ip)
    \/ Limit >= k.known + Cardinality(PendingNew(k.user))

\* The part of CheckLimit that needs no room: the address is in the map, or
\* known, or there is room for it.
HasRoom(c) ==
    LET k == check[c] IN
    \/ k.ip \in maps[k.map]
    \/ Known(k.user, k.ip)
    \/ Limit > k.known + Cardinality(PendingNew(k.user))

Admit(c) ==
    /\ check[c].at = "decide" /\ HasRoom(c)
    /\ check' = [check EXCEPT ![c].at = IF check[c].ip \in maps[check[c].map]
                                        THEN "bucket" ELSE "store"]
    /\ UNCHANGED <<stateVars, rep, pull, sync, panelIPs, histVars, changes,
                   pulls, faults>>

Reject(k) == [k EXCEPT !.at = "undo"]

\* No room, TCP (or a user with no known device): the connection is refused.
Refuse(c) ==
    /\ check[c].at = "decide" /\ ~HasRoom(c)
    /\ ~Udp \/ check[c].known = 0
    /\ check' = [check EXCEPT ![c] = Reject(@)]
    /\ UNCHANGED <<stateVars, rep, pull, sync, panelIPs, histVars, changes,
                   pulls, faults>>

\* No room, UDP: dropOnePendingUnknownIP makes some, and one transient
\* address is allowed beyond the limit.  pendingNewIP counted in the map of
\* UserOnlineIP, the address is dropped from the one this connection has.
Roam(c) ==
    LET k == check[c]
        unknown == {i \in maps[k.map] : ~Known(k.user, i)}
        n == Cardinality(PendingNew(k.user))
        left == IF unknown # {} /\ n > 0 THEN n - 1 ELSE n
    IN
    /\ k.at = "decide" /\ ~HasRoom(c)
    /\ Udp /\ k.known > 0
    /\ \/ unknown = {} /\ UNCHANGED <<maps, admitted>>
       \/ \E i \in unknown :
             /\ maps' = [maps EXCEPT ![k.map] = @ \ {i}]
             /\ admitted' = [admitted EXCEPT ![k.user] = @ \ {i}]
    /\ check' = [check EXCEPT ![c] = IF Limit >= k.known + left
                                     THEN [k EXCEPT !.at = "store"]
                                     ELSE Reject(k)]
    /\ UNCHANGED <<setup, limitInfo, online, old, bucket, aliveList, aliveIPList, rep,
                   pull, sync, panelIPs, reported, abroad, quiet, orphaned, overlapped,
                   changes, pulls, faults>>

\* Faulty variant: a refused connection removes the map in any case.
UndoAlways(c) ==
    /\ check[c].at = "undo"
    /\ RemoveMap(check[c].user)
    /\ check' = [check EXCEPT ![c] = Idle]
    /\ UNCHANGED <<setup, limitInfo, maps, old, bucket, aliveList, aliveIPList, rep,
                   pull, sync, panelIPs, histVars, changes, pulls, faults>>

\* A refused connection removes the map if it created it.
Undo(c) ==
    /\ check[c].at = "undo"
    /\ IF check[c].created THEN RemoveMap(check[c].user) ELSE UNCHANGED online
    /\ check' = [check EXCEPT ![c] = Idle]
    /\ UNCHANGED <<setup, limitInfo, maps, old, bucket, aliveList, aliveIPList, rep,
                   pull, sync, panelIPs, histVars, changes, pulls, faults>>

\* The map of connection c, which is of user u, is not in UserOnlineIP any more,
\* or may still leave it with what is stored now: a commit found it empty and is
\* about to delete it, or the connection that created it may yet be refused.
AtRisk(u, c) ==
    \/ online[u] # check[c].map
    \/ rep.drop = u
    \/ \E d \in Others(u, {c}) : check[d].created /\ check[d].at \in {"decide", "undo"}

\* ipMap.Store(ip, uid).
Store(c) ==
    LET k == check[c] IN
    /\ k.at = "store"
    /\ maps' = [maps EXCEPT ![k.map] = @ \cup {k.ip}]
    /\ check' = [check EXCEPT ![c].at = "bucket"]
    /\ admitted' = [admitted EXCEPT ![k.user] = @ \cup ({k.ip} \ reported[k.user])]
    /\ orphaned' = [orphaned EXCEPT ![k.user] =
                       IF AtRisk(k.user, c) THEN @ \cup ({k.ip} \ reported[k.user])
                       ELSE @ \ {k.ip}]
    /\ UNCHANGED <<setup, limitInfo, online, old, bucket, aliveList, aliveIPList, rep,
                   pull, sync, panelIPs, reported, abroad, quiet, overlapped, changes,
                   pulls, faults>>

\* Load or LoadOrStore of the user's bucket.
TakeBucket(c) ==
    LET u == check[c].user IN
    /\ check[c].at = "bucket"
    /\ bucket' = IF check[c].speed > 0 /\ bucket[u] = Nil
                 THEN [bucket EXCEPT ![u] = check[c].speed] ELSE bucket
    /\ check' = [check EXCEPT ![c] = Idle]
    /\ UNCHANGED <<setup, limitInfo, online, maps, old, aliveList, aliveIPList, rep,
                   pull, sync, panelIPs, histVars, changes, pulls, faults>>

-----------------------------------------------------------------------------
(* The report of online devices, part of reportUserTrafficTask.            *)

\* GetOnlineDevice; with the traffic filter only active users are reported.
Snapshot(active) ==
    LET dev == {d \in active \X IP : d[2] \in Pending(d[1])} IN
    /\ setup.reports /\ rep = NoRep /\ dev # {}
    /\ Filter \/ active = User
    /\ rep' = [NoRep EXCEPT !.at = "send", !.dev = dev, !.left = dev]
    /\ UNCHANGED <<stateVars, check, pull, sync, panelIPs, histVars, changes,
                   pulls, faults>>

\* The panel takes the report; CommitOnlineDeviceReport stamps it.
Sent ==
    LET ips(u) == {d[2] : d \in {e \in rep.dev : e[1] = u}} IN
    /\ rep.at = "send"
    /\ panelIPs' = [u \in User |-> panelIPs[u] \cup ips(u)]
    /\ reported' = [u \in User |-> reported[u] \cup ips(u)]
    /\ admitted' = [u \in User |-> admitted[u] \ ips(u)]
    /\ orphaned' = [u \in User |-> orphaned[u] \ ips(u)]
    /\ quiet' = FALSE
    /\ rep' = [rep EXCEPT !.at = "commit"]
    /\ UNCHANGED <<stateVars, check, pull, sync, abroad, overlapped, changes, pulls,
                   faults>>

SendFails ==
    /\ rep.at = "send" /\ faults < setup.maxFaults
    /\ faults' = faults + 1
    /\ rep' = NoRep
    /\ UNCHANGED <<stateVars, check, pull, sync, panelIPs, histVars, changes, pulls>>

\* Faulty variant: a reported device stays pending.
CommitDeviceKeepsPending(u, i) ==
    /\ rep.at = "commit" /\ <<u, i>> \in rep.left /\ rep.drop = Nil
    /\ rep' = [rep EXCEPT !.left = @ \ {<<u, i>>}]
    /\ UNCHANGED <<stateVars, check, pull, sync, panelIPs, histVars, changes,
                   pulls, faults>>

\* One reported device leaves the pending map ...
CommitDevice(u, i) ==
    /\ rep.at = "commit" /\ <<u, i>> \in rep.left /\ rep.drop = Nil
    /\ IF online[u] = Nil
       THEN UNCHANGED maps /\ rep' = [rep EXCEPT !.left = @ \ {<<u, i>>}]
       ELSE /\ maps' = [maps EXCEPT ![online[u]] = @ \ {i}]
            /\ rep' = [rep EXCEPT !.left = @ \ {<<u, i>>},
                                  !.drop = IF Pending(u) \ {i} = {} THEN u ELSE Nil]
    /\ UNCHANGED <<setup, limitInfo, online, old, bucket, aliveList, aliveIPList, check,
                   pull, sync, panelIPs, histVars, changes, pulls, faults>>

\* ... and a map that was found empty leaves UserOnlineIP.
DropMap ==
    /\ rep.drop # Nil
    /\ RemoveMap(rep.drop)
    /\ rep' = [rep EXCEPT !.drop = Nil]
    /\ UNCHANGED <<setup, limitInfo, maps, old, bucket, aliveList, aliveIPList, check,
                   pull, sync, panelIPs, histVars, changes, pulls, faults>>

\* OldUserOnline becomes exactly the devices of this report.  Of two users
\* with the same address one is kept.
Committed(owner) ==
    /\ rep.at = "commit" /\ rep.left = {} /\ rep.drop = Nil
    /\ \A i \in IP : IF \E u \in User : <<u, i>> \in rep.dev
                     THEN <<owner[i], i>> \in rep.dev ELSE owner[i] = Nil
    /\ old' = [i \in IP |-> IF owner[i] = Nil THEN NoEntry
                            ELSE [user |-> owner[i], pulled |-> rep.pulled]]
    /\ rep' = NoRep
    /\ UNCHANGED <<setup, limitInfo, online, maps, bucket, aliveList, aliveIPList, check,
                   pull, sync, panelIPs, histVars, changes, pulls, faults>>

\* The entries grow older than reportedAliveBridgeTTL.
Expire ==
    /\ faults < setup.maxFaults /\ \E i \in IP : old[i] # NoEntry
    /\ faults' = faults + 1
    /\ old' = [i \in IP |-> NoEntry]
    /\ UNCHANGED <<setup, limitInfo, online, maps, bucket, aliveList, aliveIPList, check,
                   rep, pull, sync, panelIPs, histVars, changes, pulls>>

-----------------------------------------------------------------------------
(* The alive list.                                                         *)

\* GetUserAlive: the panel answers with the devices of all nodes ...
PullAlive ==
    /\ pull = NoPull /\ pulls < setup.maxPulls
    /\ pull' = [at |-> "apply", ips |-> panelIPs]
    /\ pulls' = pulls + 1
    /\ UNCHANGED <<stateVars, check, rep, sync, panelIPs, histVars, changes, faults>>

\* ... and SetAliveSnapshot takes the answer over, with the time of now.
SetAliveSnapshot ==
    /\ pull.at = "apply"
    /\ aliveList' = [u \in User |-> Cardinality(pull.ips[u])]
    /\ aliveIPList' = pull.ips
    /\ old' = [i \in IP |-> IF old[i] = NoEntry THEN NoEntry
                            ELSE [old[i] EXCEPT !.pulled = TRUE]]
    /\ rep' = [rep EXCEPT !.pulled = rep.at = "commit"]
    /\ pull' = NoPull
    /\ quiet' = FALSE
    /\ UNCHANGED <<setup, limitInfo, online, maps, bucket, check, sync, panelIPs,
                   reported, abroad, admitted, orphaned, overlapped, changes, pulls,
                   faults>>

\* Another node reports a device of the user.
OtherNode(u, i) ==
    /\ i \notin panelIPs[u] /\ pulls < setup.maxPulls
    /\ panelIPs' = [panelIPs EXCEPT ![u] = @ \cup {i}]
    /\ abroad' = [abroad EXCEPT ![u] = @ \cup {i}]
    /\ UNCHANGED <<stateVars, check, rep, pull, sync, reported, quiet, admitted,
                   orphaned, overlapped, changes, pulls, faults>>

\* A device goes offline for the panel.
PanelForget(u, i) ==
    /\ i \in panelIPs[u] /\ pulls < setup.maxPulls
    /\ panelIPs' = [panelIPs EXCEPT ![u] = @ \ {i}]
    /\ UNCHANGED <<stateVars, check, rep, pull, sync, histVars, changes, pulls,
                   faults>>

-----------------------------------------------------------------------------
(* The user sync.                                                          *)

Change == changes < setup.maxChanges /\ sync = Nil /\ changes' = changes + 1

Overlap(u) == overlapped' = IF Others(u, {}) = {} THEN overlapped
                            ELSE overlapped \cup {u}

\* UpdateUser with a deleted user.
DeleteUser(u) ==
    /\ Change /\ limitInfo[u] # Nil
    /\ limitInfo' = [limitInfo EXCEPT ![u] = Nil]
    /\ RemoveMap(u)
    /\ bucket' = [bucket EXCEPT ![u] = Nil]
    /\ aliveList' = [aliveList EXCEPT ![u] = 0]
    /\ admitted' = [admitted EXCEPT ![u] = {}]
    /\ Overlap(u)
    /\ UNCHANGED <<setup, maps, old, aliveIPList, check, rep, pull, sync, panelIPs,
                   reported, abroad, quiet, orphaned, pulls, faults>>

\* UpdateUser with an added user.
AddUser(u, s) ==
    /\ Change /\ limitInfo[u] = Nil
    /\ limitInfo' = [limitInfo EXCEPT ![u] = s]
    /\ UNCHANGED <<setup, online, maps, old, bucket, aliveList, aliveIPList, check, rep,
                   pull, sync, panelIPs, histVars, pulls, faults>>

\* UpdateUserInfo: the new speed first, then SpeedLimiter.Delete.
UpdateUserInfo(u, s) ==
    /\ Change /\ limitInfo[u] \notin {Nil, s}
    /\ limitInfo' = [limitInfo EXCEPT ![u] = s]
    /\ sync' = u
    /\ Overlap(u)
    /\ UNCHANGED <<setup, online, maps, old, bucket, aliveList, aliveIPList, check, rep,
                   pull, panelIPs, reported, abroad, quiet, admitted, orphaned, pulls,
                   faults>>

\* Faulty variant: the bucket of the old speed stays.
DeleteBucketNot ==
    /\ sync # Nil
    /\ sync' = Nil
    /\ UNCHANGED <<stateVars, check, rep, pull, panelIPs, histVars, changes, pulls,
                   faults>>

DeleteBucket ==
    /\ sync # Nil
    /\ bucket' = [bucket EXCEPT ![sync] = Nil]
    /\ sync' = Nil
    /\ UNCHANGED <<setup, limitInfo, online, maps, old, aliveList, aliveIPList, check,
                   rep, pull, panelIPs, histVars, changes, pulls, faults>>

-----------------------------------------------------------------------------

\* AddLimiter, with the alive list pulled by prepareStart.
Init ==
    /\ setup \in Setups
    /\ limitInfo \in [User -> setup.speeds \cup {Nil}]
    /\ \A u \in User \ setup.users : limitInfo[u] = Nil
    /\ online = [u \in User |-> Nil]
    /\ maps = [m \in Map |-> {}]
    /\ old = [i \in IP |-> NoEntry]
    /\ bucket = [u \in User |-> Nil]
    /\ panelIPs \in [User -> setup.alive \cup {{}}]
    /\ \A u \in User \ setup.users : panelIPs[u] = {}
    /\ aliveList = [u \in User |-> Cardinality(panelIPs[u])]
    /\ aliveIPList = panelIPs
    /\ check = [c \in Checker |-> Idle]
    /\ rep = NoRep /\ pull = NoPull /\ sync = Nil
    /\ abroad = panelIPs
    /\ reported = [u \in User |-> {}]
    /\ quiet = TRUE
    /\ admitted = [u \in User |-> {}] /\ orphaned = [u \in User |-> {}]
    /\ overlapped = {}
    /\ changes = 0 /\ pulls = 0 /\ faults = 0

CheckStep(c) ==
    \/ Count(c) \/ Admit(c) \/ Refuse(c) \/ Roam(c) \/ Undo(c) \/ Store(c)
    \/ TakeBucket(c)
    \/ \E m \in Map : GetMap(c, m)

ReportStep ==
    \/ \E S \in SUBSET User : Snapshot(S)
    \/ Sent \/ DropMap
    \/ \E u \in User, i \in IP : CommitDevice(u, i)
    \/ \E owner \in [IP -> User \cup {Nil}] : Committed(owner)

SyncStep ==
    \/ \E u \in setup.users : DeleteUser(u)
    \/ \E u \in setup.users, s \in setup.speeds : AddUser(u, s) \/ UpdateUserInfo(u, s)
    \/ DeleteBucket

Next ==
    \/ \E c \in setup.checkers, u \in setup.users, i \in setup.ips : Enter(c, u, i)
    \/ \E u \in User : RejectUnknown(u)
    \/ \E c \in Checker : CheckStep(c)
    \/ ReportStep \/ SendFails \/ Expire
    \/ PullAlive \/ SetAliveSnapshot
    \/ \E u \in setup.elsewhere, i \in setup.ips : OtherNode(u, i)
    \/ \E u \in User, i \in IP : PanelForget(u, i)
    \/ SyncStep

Spec == Init /\ [][Next]_vars

\* A connection that is being set up goes on, and the report task runs again
\* and again.
Fairness == WF_vars(ReportStep) /\ \A c \in Checker : WF_vars(CheckStep(c))

FairSpec == Spec /\ Fairness

-----------------------------------------------------------------------------
(* Properties.                                                             *)

\* Every variable has the shape the code gives it; the device map of a user
\* is never that of another.
TypeOK ==
    /\ limitInfo \in [User -> Speed \cup {Nil}]
    /\ online \in [User -> Map \cup {Nil}]
    /\ \A u, v \in User : u # v /\ online[u] # Nil => online[u] # online[v]
    /\ maps \in [Map -> SUBSET IP]
    /\ old \in [IP -> [user : User \cup {Nil}, pulled : BOOLEAN]]
    /\ bucket \in [User -> (Speed \ {0}) \cup {Nil}]
    /\ aliveList \in [User -> Nat] /\ aliveIPList \in [User -> SUBSET IP]
    /\ panelIPs \in [User -> SUBSET IP]

\* Devices a user may add before anything is reported or pulled.  A UDP user at
\* its limit may add one, for "UDP rebind roaming".
Room(u) == IF aliveList[u] < Limit THEN Limit - aliveList[u]
           ELSE IF Udp /\ aliveList[u] = Limit THEN 1 ELSE 0

\* Connections set up at the same time all see the room that is left and each
\* store their address (CheckLimit reads and stores apart): from the start of the
\* node to its first report or pull the new devices of a user, those the panel
\* does not list already, exceed the room by at most one for each connection but
\* one, and without room there is none.
PendingBounded ==
    quiet => \A u \in User :
        Cardinality(PendingNew(u)) <=
            IF Room(u) = 0 THEN 0 ELSE Room(u) + Cardinality(setup.checkers) - 1

\* An address passes without being counted only for a user for whom this node
\* reported it or, where the panel sends addresses, another node did: users that
\* share an address, lists that are pulled late and reports that overlap new
\* connections do not let the address of another user pass.
KnownWasReported ==
    \A u \in User, i \in IP :
        Known(u, i) => i \in reported[u] \/ (LooseMode /\ i \in abroad[u])

\* A device that was admitted is pending, and so counts, until it is reported,
\* replaced, or its user is deleted.  The code loses a device in one way only: it
\* was stored at a moment when its map was not in UserOnlineIP any more, when a
\* commit had found the map empty and not deleted it yet, or when the connection
\* that created the map could still be refused, and would delete it (orphaned).
\* Whoever is refused or commits otherwise loses none.
AdmittedCounts ==
    \A u \in User : admitted[u] \subseteq Pending(u) \cup orphaned[u]

\* The bucket that new connections share has the user's present speed, unless the
\* user was changed while one of its connections was being set up: CheckLimit
\* reads the speed at its start and stores the bucket at its end.
BucketHasSpeed ==
    \A u \in User \ overlapped : bucket[u] \in {Nil, limitInfo[u]} \/ sync = u

\* A pending device does not stay pending: it is reported, replaced or dropped,
\* also when reports fail and for a user deleted while it was connecting.  (With
\* the traffic filter the devices of an idle user may, and where reports is
\* FALSE the behaviour ends before the first report.)
EveryDeviceReported ==
    \A u \in User, i \in IP :
        []<>(i \notin Pending(u) \/ Filter \/ ~setup.reports)

=============================================================================
