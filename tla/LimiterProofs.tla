--------------------------- MODULE LimiterProofs ---------------------------
(***************************************************************************)
(* Proofs about Limiter, for any number of users, addresses, connections   *)
(* being set up at the same time, device limits and speeds.                *)
(***************************************************************************)
EXTENDS Limiter, FiniteSetTheorems, TLAPS

-----------------------------------------------------------------------------
(* The invariants.                                                         *)

\* The places of CheckLimit, and those at which it has the user's device map.
Place == {"idle", "count", "map", "decide", "store", "undo", "bucket"}
Mapped == {"decide", "store", "undo", "bucket"}

Checks == [at : Place, user : User \cup {Nil}, ip : IP \cup {Nil},
           speed : Speed \cup {Nil}, known : Nat, map : Map \cup {Nil},
           created : BOOLEAN]

Reports == [at : {"idle", "send", "commit"}, dev : SUBSET (User \X IP),
            left : SUBSET (User \X IP), pulled : BOOLEAN, drop : User \cup {Nil}]

\* What TypeOK leaves out: the locals and the history.
LocalsOK ==
    /\ setup \in Setups
    /\ check \in [Checker -> Checks] /\ rep \in Reports
    /\ pull \in [at : {"idle", "apply"}, ips : [User -> SUBSET IP]]
    /\ sync \in User \cup {Nil}
    /\ reported \in [User -> SUBSET IP] /\ abroad \in [User -> SUBSET IP]
    /\ admitted \in [User -> SUBSET IP]
    /\ orphaned \in [User -> SUBSET IP] /\ overlapped \subseteq User
    /\ quiet \in BOOLEAN

\* A connection has its user, its address and its speed from Enter on, a map from
\* GetMap on; and what it has is the map of its user or of nobody any more.
CheckOf(c) ==
    LET k == check[c] IN
    /\ k.at = "idle" <=> k.user = Nil
    /\ k.at # "idle" => k.ip \in IP /\ k.speed \in Speed /\ c \in setup.checkers
    /\ k.map # Nil <=> k.at \in Mapped
    /\ k.created => k.at \in Mapped
    /\ \A u \in User : k.map # Nil /\ online[u] = k.map => u = k.user

CheckInv == \A c \in Checker : CheckOf(c)

\* Whatever makes an address known to a user comes from a report of it, of this
\* node or, in the panel's list, of another.
KnownInv ==
    /\ \A i \in IP : old[i].user # Nil => i \in reported[old[i].user]
    /\ \A u \in User : /\ panelIPs[u] \subseteq reported[u] \cup abroad[u]
                       /\ pull.ips[u] \subseteq reported[u] \cup abroad[u]
                       /\ aliveIPList[u] \subseteq reported[u] \cup abroad[u]
    /\ rep.at = "commit" => \A d \in rep.dev : d[2] \in reported[d[1]]
    /\ rep.left \subseteq rep.dev
    /\ rep.drop # Nil => rep.at = "commit"

\* Somebody may still take the map of u out of UserOnlineIP: the report, which
\* found it empty, or the connection that created it.
Removable(u) ==
    \/ rep.drop = u
    \/ \E c \in Checker : /\ check[c].user = u /\ check[c].created
                          /\ check[c].at \in {"decide", "undo"}

\* While the map of u may still go, all that was admitted there is orphaned.
AdmitInv ==
    \A u \in User :
        /\ admitted[u] \subseteq Pending(u) \cup orphaned[u]
        /\ admitted[u] \cap reported[u] = {}
        /\ Removable(u) => admitted[u] \subseteq orphaned[u]

\* A connection of a user that was not changed meanwhile has the user's speed.
BucketInv ==
    /\ BucketHasSpeed
    /\ \A c \in Checker : check[c].user \in User \ overlapped =>
          check[c].speed = limitInfo[check[c].user]

\* The connections about to store an address that will be pending and is new.
Storing(u) == {c \in Checker : /\ check[c].at = "store" /\ check[c].user = u
                               /\ check[c].map = online[u] /\ ~Known(u, check[c].ip)}

\* Before the first report or pull no address is known to be reported, ...
Fresh == rep.at # "commit" /\ \A i \in IP : old[i] = NoEntry

\* ... a connection counted at least the devices the panel still counts, ...
Counted == \A c \in Checker : check[c].at \in Mapped \cup {"map"} =>
              check[c].known >= aliveList[check[c].user]

\* ... and the new devices that are pending or about to be exceed the room by at
\* most one for each connection but one.
RoomOf(u) ==
    Cardinality(PendingNew(u)) + Cardinality(Storing(u)) <=
        IF Room(u) = 0 THEN 0 ELSE Room(u) + Cardinality(setup.checkers) - 1

RoomInv == quiet => Fresh /\ Counted /\ \A u \in User : RoomOf(u)

-----------------------------------------------------------------------------
(* Types.                                                                  *)

\* Changing one field of the locals of a connection.
LEMMA CheckFields ==
    ASSUME NEW k \in Checks
    PROVE  /\ \A x \in Place : [k EXCEPT !.at = x] \in Checks
           /\ \A x \in User : [k EXCEPT !.user = x] \in Checks
           /\ \A x \in IP : [k EXCEPT !.ip = x] \in Checks
           /\ \A x \in Speed : [k EXCEPT !.speed = x] \in Checks
           /\ \A x \in Nat : [k EXCEPT !.known = x] \in Checks
           /\ \A x \in Map : [k EXCEPT !.map = x] \in Checks
           /\ \A x \in BOOLEAN : [k EXCEPT !.created = x] \in Checks
BY DEF Checks

\* Changing one field of the locals of the report.
LEMMA ReportFields ==
    ASSUME NEW k \in Reports
    PROVE  /\ \A x \in {"idle", "send", "commit"} : [k EXCEPT !.at = x] \in Reports
           /\ \A x \in SUBSET (User \X IP) : [k EXCEPT !.dev = x] \in Reports
           /\ \A x \in SUBSET (User \X IP) : [k EXCEPT !.left = x] \in Reports
           /\ \A x \in BOOLEAN : [k EXCEPT !.pulled = x] \in Reports
           /\ \A x \in User \cup {Nil} : [k EXCEPT !.drop = x] \in Reports
BY DEF Reports

\* The types of everything.
Types == TypeOK /\ LocalsOK

\* The addresses a user reported lately are finitely many.
LEMMA RecentType ==
    ASSUME NEW u PROVE RecentReported(u) \in Nat
<1>1. IsFiniteSet({i \in IP : old[i].user = u /\ ~old[i].pulled})
  BY LimiterAssumption, FS_Subset
<1> QED BY <1>1, FS_CardinalityType DEF RecentReported

\* A map that leaves UserOnlineIP.
LEMMA RemoveMapType ==
    ASSUME Types, NEW u \in User, RemoveMap(u)
    PROVE  /\ online' \in [User -> Map \cup {Nil}]
           /\ \A v, w \in User : v # w /\ online'[v] # Nil => online'[v] # online'[w]
           /\ online'[u] = Nil /\ \A v \in User \ {u} : online'[v] = online[v]
BY DEF RemoveMap, Types, TypeOK

\* They hold at the start.
LEMMA TypesInit == Init => Types
<1> SUFFICES ASSUME Init PROVE Types
  OBVIOUS
<1>1. setup \in Setups /\ setup.speeds \subseteq Speed /\ setup.alive \subseteq SUBSET IP
  BY LimiterAssumption DEF Init
<1>2. check \in [Checker -> Checks]
  BY DEF Init, Idle, Checks, Place
<1>3. rep \in Reports /\ pull \in [at : {"idle", "apply"}, ips : [User -> SUBSET IP]]
  BY DEF Init, NoRep, Reports, NoPull
<1>4. panelIPs \in [User -> SUBSET IP] /\ aliveIPList = panelIPs /\ abroad = panelIPs
  BY <1>1 DEF Init
<1>5. aliveList \in [User -> Nat]
  <2>1. \A u \in User : Cardinality(panelIPs[u]) \in Nat
    BY <1>4, LimiterAssumption, FS_Subset, FS_CardinalityType
  <2> QED BY <2>1 DEF Init
<1>6. TypeOK
  BY <1>1, <1>4, <1>5 DEF Init, TypeOK, NoEntry
<1> QED BY <1>1, <1>2, <1>3, <1>4, <1>6 DEF Init, Types, LocalsOK

\* Every step keeps the types.
LEMMA TypesNext == Types /\ CheckInv /\ KnownInv /\ [Next]_vars => Types'
<1> SUFFICES ASSUME TypeOK, LocalsOK, CheckInv, KnownInv, [Next]_vars
             PROVE  TypeOK' /\ LocalsOK'
  BY DEF Types
<1>setup. /\ setup \in Setups /\ setup.users \subseteq User /\ setup.ips \subseteq IP
          /\ setup.speeds \subseteq Speed /\ setup.checkers \subseteq Checker
          /\ setup.elsewhere \subseteq User
  BY LimiterAssumption DEF LocalsOK
<1>place. "idle" \in Place /\ "count" \in Place /\ "map" \in Place /\ "decide" \in Place
          /\ "store" \in Place /\ "undo" \in Place /\ "bucket" \in Place
  BY DEF Place
<1>idle. Idle \in Checks /\ NoRep \in Reports
  BY DEF Idle, Checks, Place, NoRep, Reports
<1>c. \A c \in Checker : check[c] \in Checks
  BY DEF LocalsOK
<1>user. \A c \in Checker : check[c].at # "idle" =>
            check[c].user \in User /\ check[c].ip \in IP /\ check[c].speed \in Speed
  <2> SUFFICES ASSUME NEW c \in Checker, check[c].at # "idle"
               PROVE  check[c].user \in User /\ check[c].ip \in IP /\ check[c].speed \in Speed
    OBVIOUS
  <2>1. CheckOf(c)
    BY DEF CheckInv
  <2> QED BY <1>c, <2>1 DEF CheckOf, Checks
<1>map. \A c \in Checker : check[c].at \in Mapped => check[c].map \in Map
  <2> SUFFICES ASSUME NEW c \in Checker, check[c].at \in Mapped
               PROVE  check[c].map \in Map
    OBVIOUS
  <2>1. CheckOf(c)
    BY DEF CheckInv
  <2> QED BY <1>c, <2>1 DEF CheckOf, Checks
<1>put. ASSUME NEW c \in Checker, NEW k \in Checks, check' = [check EXCEPT ![c] = k]
        PROVE  check' \in [Checker -> Checks]
  BY <1>put DEF LocalsOK
<1>goto. ASSUME NEW c \in Checker, NEW a \in Place, check' = [check EXCEPT ![c].at = a]
         PROVE  check' \in [Checker -> Checks]
  <2>1. [check[c] EXCEPT !.at = a] \in Checks
    BY <1>c, CheckFields
  <2> QED BY <1>goto, <2>1, <1>put
<1>same. ASSUME UNCHANGED <<stateVars, panelIPs>> PROVE TypeOK'
  BY <1>same DEF TypeOK, stateVars
<1>hist. ASSUME UNCHANGED <<setup, rep, pull, sync, histVars>>,
                check' \in [Checker -> Checks]
         PROVE  LocalsOK'
  BY <1>hist DEF LocalsOK, histVars
<1>enter. ASSUME NEW c \in setup.checkers, NEW u \in setup.users, NEW i \in setup.ips,
                 Enter(c, u, i)
          PROVE  TypeOK' /\ LocalsOK'
  <2>1. limitInfo[u] \in Speed /\ c \in Checker /\ u \in User /\ i \in IP
    BY <1>enter, <1>setup DEF Enter, TypeOK
  <2>2. [Idle EXCEPT !.at = "count", !.user = u, !.ip = i, !.speed = limitInfo[u]] \in Checks
    BY <1>place, <1>idle, <2>1, CheckFields, Zenon
  <2>3. check' \in [Checker -> Checks]
    BY <1>enter, <1>put, <2>1, <2>2 DEF Enter
  <2> QED BY <1>enter, <2>3, <1>same, <1>hist DEF Enter, stateVars
<1>count. ASSUME NEW c \in Checker, Count(c) PROVE TypeOK' /\ LocalsOK'
  <2> DEFINE n == aliveList[check[c].user] + RecentReported(check[c].user)
  <2>1. n \in Nat
    <3>1. check[c].user \in User
      BY <1>count, <1>user DEF Count
    <3> QED BY <3>1, RecentType DEF TypeOK
  <2>2. check' = [check EXCEPT ![c] = [check[c] EXCEPT !.at = "map", !.known = n]]
    BY <1>count DEF Count
  <2> HIDE DEF n
  <2>3. [check[c] EXCEPT !.at = "map", !.known = n] \in Checks
    BY <1>c, <1>place, <2>1, CheckFields, Zenon
  <2>4. check' \in [Checker -> Checks]
    BY <1>put, <2>2, <2>3
  <2> QED BY <1>count, <2>4, <1>same, <1>hist DEF Count, stateVars
<1>admit. ASSUME NEW c \in Checker, Admit(c) \/ Refuse(c) PROVE TypeOK' /\ LocalsOK'
  <2>1. \/ check' = [check EXCEPT ![c].at = "bucket"]
        \/ check' = [check EXCEPT ![c].at = "store"]
        \/ check' = [check EXCEPT ![c].at = "undo"]
    BY <1>admit DEF Admit, Refuse, Reject
  <2>2. check' \in [Checker -> Checks]
    BY <2>1, <1>place, <1>goto
  <2> QED BY <1>admit, <2>2, <1>same, <1>hist DEF Admit, Refuse, stateVars
<1>getmap. ASSUME NEW c \in Checker, NEW m \in Map, GetMap(c, m) PROVE TypeOK' /\ LocalsOK'
  <2> DEFINE u == check[c].user
  <2>0. u \in User
    BY <1>getmap, <1>user DEF GetMap
  <2>1. CASE online[u] = m /\ UNCHANGED <<online, maps>>
             /\ check' = [check EXCEPT ![c].at = "decide", ![c].map = m]
    <3>1. [check[c] EXCEPT !.at = "decide", !.map = m] \in Checks
      BY <1>c, <1>place, CheckFields, Zenon
    <3>2. check' = [check EXCEPT ![c] = [check[c] EXCEPT !.at = "decide", !.map = m]]
      BY <2>1
    <3>3. check' \in [Checker -> Checks]
      BY <3>1, <3>2, <1>put
    <3> QED BY <1>getmap, <2>1, <3>3, <1>same, <1>hist DEF GetMap, stateVars
  <2>2. CASE online[u] = Nil /\ Unused # {}
    <3>1. m = (CHOOSE n \in Unused : TRUE) /\ online' = [online EXCEPT ![u] = m]
          /\ maps' = [maps EXCEPT ![m] = {}]
          /\ check' = [check EXCEPT ![c] = [check[c] EXCEPT !.at = "decide", !.map = m,
                                                           !.created = TRUE]]
      BY <1>getmap, <2>2, LimiterAssumption DEF GetMap
    <3>2. m \in Unused
      BY <2>2, <3>1
    <3>3. \A v \in User : online[v] # m
      BY <3>2 DEF Unused
    <3>4. [check[c] EXCEPT !.at = "decide", !.map = m, !.created = TRUE] \in Checks
      BY <1>c, <1>place, CheckFields, Zenon
    <3>5. check' \in [Checker -> Checks]
      BY <3>1, <3>4, <1>put
    <3>6. LocalsOK'
      BY <1>getmap, <3>5, <1>hist DEF GetMap
    <3>7. /\ online' \in [User -> Map \cup {Nil}] /\ maps' \in [Map -> SUBSET IP]
          /\ \A v, w \in User : v # w /\ online'[v] # Nil => online'[v] # online'[w]
      BY <2>0, <3>1, <3>3 DEF TypeOK
    <3> QED BY <1>getmap, <3>6, <3>7 DEF GetMap, TypeOK
  <2> QED BY <1>getmap, <2>1, <2>2 DEF GetMap
<1>roam. ASSUME NEW c \in Checker, Roam(c) PROVE TypeOK' /\ LocalsOK'
  <2>0. check[c].user \in User /\ check[c].map \in Map
    BY <1>roam, <1>user, <1>map DEF Roam, Mapped
  <2>1. \/ check' = [check EXCEPT ![c] = [check[c] EXCEPT !.at = "store"]]
        \/ check' = [check EXCEPT ![c] = [check[c] EXCEPT !.at = "undo"]]
    BY <1>roam DEF Roam, Reject
  <2>2. check' \in [Checker -> Checks]
    BY <2>1, <1>place, <1>c, <1>put, CheckFields
  <2>3. maps' \in [Map -> SUBSET IP] /\ admitted' \in [User -> SUBSET IP]
    <3>1. \/ UNCHANGED <<maps, admitted>>
          \/ \E i : /\ maps' = [maps EXCEPT ![check[c].map] = @ \ {i}]
                    /\ admitted' = [admitted EXCEPT ![check[c].user] = @ \ {i}]
      BY <1>roam DEF Roam
    <3>2. ASSUME NEW i, maps' = [maps EXCEPT ![check[c].map] = @ \ {i}],
                 admitted' = [admitted EXCEPT ![check[c].user] = @ \ {i}]
          PROVE  maps' \in [Map -> SUBSET IP] /\ admitted' \in [User -> SUBSET IP]
      BY <2>0, <3>2 DEF TypeOK, LocalsOK
    <3> QED BY <3>1, <3>2 DEF TypeOK, LocalsOK
  <2>4. TypeOK'
    BY <1>roam, <2>3 DEF Roam, TypeOK
  <2> QED BY <1>roam, <2>2, <2>3, <2>4 DEF Roam, LocalsOK
<1>undo. ASSUME NEW c \in Checker, Undo(c) PROVE TypeOK' /\ LocalsOK'
  <2>1. check' \in [Checker -> Checks]
    BY <1>undo, <1>idle, <1>put DEF Undo
  <2>2. /\ online' \in [User -> Map \cup {Nil}]
        /\ \A v, w \in User : v # w /\ online'[v] # Nil => online'[v] # online'[w]
    <3>1. CASE check[c].created
      <4>1. check[c].user \in User
        BY <1>undo, <1>user DEF Undo
      <4> QED BY <1>undo, <3>1, <4>1, RemoveMapType DEF Undo, Types
    <3>2. CASE ~check[c].created
      BY <1>undo, <3>2 DEF Undo, TypeOK
    <3> QED BY <3>1, <3>2
  <2>3. TypeOK'
    BY <1>undo, <2>2 DEF Undo, TypeOK
  <2> QED BY <1>undo, <2>1, <2>3, <1>hist DEF Undo
<1>store. ASSUME NEW c \in Checker, Store(c) PROVE TypeOK' /\ LocalsOK'
  <2>0. check[c].user \in User /\ check[c].map \in Map /\ check[c].ip \in IP
    BY <1>store, <1>user, <1>map DEF Store, Mapped
  <2>1. check' \in [Checker -> Checks]
    BY <1>store, <1>place, <1>goto DEF Store
  <2>2. /\ maps' \in [Map -> SUBSET IP] /\ admitted' \in [User -> SUBSET IP]
        /\ orphaned' \in [User -> SUBSET IP]
    BY <1>store, <2>0 DEF Store, TypeOK, LocalsOK
  <2>3. TypeOK'
    BY <1>store, <2>2 DEF Store, TypeOK
  <2> QED BY <1>store, <2>1, <2>2, <2>3 DEF Store, LocalsOK
<1>bucket. ASSUME NEW c \in Checker, TakeBucket(c) PROVE TypeOK' /\ LocalsOK'
  <2>0. check[c].user \in User /\ check[c].speed \in Speed /\ Speed \subseteq Nat
    BY <1>bucket, <1>user, LimiterAssumption DEF TakeBucket
  <2>1. check' \in [Checker -> Checks]
    BY <1>bucket, <1>idle, <1>put DEF TakeBucket
  <2>2. bucket' \in [User -> (Speed \ {0}) \cup {Nil}]
    BY <1>bucket, <2>0 DEF TakeBucket, TypeOK
  <2>3. TypeOK'
    BY <1>bucket, <2>2 DEF TakeBucket, TypeOK
  <2> QED BY <1>bucket, <2>1, <2>3, <1>hist DEF TakeBucket
<1>snapshot. ASSUME NEW S \in SUBSET User, Snapshot(S) PROVE TypeOK' /\ LocalsOK'
  <2> DEFINE dev == {d \in S \X IP : d[2] \in Pending(d[1])}
  <2>1. dev \in SUBSET (User \X IP)
    OBVIOUS
  <2>2. rep' = [NoRep EXCEPT !.at = "send", !.dev = dev, !.left = dev]
    BY <1>snapshot DEF Snapshot
  <2> HIDE DEF dev
  <2>3. rep' \in Reports
    BY <1>idle, <2>1, <2>2, ReportFields, Zenon
  <2> QED BY <1>snapshot, <2>3, <1>same DEF Snapshot, LocalsOK, histVars, stateVars
<1>sent. ASSUME Sent PROVE TypeOK' /\ LocalsOK'
  <2>1. rep' \in Reports
    BY <1>sent, ReportFields DEF Sent, LocalsOK
  <2>2. \A u \in User : {d[2] : d \in {e \in rep.dev : e[1] = u}} \subseteq IP
    BY DEF LocalsOK, Reports
  <2>3. panelIPs' \in [User -> SUBSET IP]
    BY <1>sent, <2>2 DEF Sent, TypeOK
  <2>4. TypeOK'
    BY <1>sent, <2>3 DEF Sent, TypeOK, stateVars
  <2>5. /\ reported' \in [User -> SUBSET IP] /\ admitted' \in [User -> SUBSET IP]
        /\ orphaned' \in [User -> SUBSET IP]
    BY <1>sent, <2>2 DEF Sent, LocalsOK
  <2> QED BY <1>sent, <2>1, <2>4, <2>5 DEF Sent, LocalsOK, stateVars
<1>fails. ASSUME SendFails PROVE TypeOK' /\ LocalsOK'
  BY <1>fails, <1>idle, <1>same DEF SendFails, LocalsOK, histVars, stateVars
<1>device. ASSUME NEW u \in User, NEW i \in IP, CommitDevice(u, i) PROVE TypeOK' /\ LocalsOK'
  <2>1. rep.left \ {<<u, i>>} \in SUBSET (User \X IP) /\ rep \in Reports
    BY DEF LocalsOK, Reports
  <2>2. \/ rep' = [rep EXCEPT !.left = rep.left \ {<<u, i>>}]
        \/ rep' = [rep EXCEPT !.left = rep.left \ {<<u, i>>}, !.drop = u]
        \/ rep' = [rep EXCEPT !.left = rep.left \ {<<u, i>>}, !.drop = Nil]
    BY <1>device DEF CommitDevice
  <2>3. rep' \in Reports
    <3>1. u \in User \cup {Nil} /\ Nil \in User \cup {Nil}
      OBVIOUS
    <3>2. [rep EXCEPT !.left = rep.left \ {<<u, i>>}] \in Reports
      BY <2>1, ReportFields, Zenon
    <3>3. \A x \in User \cup {Nil} :
             [rep EXCEPT !.left = rep.left \ {<<u, i>>}, !.drop = x] \in Reports
      BY <2>1, ReportFields, Zenon
    <3> QED BY <2>2, <3>1, <3>2, <3>3, Zenon
  <2>4. maps' \in [Map -> SUBSET IP]
    BY <1>device DEF CommitDevice, TypeOK
  <2> QED BY <1>device, <2>3, <2>4 DEF CommitDevice, TypeOK, LocalsOK, histVars
<1>drop. ASSUME DropMap PROVE TypeOK' /\ LocalsOK'
  <2>0. rep.drop \in User
    BY <1>drop DEF DropMap, LocalsOK, Reports
  <2>1. /\ online' \in [User -> Map \cup {Nil}]
        /\ \A v, w \in User : v # w /\ online'[v] # Nil => online'[v] # online'[w]
    BY <1>drop, <2>0, RemoveMapType DEF DropMap, Types
  <2>2. rep' \in Reports
    BY <1>drop, ReportFields DEF DropMap, LocalsOK
  <2>3. TypeOK'
    BY <1>drop, <2>1 DEF DropMap, TypeOK
  <2> QED BY <1>drop, <2>2, <2>3 DEF DropMap, LocalsOK, histVars
<1>committed. ASSUME NEW owner \in [IP -> User \cup {Nil}], Committed(owner)
              PROVE  TypeOK' /\ LocalsOK'
  <2>1. old' \in [IP -> [user : User \cup {Nil}, pulled : BOOLEAN]]
    BY <1>committed DEF Committed, NoEntry, LocalsOK, Reports
  <2> QED BY <1>committed, <1>idle, <2>1 DEF Committed, TypeOK, LocalsOK, histVars
<1>expire. ASSUME Expire PROVE TypeOK' /\ LocalsOK'
  <2>1. old' \in [IP -> [user : User \cup {Nil}, pulled : BOOLEAN]]
    BY <1>expire DEF Expire, NoEntry
  <2> QED BY <1>expire, <2>1 DEF Expire, TypeOK, LocalsOK, histVars
<1>pull. ASSUME PullAlive PROVE TypeOK' /\ LocalsOK'
  BY <1>pull, <1>same DEF PullAlive, TypeOK, LocalsOK, histVars, stateVars
<1>set. ASSUME SetAliveSnapshot PROVE TypeOK' /\ LocalsOK'
  <2>1. old' \in [IP -> [user : User \cup {Nil}, pulled : BOOLEAN]]
    <3>1. \A i \in IP : old[i] \in [user : User \cup {Nil}, pulled : BOOLEAN]
                        /\ NoEntry \in [user : User \cup {Nil}, pulled : BOOLEAN]
                        /\ [old[i] EXCEPT !.pulled = TRUE]
                              \in [user : User \cup {Nil}, pulled : BOOLEAN]
      BY DEF TypeOK, NoEntry
    <3> QED BY <1>set, <3>1 DEF SetAliveSnapshot
  <2>2. pull.ips \in [User -> SUBSET IP]
    BY DEF LocalsOK
  <2>3. aliveList' \in [User -> Nat] /\ aliveIPList' \in [User -> SUBSET IP]
    <3>1. \A u \in User : Cardinality(pull.ips[u]) \in Nat
      BY <2>2, LimiterAssumption, FS_Subset, FS_CardinalityType
    <3> QED BY <1>set, <2>2, <3>1 DEF SetAliveSnapshot
  <2>4. (rep.at = "commit") \in BOOLEAN /\ rep \in Reports
    BY DEF LocalsOK
  <2>5. rep' \in Reports
    BY <1>set, <2>4, ReportFields DEF SetAliveSnapshot
  <2>6. pull' \in [at : {"idle", "apply"}, ips : [User -> SUBSET IP]]
    BY <1>set DEF SetAliveSnapshot, NoPull
  <2>7. TypeOK'
    BY <1>set, <2>1, <2>3 DEF SetAliveSnapshot, TypeOK
  <2> QED BY <1>set, <2>5, <2>6, <2>7 DEF SetAliveSnapshot, LocalsOK
<1>forget. ASSUME NEW u \in User, NEW i \in IP, PanelForget(u, i) PROVE TypeOK' /\ LocalsOK'
  BY <1>forget DEF PanelForget, TypeOK, LocalsOK, histVars, stateVars
<1>othernode. ASSUME NEW u \in setup.elsewhere, NEW i \in setup.ips, OtherNode(u, i)
              PROVE  TypeOK' /\ LocalsOK'
  <2>1. u \in User /\ i \in IP
    BY <1>setup
  <2>2. panelIPs' \in [User -> SUBSET IP] /\ abroad' \in [User -> SUBSET IP]
    BY <1>othernode, <2>1 DEF OtherNode, TypeOK, LocalsOK
  <2> QED BY <1>othernode, <2>2 DEF OtherNode, TypeOK, LocalsOK, stateVars
<1>delete. ASSUME NEW u \in setup.users, DeleteUser(u) PROVE TypeOK' /\ LocalsOK'
  <2>0. u \in User
    BY <1>setup
  <2>1. /\ online' \in [User -> Map \cup {Nil}]
        /\ \A v, w \in User : v # w /\ online'[v] # Nil => online'[v] # online'[w]
    BY <1>delete, <2>0, RemoveMapType DEF DeleteUser, Types
  <2>2. /\ limitInfo' \in [User -> Speed \cup {Nil}]
        /\ bucket' \in [User -> (Speed \ {0}) \cup {Nil}] /\ aliveList' \in [User -> Nat]
    BY <1>delete, <2>0 DEF DeleteUser, TypeOK
  <2>3. TypeOK'
    BY <1>delete, <2>1, <2>2 DEF DeleteUser, TypeOK
  <2>4. admitted' \in [User -> SUBSET IP] /\ overlapped' \subseteq User
    BY <1>delete, <2>0 DEF DeleteUser, Overlap, LocalsOK
  <2> QED BY <1>delete, <2>1, <2>3, <2>4 DEF DeleteUser, LocalsOK
<1>change. ASSUME NEW u \in setup.users, NEW s \in setup.speeds,
                  AddUser(u, s) \/ UpdateUserInfo(u, s)
           PROVE  TypeOK' /\ LocalsOK'
  <2>1. u \in User /\ s \in Speed
    BY <1>setup
  <2>2. limitInfo' \in [User -> Speed \cup {Nil}]
    BY <1>change, <2>1 DEF AddUser, UpdateUserInfo, TypeOK
  <2>3. TypeOK'
    BY <1>change, <2>2 DEF AddUser, UpdateUserInfo, TypeOK
  <2> QED BY <1>change, <2>1, <2>3 DEF AddUser, UpdateUserInfo, Overlap, LocalsOK,
                                       histVars
<1>dropbucket. ASSUME DeleteBucket PROVE TypeOK' /\ LocalsOK'
  <2>1. bucket' \in [User -> (Speed \ {0}) \cup {Nil}]
    BY <1>dropbucket DEF DeleteBucket, TypeOK
  <2> QED BY <1>dropbucket, <2>1 DEF DeleteBucket, TypeOK, LocalsOK, histVars
<1>stay. ASSUME UNCHANGED vars PROVE TypeOK' /\ LocalsOK'
  BY <1>stay, <1>same DEF vars, LocalsOK, histVars, stateVars
<1>check. ASSUME NEW c \in Checker, CheckStep(c) PROVE TypeOK' /\ LocalsOK'
  BY <1>check, <1>count, <1>admit, <1>getmap, <1>roam, <1>undo, <1>store, <1>bucket
     DEF CheckStep
<1>report. ASSUME ReportStep PROVE TypeOK' /\ LocalsOK'
  BY <1>report, <1>snapshot, <1>sent, <1>drop, <1>device, <1>committed
     DEF ReportStep
<1>sync. ASSUME SyncStep PROVE TypeOK' /\ LocalsOK'
  BY <1>sync, <1>delete, <1>change, <1>dropbucket DEF SyncStep
<1> QED BY <1>enter, <1>check, <1>report, <1>fails, <1>expire, <1>pull, <1>set,
   <1>forget, <1>othernode, <1>sync, <1>stay DEF Next, RejectUnknown

-----------------------------------------------------------------------------
(* What the steps of a connection do to its locals.                        *)

\* How a step changes the locals of a connection: the others keep theirs; it moves
\* to another place; it ends.
OthersSame(c) == \A d \in Checker \ {c} : check'[d] = check[d]

\* It keeps what it has but for the place it is at.
Moves(c, a) == /\ check'[c].at = a /\ OthersSame(c)
               /\ check'[c].user = check[c].user /\ check'[c].ip = check[c].ip
               /\ check'[c].speed = check[c].speed /\ check'[c].known = check[c].known
               /\ check'[c].map = check[c].map /\ check'[c].created = check[c].created

Ends(c) == check'[c] = Idle /\ OthersSame(c)

\* What Enter changes of a connection.
LEMMA EnterFields ==
    ASSUME Types, NEW c \in Checker, NEW u, NEW i, Enter(c, u, i)
    PROVE  /\ check[c] = Idle /\ OthersSame(c)
           /\ check'[c].at = "count" /\ check'[c].user = u /\ check'[c].ip = i
           /\ check'[c].speed = limitInfo[u] /\ check'[c].map = Nil
           /\ ~check'[c].created
BY DEF Enter, Idle, OthersSame, Types, LocalsOK

\* What Count changes.
LEMMA CountFields ==
    ASSUME Types, NEW c \in Checker, Count(c)
    PROVE  /\ check'[c].at = "map" /\ OthersSame(c)
           /\ check'[c].user = check[c].user /\ check'[c].ip = check[c].ip
           /\ check'[c].speed = check[c].speed /\ check'[c].map = check[c].map
           /\ check'[c].created = check[c].created
           /\ check'[c].known = aliveList[check[c].user] + RecentReported(check[c].user)
BY DEF Count, OthersSame, Types, LocalsOK, Checks

\* A connection that moves changes nothing else of its locals.
LEMMA MoveFields ==
    ASSUME Types, NEW c \in Checker, NEW a, check' = [check EXCEPT ![c].at = a]
    PROVE  Moves(c, a)
BY DEF Moves, OthersSame, Types, LocalsOK, Checks

\* The three outcomes of the room check only move.
LEMMA DecideMoves ==
    ASSUME Types, NEW c \in Checker, Admit(c) \/ Refuse(c) \/ Roam(c)
    PROVE  Moves(c, "bucket") \/ Moves(c, "store") \/ Moves(c, "undo")
<1>1. \/ check' = [check EXCEPT ![c].at = "bucket"]
      \/ check' = [check EXCEPT ![c].at = "store"]
      \/ check' = [check EXCEPT ![c].at = "undo"]
  BY DEF Admit, Refuse, Roam, Reject
<1> QED BY <1>1, MoveFields

\* GetMap finds the user's map or creates one nobody has.
LEMMA GetMapFields ==
    ASSUME Types, NEW c \in Checker, NEW m \in Map, GetMap(c, m)
    PROVE  /\ check'[c].at = "decide" /\ check'[c].map = m /\ OthersSame(c)
           /\ check'[c].user = check[c].user /\ check'[c].ip = check[c].ip
           /\ check'[c].speed = check[c].speed /\ check'[c].known = check[c].known
           /\ \/ /\ online[check[c].user] = m /\ UNCHANGED <<online, maps>>
                 /\ check'[c].created = check[c].created
              \/ /\ online[check[c].user] = Nil /\ m \in Unused /\ check'[c].created
                 /\ online' = [online EXCEPT ![check[c].user] = m]
                 /\ maps' = [maps EXCEPT ![m] = {}]
<1>1. CASE /\ online[check[c].user] = m /\ UNCHANGED <<online, maps>>
           /\ check' = [check EXCEPT ![c].at = "decide", ![c].map = m]
  BY <1>1 DEF OthersSame, Types, LocalsOK, Checks
<1>2. CASE /\ online[check[c].user] = Nil /\ Unused # {} /\ m = CHOOSE n \in Unused : TRUE
           /\ online' = [online EXCEPT ![check[c].user] = m]
           /\ maps' = [maps EXCEPT ![m] = {}]
           /\ check' = [check EXCEPT ![c].at = "decide", ![c].map = m,
                                     ![c].created = TRUE]
  <2>1. m \in Unused
    BY <1>2
  <2> QED BY <1>2, <2>1 DEF OthersSame, Types, LocalsOK, Checks
<1> QED BY <1>1, <1>2 DEF GetMap

\* The two ways a connection ends.
LEMMA EndFields ==
    ASSUME Types, NEW c \in Checker, Undo(c) \/ TakeBucket(c)
    PROVE  Ends(c)
BY DEF Undo, TakeBucket, Ends, OthersSame, Types, LocalsOK

\* Store only moves.
LEMMA StoreMoves ==
    ASSUME Types, NEW c \in Checker, Store(c)
    PROVE  Moves(c, "bucket")
BY MoveFields DEF Store

\* What CheckInv says of one connection, with the types.
LEMMA CheckFacts ==
    ASSUME Types, CheckInv, NEW c \in Checker
    PROVE  /\ check[c].at \in Place
           /\ check[c].at # "idle" =>
                 /\ check[c].user \in User /\ check[c].ip \in IP /\ check[c].speed \in Speed
                 /\ c \in setup.checkers
           /\ check[c].at = "idle" => check[c].user = Nil
           /\ check[c].at \in Mapped => check[c].map \in Map
           /\ check[c].map # Nil => check[c].at \in Mapped
           /\ check[c].created => check[c].at \in Mapped
           /\ \A u \in User : check[c].map # Nil /\ online[u] = check[c].map
                 => u = check[c].user
<1>1. CheckOf(c)
  BY DEF CheckInv
<1>2. check[c] \in Checks
  BY DEF Types, LocalsOK
<1> QED BY <1>1, <1>2 DEF CheckOf, Checks

-----------------------------------------------------------------------------
(* The connections and their maps.                                         *)

\* No connection is being set up at the start, ...
LEMMA CheckInit == Init => CheckInv
BY LimiterAssumption DEF Init, CheckInv, CheckOf, Idle, Mapped

\* Every step keeps CheckInv.
LEMMA CheckNext == Types /\ CheckInv /\ [Next]_vars => CheckInv'
<1> SUFFICES ASSUME Types, CheckInv, [Next]_vars PROVE CheckInv'
  OBVIOUS
<1>nil. Nil \notin User /\ Nil \notin Map
  BY LimiterAssumption
<1>setup. setup' = setup
  BY DEF Next, CheckStep, ReportStep, SyncStep, Enter, RejectUnknown, Count, Admit,
         Refuse,
         Roam, Undo, Store, TakeBucket, GetMap, Snapshot, Sent, DropMap, CommitDevice,
         Committed, SendFails, Expire, PullAlive, SetAliveSnapshot, PanelForget, OtherNode, DeleteUser,
         AddUser, UpdateUserInfo, DeleteBucket, vars, stateVars
<1>removed. ASSUME UNCHANGED check,
                   \A u \in User : online'[u] = online[u] \/ online'[u] = Nil
            PROVE  CheckInv'
  BY <1>removed, <1>setup DEF CheckInv, CheckOf
<1>same. ASSUME UNCHANGED <<check, online>> PROVE CheckInv'
  BY <1>same, <1>removed
<1>step. ASSUME NEW c \in Checker, OthersSame(c), CheckOf(c)',
                \A u \in User : online'[u] = online[u] \/ online'[u] = Nil
         PROVE  CheckInv'
  <2> SUFFICES ASSUME NEW d \in Checker \ {c} PROVE CheckOf(d)'
    BY <1>step DEF CheckInv
  <2>1. CheckOf(d) /\ check'[d] = check[d]
    BY <1>step DEF CheckInv, OthersSame
  <2> QED BY <1>step, <1>setup, <2>1 DEF CheckOf
<1>enter. ASSUME NEW c \in setup.checkers, NEW u \in setup.users, NEW i \in setup.ips,
                 Enter(c, u, i)
          PROVE  CheckInv'
  <2>1. c \in Checker /\ u \in User /\ i \in IP /\ limitInfo[u] \in Speed
    BY <1>enter, LimiterAssumption DEF Enter, Types, LocalsOK, TypeOK
  <2>2. CheckOf(c)' /\ OthersSame(c)
    BY <1>enter, <2>1, <1>nil, <1>setup, EnterFields DEF CheckOf, Mapped
  <2> QED BY <1>enter, <2>1, <2>2, <1>step DEF Enter, stateVars
<1>count. ASSUME NEW c \in Checker, Count(c) PROVE CheckInv'
  <2>1. CheckOf(c)
    BY DEF CheckInv
  <2>2. CheckOf(c)' /\ OthersSame(c)
    BY <1>count, <2>1, <1>setup, CountFields DEF CheckOf, Count, Mapped, stateVars
  <2> QED BY <1>count, <2>2, <1>step DEF Count, stateVars
<1>move. ASSUME NEW c \in Checker, NEW a \in Mapped, check[c].at \in Mapped, Moves(c, a),
                \A u \in User : online'[u] = online[u] \/ online'[u] = Nil
         PROVE  CheckInv'
  <2>1. CheckOf(c)
    BY DEF CheckInv
  <2>2. CheckOf(c)'
    BY <1>move, <2>1, <1>setup DEF CheckOf, Moves, Mapped
  <2> QED BY <1>move, <2>2, <1>step DEF Moves
<1>decide. ASSUME NEW c \in Checker, Admit(c) \/ Refuse(c) \/ Roam(c) \/ Store(c)
           PROVE  CheckInv'
  <2>1. check[c].at \in Mapped /\ UNCHANGED online
    BY <1>decide DEF Admit, Refuse, Roam, Store, Mapped, stateVars
  <2>2. Moves(c, "bucket") \/ Moves(c, "store") \/ Moves(c, "undo")
    BY <1>decide, DecideMoves, StoreMoves
  <2>3. "bucket" \in Mapped /\ "store" \in Mapped /\ "undo" \in Mapped
    BY DEF Mapped
  <2> QED BY <2>1, <2>2, <2>3, <1>move
<1>ends. ASSUME NEW c \in Checker, Ends(c),
                \A u \in User : online'[u] = online[u] \/ online'[u] = Nil
         PROVE  CheckInv'
  <2>1. CheckOf(c)'
    BY <1>ends DEF Ends, Idle, CheckOf, Mapped
  <2> QED BY <1>ends, <2>1, <1>step DEF Ends
<1>remove. ASSUME NEW u, RemoveMap(u)
           PROVE  \A v \in User : online'[v] = online[v] \/ online'[v] = Nil
  BY <1>remove DEF RemoveMap, Types, TypeOK
<1>undo. ASSUME NEW c \in Checker, Undo(c) \/ TakeBucket(c) PROVE CheckInv'
  <2>1. \A v \in User : online'[v] = online[v] \/ online'[v] = Nil
    BY <1>undo, <1>remove DEF Undo, TakeBucket
  <2> QED BY <1>undo, <2>1, <1>ends, EndFields
<1>getmap. ASSUME NEW c \in Checker, NEW m \in Map, GetMap(c, m) PROVE CheckInv'
  <2> DEFINE u == check[c].user
  <2>0. u \in User /\ check[c].ip \in IP /\ check[c].speed \in Speed /\ c \in setup.checkers
        /\ check[c].at = "map"
    BY <1>getmap, CheckFacts DEF GetMap
  <2>1. CASE online[u] = m /\ UNCHANGED online
    <3>1. \A v \in User : online[v] = m => v = u
      BY <2>0, <2>1, <1>nil DEF Types, TypeOK
    <3>2. CheckOf(c)' /\ OthersSame(c)
      BY <1>getmap, <2>0, <2>1, <3>1, <1>nil, <1>setup, GetMapFields
         DEF CheckOf, Mapped
    <3> QED BY <2>1, <3>2, <1>step
  <2>2. CASE online[u] = Nil /\ m \in Unused /\ online' = [online EXCEPT ![u] = m]
    <3>1. /\ \A v \in User : online[v] # m
          /\ \A d \in Checker : check[d].map # m
      BY <2>2 DEF Unused
    <3>2. online'[u] = m /\ \A v \in User \ {u} : online'[v] = online[v]
      BY <2>0, <2>2 DEF Types, TypeOK
    <3>3. CheckOf(c)' /\ OthersSame(c)
      BY <1>getmap, <2>0, <3>1, <3>2, <1>nil, <1>setup, GetMapFields
         DEF CheckOf, Mapped
    <3>4. ASSUME NEW d \in Checker \ {c} PROVE CheckOf(d)'
      <4>1. CheckOf(d) /\ check'[d] = check[d]
        BY <3>3 DEF CheckInv, OthersSame
      <4> QED BY <3>1, <3>2, <4>1, <1>setup DEF CheckOf
    <3> QED BY <3>3, <3>4 DEF CheckInv
  <2> QED BY <1>getmap, <2>1, <2>2, GetMapFields
<1>check. ASSUME NEW c \in Checker, CheckStep(c) PROVE CheckInv'
  BY <1>check, <1>count, <1>decide, <1>undo, <1>getmap DEF CheckStep
<1>drop. ASSUME DropMap PROVE CheckInv'
  BY <1>drop, <1>removed, <1>remove DEF DropMap
<1>delete. ASSUME NEW u, DeleteUser(u) PROVE CheckInv'
  BY <1>delete, <1>removed, <1>remove DEF DeleteUser
<1>report. ASSUME ReportStep, ~DropMap PROVE CheckInv'
  BY <1>report, <1>same DEF ReportStep, Snapshot, Sent, CommitDevice, Committed,
                            stateVars
<1>sync. ASSUME NEW u, NEW s, AddUser(u, s) \/ UpdateUserInfo(u, s) \/ DeleteBucket
         PROVE  CheckInv'
  BY <1>sync, <1>same DEF AddUser, UpdateUserInfo, DeleteBucket
<1>other. ASSUME \/ SendFails \/ Expire \/ PullAlive \/ SetAliveSnapshot \/ UNCHANGED vars
                 \/ \E u, i : PanelForget(u, i) \/ OtherNode(u, i)
          PROVE  CheckInv'
  BY <1>other, <1>same DEF SendFails, Expire, PullAlive, SetAliveSnapshot,
                           PanelForget, OtherNode, vars,
                           stateVars
<1> QED BY <1>enter, <1>check, <1>drop, <1>report, <1>delete, <1>sync, <1>other
        DEF Next, SyncStep, RejectUnknown

-----------------------------------------------------------------------------
(* Known addresses.                                                        *)

\* ... what is known comes from the panel, ...
LEMMA KnownInit == Init => KnownInv
BY DEF Init, KnownInv, NoEntry, NoPull, NoRep

\* Every step keeps KnownInv: an address becomes known only by a report.
LEMMA KnownNext == Types /\ KnownInv /\ [Next]_vars => KnownInv'
<1> SUFFICES ASSUME Types, KnownInv, [Next]_vars PROVE KnownInv'
  OBVIOUS
<1>same. ASSUME UNCHANGED <<old, reported, abroad, panelIPs, pull, aliveIPList, rep>>
         PROVE  KnownInv'
  BY <1>same DEF KnownInv
<1>check. ASSUME NEW c \in Checker, CheckStep(c) PROVE KnownInv'
  BY <1>check, <1>same DEF CheckStep, Count, Admit, Refuse, Roam, Undo, Store,
                           TakeBucket,
                           GetMap, stateVars, histVars
<1>enter. ASSUME NEW c, NEW u, NEW i, Enter(c, u, i) PROVE KnownInv'
  BY <1>enter, <1>same DEF Enter, stateVars, histVars
<1>sync. ASSUME SyncStep PROVE KnownInv'
  BY <1>sync, <1>same DEF SyncStep, DeleteUser, AddUser, UpdateUserInfo,
                          DeleteBucket,
                          histVars
<1>snapshot. ASSUME NEW S \in SUBSET User, Snapshot(S) PROVE KnownInv'
  <2>1. rep'.at = "send" /\ rep'.left = rep'.dev /\ rep'.drop = Nil
    BY <1>snapshot DEF Snapshot, NoRep
  <2> QED BY <1>snapshot, <2>1 DEF Snapshot, KnownInv, stateVars, histVars
<1>sent. ASSUME Sent PROVE KnownInv'
  <2>1. rep'.at = "commit" /\ rep'.dev = rep.dev /\ rep'.left = rep.left
    BY <1>sent DEF Sent, Types, LocalsOK, Reports
  <2>2. rep.dev \in SUBSET (User \X IP)
    BY DEF Types, LocalsOK, Reports
  <2>3. \A d \in rep.dev : d[2] \in reported'[d[1]]
    BY <1>sent, <2>2 DEF Sent
  <2>4. \A u \in User : reported[u] \subseteq reported'[u]
    BY <1>sent DEF Sent
  <2>5. \A u \in User : panelIPs'[u] \subseteq reported'[u] \cup abroad[u]
    BY <1>sent DEF Sent, KnownInv
  <2>6. \A i \in IP : old[i].user \in User \cup {Nil}
    BY DEF Types, TypeOK
  <2>7. \A i \in IP : old[i].user # Nil => i \in reported'[old[i].user]
    BY <2>4, <2>6 DEF KnownInv
  <2> QED BY <1>sent, <2>1, <2>3, <2>4, <2>5, <2>7 DEF Sent, KnownInv, stateVars
<1>fails. ASSUME SendFails PROVE KnownInv'
  BY <1>fails DEF SendFails, NoRep, KnownInv, stateVars, histVars
<1>device. ASSUME NEW u \in User, NEW i \in IP, CommitDevice(u, i) PROVE KnownInv'
  <2>1. rep'.at = "commit" /\ rep'.dev = rep.dev /\ rep'.left \subseteq rep.left
    <3>1. \/ rep' = [rep EXCEPT !.left = rep.left \ {<<u, i>>}]
          \/ \E x : rep' = [rep EXCEPT !.left = rep.left \ {<<u, i>>}, !.drop = x]
      BY <1>device DEF CommitDevice
    <3>2. rep.at = "commit"
      BY <1>device DEF CommitDevice
    <3> QED BY <3>1, <3>2 DEF Types, LocalsOK, Reports
  <2> QED BY <1>device, <2>1 DEF CommitDevice, KnownInv, histVars
<1>drop. ASSUME DropMap PROVE KnownInv'
  <2>1. rep'.at = rep.at /\ rep'.dev = rep.dev /\ rep'.left = rep.left /\ rep'.drop = Nil
    BY <1>drop DEF DropMap, Types, LocalsOK, Reports
  <2> QED BY <1>drop, <2>1 DEF DropMap, KnownInv, histVars
<1>committed. ASSUME NEW owner \in [IP -> User \cup {Nil}], Committed(owner) PROVE KnownInv'
  <2>1. ASSUME NEW i \in IP, old'[i].user # Nil
        PROVE  i \in reported[old'[i].user]
    <3>1. owner[i] # Nil /\ old'[i].user = owner[i]
      BY <1>committed, <2>1 DEF Committed, NoEntry
    <3>2. <<owner[i], i>> \in rep.dev /\ rep.at = "commit"
      BY <1>committed, <3>1 DEF Committed
    <3> QED BY <3>1, <3>2 DEF KnownInv
  <2> QED BY <1>committed, <2>1 DEF Committed, KnownInv, NoRep, histVars
<1>expire. ASSUME Expire PROVE KnownInv'
  BY <1>expire DEF Expire, NoEntry, KnownInv, histVars
<1>pull. ASSUME PullAlive PROVE KnownInv'
  BY <1>pull DEF PullAlive, KnownInv, stateVars, histVars
<1>set. ASSUME SetAliveSnapshot PROVE KnownInv'
  <2>1. rep'.at = rep.at /\ rep'.dev = rep.dev /\ rep'.left = rep.left
        /\ rep'.drop = rep.drop
    BY <1>set DEF SetAliveSnapshot, Types, LocalsOK, Reports
  <2>2. \A i \in IP : old'[i].user = old[i].user
    BY <1>set DEF SetAliveSnapshot, NoEntry, Types, TypeOK
  <2>3. \A u \in User : pull'.ips[u] = {}
    BY <1>set DEF SetAliveSnapshot, NoPull
  <2> QED BY <1>set, <2>1, <2>2, <2>3 DEF SetAliveSnapshot, KnownInv
<1>forget. ASSUME NEW u \in User, NEW i \in IP, PanelForget(u, i) PROVE KnownInv'
  <2>1. \A v \in User : panelIPs'[v] \subseteq panelIPs[v]
    BY <1>forget DEF PanelForget, Types, TypeOK
  <2> QED BY <1>forget, <2>1 DEF PanelForget, KnownInv, stateVars, histVars
<1>othernode. ASSUME NEW u, NEW i, OtherNode(u, i) PROVE KnownInv'
  <2>1. \A v \in User : /\ abroad[v] \subseteq abroad'[v]
                        /\ panelIPs'[v] \subseteq panelIPs[v] \cup abroad'[v]
    BY <1>othernode DEF OtherNode, Types, TypeOK, LocalsOK
  <2>2. UNCHANGED <<old, reported, pull, aliveIPList, rep>>
    BY <1>othernode DEF OtherNode, stateVars
  <2> QED BY <2>1, <2>2 DEF KnownInv
<1>stay. ASSUME UNCHANGED vars PROVE KnownInv'
  BY <1>stay, <1>same DEF vars, stateVars, histVars
<1> QED BY <1>check, <1>enter, <1>sync, <1>snapshot, <1>sent, <1>fails, <1>device,
   <1>drop,
           <1>committed, <1>expire, <1>pull, <1>set, <1>forget, <1>othernode, <1>stay
        DEF Next, ReportStep, RejectUnknown

-----------------------------------------------------------------------------
(* Admitted devices.                                                       *)

\* ... nothing is admitted, ...
LEMMA AdmitInit == Init => AdmitInv
BY DEF Init, AdmitInv, Removable, NoRep, Idle

\* A connection moves and touches no map: it may not become the creator of one.
LEMMA AdmitMove ==
    ASSUME AdmitInv, NEW c \in Checker, OthersSame(c), rep' = rep,
           UNCHANGED <<admitted, online, maps, orphaned, reported>>,
           check'[c].created /\ check'[c].at \in {"decide", "undo"} =>
              /\ check[c].created /\ check[c].at \in {"decide", "undo"}
              /\ check'[c].user = check[c].user
    PROVE  AdmitInv'
<1>1. \A u \in User : Removable(u)' => Removable(u)
  BY DEF Removable, OthersSame
<1>2. \A u \in User : Pending(u)' = Pending(u)
  BY DEF Pending
<1> QED BY <1>1, <1>2 DEF AdmitInv

\* A map leaves UserOnlineIP, all its admitted devices being orphaned already.
LEMMA AdmitRemove ==
    ASSUME Types, AdmitInv, NEW u \in User, RemoveMap(u),
           UNCHANGED <<maps, reported, orphaned>>,
           \A v \in User : admitted'[v] \subseteq admitted[v],
           admitted'[u] \subseteq orphaned[u],
           \A v \in User : Removable(v)' => Removable(v)
    PROVE  AdmitInv'
<1> SUFFICES ASSUME NEW v \in User
             PROVE  /\ admitted'[v] \subseteq Pending(v)' \cup orphaned[v]
                    /\ admitted'[v] \cap reported[v] = {}
                    /\ Removable(v)' => admitted'[v] \subseteq orphaned[v]
  BY DEF AdmitInv
<1>1. CASE v = u
  BY <1>1 DEF AdmitInv
<1>2. CASE v # u
  <2>1. Pending(v)' = Pending(v)
    BY <1>2, RemoveMapType DEF Pending
  <2> QED BY <2>1 DEF AdmitInv
<1> QED BY <1>1, <1>2

\* Every step keeps AdmitInv.
LEMMA AdmitNext ==
    Types /\ CheckInv /\ KnownInv /\ AdmitInv /\ [Next]_vars
        => AdmitInv'
<1> SUFFICES ASSUME Types, CheckInv, KnownInv, AdmitInv, [Next]_vars PROVE AdmitInv'
  OBVIOUS
<1>nil. Nil \notin User /\ Nil \notin Map
  BY LimiterAssumption
<1>type. /\ admitted \in [User -> SUBSET IP] /\ orphaned \in [User -> SUBSET IP]
         /\ reported \in [User -> SUBSET IP] /\ maps \in [Map -> SUBSET IP]
         /\ online \in [User -> Map \cup {Nil}]
  BY DEF Types, LocalsOK, TypeOK
<1>same. ASSUME UNCHANGED <<admitted, online, maps, orphaned, reported, check>>,
                rep'.drop \in {rep.drop, Nil}
         PROVE  AdmitInv'
  <2>1. \A u \in User : (Removable(u)' => Removable(u)) /\ Pending(u)' = Pending(u)
    BY <1>same, <1>nil DEF Removable, Pending
  <2> QED BY <1>same, <2>1 DEF AdmitInv
<1>enter. ASSUME NEW c \in setup.checkers, NEW u, NEW i, Enter(c, u, i) PROVE AdmitInv'
  <2>1. c \in Checker
    BY LimiterAssumption DEF Types, LocalsOK
  <2> QED BY <1>enter, <2>1, EnterFields, AdmitMove DEF Enter, stateVars, histVars
<1>count. ASSUME NEW c \in Checker, Count(c) PROVE AdmitInv'
  BY <1>count, CountFields, AdmitMove DEF Count, stateVars, histVars
<1>admit. ASSUME NEW c \in Checker, Admit(c) \/ Refuse(c) PROVE AdmitInv'
  <2>1. Moves(c, "bucket") \/ Moves(c, "store") \/ Moves(c, "undo")
    BY <1>admit, DecideMoves
  <2> QED BY <1>admit, <2>1, AdmitMove DEF Moves, Admit, Refuse, stateVars, histVars
<1>bucket. ASSUME NEW c \in Checker, TakeBucket(c) PROVE AdmitInv'
  <2>1. OthersSame(c) /\ check'[c].map = Nil /\ check'[c].at = "idle"
    BY <1>bucket, EndFields DEF Ends, Idle
  <2> QED BY <1>bucket, <2>1, AdmitMove DEF TakeBucket, histVars
<1>getmap. ASSUME NEW c \in Checker, NEW m \in Map, GetMap(c, m) PROVE AdmitInv'
  <2> DEFINE u == check[c].user
  <2>0. u \in User /\ check[c].at = "map" /\ ~check[c].created
        /\ UNCHANGED <<admitted, orphaned, reported, rep>>
    BY <1>getmap, CheckFacts DEF GetMap, Mapped, histVars
  <2>1. CASE online[u] = m /\ UNCHANGED <<online, maps>>
             /\ check'[c].created = check[c].created
    <3>1. \A v \in User : (Removable(v)' => Removable(v)) /\ Pending(v)' = Pending(v)
      BY <1>getmap, <2>0, <2>1, GetMapFields DEF Removable, Pending, OthersSame
    <3> QED BY <2>0, <2>1, <3>1 DEF AdmitInv
  <2>2. CASE /\ online[u] = Nil /\ m \in Unused
             /\ online' = [online EXCEPT ![u] = m] /\ maps' = [maps EXCEPT ![m] = {}]
    <3>1. /\ \A v \in User : online[v] # m
          /\ \A d \in Checker : check[d].map # m
      BY <2>2 DEF Unused
    <3>2. /\ online'[u] = m /\ \A v \in User \ {u} : online'[v] = online[v]
          /\ maps'[m] = {} /\ \A n \in Map \ {m} : maps'[n] = maps[n]
      BY <2>0, <2>2, <1>type
    <3>3. \A v \in User : Pending(v)' = Pending(v)
      <4> SUFFICES ASSUME NEW v \in User PROVE Pending(v)' = Pending(v)
        OBVIOUS
      <4>1. CASE v = u
        BY <2>2, <3>2, <4>1, <1>nil DEF Pending
      <4>2. CASE v # u
        BY <3>1, <3>2, <4>2, <1>type DEF Pending
      <4> QED BY <4>1, <4>2
    <3>4. admitted[u] \subseteq orphaned[u]
      BY <2>0, <2>2 DEF AdmitInv, Pending
    <3>5. \A v \in User : v # u => (Removable(v)' => Removable(v))
      BY <1>getmap, <2>0, GetMapFields DEF Removable, OthersSame
    <3> QED BY <2>0, <3>3, <3>4, <3>5 DEF AdmitInv
  <2> QED BY <1>getmap, <2>1, <2>2, GetMapFields
<1>roam. ASSUME NEW c \in Checker, Roam(c) PROVE AdmitInv'
  <2>p. PICK u, n : u = check[c].user /\ n = check[c].map
    OBVIOUS
  <2>0. /\ u \in User /\ n \in Map /\ check[c].at = "decide"
        /\ \A v \in User : online[v] = n => v = u
        /\ UNCHANGED <<online, orphaned, reported, rep>>
    BY <1>roam, <2>p, CheckFacts, <1>nil DEF Roam, Mapped
  <2>1. Moves(c, "bucket") \/ Moves(c, "store") \/ Moves(c, "undo")
    BY <1>roam, DecideMoves
  <2>2. CASE UNCHANGED <<maps, admitted>>
    BY <2>0, <2>1, <2>2, AdmitMove DEF Moves
  <2>3. ASSUME NEW i, maps' = [maps EXCEPT ![n] = @ \ {i}],
               admitted' = [admitted EXCEPT ![u] = @ \ {i}]
        PROVE  AdmitInv'
    <3>1. /\ admitted'[u] = admitted[u] \ {i} /\ maps'[n] = maps[n] \ {i}
          /\ \A v \in User \ {u} : admitted'[v] = admitted[v]
          /\ \A q \in Map \ {n} : maps'[q] = maps[q]
      BY <2>0, <2>3, <1>type
    <3>2. \A v \in User \ {u} : Pending(v)' = Pending(v)
      BY <2>0, <3>1, <1>type DEF Pending
    <3>3. Pending(u) \ {i} \subseteq Pending(u)'
      <4>1. CASE online[u] = Nil
        BY <2>0, <4>1 DEF Pending
      <4>2. CASE online[u] = n /\ online[u] # Nil
        <5>1. Pending(u) = maps[n] /\ Pending(u)' = maps'[n]
          BY <2>0, <4>2 DEF Pending
        <5> QED BY <3>1, <5>1
      <4>3. CASE online[u] \in Map \ {n} /\ online[u] # Nil
        BY <2>0, <3>1, <4>3 DEF Pending
      <4> QED BY <2>0, <4>1, <4>2, <4>3, <1>type
    <3>4. \A v \in User : Removable(v)' => Removable(v)
      BY <2>0, <2>1 DEF Removable, Moves, OthersSame
    <3>5. ASSUME NEW v \in User
          PROVE  /\ admitted'[v] \subseteq Pending(v)' \cup orphaned[v]
                 /\ admitted'[v] \cap reported[v] = {}
                 /\ Removable(v)' => admitted'[v] \subseteq orphaned[v]
      <4>1. /\ admitted[v] \subseteq Pending(v) \cup orphaned[v]
            /\ admitted[v] \cap reported[v] = {}
            /\ Removable(v) => admitted[v] \subseteq orphaned[v]
            /\ Removable(v)' => Removable(v)
        BY <3>4 DEF AdmitInv
      <4>2. CASE v = u
        <5>1. admitted'[v] = admitted[v] \ {i} /\ Pending(v) \ {i} \subseteq Pending(v)'
          BY <3>1, <3>3, <4>2
        <5> QED BY <4>1, <5>1
      <4>3. CASE v # u
        <5>1. admitted'[v] = admitted[v] /\ Pending(v)' = Pending(v)
          BY <3>1, <3>2, <4>3
        <5> QED BY <4>1, <5>1
      <4> QED BY <4>2, <4>3
    <3> QED BY <2>0, <3>5 DEF AdmitInv
  <2> QED BY <1>roam, <2>p, <2>2, <2>3 DEF Roam
<1>undo. ASSUME NEW c \in Checker, Undo(c) PROVE AdmitInv'
  <2> DEFINE u == check[c].user
  <2>0. /\ u \in User /\ check[c].at = "undo" /\ check'[c] = Idle /\ OthersSame(c)
        /\ UNCHANGED <<maps, reported, orphaned, rep, admitted>>
    BY <1>undo, CheckFacts, EndFields DEF Undo, Ends, histVars
  <2>1. CASE check[c].created
    <3>1. RemoveMap(u)
      BY <1>undo, <2>1 DEF Undo
    <3>2. admitted[u] \subseteq orphaned[u]
      BY <2>0, <2>1 DEF AdmitInv, Removable
    <3>3. \A v \in User : Removable(v)' => Removable(v)
      BY <2>0 DEF Removable, OthersSame, Idle
    <3>4. (\A v \in User : admitted'[v] \subseteq admitted[v]) /\ admitted'[u] \subseteq orphaned[u]
      BY <2>0, <3>2
    <3>5. u \in User /\ UNCHANGED <<maps, reported, orphaned>>
      BY <2>0
    <3> HIDE DEF u
    <3> QED BY <3>1, <3>3, <3>4, <3>5, AdmitRemove
  <2>2. CASE ~check[c].created
    BY <1>undo, <2>0, <2>2, AdmitMove DEF Undo, Idle
  <2> QED BY <2>1, <2>2
<1>store. ASSUME NEW c \in Checker, Store(c) PROVE AdmitInv'
  <2>p. PICK u, n, i : u = check[c].user /\ n = check[c].map /\ i = check[c].ip
    OBVIOUS
  <2>0. /\ u \in User /\ n \in Map /\ i \in IP /\ check[c].at = "store"
        /\ \A v \in User : online[v] = n => v = u
        /\ UNCHANGED <<online, reported, rep>> /\ Moves(c, "bucket")
    BY <1>store, <2>p, CheckFacts, StoreMoves, <1>nil DEF Store, Mapped
  <2>1. /\ maps'[n] = maps[n] \cup {i} /\ \A q \in Map \ {n} : maps'[q] = maps[q]
        /\ admitted'[u] = admitted[u] \cup ({i} \ reported[u])
        /\ \A v \in User \ {u} : admitted'[v] = admitted[v]
    BY <1>store, <2>p, <2>0, <1>type DEF Store
  <2>2. /\ \A v \in User \ {u} : orphaned'[v] = orphaned[v]
        /\ orphaned'[u] = IF AtRisk(u, c) THEN orphaned[u] \cup ({i} \ reported[u])
                          ELSE orphaned[u] \ {i}
    BY <1>store, <2>p, <2>0, <1>type DEF Store
  <2>3. \A v \in User : Pending(v) \subseteq Pending(v)'
    BY <2>0, <2>1, <1>type DEF Pending
  <2>4. ~AtRisk(u, c) => {i} \subseteq Pending(u)'
    <3> SUFFICES ASSUME online[u] = n PROVE {i} \subseteq Pending(u)'
      BY <2>p DEF AtRisk
    <3>1. Pending(u)' = maps'[n]
      BY <2>0, <1>nil DEF Pending
    <3> QED BY <2>1, <3>1
  <2>5. \A v \in User : Removable(v)' => Removable(v)
    BY <2>0 DEF Removable, Moves, OthersSame
  <2>6. Removable(u)' => AtRisk(u, c)
    BY <2>0, <2>p DEF Removable, AtRisk, Others, Moves, OthersSame
  <2>u. u \in User
    BY <2>0
  <2>7. /\ admitted'[u] \subseteq Pending(u)' \cup orphaned'[u]
        /\ admitted'[u] \cap reported[u] = {}
        /\ Removable(u)' => admitted'[u] \subseteq orphaned'[u]
    <3>1. /\ admitted[u] \subseteq Pending(u) \cup orphaned[u]
          /\ admitted[u] \cap reported[u] = {}
          /\ Removable(u) => admitted[u] \subseteq orphaned[u]
          /\ Pending(u) \subseteq Pending(u)'
          /\ admitted'[u] = admitted[u] \cup ({i} \ reported[u])
          /\ Removable(u)' => Removable(u)
      BY <2>u, <2>1, <2>3, <2>5 DEF AdmitInv
    <3>2. CASE AtRisk(u, c)
      <4>1. orphaned'[u] = orphaned[u] \cup ({i} \ reported[u])
        BY <2>2, <3>2
      <4> QED BY <3>1, <4>1
    <3>3. CASE ~AtRisk(u, c)
      <4>1. orphaned'[u] = orphaned[u] \ {i} /\ {i} \subseteq Pending(u)' /\ ~Removable(u)'
        BY <2>2, <2>4, <2>6, <3>3
      <4> QED BY <3>1, <4>1
    <3> QED BY <3>2, <3>3
  <2>8. ASSUME NEW v \in User \ {u}
        PROVE  /\ admitted'[v] \subseteq Pending(v)' \cup orphaned'[v]
               /\ admitted'[v] \cap reported[v] = {}
               /\ Removable(v)' => admitted'[v] \subseteq orphaned'[v]
    BY <2>1, <2>2, <2>3, <2>5 DEF AdmitInv
  <2>9. UNCHANGED reported
    BY <2>0
  <2> QED BY <2>7, <2>8, <2>9 DEF AdmitInv
<1>check. ASSUME NEW c \in Checker, CheckStep(c) PROVE AdmitInv'
  BY <1>check, <1>count, <1>admit, <1>roam, <1>undo, <1>store, <1>bucket, <1>getmap
     DEF CheckStep
<1>sent. ASSUME Sent PROVE AdmitInv'
  <2> DEFINE ips(u) == {d[2] : d \in {e \in rep.dev : e[1] = u}}
  <2>1. \A u \in User : /\ reported'[u] = reported[u] \cup ips(u)
                        /\ admitted'[u] = admitted[u] \ ips(u)
                        /\ orphaned'[u] = orphaned[u] \ ips(u)
    BY <1>sent DEF Sent
  <2>2. UNCHANGED <<check, online, maps>> /\ rep'.drop = rep.drop
    BY <1>sent DEF Sent, stateVars, Types, LocalsOK, Reports
  <2>3. \A u \in User : (Removable(u)' => Removable(u)) /\ Pending(u)' = Pending(u)
    BY <2>2 DEF Removable, Pending
  <2> HIDE DEF ips
  <2>4. \A u \in User : /\ admitted'[u] \subseteq Pending(u)' \cup orphaned'[u]
                        /\ admitted'[u] \cap reported'[u] = {}
                        /\ Removable(u)' => admitted'[u] \subseteq orphaned'[u]
    BY <2>1, <2>3 DEF AdmitInv
  <2> QED BY <2>4 DEF AdmitInv
<1>device. ASSUME NEW u \in User, NEW i \in IP, CommitDevice(u, i) PROVE AdmitInv'
  <2>0. /\ UNCHANGED <<admitted, online, orphaned, reported, check>> /\ rep.drop = Nil
        /\ i \in reported[u]
    BY <1>device DEF CommitDevice, KnownInv, histVars
  <2>1. CASE online[u] = Nil
    <3>1. rep'.drop = Nil /\ UNCHANGED maps
      BY <1>device, <2>0, <2>1 DEF CommitDevice, Types, LocalsOK, Reports
    <3> QED BY <2>0, <3>1, <1>same
  <2>2. CASE online[u] # Nil
    <3>1. /\ maps' = [maps EXCEPT ![online[u]] = @ \ {i}]
          /\ rep'.drop = IF Pending(u) \ {i} = {} THEN u ELSE Nil
      BY <1>device, <2>2 DEF CommitDevice, Types, LocalsOK, Reports
    <3>2. Pending(u)' = Pending(u) \ {i}
      BY <2>0, <2>2, <3>1, <1>type DEF Pending
    <3>3. \A v \in User \ {u} : Pending(v)' = Pending(v)
      BY <2>0, <2>2, <3>1, <1>type DEF Pending, Types, TypeOK
    <3>4. i \notin admitted[u]
      BY <2>0 DEF AdmitInv
    <3>5. \A v \in User \ {u} : Removable(v)' => Removable(v)
      BY <2>0, <3>1, <1>nil DEF Removable
    <3>6. Removable(u)' => Removable(u) \/ Pending(u) \ {i} = {}
      BY <2>0, <3>1, <1>nil DEF Removable
    <3>7. /\ admitted[u] \subseteq Pending(u)' \cup orphaned[u]
          /\ Removable(u)' => admitted[u] \subseteq orphaned[u]
      BY <3>2, <3>4, <3>6 DEF AdmitInv
    <3> QED BY <2>0, <3>3, <3>5, <3>7 DEF AdmitInv
  <2> QED BY <2>1, <2>2
<1>drop. ASSUME DropMap PROVE AdmitInv'
  <2>1. rep.drop \in User /\ rep'.drop = Nil
        /\ UNCHANGED <<maps, reported, orphaned, admitted, check>>
    BY <1>drop DEF DropMap, Types, LocalsOK, Reports, histVars
  <2>2. admitted[rep.drop] \subseteq orphaned[rep.drop]
    BY <2>1 DEF AdmitInv, Removable
  <2>3. \A v \in User : Removable(v)' => Removable(v)
    BY <2>1, <1>nil DEF Removable
  <2> QED BY <1>drop, <2>1, <2>2, <2>3, AdmitRemove DEF DropMap
<1>delete. ASSUME NEW u \in setup.users, DeleteUser(u) PROVE AdmitInv'
  <2>1. u \in User
    BY LimiterAssumption DEF Types, LocalsOK
  <2>2. UNCHANGED <<maps, reported, orphaned, rep, check>> /\ RemoveMap(u)
        /\ admitted'[u] = {} /\ \A v \in User : admitted'[v] \subseteq admitted[v]
    BY <1>delete, <2>1, <1>type DEF DeleteUser
  <2>3. \A v \in User : Removable(v)' => Removable(v)
    BY <2>2 DEF Removable
  <2> QED BY <2>1, <2>2, <2>3, AdmitRemove
<1>rep. ASSUME \/ \E S \in SUBSET User : Snapshot(S)
               \/ \E owner \in [IP -> User \cup {Nil}] : Committed(owner)
               \/ SendFails \/ SetAliveSnapshot
        PROVE  AdmitInv'
  <2>1. rep'.drop \in {rep.drop, Nil}
    <3>1. CASE SetAliveSnapshot
      BY <3>1 DEF SetAliveSnapshot, Types, LocalsOK, Reports
    <3>2. ASSUME NEW S, Snapshot(S) PROVE rep'.drop = Nil
      BY <3>2 DEF Snapshot, NoRep
    <3>3. ASSUME NEW owner, Committed(owner) PROVE rep'.drop = Nil
      BY <3>3 DEF Committed, NoRep
    <3>4. CASE SendFails
      BY <3>4 DEF SendFails, NoRep
    <3> QED BY <1>rep, <3>1, <3>2, <3>3, <3>4
  <2> QED BY <1>rep, <2>1, <1>same DEF Snapshot, Committed, SendFails,
                                       SetAliveSnapshot,
                                      stateVars, histVars
<1>other. ASSUME \/ Expire \/ PullAlive \/ DeleteBucket \/ UNCHANGED vars
                 \/ \E u, i : PanelForget(u, i) \/ OtherNode(u, i)
                 \/ \E u, s : AddUser(u, s) \/ UpdateUserInfo(u, s)
          PROVE  AdmitInv'
  BY <1>other, <1>same DEF Expire, PullAlive, DeleteBucket, PanelForget, OtherNode, AddUser,
                           UpdateUserInfo, vars, stateVars, histVars
<1> QED BY <1>enter, <1>check, <1>sent, <1>device, <1>drop, <1>delete, <1>rep,
   <1>other
        DEF Next, ReportStep, SyncStep, RejectUnknown

-----------------------------------------------------------------------------
(* Speed buckets.                                                          *)

\* ... no bucket exists, ...
LEMMA BucketInit == Init => BucketInv
BY LimiterAssumption DEF Init, BucketInv, BucketHasSpeed, Idle

\* Every step keeps BucketInv.
LEMMA BucketNext == Types /\ CheckInv /\ BucketInv /\ [Next]_vars => BucketInv'
<1> SUFFICES ASSUME Types, CheckInv, BucketInv, [Next]_vars PROVE BucketInv'
  OBVIOUS
<1>nil. Nil \notin User /\ Nil \notin Speed
  BY LimiterAssumption
<1>type. /\ limitInfo \in [User -> Speed \cup {Nil}] /\ overlapped \subseteq User
         /\ bucket \in [User -> (Speed \ {0}) \cup {Nil}] /\ sync \in User \cup {Nil}
  BY DEF Types, LocalsOK, TypeOK
<1>user. \A c \in Checker : check[c].user \in User => check[c].speed \in Speed
  BY CheckFacts, <1>nil
<1>same. ASSUME UNCHANGED <<limitInfo, bucket, sync, overlapped>>,
                \A c \in Checker : check'[c].user \in User \ overlapped =>
                   check'[c].speed = limitInfo[check'[c].user]
         PROVE  BucketInv'
  BY <1>same DEF BucketInv, BucketHasSpeed
<1>move. ASSUME NEW c \in Checker, OthersSame(c),
                UNCHANGED <<limitInfo, bucket, sync, overlapped>>,
                \/ check'[c].user = Nil
                \/ check'[c].user = check[c].user /\ check'[c].speed = check[c].speed
         PROVE  BucketInv'
  BY <1>move, <1>same, <1>nil DEF BucketInv, OthersSame
<1>enter. ASSUME NEW c \in setup.checkers, NEW u, NEW i, Enter(c, u, i) PROVE BucketInv'
  <2>1. c \in Checker
    BY LimiterAssumption DEF Types, LocalsOK
  <2>2. OthersSame(c) /\ check'[c].user = u /\ check'[c].speed = limitInfo[u]
    BY <1>enter, <2>1, EnterFields
  <2>3. UNCHANGED <<limitInfo, bucket, sync, overlapped>>
    BY <1>enter DEF Enter, stateVars, histVars
  <2> QED BY <2>2, <2>3, <1>same DEF BucketInv, OthersSame
<1>check. ASSUME NEW c \in Checker, CheckStep(c), ~TakeBucket(c) PROVE BucketInv'
  <2>1. UNCHANGED <<limitInfo, bucket, sync, overlapped>>
    BY <1>check DEF CheckStep, Count, Admit, Refuse, Roam, Undo, Store, GetMap,
                    stateVars,
                    histVars
  <2>2. /\ OthersSame(c)
        /\ \/ check'[c].user = Nil
           \/ check'[c].user = check[c].user /\ check'[c].speed = check[c].speed
    BY <1>check, CountFields, DecideMoves, StoreMoves, EndFields, GetMapFields
       DEF CheckStep, Moves, Ends, Idle
  <2> QED BY <2>1, <2>2, <1>move
<1>bucket. ASSUME NEW c \in Checker, TakeBucket(c) PROVE BucketInv'
  <2> DEFINE u == check[c].user
  <2>1. u \in User /\ OthersSame(c) /\ check'[c].user = Nil
        /\ UNCHANGED <<limitInfo, sync, overlapped>>
    <3>1. Ends(c)
      BY <1>bucket, EndFields
    <3>2. check'[c].user = Nil /\ OthersSame(c)
      BY <3>1 DEF Ends, Idle
    <3> QED BY <1>bucket, <3>2, CheckFacts DEF TakeBucket, histVars
  <2>2. /\ \A v \in User \ {u} : bucket'[v] = bucket[v]
        /\ bucket'[u] \in {bucket[u], check[c].speed}
    BY <1>bucket, <2>1, <1>type DEF TakeBucket
  <2>3. BucketHasSpeed'
    BY <2>1, <2>2 DEF BucketInv, BucketHasSpeed
  <2> QED BY <2>1, <2>3, <1>nil DEF BucketInv, OthersSame
<1>delete. ASSUME NEW u \in setup.users, DeleteUser(u) PROVE BucketInv'
  <2>1. u \in User
    BY LimiterAssumption DEF Types, LocalsOK
  <2>2. /\ limitInfo'[u] = Nil /\ \A v \in User \ {u} : limitInfo'[v] = limitInfo[v]
        /\ bucket'[u] = Nil /\ \A v \in User \ {u} : bucket'[v] = bucket[v]
        /\ UNCHANGED <<check, sync>>
    BY <1>delete, <2>1, <1>type DEF DeleteUser
  <2>3. overlapped \subseteq overlapped' /\ overlapped' \subseteq overlapped \cup {u}
        /\ (u \in overlapped' \/ \A c \in Checker : check[c].user # u)
    BY <1>delete DEF DeleteUser, Overlap, Others
  <2> QED BY <2>1, <2>2, <2>3 DEF BucketInv, BucketHasSpeed
<1>add. ASSUME NEW u \in setup.users, NEW s, AddUser(u, s) PROVE BucketInv'
  <2>1. u \in User
    BY LimiterAssumption DEF Types, LocalsOK
  <2>2. /\ limitInfo[u] = Nil /\ \A v \in User \ {u} : limitInfo'[v] = limitInfo[v]
        /\ sync = Nil /\ UNCHANGED <<check, sync, bucket, overlapped>>
    BY <1>add, <2>1, <1>type DEF AddUser, Change, histVars
  <2>3. u \in overlapped \/ \A c \in Checker : check[c].user # u
    BY <2>1, <2>2, <1>user, <1>nil DEF BucketInv
  <2> QED BY <2>1, <2>2, <2>3, <1>nil DEF BucketInv, BucketHasSpeed
<1>update. ASSUME NEW u \in setup.users, NEW s, UpdateUserInfo(u, s) PROVE BucketInv'
  <2>1. u \in User
    BY LimiterAssumption DEF Types, LocalsOK
  <2>2. /\ \A v \in User \ {u} : limitInfo'[v] = limitInfo[v]
        /\ sync = Nil /\ sync' = u /\ UNCHANGED <<check, bucket>>
    BY <1>update, <2>1, <1>type DEF UpdateUserInfo, Change
  <2>3. overlapped \subseteq overlapped' /\ overlapped' \subseteq overlapped \cup {u}
        /\ (u \in overlapped' \/ \A c \in Checker : check[c].user # u)
    BY <1>update DEF UpdateUserInfo, Overlap, Others
  <2> QED BY <2>1, <2>2, <2>3, <1>nil DEF BucketInv, BucketHasSpeed
<1>dropbucket. ASSUME DeleteBucket PROVE BucketInv'
  <2>1. /\ sync \in User /\ sync' = Nil /\ UNCHANGED <<limitInfo, check, overlapped>>
        /\ bucket'[sync] = Nil /\ \A v \in User \ {sync} : bucket'[v] = bucket[v]
    BY <1>dropbucket, <1>type DEF DeleteBucket, histVars
  <2> QED BY <2>1 DEF BucketInv, BucketHasSpeed
<1>other. ASSUME \/ ReportStep \/ SendFails \/ Expire \/ PullAlive \/ SetAliveSnapshot
                 \/ UNCHANGED vars \/ \E u, i : PanelForget(u, i) \/ OtherNode(u, i)
          PROVE  BucketInv'
  <2>1. UNCHANGED <<limitInfo, bucket, sync, overlapped, check>>
    BY <1>other DEF ReportStep, Snapshot, Sent, DropMap, CommitDevice, Committed,
                    SendFails,
                    Expire, PullAlive, SetAliveSnapshot, PanelForget, OtherNode, vars, stateVars, histVars
  <2> QED BY <2>1, <1>same DEF BucketInv
<1> QED BY <1>enter, <1>check, <1>bucket, <1>delete, <1>add, <1>update,
   <1>dropbucket,
           <1>other DEF Next, SyncStep, RejectUnknown


-----------------------------------------------------------------------------
(* Pending devices.                                                        *)

\* What RoomOf counts is finite, and the bound is a number.
LEMMA RoomTypes ==
    ASSUME Types, CheckInv, NEW u \in User
    PROVE  /\ IsFiniteSet(PendingNew(u)) /\ Cardinality(PendingNew(u)) \in Nat
           /\ IsFiniteSet(Storing(u)) /\ Cardinality(Storing(u)) \in Nat
           /\ Cardinality(setup.checkers) \in Nat
           /\ Cardinality(Storing(u)) <= Cardinality(setup.checkers)
           /\ Limit \in Nat \ {0} /\ aliveList[u] \in Nat /\ Room(u) \in Nat
<1>1. PendingNew(u) \subseteq IP
  BY DEF Pending, PendingNew, Types, TypeOK
<1>2. IsFiniteSet(PendingNew(u))
  BY <1>1, LimiterAssumption, FS_Subset
<1>3. setup.checkers \subseteq Checker /\ setup.limit \in Nat \ {0}
  BY LimiterAssumption DEF Types, LocalsOK
<1>4. IsFiniteSet(setup.checkers)
  BY <1>3, LimiterAssumption, FS_Subset
<1>5. Storing(u) \subseteq setup.checkers
  BY CheckFacts DEF Storing
<1>6. IsFiniteSet(Storing(u)) /\ Cardinality(Storing(u)) <= Cardinality(setup.checkers)
  BY <1>4, <1>5, FS_Subset
<1>7. Limit \in Nat \ {0} /\ aliveList[u] \in Nat /\ Room(u) \in Nat
  BY <1>3 DEF Limit, Room, Types, TypeOK
<1> QED BY <1>2, <1>4, <1>6, <1>7, FS_CardinalityType

\* What is known to a user depends on three variables.
LEMMA KnownSame ==
    ASSUME UNCHANGED <<setup, old, aliveIPList>>, NEW u, NEW i
    PROVE  Known(u, i)' <=> Known(u, i)
BY DEF Known, LooseMode

\* The new devices of a user whose map is the same.
LEMMA NewSame ==
    ASSUME UNCHANGED <<setup, old, aliveIPList>>, NEW u, Pending(u)' \subseteq Pending(u)
    PROVE  PendingNew(u)' \subseteq PendingNew(u)
<1>1. \A i : Known(u, i)' <=> Known(u, i)
  BY KnownSame
<1> QED BY <1>1 DEF PendingNew

\* Connections about to store were that before, if none of them changed.
LEMMA StoringSame ==
    ASSUME UNCHANGED <<setup, old, aliveIPList>>, NEW u, online'[u] = online[u],
           \A d \in Checker : check'[d].at = "store" /\ check'[d].user = u =>
              /\ check[d].at = "store" /\ check'[d].user = check[d].user
              /\ check'[d].map = check[d].map /\ check'[d].ip = check[d].ip
    PROVE  Storing(u)' \subseteq Storing(u)
<1>1. \A i : Known(u, i)' <=> Known(u, i)
  BY KnownSame
<1> QED BY <1>1 DEF Storing

\* Nothing is added and the room is the same.
LEMMA RoomKept ==
    ASSUME Types, CheckInv, Types', CheckInv', NEW u \in User, RoomOf(u),
           PendingNew(u)' \subseteq PendingNew(u), Storing(u)' \subseteq Storing(u),
           setup' = setup, aliveList'[u] = aliveList[u]
    PROVE  RoomOf(u)'
<1>1. /\ Cardinality(PendingNew(u)') <= Cardinality(PendingNew(u))
      /\ Cardinality(Storing(u)') <= Cardinality(Storing(u))
      /\ Cardinality(PendingNew(u)') \in Nat /\ Cardinality(Storing(u)') \in Nat
  BY RoomTypes, FS_Subset, FS_CardinalityType
<1>2. Room(u)' = Room(u)
  BY DEF Room, Limit, Udp
<1> QED BY <1>1, <1>2, RoomTypes DEF RoomOf

\* Nothing is left.
LEMMA RoomEmpty ==
    ASSUME Types', NEW u \in User, Pending(u)' = {}, Storing(u)' = {}
    PROVE  RoomOf(u)'
<1>1. Room(u)' \in Nat /\ Cardinality(setup.checkers)' \in Nat
  <2>1. /\ setup'.checkers \subseteq Checker /\ setup'.limit \in Nat \ {0}
        /\ aliveList'[u] \in Nat
    BY LimiterAssumption DEF Types, LocalsOK, TypeOK
  <2>2. Cardinality(setup'.checkers) \in Nat
    BY <2>1, LimiterAssumption, FS_Subset, FS_CardinalityType
  <2> QED BY <2>1, <2>2 DEF Room, Limit
<1>2. PendingNew(u)' = {}
  BY DEF PendingNew
<1>3. Cardinality(PendingNew(u)') = 0 /\ Cardinality(Storing(u)') = 0
  BY <1>2, FS_EmptySet
<1> QED BY <1>1, <1>3 DEF RoomOf

\* A map that left UserOnlineIP: nobody is about to add to it.
LEMMA RoomRemove ==
    ASSUME Types, CheckInv, Types', CheckInv', NEW u \in User, RemoveMap(u),
           UNCHANGED <<setup, maps, old, aliveIPList>>,
           \A d \in Checker : check'[d].at = "store" => check'[d] = check[d],
           \A v \in User : RoomOf(v),
           \A v \in User \ {u} : aliveList'[v] = aliveList[v]
    PROVE  \A v \in User : RoomOf(v)'
<1>1. online'[u] = Nil /\ \A v \in User \ {u} : online'[v] = online[v]
  BY DEF RemoveMap, Types, TypeOK
<1>2. \A d \in Checker : check'[d].at = "store" => check'[d].map # Nil
  BY CheckFacts, LimiterAssumption DEF Mapped
<1>3. Pending(u)' = {} /\ Storing(u)' = {}
  BY <1>1, <1>2 DEF Pending, Storing
<1>4. ASSUME NEW v \in User, v # u PROVE RoomOf(v)'
  <2>1. Pending(v)' \subseteq Pending(v)
    BY <1>1, <1>4 DEF Pending
  <2>2. Storing(v)' \subseteq Storing(v)
    BY <1>1, <1>4, StoringSame
  <2> QED BY <1>4, <2>1, <2>2, NewSame, RoomKept
<1> QED BY <1>3, <1>4, RoomEmpty


\* ... and nothing is pending.
LEMMA RoomInit == Init => RoomInv
<1> SUFFICES ASSUME Init PROVE RoomInv
  OBVIOUS
<1>1. Fresh /\ Counted
  BY DEF Init, Fresh, Counted, NoRep, Idle, Mapped
<1>2. Types
  BY TypesInit
<1>3. ASSUME NEW u \in User PROVE RoomOf(u)
  <2>1. PendingNew(u) = {} /\ Storing(u) = {}
    BY DEF Init, Pending, PendingNew, Storing, Idle
  <2>2. Cardinality(PendingNew(u)) = 0 /\ Cardinality(Storing(u)) = 0
    BY <2>1, FS_EmptySet
  <2> QED BY <1>2, <2>2, RoomTypes, CheckInit DEF RoomOf
<1> QED BY <1>1, <1>3 DEF RoomInv

\* A step that takes no address into a map and no connection to "store".
LEMMA RoomSame ==
    ASSUME Types, CheckInv, Types', CheckInv', \A v \in User : RoomOf(v),
           UNCHANGED <<setup, online, maps, aliveList, old, aliveIPList>>,
           \A d \in Checker : check'[d].at = "store" =>
              /\ check[d].at = "store" /\ check'[d].user = check[d].user
              /\ check'[d].map = check[d].map /\ check'[d].ip = check[d].ip
    PROVE  \A v \in User : RoomOf(v)'
<1> SUFFICES ASSUME NEW v \in User PROVE RoomOf(v)'
  OBVIOUS
<1>1. Pending(v)' \subseteq Pending(v)
  BY DEF Pending
<1>2. Storing(v)' \subseteq Storing(v)
  BY StoringSame
<1> QED BY <1>1, <1>2, NewSame, RoomKept

\* Admit: there was room, and every connection may be about to store; or the
\* address is known, and does not count.
LEMMA RoomAdmit ==
    ASSUME Types, CheckInv, Types', CheckInv', Fresh, Counted, \A v \in User : RoomOf(v),
           NEW c \in Checker, Admit(c)
    PROVE  \A v \in User : RoomOf(v)'
<1>p. PICK u : u = check[c].user
  OBVIOUS
<1>0. /\ u \in User /\ UNCHANGED <<setup, online, maps, aliveList, old, aliveIPList>>
      /\ check[c].at = "decide" /\ check[c].ip \in IP /\ check[c].known \in Nat
  BY <1>p, CheckFacts DEF Admit, stateVars, Types, LocalsOK, Checks
<1>1. check[c].known >= aliveList[u]
  BY <1>0, <1>p DEF Counted, Mapped
<1>k. \A v, i : Known(v, i)' <=> Known(v, i)
  BY <1>0, KnownSame
<1>2. CASE check[c].ip \in maps[check[c].map]
  <2>1. Moves(c, "bucket")
    BY <1>2, MoveFields DEF Admit
  <2> QED BY <1>0, <2>1, RoomSame DEF Moves, OthersSame
<1>3. CASE check[c].ip \notin maps[check[c].map]
  <2>1. Moves(c, "store")
    BY <1>3, MoveFields DEF Admit
  <2>2. Known(u, check[c].ip) \/ Limit > check[c].known + Cardinality(PendingNew(u))
    BY <1>0, <1>p, <1>3 DEF Admit, HasRoom
  <2>p. \A v \in User : PendingNew(v)' = PendingNew(v)
    BY <1>0, <1>k DEF Pending, PendingNew
  <2>3. ASSUME Limit > check[c].known + Cardinality(PendingNew(u)) PROVE RoomOf(u)'
    <3>1. Room(u)' = Room(u)
      BY <1>0 DEF Room, Limit, Udp
    <3>2. /\ Cardinality(Storing(u)') <= Cardinality(setup.checkers)
          /\ Cardinality(Storing(u)') \in Nat
      <4>1. Storing(u)' \subseteq setup.checkers
        BY <1>0, <2>1, CheckFacts DEF Storing, Moves, OthersSame
      <4>2. IsFiniteSet(setup.checkers)
        BY LimiterAssumption, FS_Subset DEF Types, LocalsOK
      <4> QED BY <4>1, <4>2, FS_Subset, FS_CardinalityType
    <3>3. Room(u) = Limit - aliveList[u] /\ Cardinality(PendingNew(u)) < Room(u)
      BY <1>0, <1>1, <2>3, RoomTypes DEF Room
    <3> QED BY <1>0, <2>p, <3>1, <3>2, <3>3, RoomTypes DEF RoomOf
  <2>4. ASSUME Known(u, check[c].ip) PROVE RoomOf(u)'
    <3>1. Storing(u)' \subseteq Storing(u)
      BY <1>0, <1>k, <2>1, <2>4 DEF Storing, Moves, OthersSame
    <3> QED BY <1>0, <2>p, <3>1, RoomKept
  <2>5. ASSUME NEW v \in User, v # u PROVE RoomOf(v)'
    <3>1. Storing(v)' \subseteq Storing(v)
      BY <1>0, <1>k, <1>p, <2>1, <2>5 DEF Storing, Moves, OthersSame
    <3> QED BY <1>0, <2>5, <2>p, <3>1, RoomKept
  <2> QED BY <2>2, <2>3, <2>4, <2>5
<1> QED BY <1>2, <1>3


\* A set grows by at most one element.
LEMMA AddOne ==
    ASSUME NEW S, IsFiniteSet(S), NEW x
    PROVE  /\ IsFiniteSet(S \cup {x}) /\ Cardinality(S \cup {x}) \in Nat
           /\ Cardinality(S \cup {x}) <= Cardinality(S) + 1
<1>1. Cardinality(S) \in Nat
  BY FS_CardinalityType
<1>2. /\ IsFiniteSet(S \cup {x})
      /\ Cardinality(S \cup {x}) = Cardinality(S) \/ Cardinality(S \cup {x}) = Cardinality(S) + 1
  BY FS_AddElement
<1> QED BY <1>1, <1>2

\* Store: the device that was counted as about to be pending is pending; one that
\* is known counts neither before nor after.
LEMMA RoomStore ==
    ASSUME Types, CheckInv, Types', CheckInv', \A v \in User : RoomOf(v),
           NEW c \in Checker, Store(c)
    PROVE  \A v \in User : RoomOf(v)'
<1>p. PICK u, n, i : u = check[c].user /\ n = check[c].map /\ i = check[c].ip
  OBVIOUS
<1>0. /\ u \in User /\ n \in Map /\ n # Nil /\ check[c].at = "store"
      /\ UNCHANGED <<setup, online, aliveList, old, aliveIPList>>
      /\ \A v \in User : online[v] = n => v = u
  BY <1>p, CheckFacts, LimiterAssumption DEF Store, Mapped
<1>1. Moves(c, "bucket")
  BY StoreMoves
<1>2. maps'[n] = maps[n] \cup {i} /\ \A q \in Map \ {n} : maps'[q] = maps[q]
  BY <1>0, <1>p DEF Store, Types, TypeOK
<1>k. \A v, j : Known(v, j)' <=> Known(v, j)
  BY <1>0, KnownSame
<1>s. \A v \in User : Storing(v)' = Storing(v) \ {c}
  BY <1>0, <1>1, <1>k DEF Storing, Moves, OthersSame
<1>3. ASSUME NEW v \in User, online[v] # n PROVE RoomOf(v)'
  <2>1. Pending(v)' = Pending(v)
    BY <1>0, <1>2, <1>3 DEF Pending, Types, TypeOK
  <2> QED BY <1>0, <1>3, <1>s, <2>1, NewSame, RoomKept
<1>4. ASSUME online[u] = n PROVE RoomOf(u)'
  <2>1. Pending(u) = maps[n] /\ Pending(u)' = Pending(u) \cup {i}
    BY <1>0, <1>2, <1>4 DEF Pending
  <2>2. CASE Known(u, i)
    <3>1. PendingNew(u)' = PendingNew(u)
      BY <1>k, <2>1, <2>2 DEF PendingNew
    <3> QED BY <1>0, <1>s, <3>1, RoomKept
  <2>3. CASE ~Known(u, i)
    <3>1. c \in Storing(u) /\ PendingNew(u)' = PendingNew(u) \cup {i}
      BY <1>0, <1>4, <1>k, <1>p, <2>1, <2>3 DEF Storing, PendingNew
    <3>2. /\ Cardinality(PendingNew(u)') \in Nat
          /\ Cardinality(PendingNew(u)') <= Cardinality(PendingNew(u)) + 1
      BY <1>0, <3>1, RoomTypes, AddOne
    <3>3. Cardinality(Storing(u)') = Cardinality(Storing(u)) - 1
      BY <1>0, <1>s, <3>1, RoomTypes, FS_RemoveElement
    <3>4. Room(u)' = Room(u)
      BY <1>0 DEF Room, Limit, Udp
    <3> QED BY <1>0, <3>2, <3>3, <3>4, RoomTypes DEF RoomOf
  <2> QED BY <2>2, <2>3
<1> QED BY <1>0, <1>3, <1>4

\* Roam: a new address is replaced, or there was none and the last one is allowed.
LEMMA RoomRoam ==
    ASSUME Types, CheckInv, Types', CheckInv', Fresh, Counted, \A v \in User : RoomOf(v),
           NEW c \in Checker, Roam(c)
    PROVE  \A v \in User : RoomOf(v)'
<1>p. PICK u, n : u = check[c].user /\ n = check[c].map
  OBVIOUS
<1>0. /\ u \in User /\ n \in Map /\ n # Nil /\ check[c].at = "decide"
      /\ UNCHANGED <<setup, online, aliveList, old, aliveIPList>> /\ check[c].known \in Nat
      /\ \A v \in User : online[v] = n => v = u
  BY <1>p, CheckFacts, LimiterAssumption DEF Roam, Mapped, Types, LocalsOK, Checks
<1>1. Moves(c, "bucket") \/ Moves(c, "store") \/ Moves(c, "undo")
  BY DecideMoves
<1>2. check[c].known >= aliveList[u]
  BY <1>0, <1>p DEF Counted, Mapped
<1>k. \A v, j : Known(v, j)' <=> Known(v, j)
  BY <1>0, KnownSame
<1>3. PICK unknown : unknown = {i \in maps[n] : ~Known(u, i)}
  OBVIOUS
<1>4. \/ unknown = {} /\ maps' = maps
      \/ \E i \in unknown : maps' = [maps EXCEPT ![n] = @ \ {i}]
  BY <1>3, <1>p DEF Roam
<1>5. \A q \in Map \ {n} : maps'[q] = maps[q]
  BY <1>0, <1>4 DEF Types, TypeOK
<1>6. ASSUME NEW v \in User, online[v] # n PROVE RoomOf(v)'
  <2>1. Pending(v)' = Pending(v)
    BY <1>0, <1>5, <1>6 DEF Pending, Types, TypeOK
  <2>2. Storing(v)' \subseteq Storing(v)
    BY <1>0, <1>1, <1>6, <1>k, <1>p DEF Storing, Moves, OthersSame
  <2> QED BY <1>0, <1>6, <2>1, <2>2, NewSame, RoomKept
<1>7. ASSUME online[u] = n PROVE RoomOf(u)'
  <2>1. PendingNew(u) = unknown /\ PendingNew(u)' = {i \in maps'[n] : ~Known(u, i)}
    BY <1>0, <1>3, <1>7, <1>k DEF Pending, PendingNew
  <2>2. Storing(u)' \subseteq Storing(u) \cup {c}
    BY <1>0, <1>1, <1>k DEF Storing, Moves, OthersSame
  <2>3. Room(u)' = Room(u) /\ Cardinality(setup'.checkers) = Cardinality(setup.checkers)
    BY <1>0 DEF Room, Limit, Udp
  <2>4. /\ Cardinality(Storing(u)') \in Nat
        /\ Cardinality(Storing(u)') <= Cardinality(Storing(u)) + 1
        /\ Cardinality(Storing(u)') <= Cardinality(setup.checkers)
    <3>1. Storing(u) \cup {c} \subseteq setup.checkers
      BY <1>0, CheckFacts DEF Storing
    <3>2. IsFiniteSet(setup.checkers)
      BY LimiterAssumption, FS_Subset DEF Types, LocalsOK
    <3>3. IsFiniteSet(Storing(u) \cup {c})
          /\ Cardinality(Storing(u) \cup {c}) <= Cardinality(Storing(u)) + 1
      BY <1>0, RoomTypes, AddOne
    <3>4. Storing(u)' \subseteq setup.checkers
      BY <2>2, <3>1
    <3>5. /\ Cardinality(Storing(u)') \in Nat
          /\ Cardinality(Storing(u)') <= Cardinality(Storing(u) \cup {c})
          /\ Cardinality(Storing(u)') <= Cardinality(setup.checkers)
      BY <2>2, <3>2, <3>3, <3>4, FS_Subset, FS_CardinalityType
    <3>6. Cardinality(Storing(u) \cup {c}) \in Nat
      BY <3>3, FS_CardinalityType
    <3> QED BY <1>0, <3>3, <3>5, <3>6, RoomTypes
  <2>5. ASSUME NEW i \in unknown, maps' = [maps EXCEPT ![n] = @ \ {i}] PROVE RoomOf(u)'
    <3>1. PendingNew(u)' = PendingNew(u) \ {i} /\ i \in PendingNew(u)
      BY <1>0, <1>3, <2>1, <2>5 DEF Types, TypeOK
    <3>2. Cardinality(PendingNew(u)') = Cardinality(PendingNew(u)) - 1
          /\ Cardinality(PendingNew(u)') \in Nat
      BY <1>0, <3>1, RoomTypes, FS_RemoveElement, FS_CardinalityType
    <3> QED BY <1>0, <2>3, <2>4, <3>2, RoomTypes DEF RoomOf
  <2>6. ASSUME unknown = {}, maps' = maps PROVE RoomOf(u)'
    <3>1. PendingNew(u) = {} /\ PendingNew(u)' = {} /\ Cardinality(PendingNew(u)) = 0
          /\ Cardinality(PendingNew(u)') = 0
      BY <1>3, <2>1, <2>6, FS_EmptySet
    <3>2. CASE check'[c].at # "store"
      <4>1. Storing(u)' \subseteq Storing(u)
        BY <1>0, <1>1, <1>k, <3>2 DEF Storing, Moves, OthersSame
      <4> QED BY <1>0, <3>1, <4>1, RoomKept
    <3>3. CASE check'[c].at = "store"
      <4>1. Udp /\ Limit <= check[c].known
        BY <1>0, <1>p, <3>1, RoomTypes DEF Roam, HasRoom
      <4>2. Limit >= check[c].known
        BY <1>0, <1>p, <1>3, <2>6, <3>1, <3>3
           DEF Roam, Reject, Types, LocalsOK, Checks
      <4>3. Room(u) >= 1
        BY <1>0, <1>2, <4>1, <4>2, RoomTypes DEF Room
      <4> QED BY <1>0, <2>3, <2>4, <3>1, <4>3, RoomTypes DEF RoomOf
    <3> QED BY <3>2, <3>3
  <2> QED BY <1>4, <2>5, <2>6
<1> QED BY <1>0, <1>6, <1>7

\* GetMap: a new map is empty, and no connection has it yet.
LEMMA RoomGetMap ==
    ASSUME Types, CheckInv, Types', CheckInv', \A v \in User : RoomOf(v),
           NEW c \in Checker, NEW m \in Map, GetMap(c, m)
    PROVE  \A v \in User : RoomOf(v)'
<1>p. PICK u : u = check[c].user
  OBVIOUS
<1>0. u \in User /\ UNCHANGED <<setup, aliveList, old, aliveIPList>>
  BY <1>p, CheckFacts DEF GetMap
<1>1. check'[c].at = "decide" /\ OthersSame(c)
  BY GetMapFields
<1>2. CASE UNCHANGED <<online, maps>>
  BY <1>0, <1>1, <1>2, RoomSame DEF OthersSame
<1>3. CASE /\ m \in Unused /\ online' = [online EXCEPT ![u] = m]
           /\ maps' = [maps EXCEPT ![m] = {}]
  <2>1. /\ \A v \in User : online[v] # m
        /\ \A d \in Checker : check[d].map # m
    BY <1>3 DEF Unused
  <2>2. /\ online'[u] = m /\ \A v \in User \ {u} : online'[v] = online[v]
        /\ maps'[m] = {} /\ \A q \in Map \ {m} : maps'[q] = maps[q]
    BY <1>0, <1>3 DEF Types, TypeOK
  <2>3. Pending(u)' = {} /\ Storing(u)' = {}
    BY <1>1, <2>1, <2>2 DEF Pending, Storing, OthersSame
  <2>4. ASSUME NEW v \in User, v # u PROVE RoomOf(v)'
    <3>1. Pending(v)' = Pending(v)
      BY <2>1, <2>2, <2>4 DEF Pending, Types, TypeOK
    <3>2. Storing(v)' \subseteq Storing(v)
      BY <1>0, <1>1, <2>2, <2>4, StoringSame DEF OthersSame
    <3> QED BY <1>0, <2>4, <3>1, <3>2, NewSame, RoomKept
  <2> QED BY <2>3, <2>4, RoomEmpty
<1> QED BY <1>2, <1>3, <1>p, GetMapFields

\* Every step keeps RoomInv.
LEMMA RoomNext ==
    Types /\ CheckInv /\ KnownInv /\ RoomInv /\ Types' /\ CheckInv' /\ [Next]_vars => RoomInv'
<1> SUFFICES ASSUME Types, CheckInv, KnownInv, RoomInv, Types', CheckInv', [Next]_vars,
                    quiet'
             PROVE  Fresh' /\ Counted' /\ \A v \in User : RoomOf(v)'
  BY DEF RoomInv
<1>quiet. quiet /\ ~Sent /\ ~SetAliveSnapshot
  BY DEF Next, Enter, RejectUnknown, CheckStep, Count, Admit, Refuse, Roam, Undo,
         Store,
         TakeBucket, GetMap, ReportStep, Snapshot, Sent, DropMap, CommitDevice, Committed,
         SendFails, Expire, PullAlive, SetAliveSnapshot, PanelForget, OtherNode, SyncStep, DeleteUser,
         AddUser, UpdateUserInfo, DeleteBucket, histVars, stateVars, vars
<1>0. Fresh /\ Counted /\ \A v \in User : RoomOf(v)
  BY <1>quiet DEF RoomInv
<1>commit. rep.at # "commit" /\ rep.drop = Nil
  BY <1>0 DEF Fresh, KnownInv
<1>step. ASSUME NEW c \in Checker, OthersSame(c), UNCHANGED <<rep, old, aliveIPList, aliveList>>,
                check'[c].at \in Mapped \cup {"map"} =>
                   check'[c].known >= aliveList[check'[c].user]
         PROVE  Fresh' /\ Counted'
  BY <1>step, <1>0 DEF Fresh, Counted, OthersSame
<1>same. ASSUME check' = check, UNCHANGED <<aliveIPList, aliveList, setup, online, maps>>,
                rep'.at # "commit", old' = old
         PROVE  Fresh' /\ Counted' /\ \A v \in User : RoomOf(v)'
  <2>1. Fresh' /\ Counted'
    BY <1>same, <1>0 DEF Fresh, Counted
  <2> QED BY <1>same, <1>0, <2>1, RoomSame
<1>enter. ASSUME NEW c \in setup.checkers, NEW u, NEW i, Enter(c, u, i)
          PROVE  Fresh' /\ Counted' /\ \A v \in User : RoomOf(v)'
  <2>1. c \in Checker
    BY LimiterAssumption DEF Types, LocalsOK
  <2>2. UNCHANGED <<setup, rep, old, aliveIPList, aliveList, online, maps>>
    BY <1>enter DEF Enter, stateVars
  <2>3. check'[c].at = "count" /\ OthersSame(c)
    BY <1>enter, <2>1, EnterFields
  <2>4. Fresh' /\ Counted'
    BY <1>step, <2>1, <2>2, <2>3 DEF Mapped
  <2> QED BY <1>0, <2>1, <2>2, <2>3, <2>4, RoomSame DEF OthersSame
<1>count. ASSUME NEW c \in Checker, Count(c)
          PROVE  Fresh' /\ Counted' /\ \A v \in User : RoomOf(v)'
  <2>1. UNCHANGED <<setup, rep, old, aliveIPList, aliveList, online, maps>>
    BY <1>count DEF Count, stateVars
  <2>2. /\ check'[c].at = "map" /\ OthersSame(c) /\ check'[c].user = check[c].user
        /\ check'[c].known = aliveList[check[c].user] + RecentReported(check[c].user)
    BY <1>count, CountFields
  <2>3. check'[c].known >= aliveList[check[c].user]
    <3>1. aliveList[check[c].user] \in Nat
      BY <1>count, CheckFacts DEF Count, Types, TypeOK
    <3> QED BY <2>2, <3>1, RecentType
  <2>4. Fresh' /\ Counted'
    BY <1>step, <2>1, <2>2, <2>3
  <2> QED BY <1>0, <2>1, <2>2, <2>4, RoomSame DEF OthersSame
<1>getmap. ASSUME NEW c \in Checker, NEW m \in Map, GetMap(c, m)
           PROVE  Fresh' /\ Counted' /\ \A v \in User : RoomOf(v)'
  <2>1. UNCHANGED <<rep, old, aliveIPList, aliveList>> /\ check[c].at = "map"
    BY <1>getmap DEF GetMap
  <2>2. /\ OthersSame(c) /\ check'[c].user = check[c].user
        /\ check'[c].known = check[c].known
    BY <1>getmap, GetMapFields
  <2>3. Fresh' /\ Counted'
    BY <1>step, <1>0, <2>1, <2>2 DEF Counted
  <2> QED BY <1>0, <1>getmap, <2>3, RoomGetMap
<1>decide. ASSUME NEW c \in Checker, Admit(c) \/ Refuse(c) \/ Roam(c) \/ Store(c)
           PROVE  Fresh' /\ Counted' /\ \A v \in User : RoomOf(v)'
  <2>1. UNCHANGED <<rep, old, aliveIPList, aliveList>> /\ check[c].at \in Mapped
    BY <1>decide DEF Admit, Refuse, Roam, Store, Mapped, stateVars
  <2>2. OthersSame(c) /\ check'[c].user = check[c].user /\ check'[c].known = check[c].known
    BY <1>decide, DecideMoves, StoreMoves DEF Moves
  <2>3. Fresh' /\ Counted'
    BY <1>step, <1>0, <2>1, <2>2 DEF Counted
  <2>4. CASE Refuse(c)
    <3>1. Moves(c, "undo") /\ UNCHANGED <<setup, online, maps, aliveList, old, aliveIPList>>
      BY <2>4, MoveFields DEF Refuse, Reject, stateVars
    <3> QED BY <1>0, <2>3, <3>1, RoomSame DEF Moves, OthersSame
  <2> QED BY <1>0, <1>decide, <2>3, <2>4, RoomAdmit, RoomRoam, RoomStore
<1>end. ASSUME NEW c \in Checker, Undo(c) \/ TakeBucket(c)
        PROVE  Fresh' /\ Counted' /\ \A v \in User : RoomOf(v)'
  <2>1. UNCHANGED <<setup, maps, rep, old, aliveIPList, aliveList>>
    BY <1>end DEF Undo, TakeBucket
  <2>2. OthersSame(c) /\ check'[c].at = "idle"
    BY <1>end, EndFields DEF Ends, Idle
  <2>3. Fresh' /\ Counted'
    BY <1>step, <2>1, <2>2 DEF Mapped
  <2>4. CASE online' = online
    BY <1>0, <2>1, <2>2, <2>3, <2>4, RoomSame DEF OthersSame
  <2>5. ASSUME RemoveMap(check[c].user), check[c].user \in User
        PROVE  \A v \in User : RoomOf(v)'
    <3>1. \A d \in Checker : check'[d].at = "store" => check'[d] = check[d]
      BY <2>2 DEF OthersSame
    <3> QED BY <1>0, <2>1, <2>5, <3>1, RoomRemove
  <2>6. check[c].user \in User
    BY <1>end, CheckFacts DEF Undo, TakeBucket
  <2> QED BY <1>end, <2>3, <2>4, <2>5, <2>6 DEF Undo, TakeBucket
<1>check. ASSUME NEW c \in Checker, CheckStep(c)
          PROVE  Fresh' /\ Counted' /\ \A v \in User : RoomOf(v)'
  BY <1>check, <1>count, <1>decide, <1>end, <1>getmap DEF CheckStep
<1>report. ASSUME ReportStep \/ SendFails
           PROVE  Fresh' /\ Counted' /\ \A v \in User : RoomOf(v)'
  <2>1. ASSUME NEW S, Snapshot(S)
        PROVE  rep'.at # "commit" /\ UNCHANGED <<stateVars, check>>
    BY <2>1 DEF Snapshot, NoRep
  <2>2. ASSUME SendFails PROVE rep'.at # "commit" /\ UNCHANGED <<stateVars, check>>
    BY <2>2 DEF SendFails, NoRep
  <2>3. rep'.at # "commit" /\ UNCHANGED <<stateVars, check>>
    BY <1>report, <1>quiet, <1>commit, <2>1, <2>2
       DEF ReportStep, DropMap, CommitDevice,
                                                      Committed
  <2> QED BY <1>same, <2>3 DEF stateVars
<1>expire. ASSUME Expire PROVE Fresh' /\ Counted' /\ \A v \in User : RoomOf(v)'
  BY <1>expire, <1>0 DEF Expire, Fresh
<1>delete. ASSUME NEW u \in setup.users, DeleteUser(u)
           PROVE  Fresh' /\ Counted' /\ \A v \in User : RoomOf(v)'
  <2>1. u \in User
    BY LimiterAssumption DEF Types, LocalsOK
  <2>2. UNCHANGED <<setup, maps, rep, old, aliveIPList, check>> /\ RemoveMap(u)
        /\ aliveList' = [aliveList EXCEPT ![u] = 0]
    BY <1>delete DEF DeleteUser
  <2>3. /\ \A v \in User \ {u} : aliveList'[v] = aliveList[v]
        /\ \A v \in User : aliveList[v] \in Nat /\ aliveList'[v] <= aliveList[v]
    BY <2>1, <2>2 DEF Types, TypeOK
  <2>4. Fresh'
    BY <1>0, <2>2 DEF Fresh
  <2>5. Counted'
    <3> SUFFICES ASSUME NEW c \in Checker, check[c].at \in Mapped \cup {"map"}
                 PROVE  check[c].known >= aliveList'[check[c].user]
      BY <2>2 DEF Counted
    <3>1. check[c].user \in User /\ check[c].known \in Nat
      BY CheckFacts DEF Mapped, Types, LocalsOK, Checks
    <3>2. check[c].known >= aliveList[check[c].user]
      BY <1>0 DEF Counted
    <3>3. aliveList'[check[c].user] \in Nat
      BY <3>1 DEF Types, TypeOK
    <3> QED BY <2>3, <3>1, <3>2, <3>3
  <2>6. \A v \in User : RoomOf(v)'
    BY <1>0, <2>1, <2>2, <2>3, RoomRemove
  <2> QED BY <2>4, <2>5, <2>6
<1>other. ASSUME \/ PullAlive \/ DeleteBucket \/ UNCHANGED vars
                 \/ \E u, i : PanelForget(u, i) \/ OtherNode(u, i)
                 \/ \E u, s : AddUser(u, s) \/ UpdateUserInfo(u, s)
          PROVE  Fresh' /\ Counted' /\ \A v \in User : RoomOf(v)'
  BY <1>other, <1>same, <1>commit DEF PullAlive, DeleteBucket, PanelForget, OtherNode, AddUser,
                                      UpdateUserInfo, vars, stateVars
<1> QED BY <1>enter, <1>check, <1>report, <1>expire, <1>delete, <1>other, <1>quiet
        DEF Next, SyncStep, RejectUnknown


-----------------------------------------------------------------------------
(* The theorems.                                                           *)

\* What all the other invariants rest on.
Inv == Types /\ CheckInv /\ KnownInv

\* It holds in every behaviour.
LEMMA InvHolds == Spec => []Inv
<1>1. Init => Inv
  BY TypesInit, CheckInit, KnownInit DEF Inv
<1>2. Inv /\ [Next]_vars => Inv'
  BY TypesNext, CheckNext, KnownNext DEF Inv
<1> QED BY <1>1, <1>2, PTL DEF Spec

\* Every variable keeps the shape the code gives it, and the device map of a user
\* (UserOnlineIP) is never that of another.
THEOREM TypeCorrect == Spec => []TypeOK
BY InvHolds, PTL DEF Inv, Types

\* An address that CheckLimit lets pass without counting it (isKnownAliveIP) was
\* reported for this same user, by this node or, where the panel sends addresses, by
\* another one, however reports, pulls and connections interleave.
THEOREM KnownIsReported == Spec => []KnownWasReported
<1>1. Inv => KnownWasReported
  <2> SUFFICES ASSUME Inv, NEW u \in User, NEW i \in IP, Known(u, i)
               PROVE  i \in reported[u] \/ (LooseMode /\ i \in abroad[u])
    BY DEF KnownWasReported
  <2> QED BY LimiterAssumption DEF Inv, KnownInv, Known
<1> QED BY <1>1, InvHolds, PTL

\* An admitted device counts (is in UserOnlineIP) until it is reported, replaced or
\* its user deleted, except where it was stored in a map that had left UserOnlineIP,
\* that a commit had found empty and was about to delete, or whose creator could
\* still be refused and delete it: the code loses a device in these ways only.
THEOREM AdmittedStaysCounted == Spec => []AdmittedCounts
<1>1. Init => AdmitInv
  BY AdmitInit
<1>2. Inv /\ AdmitInv /\ [Next]_vars => AdmitInv'
  BY AdmitNext DEF Inv
<1>3. AdmitInv => AdmittedCounts
  BY DEF AdmitInv, AdmittedCounts
<1> QED BY <1>1, <1>2, <1>3, InvHolds, PTL DEF Spec

\* The bucket that CheckLimit hands out has the user's present speed, unless the user
\* was changed by UpdateUser or UpdateUserInfo while one of its connections was being
\* set up.
THEOREM BucketSpeed == Spec => []BucketHasSpeed
<1>1. Init => BucketInv
  BY BucketInit
<1>2. Inv /\ BucketInv /\ [Next]_vars => BucketInv'
  BY BucketNext DEF Inv
<1>3. BucketInv => BucketHasSpeed
  BY DEF BucketInv
<1> QED BY <1>1, <1>2, <1>3, InvHolds, PTL DEF Spec

\* However many connections pass CheckLimit at the same time, up to the node's first
\* report or pull the new devices of a user that are pending exceed its room by less
\* than the number of these connections, and are none where there is no room.
THEOREM OvershootIsBounded == Spec => []PendingBounded
<1>1. Init => RoomInv
  BY RoomInit
<1>2. Inv /\ Inv' /\ RoomInv /\ [Next]_vars => RoomInv'
  BY RoomNext DEF Inv
<1>3. Inv /\ RoomInv => PendingBounded
  <2> SUFFICES ASSUME Types, CheckInv, RoomInv, quiet, NEW u \in User
               PROVE  Cardinality(PendingNew(u)) <=
                         IF Room(u) = 0 THEN 0
                         ELSE Room(u) + Cardinality(setup.checkers) - 1
    BY DEF Inv, PendingBounded
  <2>1. RoomOf(u)
    BY DEF RoomInv
  <2> QED BY <2>1, RoomTypes DEF RoomOf
<1> QED BY <1>1, <1>2, <1>3, InvHolds, PTL DEF Spec

=============================================================================
