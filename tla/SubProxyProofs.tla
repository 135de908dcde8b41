--------------------------- MODULE SubProxyProofs ---------------------------
(***************************************************************************)
(* Proofs about SubProxy, for any configurations, addresses, number of     *)
(* servers and number of faults.                                           *)
(***************************************************************************)
EXTENDS SubProxy, TLAPS

-----------------------------------------------------------------------------
(* The invariants.                                                         *)

\* The manager holds servers that have not ended and were not told to shut down, each
\* of its kind, and only where no Apply is under way; what it gave up is in old until
\* Shutdown was called.
HoldInv ==
    /\ server # Nil => at[server] # "ended" /\ what[server].kind = "main"
    /\ httpServer # Nil => at[httpServer] # "ended" /\ what[httpServer].kind = "http"
    /\ Held \cap down = {}
    /\ pc # "idle" => Held = {}
    /\ pc \in {"idle", "start", "closed"} => old = <<>>
    /\ \A i \in down : at[i] \notin {"serving", "ended"}

\* A configuration that asks for a proxy.
Usable(c) == ~Invalid(c) /\ ~Disabled(c)

\* Servers have usable configurations: those held have the last one, as it was
\* normalized, whose fingerprint is known; a proxy that is being replaced has another
\* one.  A name for a domain is kept as it is.
ConfigInv ==
    /\ \A i \in Server : at[i] # "ended" => Usable(what[i].cfg)
    /\ \A i \in Held : what[i].cfg = cfg
    /\ server # Nil => fingerprint = cfg
    /\ given.domain = "name" => cfg = given
    /\ pc \in {"replace", "start"} \/ server # Nil => Usable(cfg)
    /\ pc = "close" => ~Usable(cfg)
    /\ pc = "replace" =>
          \A i \in ToSet(old) : what[i].kind = "main" => what[i].cfg # cfg

\* The status says what the manager holds, and while the old servers are shut down it
\* says that there is none.
StatusInv ==
    /\ pc = "idle" => /\ status.running <=> server # Nil
                      /\ status.status = "running" <=> server # Nil
    /\ pc = "close" => ~status.running /\ status.status # "running"
    /\ pc = "start" /\ ready.need => cert = "none"
    /\ server # Nil /\ status.need => ~what[server].tls

\* A server that has not ended and was not told to shut down is held, about to be shut
\* down, or was lost by setError.  It must be so before the server opens its address.
StrayInv ==
    \A i \in Server \ down :
        at[i] # "ended" => i \in Held \cup ToSet(old) \/ what[i].lost

-----------------------------------------------------------------------------
(* Types, by group of variables.                                           *)

Running == [kind: {"main", "http"}, addr: Addr, cfg: Normalized, tls: BOOLEAN, lost: BOOLEAN]
Places  == {"ready", "checked", "opened", "serving", "failed", "ended"}

ManagerOK == /\ server \in Server \cup {Nil} /\ httpServer \in Server \cup {Nil}
             /\ fingerprint \in Normalized \cup {Nil}
             /\ status \in Statuses
LoopOK == /\ pc \in {"idle", "close", "replace", "start", "exit", "closed"}
          /\ given \in Config /\ cfg \in Normalized
          /\ old \in Seq(Server) /\ Len(old) <= 2
          /\ ready \in [err: BOOLEAN, need: BOOLEAN]
FilesOK == cert \in {"none", "good", "bad"} /\ key \in BOOLEAN
ServersOK == /\ at \in [Server -> Places] /\ down \subseteq Server
             /\ what \in [Server -> Running \cup {NoServer}]
             /\ \A i \in Server : what[i] = NoServer <=> at[i] = "ended"
WorldOK == foreign \subseteq Addr /\ faults \in 0..MaxFaults

\* The groups together are TypeOK.
LEMMA TypeGroups == TypeOK <=> ManagerOK /\ LoopOK /\ FilesOK /\ ServersOK /\ WorldOK
BY DEF TypeOK, ManagerOK, LoopOK, FilesOK, ServersOK, WorldOK, Running, Places

\* No server is none of the running ones.
LEMMA NoServerNotRunning == NoServer \notin Running
BY DEF NoServer, Running

\* The fields of a configuration.
LEMMA ConfigType ==
    ASSUME NEW c \in Normalized
    PROVE  /\ c.enabled \in BOOLEAN /\ c.profiles \in {"good", "bad", "none"}
           /\ c.https \in Addr /\ c.http \in Addr \cup {NoAddr}
           /\ c.pem \in {"none", "good", "bad"} /\ c.fallback \in BOOLEAN
<1>1. PICK b \in Config : c \in Normal(b)
  BY DEF Normalized
<1>2. PICK d \in Domains(b) : c = [b EXCEPT !.domain = d]
  BY <1>1 DEF Normal
<1> QED BY <1>2, SubProxyAssumption

\* A name for a domain, and the domain of a disabled proxy, are kept.
LEMMA NameKept ==
    ASSUME NEW c \in Config, c.domain = "name" \/ ~c.enabled
    PROVE  Normal(c) = {c}
<1>1. c \in [enabled: BOOLEAN, profiles: {"good", "bad", "none"},
            https: Addr, http: Addr \cup {NoAddr}, domain: {"name", "ipv6", "none"},
            pem: {"none", "good", "bad"}, fallback: BOOLEAN]
  BY SubProxyAssumption
<1>2. [c EXCEPT !.domain = c.domain] = c
  BY <1>1
<1>3. Domains(c) = {c.domain}
  BY DEF Domains
<1> QED BY <1>2, <1>3 DEF Normal

\* A server goes on.
LEMMA MoveType ==
    ASSUME ServersOK, NEW i \in Server, NEW to \in Places, Move(i, to),
           at[i] # "ended"
    PROVE  ServersOK'
<1>1. at' \in [Server -> Places] /\ down' \subseteq Server
  BY DEF Move, ServersOK
<1>2. what' \in [Server -> Running \cup {NoServer}]
  BY DEF Move, ServersOK
<1>3. ASSUME NEW j \in Server PROVE what'[j] = NoServer <=> at'[j] = "ended"
  <2>1. CASE j = i
    BY <2>1 DEF Move, ServersOK
  <2>2. CASE j # i
    BY <2>2 DEF Move, ServersOK
  <2> QED BY <2>1, <2>2
<1> QED BY <1>1, <1>2, <1>3 DEF ServersOK

\* What the manager gives up: at most a main server, then a challenge server.
LEMMA TakeOld ==
    ASSUME ManagerOK, Take
    PROVE  /\ old' \in Seq(Server) /\ Len(old') <= 2
           /\ ToSet(old') = Held
           /\ server' = Nil /\ httpServer' = Nil /\ fingerprint' = Nil
<1>0. server \in Server \cup {Nil} /\ httpServer \in Server \cup {Nil} /\ Nil \notin Server
  BY SubProxyAssumption DEF ManagerOK
<1>1. CASE server = Nil /\ httpServer = Nil
  <2>1. old' = <<>> /\ Held = {}
    BY <1>0, <1>1 DEF Take, Held
  <2> QED BY <2>1, <1>0 DEF Take, ToSet
<1>2. CASE server = Nil /\ httpServer # Nil
  <2>1. old' = <<httpServer>> /\ Held = {httpServer}
    BY <1>0, <1>2 DEF Take, Held
  <2> QED BY <2>1, <1>0, <1>2 DEF Take, ToSet
<1>3. CASE server # Nil /\ httpServer = Nil
  <2>1. old' = <<server>> /\ Held = {server}
    BY <1>0, <1>3 DEF Take, Held
  <2> QED BY <2>1, <1>0, <1>3 DEF Take, ToSet
<1>4. CASE server # Nil /\ httpServer # Nil
  <2>1. Held = {server, httpServer}
    BY <1>0, <1>4 DEF Held
  <2>2. old' = <<server>> \o <<httpServer>> /\ <<server>> \in Seq(Server)
        /\ <<httpServer>> \in Seq(Server)
    BY <1>0, <1>4 DEF Take
  <2>3. /\ old' \in Seq(Server) /\ Len(old') = 2
        /\ old'[1] = server /\ old'[2] = httpServer
    BY <2>2
  <2>4. DOMAIN old' = {1, 2}
    BY <2>3
  <2>5. ToSet(old') = {server, httpServer}
    BY <2>3, <2>4 DEF ToSet
  <2>6. server' = Nil /\ httpServer' = Nil /\ fingerprint' = Nil
    BY DEF Take
  <2> QED BY <2>1, <2>3, <2>5, <2>6
<1> QED BY <1>1, <1>2, <1>3, <1>4

\* The types hold at the start.
LEMMA TypeInit == Init => TypeOK
<1> SUFFICES ASSUME Init PROVE TypeOK
  OBVIOUS
<1>1. ManagerOK
  BY DEF Init, ManagerOK, NoStatus, Statuses
<1>2. LoopOK
  <2>1. old \in Seq(Server) /\ Len(old) <= 2
    BY DEF Init
  <2>2. ready \in [err: BOOLEAN, need: BOOLEAN]
    BY DEF Init, NoReady
  <2>3. given \in Config /\ cfg \in Normalized
    BY DEF Init, Normalized
  <2> QED BY <2>1, <2>2, <2>3 DEF Init, LoopOK
<1>3. ServersOK
  BY DEF Init, ServersOK, Places
<1>4. FilesOK
  BY DEF Init, FilesOK
<1>5. WorldOK
  BY SubProxyAssumption DEF Init, WorldOK
<1> QED BY <1>1, <1>2, <1>3, <1>4, <1>5, TypeGroups

\* The step Start, with its two servers.
MainServer == [kind |-> "main", addr |-> cfg.https, cfg |-> cfg, tls |-> Readable,
               lost |-> FALSE]
HttpServer == [kind |-> "http", addr |-> cfg.http, cfg |-> cfg, tls |-> FALSE, lost |-> FALSE]

StartWith(main, http) ==
    /\ server' = IF CanServe THEN main ELSE server
    /\ httpServer' = IF cfg.http # NoAddr THEN http ELSE Nil
    /\ what' \in [Server -> {what[i] : i \in Server} \cup {MainServer, HttpServer}]
    /\ at' \in [Server -> {at[i] : i \in Server} \cup {"ready"}]
    /\ \A i \in Server : i \notin {main, http} => what'[i] = what[i] /\ at'[i] = at[i]
    /\ IF CanServe THEN what'[main] = MainServer /\ at'[main] = "ready"
                   ELSE what'[main] = what[main] /\ at'[main] = at[main]
    /\ IF cfg.http # NoAddr THEN what'[http] = HttpServer /\ at'[http] = "ready"
                            ELSE what'[http] = what[http] /\ at'[http] = at[http]

\* Start takes two free numbers and leaves the servers of the others alone.
LEMMA StartSteps ==
    ASSUME Start
    PROVE  \E main \in Free, http \in Free : main # http /\ StartWith(main, http)
<1> DEFINE New(main, http) == (IF CanServe THEN {main} ELSE {})
                                 \cup (IF cfg.http # NoAddr THEN {http} ELSE {})
<1>1. PICK main \in Free, http \in Free :
        /\ main # http
        /\ server' = IF CanServe THEN main ELSE server
        /\ httpServer' = IF cfg.http # NoAddr THEN http ELSE Nil
        /\ at' = [i \in Server |-> IF i \in New(main, http) THEN "ready" ELSE at[i]]
        /\ what' = [i \in Server |-> IF i \notin New(main, http) THEN what[i]
                                     ELSE IF i = main THEN MainServer ELSE HttpServer]
  BY DEF Start, MainServer, HttpServer
<1>2. main \in Server /\ http \in Server /\ main # http
  BY <1>1 DEF Free
<1>3. /\ server' = IF CanServe THEN main ELSE server
      /\ httpServer' = IF cfg.http # NoAddr THEN http ELSE Nil
  BY <1>1
<1>4. /\ what' \in [Server -> {what[i] : i \in Server} \cup {MainServer, HttpServer}]
      /\ at' \in [Server -> {at[i] : i \in Server} \cup {"ready"}]
  BY <1>1
<1>5. \A i \in Server : i \notin {main, http} => what'[i] = what[i] /\ at'[i] = at[i]
  BY <1>1
<1>6. IF CanServe THEN what'[main] = MainServer /\ at'[main] = "ready"
                  ELSE what'[main] = what[main] /\ at'[main] = at[main]
  BY <1>1, <1>2
<1>7. IF cfg.http # NoAddr THEN what'[http] = HttpServer /\ at'[http] = "ready"
                           ELSE what'[http] = what[http] /\ at'[http] = at[http]
  BY <1>1, <1>2
<1> QED BY <1>2, <1>3, <1>4, <1>5, <1>6, <1>7 DEF StartWith

\* Every step keeps the types.
LEMMA TypeNext == TypeOK /\ HoldInv /\ [Next]_vars => TypeOK'
<1> SUFFICES ASSUME TypeOK, HoldInv, [Next]_vars PROVE TypeOK'
  OBVIOUS
<1>type. ManagerOK /\ LoopOK /\ FilesOK /\ ServersOK /\ WorldOK
  BY TypeGroups
<1>goal. ASSUME ManagerOK', LoopOK', FilesOK', ServersOK', WorldOK' PROVE TypeOK'
  BY <1>goal DEF TypeOK, ManagerOK, LoopOK, FilesOK, ServersOK, WorldOK, Running,
                 Places
<1>m. UNCHANGED manager => ManagerOK'
  BY <1>type DEF manager, ManagerOK
<1>l. UNCHANGED loop => LoopOK'
  BY <1>type DEF loop, LoopOK
<1>f. UNCHANGED files => FilesOK'
  BY <1>type DEF files, FilesOK
<1>s. UNCHANGED servers => ServersOK'
  BY <1>type DEF servers, ServersOK
<1>w. UNCHANGED world => WorldOK'
  BY <1>type DEF world, WorldOK
<1>status. status \in Statuses
           => /\ [status EXCEPT !.err = TRUE] \in Statuses
              /\ [status EXCEPT !.running = FALSE, !.status = "error", !.err = TRUE] \in Statuses
              /\ [status EXCEPT !.running = FALSE,
                                !.status = IF @ = "running" THEN "stopped" ELSE @] \in Statuses
  BY DEF Statuses
<1>1. ASSUME NEW c \in Config, Apply(c) PROVE TypeOK'
  <2>1. PICK n \in Normal(c) :
           /\ cfg' = n
           /\ IF Invalid(n) \/ Disabled(n) THEN ApplyOff(n) ELSE ApplySame(n) \/ ApplyNew(n)
    BY <1>1 DEF Apply
  <2>2. n \in Normalized
    BY DEF Normalized
  <2>3. ManagerOK'
    <3>1. CASE ApplyOff(n)
      <4>0. Invalid(n) \in BOOLEAN
        BY DEF Invalid
      <4>1. status' \in Statuses
        BY <3>1, <4>0 DEF ApplyOff, Statuses, NoStatus
      <4> QED BY <3>1, <4>1, <1>type, TakeOld DEF ApplyOff, ManagerOK
    <3>2. CASE ApplySame(n)
      BY <3>2, <1>m DEF ApplySame
    <3>3. CASE ApplyNew(n)
      BY <3>3, <1>type, TakeOld DEF ApplyNew, ManagerOK
    <3> QED BY <2>1, <3>1, <3>2, <3>3
  <2>4. LoopOK'
    <3>1. old' \in Seq(Server) /\ Len(old') <= 2
      BY <2>1, <1>type, TakeOld DEF ApplyOff, ApplySame, ApplyNew, LoopOK
    <3>2. pc' \in {"idle", "close", "replace", "start", "exit", "closed"}
      BY <2>1, <1>type DEF ApplyOff, ApplySame, ApplyNew, LoopOK
    <3> QED BY <1>1, <2>1, <2>2, <3>1, <3>2, <1>type DEF Apply, LoopOK
  <2> QED BY <1>1, <2>3, <2>4, <1>f, <1>s, <1>w, <1>goal DEF Apply
<1>2. CASE ShutdownNext
  <2>1. /\ old \in Seq(Server) /\ old # <<>> /\ Head(old) \in Server /\ Tail(old) \in Seq(Server)
        /\ Len(Tail(old)) <= 2
    BY <1>2, <1>type DEF ShutdownNext, LoopOK
  <2>2. LoopOK'
    BY <1>2, <2>1, <1>type DEF ShutdownNext, LoopOK
  <2>3. ServersOK'
    <3> PICK i \in Server : i = Head(old)
      BY <2>1
    <3>1. Shutdown(i)
      BY <1>2 DEF ShutdownNext
    <3>2. CASE at[i] = "serving"
      BY <3>1, <3>2, <1>type, MoveType DEF Shutdown, Places
    <3>3. CASE at[i] = "ended"
      BY <3>1, <3>3, <1>s DEF Shutdown
    <3>4. CASE at[i] \notin {"serving", "ended"}
      BY <3>1, <3>4, <1>type DEF Shutdown, ServersOK
    <3> QED BY <3>2, <3>3, <3>4
  <2> QED BY <1>2, <2>2, <2>3, <1>m, <1>f, <1>w, <1>goal DEF ShutdownNext
<1>3. CASE Closed
  <2>1. LoopOK'
    BY <1>3, <1>type DEF Closed, LoopOK
  <2> QED BY <1>3, <2>1, <1>m, <1>f, <1>s, <1>w, <1>goal DEF Closed
<1>4. CASE Prepare
  <2>1. PICK w, k \in BOOLEAN :
           /\ faults' = faults + (IF w /\ k THEN 0 ELSE 1) /\ faults' <= MaxFaults
           /\ cert' = IF cfg.pem # "none" /\ w THEN cfg.pem ELSE cert
           /\ key'  = (key \/ (cfg.domain # "none" /\ k))
           /\ ready' = [err  |-> (cfg.pem # "none" /\ ~w) \/ (cfg.domain # "none" /\ ~key'),
                        need |-> cfg.domain # "none" /\ key' /\ cert' = "none"]
    BY <1>4 DEF Prepare
  <2>2. cfg.pem \in {"none", "good", "bad"} /\ key \in BOOLEAN
    BY <1>type, ConfigType DEF LoopOK, FilesOK
  <2>3. FilesOK'
    BY <2>1, <2>2, <1>type DEF FilesOK
  <2>4. ready' \in [err: BOOLEAN, need: BOOLEAN]
    BY <2>1, <2>2
  <2>5. LoopOK'
    BY <1>4, <2>4, <1>type DEF Prepare, LoopOK
  <2>6. WorldOK'
    BY <1>4, <2>1, <1>type, SubProxyAssumption DEF Prepare, WorldOK
  <2> QED BY <1>4, <2>3, <2>5, <2>6, <1>m, <1>s, <1>goal DEF Prepare
<1>5. CASE Start
  <2>1. status' \in Statuses
    <3>1. status' \in {Merge([NoStatus EXCEPT !.status = "running", !.running = TRUE]),
                       Merge([NoStatus EXCEPT !.status = "error", !.err = TRUE])}
      BY <1>5 DEF Start
    <3>2. ready.need \in BOOLEAN /\ ready.err \in BOOLEAN
      BY <1>type DEF LoopOK
    <3> QED BY <3>1, <3>2 DEF Merge, NoStatus, Statuses
  <2>2. PICK main \in Free, http \in Free : main # http /\ StartWith(main, http)
    BY <1>5, StartSteps
  <2>3. main \in Server /\ http \in Server
    BY DEF Free
  <2>4. /\ MainServer \in Running
        /\ cfg.http # NoAddr => HttpServer \in Running
    BY <1>type, ConfigType DEF MainServer, HttpServer, Running, LoopOK, Readable,
                               FilesOK
  <2>5. ManagerOK'
    BY <1>5, <2>1, <2>2, <2>3, <1>type DEF Start, StartWith, ManagerOK, LoopOK
  <2>6. LoopOK'
    BY <1>5, <1>type DEF Start, LoopOK, NoReady
  <2>7. ServersOK'
    <3>1. \A j \in Server : \/ what'[j] = what[j] /\ at'[j] = at[j]
                            \/ what'[j] \in Running /\ at'[j] = "ready"
      BY <2>2, <2>3, <2>4 DEF StartWith
    <3>2. down' = down /\ what' = [j \in Server |-> what'[j]] /\ at' = [j \in Server |-> at'[j]]
      BY <1>5, <2>2 DEF Start, StartWith
    <3>3. at' \in [Server -> Places] /\ what' \in [Server -> Running \cup {NoServer}]
      BY <3>1, <3>2, <1>type DEF ServersOK, Places
    <3> QED BY <3>1, <3>2, <3>3, <1>type, NoServerNotRunning DEF ServersOK
  <2> QED BY <1>5, <2>5, <2>6, <2>7, <1>f, <1>w, <1>goal DEF Start
<1>6. CASE Close
  <2>1. ManagerOK'
    BY <1>6, <1>type, <1>status, TakeOld DEF Close, ManagerOK
  <2>2. LoopOK'
    BY <1>6, <1>type, TakeOld DEF Close, LoopOK
  <2> QED BY <1>6, <2>1, <2>2, <1>f, <1>s, <1>w, <1>goal DEF Close
<1>7. ASSUME NEW i \in Server, Check(i) \/ Listen(i) \/ Track(i) PROVE TypeOK'
  <2>1. PICK to \in Places : Move(i, to) /\ at[i] # "ended"
    BY <1>7 DEF Check, Listen, Track, Places
  <2> QED BY <1>7, <2>1, <1>type, MoveType, <1>m, <1>l, <1>f, <1>w, <1>goal
          DEF Check, Listen, Track, Same
<1>8. ASSUME NEW i \in Server, AcceptFails(i) PROVE TypeOK'
  <2>1. ServersOK'
    BY <1>8, <1>type, MoveType DEF AcceptFails, Places
  <2>2. WorldOK'
    BY <1>8, <1>type, SubProxyAssumption DEF AcceptFails, WorldOK
  <2> QED BY <1>8, <2>1, <2>2, <1>m, <1>l, <1>f, <1>goal DEF AcceptFails, Same
<1>9. ASSUME NEW i \in Server, setError(i) PROVE TypeOK'
  <2>1. ManagerOK'
    BY <1>9, <1>type, <1>status DEF setError, ManagerOK
  <2>2. at' \in [Server -> Places] /\ down' \subseteq Server
    BY <1>9, <1>type DEF setError, ServersOK, Places
  <2>3. ASSUME NEW j \in Server
        PROVE  /\ what'[j] \in Running \cup {NoServer}
               /\ what'[j] = NoServer <=> at'[j] = "ended"
    <3>1. CASE j = i
      BY <1>9, <3>1, <1>type DEF setError, ServersOK
    <3>2. CASE j # i
      <4>1. what'[j] = (IF j \in Held THEN [what[j] EXCEPT !.lost = TRUE] ELSE what[j])
            /\ at'[j] = at[j]
        BY <1>9, <3>2, <1>type DEF setError, ServersOK
      <4>2. CASE what[j] = NoServer
        <5>1. j \notin Held
          BY <4>2, <1>type DEF HoldInv, Held, ServersOK
        <5> QED BY <4>1, <4>2, <5>1, <1>type DEF ServersOK
      <4>3. CASE what[j] # NoServer
        <5>1. what[j] \in Running /\ at[j] # "ended"
          BY <4>3, <1>type DEF ServersOK
        <5>2. what'[j] \in Running
          BY <4>1, <5>1 DEF Running
        <5> QED BY <4>1, <5>1, <5>2, NoServerNotRunning
      <4> QED BY <4>2, <4>3
    <3> QED BY <3>1, <3>2
  <2>4. what' = [j \in Server |-> what'[j]]
    BY <1>9 DEF setError
  <2>5. ServersOK'
    BY <2>2, <2>3, <2>4 DEF ServersOK
  <2> QED BY <1>9, <2>1, <2>5, <1>l, <1>f, <1>w, <1>goal DEF setError
<1>10. ASSUME NEW i \in Server, setHTTPError(i) PROVE TypeOK'
  <2>1. ServersOK'
    BY <1>10, <1>type, MoveType DEF setHTTPError, Places
  <2>2. ManagerOK'
    BY <1>10, <1>type, <1>status DEF setHTTPError, ManagerOK
  <2> QED BY <1>10, <2>1, <2>2, <1>l, <1>f, <1>w, <1>goal DEF setHTTPError
<1>11. ASSUME NEW a \in Addr, Occupy(a) \/ Vacate(a) PROVE TypeOK'
  <2>1. WorldOK'
    BY <1>11, <1>type, SubProxyAssumption DEF Occupy, Vacate, WorldOK
  <2> QED BY <1>11, <2>1, <1>m, <1>l, <1>f, <1>s, <1>goal DEF Occupy, Vacate, Same
<1>12. CASE UNCHANGED vars
  BY <1>12, <1>m, <1>l, <1>f, <1>s, <1>w, <1>goal DEF vars
<1> QED BY <1>1, <1>2, <1>3, <1>4, <1>5, <1>6, <1>7, <1>8, <1>9, <1>10, <1>11, <1>12
        DEF Next, ApplyStep, Goroutine

-----------------------------------------------------------------------------
(* What the manager holds.                                                 *)

\* A server that goes on leaves the others alone.
LEMMA MoveSteps ==
    ASSUME TypeOK, NEW i \in Server, NEW to \in Places, Move(i, to)
    PROVE  /\ at'[i] = to
           /\ to # "ended" => what' = what /\ down' = down
           /\ to = "ended" => what'[i] = NoServer /\ i \notin down'
           /\ \A j \in Server : j # i => /\ at'[j] = at[j] /\ what'[j] = what[j]
                                         /\ j \in down' <=> j \in down
BY DEF Move, TypeOK, Places

\* The steps of goroutines that report nothing, and where they lead.
Quiet(i, to) ==
    /\ at[i] # "ended" /\ Move(i, to) /\ Same
    /\ \/ to \in {"checked", "opened", "failed"}
       \/ to = "serving" /\ i \notin down
       \/ to = "ended" /\ i \in down

\* Every step is one of these.
LEMMA Steps ==
    ASSUME Next
    PROVE  \/ \E c \in Config : Apply(c)
           \/ ShutdownNext \/ Closed \/ Prepare \/ Start \/ Close
           \/ \E i \in Server, to \in Places : Quiet(i, to) /\ (at[i] = "serving" => to = "failed")
           \/ \E i \in Server : setError(i) \/ setHTTPError(i)
           \/ \E a \in Addr : Occupy(a) \/ Vacate(a)
<1>1. ASSUME NEW i \in Server, Check(i) \/ Listen(i) \/ Track(i) \/ AcceptFails(i)
      PROVE  \E to \in Places : Quiet(i, to) /\ (at[i] = "serving" => to = "failed")
  <2>1. CASE Check(i)
    BY <2>1 DEF Check, Quiet, Places
  <2>2. CASE Listen(i)
    BY <2>2 DEF Listen, Quiet, Places
  <2>3. CASE Track(i)
    BY <2>3 DEF Track, Quiet, Places
  <2>4. CASE AcceptFails(i)
    BY <2>4 DEF AcceptFails, Quiet, Places
  <2> QED BY <1>1, <2>1, <2>2, <2>3, <2>4
<1> QED BY <1>1 DEF Next, ApplyStep, Goroutine

\* A configuration is applied: off, as it was, or anew.
LEMMA ApplySteps ==
    ASSUME TypeOK, NEW c \in Config, Apply(c)
    PROVE  /\ pc = "idle" /\ given' = c /\ cfg' \in Normal(c)
           /\ UNCHANGED servers /\ UNCHANGED ready /\ UNCHANGED files
           /\ \/ ~Usable(cfg') /\ Take /\ pc' = "close" /\ ApplyOff(cfg')
              \/ /\ Usable(cfg') /\ server # Nil /\ fingerprint = cfg'
                 /\ UNCHANGED <<manager, old, pc>>
              \/ /\ Usable(cfg') /\ ~(server # Nil /\ fingerprint = cfg')
                 /\ Take /\ pc' = "replace" /\ status' = status
<1>1. PICK n \in Normal(c) :
         /\ cfg' = n
         /\ IF Invalid(n) \/ Disabled(n) THEN ApplyOff(n) ELSE ApplySame(n) \/ ApplyNew(n)
  BY DEF Apply
<1>2. CASE Invalid(n) \/ Disabled(n)
  BY <1>1, <1>2 DEF Apply, ApplyOff, Usable, files
<1>3. CASE ~(Invalid(n) \/ Disabled(n)) /\ ApplySame(n)
  BY <1>1, <1>3 DEF Apply, ApplySame, Usable, files
<1>4. CASE ~(Invalid(n) \/ Disabled(n)) /\ ApplyNew(n)
  BY <1>1, <1>4 DEF Apply, ApplyNew, Usable, files
<1> QED BY <1>1, <1>2, <1>3, <1>4

\* One of the servers that were given up is shut down.
LEMMA ShutdownSteps ==
    ASSUME TypeOK, ShutdownNext
    PROVE  /\ pc \in {"close", "replace", "exit"} /\ UNCHANGED <<manager, pc, given, cfg, ready, files>>
           /\ \E i \in Server :
                /\ ToSet(old) \subseteq ToSet(old') \cup {i} /\ ToSet(old') \subseteq ToSet(old)
                /\ i \in ToSet(old)
                /\ \/ at[i] = "serving" /\ Move(i, "ended")
                   \/ at[i] = "ended" /\ UNCHANGED servers
                   \/ /\ at[i] \notin {"serving", "ended"} /\ down' = down \cup {i}
                      /\ UNCHANGED <<at, what>>
<1>0. /\ old \in Seq(Server) /\ old # <<>> /\ old' = Tail(old) /\ Shutdown(Head(old))
      /\ Len(old) <= 2
  BY DEF ShutdownNext, TypeOK
<1>1. Len(old) = 1 \/ Len(old) = 2
  <2>1. Len(old) \in Nat /\ Len(old) # 0 /\ Len(old) <= 2
    BY <1>0
  <2>2. \A l \in Nat : l # 0 /\ l <= 2 => l = 1 \/ l = 2
    OBVIOUS
  <2> QED BY <2>1, <2>2
<1>2. PICK i \in Server : i = Head(old) /\ i = old[1]
  BY <1>0, <1>1
<1>3. ToSet(old) \subseteq ToSet(old') \cup {i} /\ ToSet(old') \subseteq ToSet(old)
      /\ i \in ToSet(old)
  <2>1. CASE Len(old) = 1
    BY <1>0, <1>1, <1>2, <2>1 DEF ToSet
  <2>2. CASE Len(old) = 2
    <3>1. /\ DOMAIN old = {1, 2} /\ DOMAIN Tail(old) = {1} /\ Tail(old)[1] = old[2]
      BY <1>0, <1>1, <2>2
    <3> QED BY <1>0, <1>1, <1>2, <3>1 DEF ToSet
  <2> QED BY <1>0, <1>1, <2>1, <2>2
<1> QED BY <1>0, <1>1, <1>2, <1>3 DEF ShutdownNext, Shutdown, files

\* Nothing is held at the start.
LEMMA HoldInit == Init => HoldInv
BY DEF Init, HoldInv, Held

\* Every step keeps HoldInv.
LEMMA HoldNext == TypeOK /\ HoldInv /\ [Next]_vars => HoldInv'
<1> SUFFICES ASSUME TypeOK, HoldInv, [Next]_vars PROVE HoldInv'
  OBVIOUS
<1>type. /\ server \in Server \cup {Nil} /\ httpServer \in Server \cup {Nil} /\ Nil \notin Server
         /\ at \in [Server -> Places] /\ down \subseteq Server
  BY SubProxyAssumption DEF TypeOK, Places
<1>take. ASSUME Take, UNCHANGED servers, pc' \in {"close", "replace", "exit"} PROVE HoldInv'
  BY <1>take DEF Take, HoldInv, Held, servers
<1>same. ASSUME UNCHANGED <<server, httpServer, servers, pc, old>> PROVE HoldInv'
  BY <1>same DEF HoldInv, Held, servers
<1>1. ASSUME NEW c \in Config, Apply(c) PROVE HoldInv'
  BY <1>1, ApplySteps, <1>take, <1>same DEF manager
<1>2. CASE ShutdownNext
  <2>1. server = Nil /\ httpServer = Nil /\ UNCHANGED <<server, httpServer, pc>>
        /\ pc \in {"close", "replace", "exit"}
    BY <1>2, <1>type, ShutdownSteps DEF manager, HoldInv, Held
  <2>2. PICK i \in Server : \/ at[i] = "serving" /\ Move(i, "ended")
                            \/ at[i] = "ended" /\ UNCHANGED servers
                            \/ /\ at[i] \notin {"serving", "ended"} /\ down' = down \cup {i}
                               /\ UNCHANGED <<at, what>>
    BY <1>2, ShutdownSteps
  <2>3. \A j \in down' : at'[j] \notin {"serving", "ended"}
    <3>1. CASE at[i] = "serving" /\ Move(i, "ended")
      BY <3>1, <1>type DEF Move, HoldInv
    <3>2. CASE at[i] # "serving" \/ ~Move(i, "ended")
      BY <2>2, <3>2 DEF servers, HoldInv
    <3> QED BY <3>1, <3>2
  <2> QED BY <2>1, <2>3 DEF HoldInv, Held
<1>3. CASE Closed
  BY <1>3 DEF Closed, HoldInv, Held, manager, servers
<1>4. CASE Prepare
  BY <1>4 DEF Prepare, HoldInv, Held, manager, servers
<1>5. CASE Start
  <2>1. PICK main \in Free, http \in Free : main # http /\ StartWith(main, http)
    BY <1>5, StartSteps
  <2>2. main \in Server /\ http \in Server /\ at[main] = "ended" /\ at[http] = "ended"
    BY DEF Free
  <2>3. main \notin down /\ http \notin down
    BY <2>2 DEF HoldInv
  <2>4. server = Nil /\ httpServer = Nil /\ old = <<>> /\ old' = old /\ pc' = "idle" /\ down' = down
    BY <1>5, <1>type DEF Start, HoldInv, Held
  <2>5. \A j \in down : at'[j] = at[j]
    BY <2>1, <2>3, <1>type DEF StartWith
  <2>6. /\ server' # Nil => server' = main /\ at'[main] = "ready" /\ what'[main].kind = "main"
        /\ httpServer' # Nil => /\ httpServer' = http /\ at'[http] = "ready"
                                /\ what'[http].kind = "http"
    BY <2>1, <2>4 DEF StartWith, MainServer, HttpServer
  <2> QED BY <2>3, <2>4, <2>5, <2>6 DEF HoldInv, Held
<1>6. CASE Close
  BY <1>6, <1>take DEF Close
<1>7. ASSUME NEW i \in Server, NEW to \in Places, Quiet(i, to) PROVE HoldInv'
  <2>1. /\ at'[i] = to
        /\ to # "ended" => what' = what /\ down' = down
        /\ to = "ended" => i \notin down'
        /\ \A j \in Server : j # i => /\ at'[j] = at[j] /\ what'[j] = what[j]
                                      /\ j \in down' <=> j \in down
    BY <1>7, MoveSteps DEF Quiet
  <2>2. UNCHANGED <<server, httpServer, pc, old>>
    BY <1>7 DEF Quiet, Same, manager, loop
  <2>3. to = "ended" => i \notin {server, httpServer}
    BY <1>7, <1>type DEF Quiet, HoldInv, Held
  <2>4. ASSUME NEW j \in Server, j \in {server, httpServer}
        PROVE  at'[j] # "ended" /\ what'[j] = what[j] /\ j \notin down'
    <3>1. at[j] # "ended" /\ j \notin down
      BY <2>4, <1>type DEF HoldInv, Held
    <3> QED BY <2>1, <2>3, <2>4, <3>1
  <2>5. \A j \in down' : at'[j] \notin {"serving", "ended"}
    <3> SUFFICES ASSUME NEW j \in down' PROVE at'[j] \notin {"serving", "ended"}
      OBVIOUS
    <3>1. down' \subseteq down
      BY <1>7 DEF Quiet, Move
    <3>2. CASE j = i
      BY <1>7, <2>1, <3>1, <3>2 DEF Quiet
    <3>3. CASE j # i
      BY <2>1, <3>1, <3>3, <1>type DEF HoldInv
    <3> QED BY <3>2, <3>3
  <2>6. /\ server' # Nil => at'[server'] # "ended" /\ what'[server'].kind = "main"
        /\ httpServer' # Nil => at'[httpServer'] # "ended" /\ what'[httpServer'].kind = "http"
    BY <2>2, <2>4, <1>type DEF HoldInv
  <2>7. Held' = Held /\ \A j \in Held : j \notin down'
    BY <2>2, <2>4, <1>type DEF Held
  <2> QED BY <2>2, <2>5, <2>6, <2>7 DEF HoldInv
<1>8. ASSUME NEW i \in Server, setError(i) PROVE HoldInv'
  <2>1. server' = Nil /\ httpServer' = Nil /\ UNCHANGED <<pc, old>> /\ down' = down \ {i}
        /\ at' = [at EXCEPT ![i] = "ended"]
    BY <1>8 DEF setError, loop
  <2>2. \A j \in down' : at'[j] = at[j]
    BY <2>1, <1>type
  <2> QED BY <2>1, <2>2 DEF HoldInv, Held
<1>9. ASSUME NEW i \in Server, setHTTPError(i) PROVE HoldInv'
  <2>1. /\ what[i].kind = "http" /\ Move(i, "ended") /\ UNCHANGED <<server, pc, old>>
        /\ httpServer' = IF httpServer = i THEN Nil ELSE httpServer
    BY <1>9 DEF setHTTPError, loop
  <2>2. server # i /\ httpServer' # i
    BY <2>1, <1>type DEF HoldInv
  <2>3. /\ i \notin down'
        /\ \A j \in Server : j # i => /\ at'[j] = at[j] /\ what'[j] = what[j]
                                      /\ j \in down' <=> j \in down
    BY <2>1, MoveSteps DEF Places
  <2>4. down' \subseteq down
    BY <2>1 DEF Move
  <2>5. \A j \in down' : at'[j] \notin {"serving", "ended"}
    BY <2>3, <2>4, <1>type DEF HoldInv
  <2>6. server # Nil => at'[server] # "ended" /\ what'[server].kind = "main"
    BY <2>2, <2>3, <1>type DEF HoldInv
  <2>7. httpServer' # Nil => /\ at'[httpServer'] # "ended" /\ what'[httpServer'].kind = "http"
                             /\ httpServer' = httpServer
    BY <2>1, <2>2, <2>3, <1>type DEF HoldInv
  <2>8. Held' \subseteq Held
    BY <2>1 DEF Held
  <2> QED BY <2>1, <2>4, <2>5, <2>6, <2>7, <2>8 DEF HoldInv
<1>10. ASSUME NEW a \in Addr, Occupy(a) \/ Vacate(a) PROVE HoldInv'
  BY <1>10, <1>same DEF Occupy, Vacate, Same, manager, loop
<1>11. CASE UNCHANGED vars
  BY <1>11, <1>same DEF vars, manager, loop
<1>12. CASE Next
  BY <1>12, Steps, <1>1, <1>2, <1>3, <1>4, <1>5, <1>6, <1>7, <1>8, <1>9, <1>10
<1> QED BY <1>11, <1>12

-----------------------------------------------------------------------------
(* Which configuration the servers have.                                   *)

\* At the start there are no servers.
LEMMA ConfigInit == Init => ConfigInv
<1> SUFFICES ASSUME Init PROVE ConfigInv
  OBVIOUS
<1>1. given \in Config /\ cfg \in Normal(given)
  BY DEF Init
<1>2. given.domain = "name" => cfg = given
  BY <1>1, NameKept
<1> QED BY <1>2 DEF Init, ConfigInv, Held

\* A running server and what it is made of.
LEMMA RunningType ==
    ASSUME TypeOK, NEW i \in Server, at[i] # "ended"
    PROVE  what[i] \in Running /\ what[i].cfg \in Normalized /\ what[i].kind \in {"main", "http"}
<1>1. what[i] \in Running
  BY DEF TypeOK, Running
<1> QED BY <1>1 DEF Running

\* Every step keeps ConfigInv.
LEMMA ConfigNext == TypeOK /\ HoldInv /\ ConfigInv /\ [Next]_vars => ConfigInv'
<1> SUFFICES ASSUME TypeOK, HoldInv, ConfigInv, [Next]_vars PROVE ConfigInv'
  OBVIOUS
<1>type. /\ server \in Server \cup {Nil} /\ httpServer \in Server \cup {Nil} /\ Nil \notin Server
         /\ at \in [Server -> Places] /\ down \subseteq Server /\ old \in Seq(Server)
  BY SubProxyAssumption DEF TypeOK, Places
<1>old. \A j \in ToSet(old) : j \in Server
  BY <1>type DEF ToSet
<1>same. ASSUME UNCHANGED <<server, httpServer, fingerprint, servers, pc, given, cfg, old>>
         PROVE  ConfigInv'
  BY <1>same DEF ConfigInv, Held, servers
<1>1. ASSUME NEW c \in Config, Apply(c) PROVE ConfigInv'
  <2>1. /\ pc = "idle" /\ UNCHANGED <<at, what>>
        /\ \A i \in Server : at'[i] # "ended" => Usable(what'[i].cfg)
    BY <1>1, ApplySteps DEF servers, ConfigInv
  <2>n. given'.domain = "name" => cfg' = given'
    <3>1. given' = c /\ cfg' \in Normal(c)
      BY <1>1, ApplySteps
    <3> QED BY <3>1, NameKept
  <2>2. CASE ~Usable(cfg') /\ Take /\ pc' = "close"
    BY <2>1, <2>2, <2>n DEF Take, ConfigInv, Held
  <2>3. CASE Usable(cfg') /\ server # Nil /\ fingerprint = cfg'
             /\ UNCHANGED <<manager, old, pc>>
    <3>1. cfg' = cfg /\ Held' = Held
      BY <2>3 DEF ConfigInv, manager, Held
    <3> QED BY <2>1, <2>3, <2>n, <3>1 DEF ConfigInv, manager
  <2>4. CASE Usable(cfg') /\ ~(server # Nil /\ fingerprint = cfg') /\ Take
             /\ pc' = "replace"
    <3>1. ToSet(old') = Held /\ Held' = {} /\ server' = Nil
      BY <2>4, TakeOld, TypeGroups DEF Take, Held
    <3>2. ASSUME NEW i \in Held, what[i].kind = "main" PROVE what[i].cfg # cfg'
      <4>1. i = server /\ server # Nil /\ what[i].cfg = cfg /\ fingerprint = cfg
        BY <3>2, <1>type DEF Held, HoldInv, ConfigInv
      <4> QED BY <2>4, <4>1
    <3> QED BY <2>1, <2>4, <2>n, <3>1, <3>2 DEF ConfigInv
  <2> QED BY <1>1, ApplySteps, <2>2, <2>3, <2>4
<1>2. CASE ShutdownNext
  <2>1. UNCHANGED <<server, httpServer, fingerprint, pc, given, cfg>> /\ Held = {} /\ Held' = {}
    BY <1>2, ShutdownSteps DEF manager, HoldInv, Held
  <2>2. PICK i \in Server : /\ ToSet(old') \subseteq ToSet(old)
                            /\ \/ at[i] = "serving" /\ Move(i, "ended")
                               \/ at[i] = "ended" /\ UNCHANGED servers
                               \/ /\ at[i] \notin {"serving", "ended"} /\ down' = down \cup {i}
                                  /\ UNCHANGED <<at, what>>
    BY <1>2, ShutdownSteps
  <2>3. \A j \in Server : \/ what'[j] = what[j] /\ at'[j] = at[j]
                          \/ what'[j] = NoServer /\ at'[j] = "ended"
    <3>1. CASE at[i] = "serving" /\ Move(i, "ended")
      BY <3>1, MoveSteps DEF Places
    <3>2. CASE UNCHANGED <<at, what>>
      BY <3>2
    <3> QED BY <2>2, <3>1, <3>2 DEF servers
  <2>4. \A j \in Server : at'[j] # "ended" => Usable(what'[j].cfg)
    BY <2>3 DEF ConfigInv
  <2>5. pc' = "replace" =>
          \A j \in ToSet(old') :
             what'[j].kind = "main" => what'[j].cfg # cfg'
    BY <2>1, <2>2, <2>3, <1>old DEF ConfigInv, NoServer
  <2> QED BY <2>1, <2>4, <2>5, <1>type DEF ConfigInv
<1>3. CASE Closed
  <2>1. UNCHANGED <<manager, servers, given, cfg>> /\ pc' \in {"idle", "closed"}
    BY <1>3 DEF Closed
  <2> QED BY <2>1 DEF ConfigInv, manager, servers, Held
<1>4. CASE Prepare
  <2>1. UNCHANGED <<manager, servers, given, cfg>> /\ pc' = "start" /\ pc = "replace"
    BY <1>4 DEF Prepare
  <2> QED BY <2>1 DEF ConfigInv, manager, servers, Held
<1>5. CASE Start
  <2>1. PICK main \in Free, http \in Free : main # http /\ StartWith(main, http)
    BY <1>5, StartSteps
  <2>2. main \in Server /\ http \in Server
    BY DEF Free
  <2>3. /\ server = Nil /\ pc = "start" /\ pc' = "idle" /\ fingerprint' = cfg
        /\ UNCHANGED <<given, cfg>>
    BY <1>5, <1>type DEF Start, HoldInv, Held
  <2>4. Usable(cfg) /\ (given.domain = "name" => cfg = given)
    BY <2>3 DEF ConfigInv
  <2>5. \A j \in Server : \/ what'[j] = what[j] /\ at'[j] = at[j]
                          \/ what'[j].cfg = cfg
    BY <2>1, <2>2 DEF StartWith, MainServer, HttpServer
  <2>6. /\ server' # Nil => server' = main /\ what'[main].cfg = cfg
        /\ httpServer' # Nil => httpServer' = http /\ what'[http].cfg = cfg
    BY <2>1, <2>3 DEF StartWith, MainServer, HttpServer
  <2>7. \A j \in Held' : what'[j].cfg = cfg
    BY <2>6 DEF Held
  <2>8. \A j \in Server : at'[j] # "ended" => Usable(what'[j].cfg)
    BY <2>4, <2>5 DEF ConfigInv
  <2> QED BY <2>3, <2>4, <2>7, <2>8 DEF ConfigInv
<1>6. CASE Close
  <2>1. Take /\ UNCHANGED <<servers, given, cfg>> /\ pc' = "exit"
    BY <1>6 DEF Close
  <2> QED BY <2>1 DEF Take, ConfigInv, servers, Held
<1>goes. ASSUME UNCHANGED <<pc, given, cfg, old>>,
                \A j \in Server : \/ what'[j].cfg = what[j].cfg /\ what'[j].kind = what[j].kind
                                     /\ at[j] # "ended"
                                  \/ what'[j] = NoServer /\ at'[j] = "ended" /\ j \notin Held',
                Held' \subseteq Held,
                server' # Nil => server' = server /\ fingerprint' = fingerprint
         PROVE  ConfigInv'
  <2>1. \A j \in Server : at'[j] # "ended" => Usable(what'[j].cfg)
    BY <1>goes DEF ConfigInv
  <2>2. \A j \in Held' : what'[j].cfg = cfg
    BY <1>goes, <1>type DEF ConfigInv, Held
  <2>3. pc' = "replace" =>
          \A j \in ToSet(old') :
             what'[j].kind = "main" => what'[j].cfg # cfg'
    BY <1>goes, <1>old DEF ConfigInv, NoServer
  <2> QED BY <1>goes, <2>1, <2>2, <2>3 DEF ConfigInv
<1>ended. \A j \in Server : at[j] = "ended" <=> what[j] = NoServer
  BY DEF TypeOK
<1>7. ASSUME NEW i \in Server, NEW to \in Places, Quiet(i, to) PROVE ConfigInv'
  <2>1. UNCHANGED <<server, httpServer, fingerprint, pc, given, cfg, old>> /\ Held' = Held
    BY <1>7 DEF Quiet, Same, manager, loop, Held
  <2>2. to = "ended" => i \notin Held'
    BY <1>7, <2>1 DEF Quiet, HoldInv
  <2>3. \A j \in Server : \/ what'[j] = what[j] /\ at[j] # "ended"
                          \/ what'[j] = NoServer /\ at'[j] = "ended" /\ j \notin Held'
    <3> SUFFICES ASSUME NEW j \in Server
                 PROVE  \/ what'[j] = what[j] /\ at[j] # "ended"
                        \/ what'[j] = NoServer /\ at'[j] = "ended" /\ j \notin Held'
      OBVIOUS
    <3>1. CASE j = i
      BY <1>7, <2>2, <3>1, MoveSteps DEF Quiet
    <3>2. CASE j # i
      <4>1. at'[j] = at[j] /\ what'[j] = what[j]
        BY <1>7, <3>2, MoveSteps DEF Quiet
      <4>2. at[j] = "ended" => j \notin Held
        BY <1>type DEF HoldInv, Held
      <4> QED BY <4>1, <4>2, <2>1, <1>ended
    <3> QED BY <3>1, <3>2
  <2> QED BY <2>1, <2>3, <1>goes
<1>8. ASSUME NEW i \in Server, setError(i) PROVE ConfigInv'
  <2>1. server' = Nil /\ httpServer' = Nil /\ UNCHANGED <<pc, given, cfg, old>> /\ Held' = {}
    BY <1>8 DEF setError, loop, Held
  <2>2. ASSUME NEW j \in Server
        PROVE  \/ /\ what'[j].cfg = what[j].cfg /\ what'[j].kind = what[j].kind
                  /\ at[j] # "ended"
               \/ what'[j] = NoServer /\ at'[j] = "ended"
    <3>1. CASE j = i
      BY <1>8, <3>1, <1>type DEF setError
    <3>2. CASE j # i /\ at[j] = "ended"
      <4>1. j \notin Held
        BY <3>2, <1>type DEF HoldInv, Held
      <4> QED BY <1>8, <3>2, <4>1, <1>ended, <1>type DEF setError
    <3>3. CASE j # i /\ at[j] # "ended"
      <4>1. what'[j] = what[j] \/ what'[j] = [what[j] EXCEPT !.lost = TRUE]
        BY <1>8, <3>3 DEF setError
      <4>2. what[j] \in Running
        BY <3>3, RunningType
      <4> QED BY <3>3, <4>1, <4>2 DEF Running
    <3> QED BY <3>1, <3>2, <3>3
  <2> QED BY <2>1, <2>2, <1>goes
<1>9. ASSUME NEW i \in Server, setHTTPError(i) PROVE ConfigInv'
  <2>1. /\ what[i].kind = "http" /\ Move(i, "ended")
        /\ UNCHANGED <<server, fingerprint, pc, given, cfg, old>>
        /\ httpServer' = IF httpServer = i THEN Nil ELSE httpServer
    BY <1>9 DEF setHTTPError, loop
  <2>2. i \notin Held' /\ Held' \subseteq Held
    BY <2>1, <1>type DEF HoldInv, Held
  <2>3. ASSUME NEW j \in Server
        PROVE  \/ what'[j] = what[j] /\ at[j] # "ended"
               \/ what'[j] = NoServer /\ at'[j] = "ended" /\ j \notin Held'
    <3>1. CASE j = i
      BY <2>1, <2>2, <3>1, MoveSteps DEF Places
    <3>2. CASE j # i
      <4>1. at'[j] = at[j] /\ what'[j] = what[j]
        BY <2>1, <3>2, MoveSteps DEF Places
      <4>2. at[j] = "ended" => j \notin Held
        BY <1>type DEF HoldInv, Held
      <4> QED BY <4>1, <4>2, <2>2, <1>ended
    <3> QED BY <3>1, <3>2
  <2> QED BY <2>1, <2>2, <2>3, <1>goes
<1>10. ASSUME NEW a \in Addr, Occupy(a) \/ Vacate(a) PROVE ConfigInv'
  BY <1>10, <1>same DEF Occupy, Vacate, Same, manager, loop
<1>11. CASE UNCHANGED vars
  BY <1>11, <1>same DEF vars, manager, loop
<1>12. CASE Next
  BY <1>12, Steps, <1>1, <1>2, <1>3, <1>4, <1>5, <1>6, <1>7, <1>8, <1>9, <1>10
<1> QED BY <1>11, <1>12

-----------------------------------------------------------------------------
(* What the status says.                                                   *)

\* At the start it says nothing.
LEMMA StatusInit == Init => StatusInv
<1>1. NoStatus.running = FALSE /\ NoStatus.status = ""
  BY DEF NoStatus
<1> QED BY <1>1 DEF Init, StatusInv

\* Every step keeps StatusInv.
LEMMA StatusNext == TypeOK /\ HoldInv /\ StatusInv /\ [Next]_vars => StatusInv'
<1> SUFFICES ASSUME TypeOK, HoldInv, StatusInv, [Next]_vars PROVE StatusInv'
  OBVIOUS
<1>type. /\ server \in Server \cup {Nil} /\ httpServer \in Server \cup {Nil} /\ Nil \notin Server
         /\ status \in Statuses
  BY SubProxyAssumption DEF TypeOK
<1>same. ASSUME UNCHANGED <<server, status, pc, ready, cert>>,
                server # Nil => what'[server] = what[server]
         PROVE  StatusInv'
  BY <1>same DEF StatusInv
<1>1. ASSUME NEW c \in Config, Apply(c) PROVE StatusInv'
  <2>1. UNCHANGED <<what, ready, cert>>
    BY <1>1, ApplySteps DEF servers, files
  <2>2. CASE ApplyOff(cfg')
    <3>1. server' = Nil /\ pc' = "close"
      BY <2>2 DEF ApplyOff, Take
    <3>2. ~status'.running /\ status'.status # "running"
      BY <2>2 DEF ApplyOff, NoStatus
    <3> QED BY <3>1, <3>2 DEF StatusInv
  <2>3. CASE UNCHANGED <<manager, old, pc>>
    BY <2>1, <2>3, <1>same DEF manager
  <2>4. CASE Take /\ pc' = "replace"
    BY <2>4 DEF Take, StatusInv
  <2> QED BY <1>1, ApplySteps, <2>2, <2>3, <2>4
<1>2. CASE ShutdownNext
  <2>1. UNCHANGED <<server, status, pc, ready, cert>> /\ server = Nil
    BY <1>2, <1>type, ShutdownSteps DEF manager, files, HoldInv, Held
  <2> QED BY <2>1, <1>same
<1>3. CASE Closed
  <2>1. /\ UNCHANGED <<server, status, what>> /\ server = Nil
        /\ (pc = "close" /\ pc' = "idle") \/ pc' = "closed"
    BY <1>3, <1>type DEF Closed, manager, servers, HoldInv, Held
  <2> QED BY <2>1 DEF StatusInv
<1>4. CASE Prepare
  <2>1. server' = Nil /\ pc' = "start"
    BY <1>4, <1>type DEF Prepare, manager, HoldInv, Held
  <2>2. ready'.need => cert' = "none"
    <3>1. PICK e : ready' = [err |-> e, need |-> cfg.domain # "none" /\ key' /\ cert' = "none"]
      BY <1>4 DEF Prepare
    <3>2. ready'.need = (cfg.domain # "none" /\ key' /\ cert' = "none")
      BY <3>1
    <3> QED BY <3>2
  <2> QED BY <2>1, <2>2 DEF StatusInv
<1>5. CASE Start
  <2>1. PICK main \in Free, http \in Free : main # http /\ StartWith(main, http)
    BY <1>5, StartSteps
  <2>2. main \in Server
    BY DEF Free
  <2>3. server = Nil /\ pc' = "idle" /\ pc = "start"
    BY <1>5, <1>type DEF Start, HoldInv, Held
  <2>4. /\ status' = Merge(IF CanServe
                           THEN [NoStatus EXCEPT !.status = "running", !.running = TRUE]
                           ELSE [NoStatus EXCEPT !.status = "error", !.err = TRUE])
        /\ server' = IF CanServe THEN main ELSE Nil
    BY <1>5, <2>1, <2>3 DEF Start, StartWith
  <2>5. /\ status'.running <=> CanServe
        /\ status'.status = "running" <=> CanServe
        /\ status'.need = ready.need
    BY <2>4 DEF Merge, NoStatus
  <2>6. CanServe /\ ready.need => ~what'[main].tls
    <3> SUFFICES ASSUME CanServe, ready.need PROVE ~what'[main].tls
      OBVIOUS
    <3>1. what'[main] = MainServer
      BY <2>1 DEF StartWith
    <3>2. what'[main].tls = Readable
      BY <3>1 DEF MainServer
    <3>3. ~Readable
      BY <2>3 DEF StatusInv, Readable
    <3> QED BY <3>2, <3>3
  <2> QED BY <2>2, <2>3, <2>4, <2>5, <2>6, <1>type DEF StatusInv
<1>6. CASE Close
  <2>1. server' = Nil /\ pc' = "exit"
    BY <1>6 DEF Close, Take
  <2> QED BY <2>1 DEF StatusInv
<1>7. ASSUME NEW i \in Server, NEW to \in Places, Quiet(i, to) PROVE StatusInv'
  <2>1. UNCHANGED <<server, status, pc, ready, cert>>
    BY <1>7 DEF Quiet, Same, manager, loop, files
  <2>2. ASSUME server # Nil PROVE what'[server] = what[server]
    <3>1. CASE server = i
      <4>1. to # "ended"
        BY <1>7, <2>2, <3>1 DEF Quiet, HoldInv, Held
      <4> QED BY <1>7, <4>1 DEF Quiet, Move
    <3>2. CASE server # i
      BY <1>7, <2>2, <3>2, <1>type, MoveSteps DEF Quiet
    <3> QED BY <3>1, <3>2
  <2> QED BY <2>1, <2>2, <1>same
<1>8. ASSUME NEW i \in Server, setError(i) PROVE StatusInv'
  <2>1. server' = Nil /\ UNCHANGED <<pc, ready, cert>>
    BY <1>8 DEF setError, loop, files
  <2>2. ~status'.running /\ status'.status # "running"
    BY <1>8, <1>type DEF setError, Statuses
  <2> QED BY <2>1, <2>2 DEF StatusInv
<1>9. ASSUME NEW i \in Server, setHTTPError(i) PROVE StatusInv'
  <2>1. /\ what[i].kind = "http" /\ Move(i, "ended") /\ UNCHANGED <<server, pc, ready, cert>>
    BY <1>9 DEF setHTTPError, loop, files
  <2>2. server # Nil => what'[server] = what[server]
    BY <2>1, <1>type, MoveSteps DEF HoldInv, Places
  <2>3. CASE status.status = "running"
    <3>1. status'.running = status.running /\ status'.status = status.status
          /\ status'.need = status.need
      BY <1>9, <2>3, <1>type DEF setHTTPError, Statuses
    <3> QED BY <2>1, <2>2, <3>1 DEF StatusInv
  <2>4. CASE status.status # "running"
    <3>1. ~status'.running /\ status'.status # "running" /\ status'.need = status.need
      BY <1>9, <2>4, <1>type DEF setHTTPError, Statuses
    <3> QED BY <2>1, <2>2, <2>4, <3>1 DEF StatusInv
  <2> QED BY <2>3, <2>4
<1>10. ASSUME NEW a \in Addr, Occupy(a) \/ Vacate(a) PROVE StatusInv'
  BY <1>10, <1>same DEF Occupy, Vacate, Same, manager, loop, files, servers
<1>11. CASE UNCHANGED vars
  BY <1>11, <1>same DEF vars, manager, loop, files, servers
<1>12. CASE Next
  BY <1>12, Steps, <1>1, <1>2, <1>3, <1>4, <1>5, <1>6, <1>7, <1>8, <1>9, <1>10
<1> QED BY <1>11, <1>12

-----------------------------------------------------------------------------
(* No listener is lost.                                                    *)

\* At the start there is none.
LEMMA StrayInit == Init => StrayInv
BY DEF Init, StrayInv

\* Every step keeps StrayInv.
LEMMA StrayNext == TypeOK /\ HoldInv /\ StrayInv /\ [Next]_vars => StrayInv'
<1> SUFFICES ASSUME TypeOK, HoldInv, StrayInv, [Next]_vars, NEW j \in Server,
                    at'[j] # "ended", j \notin down'
             PROVE  j \in Held' \/ j \in ToSet(old') \/ what'[j].lost
  BY DEF StrayInv
<1>type. /\ server \in Server \cup {Nil} /\ httpServer \in Server \cup {Nil} /\ Nil \notin Server
  BY SubProxyAssumption DEF TypeOK
<1>was. ASSUME at[j] # "ended", j \notin down
        PROVE  j \in Held \/ j \in ToSet(old) \/ what[j].lost
  BY <1>was DEF StrayInv
<1>same. ASSUME UNCHANGED servers, Held \cup ToSet(old) \subseteq Held' \cup ToSet(old')
         PROVE  j \in Held' \/ j \in ToSet(old') \/ what'[j].lost
  BY <1>same, <1>was DEF servers
<1>take. ASSUME Take PROVE Held \subseteq ToSet(old')
  BY <1>take, TakeOld, TypeGroups
<1>1. ASSUME NEW c \in Config, Apply(c)
      PROVE  j \in Held' \/ j \in ToSet(old') \/ what'[j].lost
  <2>1. UNCHANGED servers /\ pc = "idle" /\ (Take \/ UNCHANGED <<manager, old>>)
    BY <1>1, ApplySteps
  <2>2. ToSet(old) = {}
    BY <2>1 DEF HoldInv, ToSet
  <2> QED BY <2>1, <2>2, <1>take, <1>same DEF manager, Held
<1>2. CASE ShutdownNext
  <2>1. PICK i \in Server : /\ ToSet(old) \subseteq ToSet(old') \cup {i}
                            /\ \/ at[i] = "serving" /\ Move(i, "ended")
                               \/ at[i] = "ended" /\ UNCHANGED servers
                               \/ /\ at[i] \notin {"serving", "ended"} /\ down' = down \cup {i}
                                  /\ UNCHANGED <<at, what>>
    BY <1>2, ShutdownSteps
  <2>2. Held' = Held
    BY <1>2 DEF ShutdownNext, manager, Held
  <2>3. j # i
    <3>1. CASE at[i] = "serving" /\ Move(i, "ended")
      BY <3>1, MoveSteps DEF Places
    <3>2. CASE ~(at[i] = "serving" /\ Move(i, "ended"))
      BY <2>1, <3>2 DEF servers
    <3> QED BY <3>1, <3>2
  <2>4. at'[j] = at[j] /\ what'[j] = what[j] /\ j \notin down
    <3>1. CASE at[i] = "serving" /\ Move(i, "ended")
      BY <2>3, <3>1, MoveSteps DEF Places
    <3>2. CASE ~(at[i] = "serving" /\ Move(i, "ended"))
      BY <2>1, <3>2 DEF servers
    <3> QED BY <3>1, <3>2
  <2> QED BY <2>1, <2>2, <2>3, <2>4, <1>was
<1>3. CASE Closed \/ Prepare
  BY <1>3, <1>same DEF Closed, Prepare, manager, Held
<1>4. CASE Start
  <2>1. PICK main \in Free, http \in Free : main # http /\ StartWith(main, http)
    BY <1>4, StartSteps
  <2>2. main \in Server /\ http \in Server
    BY DEF Free
  <2>3. Held = {} /\ server = Nil /\ down' = down /\ old' = old
    BY <1>4, <1>type DEF Start, HoldInv, Held
  <2>4. CASE at'[j] = at[j] /\ what'[j] = what[j]
    BY <2>3, <2>4, <1>was
  <2>5. CASE (j = main /\ CanServe) \/ (j = http /\ cfg.http # NoAddr)
    BY <2>1, <2>2, <2>5, <1>type DEF StartWith, Held
  <2> QED BY <2>1, <2>4, <2>5 DEF StartWith
<1>5. CASE Close
  <2>1. UNCHANGED servers /\ pc = "idle" /\ Take
    BY <1>5 DEF Close
  <2>2. ToSet(old) = {}
    BY <2>1 DEF HoldInv, ToSet
  <2> QED BY <2>1, <2>2, <1>take, <1>same
<1>6. ASSUME NEW i \in Server, NEW to \in Places, Quiet(i, to)
      PROVE  j \in Held' \/ j \in ToSet(old') \/ what'[j].lost
  <2>1. Held' = Held /\ old' = old /\ at[i] # "ended"
    BY <1>6 DEF Quiet, Same, manager, loop, Held
  <2>2. what'[j] = what[j] /\ at[j] # "ended" /\ j \notin down
    BY <1>6, <2>1, MoveSteps DEF Quiet
  <2> QED BY <2>1, <2>2, <1>was
<1>7. ASSUME NEW i \in Server, setError(i)
      PROVE  j \in Held' \/ j \in ToSet(old') \/ what'[j].lost
  <2>1. at \in [Server -> Places]
    BY DEF TypeOK, Places
  <2>2. j # i /\ at'[j] = at[j] /\ j \notin down /\ old' = old
    BY <1>7, <2>1 DEF setError, loop
  <2>3. what'[j] = (IF j \in Held THEN [what[j] EXCEPT !.lost = TRUE] ELSE what[j])
    BY <1>7, <2>2 DEF setError
  <2>4. what[j] \in Running
    BY <2>2, RunningType
  <2>5. CASE j \in Held
    BY <2>3, <2>4, <2>5 DEF Running
  <2>6. CASE j \notin Held
    BY <2>2, <2>3, <2>6, <1>was
  <2> QED BY <2>5, <2>6
<1>8. ASSUME NEW i \in Server, setHTTPError(i)
      PROVE  j \in Held' \/ j \in ToSet(old') \/ what'[j].lost
  <2>1. /\ Move(i, "ended") /\ UNCHANGED <<server, old>>
        /\ httpServer' = IF httpServer = i THEN Nil ELSE httpServer
    BY <1>8 DEF setHTTPError, loop
  <2>2. j # i /\ at'[j] = at[j] /\ what'[j] = what[j] /\ j \notin down
    BY <2>1, MoveSteps DEF Places
  <2>3. j \in Held => j \in Held'
    BY <2>1, <2>2 DEF Held
  <2> QED BY <2>1, <2>2, <2>3, <1>was
<1>9. ASSUME NEW a \in Addr, Occupy(a) \/ Vacate(a)
      PROVE  j \in Held' \/ j \in ToSet(old') \/ what'[j].lost
  BY <1>9, <1>same DEF Occupy, Vacate, Same, manager, loop, Held
<1>10. CASE UNCHANGED vars
  BY <1>10, <1>same DEF vars, manager, loop, Held
<1>11. CASE Next
  BY <1>11, Steps, <1>1, <1>2, <1>3, <1>4, <1>5, <1>6, <1>7, <1>8, <1>9
<1> QED BY <1>10, <1>11

-----------------------------------------------------------------------------
(* The theorems.                                                           *)

\* All of it together.
SubProxyInv == TypeOK /\ HoldInv /\ ConfigInv /\ StatusInv /\ StrayInv

\* The invariant holds throughout.
THEOREM Invariant == Spec => []SubProxyInv
<1>1. Init => SubProxyInv
  BY TypeInit, HoldInit, ConfigInit, StatusInit, StrayInit DEF SubProxyInv
<1>2. SubProxyInv /\ [Next]_vars => SubProxyInv'
  BY TypeNext, HoldNext, ConfigNext, StatusNext, StrayNext DEF SubProxyInv
<1> QED BY <1>1, <1>2, PTL DEF Spec

\* Every variable keeps its type, and Apply never shuts down a nil server.
THEOREM TypeCorrect == Spec => []TypeOK
<1>1. SubProxyInv => TypeOK
  BY DEF SubProxyInv
<1> QED BY <1>1, Invariant, PTL

\* What Status reports agrees with the servers the manager holds, however late the
\* goroutines of earlier servers call setError and setHTTPError.
THEOREM StatusIsTrue == Spec => []StatusTruthful
<1>1. SubProxyInv => StatusTruthful
  <2> SUFFICES ASSUME SubProxyInv, pc = "idle" PROVE StatusTruthful
    BY DEF StatusTruthful
  <2>1. /\ status.running <=> server # Nil
        /\ status.status = "running" <=> server # Nil
        /\ server # Nil /\ status.need => ~what[server].tls
    BY DEF SubProxyInv, StatusInv
  <2>2. \A i \in Held : i \notin down /\ what[i].cfg = cfg
    BY DEF SubProxyInv, HoldInv, ConfigInv
  <2> QED BY <2>1, <2>2 DEF StatusTruthful
<1> QED BY <1>1, Invariant, PTL

\* Only setError loses a listener: everything else that Apply and Close replace is
\* shut down.
THEOREM NoListenerLost == Spec => []NoStrayServer
<1>1. SubProxyInv => NoStrayServer
  BY DEF SubProxyInv, StrayInv, NoStrayServer, Open
<1> QED BY <1>1, Invariant, PTL

\* Apply with the configuration that the proxy has does not interrupt it, unless the
\* certificate domain is empty or an IPv6 address and its lookup gives another answer.
THEOREM RestartsAreNeeded == Spec => NoNeedlessRestart
<1> DEFINE Stop(i) ==
        at[i] = "serving" /\ at'[i] = "ended" /\ what[i].kind = "main" =>
           \/ pc = "exit"
           \/ given.domain = "name" /\ given # what[i].cfg
           \/ given.domain # "name" /\ cfg # what[i].cfg
<1>1. ASSUME SubProxyInv, [Next]_vars, NEW i \in Server PROVE Stop(i)
  <2> SUFFICES ASSUME at[i] = "serving", at'[i] = "ended", what[i].kind = "main"
               PROVE  cfg # what[i].cfg \/ pc = "exit"
    BY <1>1 DEF SubProxyInv, ConfigInv
  <2>0. TypeOK /\ HoldInv /\ ConfigInv
    BY <1>1 DEF SubProxyInv
  <2>1. CASE ShutdownNext
    <3>1. PICK k \in Server : /\ k \in ToSet(old) /\ pc \in {"close", "replace", "exit"}
                              /\ \/ at[k] = "serving" /\ Move(k, "ended")
                                 \/ UNCHANGED at
      BY <2>0, <2>1, ShutdownSteps DEF servers
    <3>2. k = i
      BY <2>0, <3>1, MoveSteps DEF Places
    <3>3. CASE pc = "replace"
      BY <2>0, <3>1, <3>2, <3>3 DEF ConfigInv
    <3>4. CASE pc = "close"
      BY <2>0, <3>4 DEF ConfigInv
    <3> QED BY <3>1, <3>3, <3>4
  <2>2. CASE ~ShutdownNext
    <3>1. at'[i] # at[i]
      OBVIOUS
    <3>2. ASSUME NEW c \in Config, Apply(c) PROVE FALSE
      BY <2>0, <3>1, <3>2, ApplySteps DEF servers
    <3>3. CASE Closed \/ Prepare \/ Close \/ UNCHANGED vars \/ \E a \in Addr : Occupy(a) \/ Vacate(a)
      BY <3>1, <3>3 DEF Closed, Prepare, Close, Occupy, Vacate, vars, servers
    <3>4. CASE Start
      <4>1. PICK main \in Free, http \in Free : main # http /\ StartWith(main, http)
        BY <3>4, StartSteps
      <4>2. main \in Server /\ http \in Server
        BY DEF Free
      <4>3. at'[i] \in {at[i], "ready"}
        BY <4>1, <4>2 DEF StartWith
      <4> QED BY <4>3
    <3>5. ASSUME NEW k \in Server, NEW to \in Places, Quiet(k, to), at[k] = "serving" => to = "failed"
          PROVE  FALSE
      BY <2>0, <3>5, MoveSteps DEF Quiet
    <3>6. ASSUME NEW k \in Server, setError(k) \/ setHTTPError(k) PROVE FALSE
      <4>1. at[k] = "failed" /\ at' = [at EXCEPT ![k] = "ended"]
        BY <3>6 DEF setError, setHTTPError, Move
      <4>2. at \in [Server -> Places]
        BY <2>0 DEF TypeOK, Places
      <4> QED BY <4>1, <4>2
    <3> QED BY <1>1, <2>2, Steps, <3>2, <3>3, <3>4, <3>5, <3>6
  <2> QED BY <2>1, <2>2
<1>2. SubProxyInv /\ [Next]_vars => [\A i \in Server : Stop(i)]_vars
  BY <1>1
<1> HIDE DEF Stop
<1>3. Spec => [][\A i \in Server : Stop(i)]_vars
  BY <1>2, Invariant, PTL DEF Spec
<1> QED BY <1>3 DEF NoNeedlessRestart, Stop

=============================================================================
