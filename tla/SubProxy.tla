------------------------------ MODULE SubProxy ------------------------------
(***************************************************************************)
(* The subscription proxy manager: Apply, called for every configuration   *)
(* by the reload loop, Close at the end of the process, and the goroutines *)
(* that serve the proxy and the certificate challenge and that report to   *)
(* the manager, under its lock, when they stop with an error.              *)
(*                                                                         *)
(* A server is what http.Server is for the manager: it checks for a        *)
(* shutdown, opens its address, registers the listener and serves;         *)
(* Shutdown marks it and closes the listener it registered.  Each of these *)
(* is a step of its own.  A server number is used again once its server    *)
(* has ended.                                                              *)
(***************************************************************************)
EXTENDS Integers, Sequences, FiniteSets, SequencesExt

CONSTANTS
    Config,     \* the configurations the panel may send
    Addr,       \* the addresses to listen on
    NoAddr,     \* an empty HTTPListen
    Nil,        \* no server
    Public,     \* the public IPv4 addresses a lookup may find
    MaxServers, \* bound: servers whose goroutines have not ended
    MaxFaults   \* bound: addresses taken by other programs, failed accepts,
                \* failed writes

Server == 1..MaxServers

ASSUME SubProxyAssumption ==
    /\ Config \subseteq [enabled: BOOLEAN, profiles: {"good", "bad", "none"},
                         https: Addr, http: Addr \cup {NoAddr},
                         domain: {"name", "ipv6", "none"},
                         pem: {"none", "good", "bad"}, fallback: BOOLEAN]
    /\ {"name", "ipv6", "none"} \cap Public = {}
    /\ NoAddr \notin Addr /\ Nil \notin Server
    /\ MaxServers \in Nat /\ MaxFaults \in Nat

VARIABLES
    server,     \* m.server
    httpServer, \* m.httpServer
    fingerprint,\* m.fingerprint: the configuration, normalized, or Nil
    status,     \* m.status
    pc,         \* where Apply or Close is
    given,      \* the configuration last given to Apply
    cfg,        \* what normalizeConfig made of it
    old,        \* the servers taken from the manager, not shut down yet
    ready,      \* the status prepareCertificate returned
    cert,       \* the certificate file: none, good, or bad for the key
    key,        \* the key file exists
    at,         \* where each server is
    down,       \* servers on which Shutdown was called
    what,       \* each server's kind, address and configuration, and whether
                \* setError made the manager forget it (history); NoServer
                \* once it has ended
    foreign,    \* addresses other programs listen on
    faults      \* faults that happened

manager == <<server, httpServer, fingerprint, status>>
loop    == <<pc, given, cfg, old, ready>>
files   == <<cert, key>>
servers == <<at, down, what>>
world   == <<foreign, faults>>
vars == <<manager, loop, files, servers, world>>

-----------------------------------------------------------------------------
\* normalizeConfig fails for an upstream that is no URL, enabled or not, and
\* for an enabled proxy without profiles.
Invalid(c)  == c.profiles = "bad" \/ (c.enabled /\ c.profiles = "none")
Disabled(c) == ~Invalid(c) /\ (~c.enabled \/ c.profiles = "none")

\* resolveSubscriptionCertificateDomain: a name or an IPv4 address is kept; no domain
\* or an IPv6 address is replaced by the public IPv4 address, if one is found.
Domains(c) == IF c.domain = "name" \/ ~c.enabled THEN {c.domain}
              ELSE {c.domain} \cup Public

\* normalizeConfig: what may become of a configuration, looked up anew each time.
Normal(c) == {[c EXCEPT !.domain = d] : d \in Domains(c)}

NoStatus == [status |-> "", running |-> FALSE, err |-> FALSE, need |-> FALSE]

NoReady  == [err |-> FALSE, need |-> FALSE]
NoServer == [kind |-> "none", addr |-> NoAddr, cfg |-> Nil, tls |-> FALSE,
             lost |-> FALSE]

Held == {server, httpServer} \ {Nil}

\* Servers that hold their address.
Open == {i \in Server : at[i] \in {"opened", "serving"}}

Busy(a) == a \in foreign \/ \E i \in Open : what[i].addr = a

Free == {i \in Server : at[i] = "ended"} \ (Held \cup ToSet(old))

-----------------------------------------------------------------------------
(* Apply.                                                                  *)

\* The manager gives up its servers; they are shut down after the unlock, the
\* main server first.
Take ==
    /\ old' = (IF server = Nil THEN <<>> ELSE <<server>>)
              \o (IF httpServer = Nil THEN <<>> ELSE <<httpServer>>)
    /\ server' = Nil /\ httpServer' = Nil /\ fingerprint' = Nil

\* An invalid or a disabled configuration: closeWithStatus.
ApplyOff(c) ==
    /\ Take
    /\ status' = [NoStatus EXCEPT !.status = IF Invalid(c) THEN "error" ELSE "disabled",
                                  !.err = Invalid(c)]
    /\ pc' = "close"

\* The running server has this configuration already.
ApplySame(n) ==
    /\ server # Nil /\ fingerprint = n
    /\ UNCHANGED <<manager, old, pc>>

\* Faulty variant: the fingerprint is not looked at.
ApplyAlways(n) ==
    /\ Take
    /\ pc' = "replace"
    /\ UNCHANGED status

ApplyNew(n) ==
    /\ ~(server # Nil /\ fingerprint = n)
    /\ Take
    /\ pc' = "replace"
    /\ UNCHANGED status

Apply(c) ==
    /\ pc = "idle"
    /\ given' = c
    /\ \E n \in Normal(c) :
        /\ cfg' = n
        /\ IF Invalid(n) \/ Disabled(n) THEN ApplyOff(n)
                                        ELSE ApplySame(n) \/ ApplyNew(n)
    /\ UNCHANGED <<ready, files, servers, world>>

\* Server i goes on to step to.
Move(i, to) ==
    /\ at' = [at EXCEPT ![i] = to]
    /\ what' = IF to = "ended" THEN [what EXCEPT ![i] = NoServer] ELSE what
    /\ down' = IF to = "ended" THEN down \ {i} ELSE down

\* shutdownServer: Shutdown closes the listener if it is registered, and has
\* no effect on a server that has ended.
Shutdown(i) ==
    \/ /\ at[i] = "serving"
       /\ Move(i, "ended")
    \/ /\ at[i] = "ended"
       /\ UNCHANGED servers
    \/ /\ at[i] \notin {"serving", "ended"}
       /\ down' = down \cup {i}
       /\ UNCHANGED <<at, what>>

ShutdownNext ==
    /\ pc \in {"close", "replace", "exit"} /\ old # <<>>
    /\ Shutdown(Head(old))
    /\ old' = Tail(old)
    /\ UNCHANGED <<manager, pc, given, cfg, ready, files, world>>

\* closeWithStatus or Close returns.
Closed ==
    /\ pc \in {"close", "exit"} /\ old = <<>>
    /\ pc' = IF pc = "close" THEN "idle" ELSE "closed"
    /\ UNCHANGED <<manager, given, cfg, old, ready, files, servers, world>>

\* prepareCertificate: writes the panel's certificate, makes a key if there
\* is none.  w and k say whether the writes succeed.
Prepare ==
    /\ pc = "replace" /\ old = <<>>
    /\ \E w, k \in BOOLEAN :
        /\ faults' = faults + (IF w /\ k THEN 0 ELSE 1) /\ faults' <= MaxFaults
        /\ cert' = IF cfg.pem # "none" /\ w THEN cfg.pem ELSE cert
        /\ key'  = (key \/ (cfg.domain # "none" /\ k))
        /\ ready' = [err  |-> (cfg.pem # "none" /\ ~w) \/ (cfg.domain # "none" /\ ~key'),
                     need |-> cfg.domain # "none" /\ key' /\ cert' = "none"]
    /\ pc' = "start"
    /\ UNCHANGED <<manager, given, cfg, old, servers, foreign>>

\* Whether the certificate is used, and whether there is a server at all.
Readable  == cert # "none" /\ key
CanServe  == IF Readable THEN cert = "good" ELSE cfg.fallback

\* mergeStatusLocked.
Merge(st) == [st EXCEPT !.need = ready.need, !.err = @ \/ ready.err]

\* The servers with the numbers main and http are stored and their goroutines
\* started.  What the goroutines do before they are scheduled is nothing, so
\* starting them is part of the step under the lock.
Start ==
    /\ pc = "start"
    /\ \E main \in Free : \E http \in Free \ {main} :
        LET new  == (IF CanServe THEN {main} ELSE {})
                        \cup (IF cfg.http # NoAddr THEN {http} ELSE {})
        IN  /\ main = Min(Free) /\ http = Min(Free \ {main})
            /\ server' = IF CanServe THEN main ELSE server
            /\ httpServer' = IF cfg.http # NoAddr THEN http ELSE Nil
            /\ at' = [i \in Server |-> IF i \in new THEN "ready" ELSE at[i]]
            /\ what' = [i \in Server |->
                          IF i \notin new THEN what[i]
                          ELSE IF i = main
                          THEN [kind |-> "main", addr |-> cfg.https, cfg |-> cfg, tls |-> Readable,
                                lost |-> FALSE]
                          ELSE [kind |-> "http", addr |-> cfg.http, cfg |-> cfg, tls |-> FALSE,
                                lost |-> FALSE]]
    /\ fingerprint' = cfg
    /\ status' = Merge(IF CanServe
                       THEN [NoStatus EXCEPT !.status = "running", !.running = TRUE]
                       ELSE [NoStatus EXCEPT !.status = "error", !.err = TRUE])
    /\ pc' = "idle"
    /\ ready' = NoReady
    /\ UNCHANGED <<given, cfg, old, files, down, world>>

\* Close, when the process ends.
Close ==
    /\ pc = "idle"
    /\ Take
    /\ status' = [status EXCEPT !.running = FALSE,
                                !.status = IF @ = "running" THEN "stopped" ELSE @]
    /\ pc' = "exit"
    /\ UNCHANGED <<given, cfg, ready, files, servers, world>>

-----------------------------------------------------------------------------
(* The goroutine of server i: ListenAndServe or ListenAndServeTLS.         *)

Same == UNCHANGED <<manager, loop, files>>

\* ErrServerClosed if Shutdown was called before.
Check(i) ==
    /\ at[i] = "ready"
    /\ Move(i, IF i \in down THEN "ended" ELSE "checked")
    /\ UNCHANGED world /\ Same

Listen(i) ==
    /\ at[i] = "checked"
    /\ Move(i, IF Busy(what[i].addr) THEN "failed" ELSE "opened")
    /\ UNCHANGED world /\ Same

\* The listener is registered, or closed if Shutdown was called meanwhile.
Track(i) ==
    /\ at[i] = "opened"
    /\ Move(i, IF i \in down THEN "ended" ELSE "serving")
    /\ UNCHANGED world /\ Same

\* Accept fails; Serve returns its error and closes the listener.
AcceptFails(i) ==
    /\ faults < MaxFaults
    /\ at[i] = "serving"
    /\ Move(i, "failed")
    /\ faults' = faults + 1
    /\ UNCHANGED foreign /\ Same

\* Faulty variant: the servers are only forgotten if they are the failed server's, but
\* the status is always changed.
setErrorHalf(i) ==
    /\ what[i].kind = "main"
    /\ at[i] = "failed"
    /\ Move(i, "ended")
    /\ server' = IF server = i THEN Nil ELSE server
    /\ status' = [status EXCEPT !.running = FALSE, !.status = "error", !.err = TRUE]
    /\ UNCHANGED <<httpServer, fingerprint, loop, files, world>>

\* The manager forgets both servers, whichever server failed.
setError(i) ==
    /\ what[i].kind = "main"
    /\ at[i] = "failed"
    /\ at' = [at EXCEPT ![i] = "ended"]
    /\ down' = down \ {i}
    /\ what' = [j \in Server |-> IF j = i THEN NoServer
                               ELSE IF j \in Held THEN [what[j] EXCEPT !.lost = TRUE]
                               ELSE what[j]]
    /\ server' = Nil /\ httpServer' = Nil /\ fingerprint' = Nil
    /\ status' = [status EXCEPT !.running = FALSE, !.status = "error", !.err = TRUE]
    /\ UNCHANGED <<loop, files, world>>

\* Faulty variant: the challenge server is forgotten whichever server failed.
setHTTPErrorAny(i) ==
    /\ what[i].kind = "http"
    /\ at[i] = "failed"
    /\ Move(i, "ended")
    /\ httpServer' = Nil
    /\ status' = [status EXCEPT !.err = TRUE]
    /\ UNCHANGED <<server, fingerprint, loop, files, world>>

\* Faulty variant: the failure of the running proxy's challenge server is only logged.
setHTTPErrorSilent(i) ==
    /\ what[i].kind = "http"
    /\ at[i] = "failed"
    /\ Move(i, "ended")
    /\ httpServer' = IF httpServer = i THEN Nil ELSE httpServer
    /\ UNCHANGED <<server, fingerprint, status, loop, files, world>>

setHTTPError(i) ==
    /\ what[i].kind = "http"
    /\ at[i] = "failed"
    /\ Move(i, "ended")
    /\ httpServer' = IF httpServer = i THEN Nil ELSE httpServer
    /\ status' = IF status.status = "running"
                 THEN [status EXCEPT !.err = TRUE]
                 ELSE [status EXCEPT !.running = FALSE, !.status = "error", !.err = TRUE]
    /\ UNCHANGED <<server, fingerprint, loop, files, world>>

-----------------------------------------------------------------------------
\* Another program listens on an address, or stops.
Occupy(a) ==
    /\ faults < MaxFaults /\ ~Busy(a)
    /\ foreign' = foreign \cup {a} /\ faults' = faults + 1
    /\ UNCHANGED servers /\ Same

Vacate(a) ==
    /\ a \in foreign
    /\ foreign' = foreign \ {a}
    /\ UNCHANGED <<faults, servers>> /\ Same

-----------------------------------------------------------------------------
Init ==
    /\ server = Nil /\ httpServer = Nil /\ fingerprint = Nil
    /\ status = NoStatus
    /\ pc = "idle" /\ given \in {c \in Config : Disabled(c)} /\ cfg \in Normal(given)
    /\ old = <<>>
    /\ ready = NoReady
    /\ cert = "none" /\ key = FALSE
    /\ at = [i \in Server |-> "ended"] /\ down = {}
    /\ what = [i \in Server |-> NoServer]
    /\ foreign = {} /\ faults = 0

ApplyStep == ShutdownNext \/ Closed \/ Prepare \/ Start

Goroutine(i) == Check(i) \/ Listen(i) \/ Track(i) \/ setError(i) \/ setHTTPError(i)

Next ==
    \/ \E c \in Config : Apply(c)
    \/ ApplyStep
    \/ Close
    \/ \E i \in Server : Goroutine(i) \/ AcceptFails(i)
    \/ \E a \in Addr : Occupy(a) \/ Vacate(a)

Spec == Init /\ [][Next]_vars

\* Apply runs to its end and every goroutine is scheduled.  Nothing says that
\* a configuration comes, nor that an address becomes free.
Fairness ==
    /\ WF_vars(ApplyStep)
    /\ \A i \in Server : WF_vars(Goroutine(i))

FairSpec == Spec /\ Fairness

-----------------------------------------------------------------------------
Statuses == [status: {"", "running", "stopped", "error", "disabled"},
             running: BOOLEAN, err: BOOLEAN, need: BOOLEAN]

Normalized == UNION {Normal(c) : c \in Config}

\* The variables have their types; Apply shuts down servers, never nil.
TypeOK ==
    /\ server \in Server \cup {Nil} /\ httpServer \in Server \cup {Nil}
    /\ fingerprint \in Normalized \cup {Nil}
    /\ status \in Statuses
    /\ pc \in {"idle", "close", "replace", "start", "exit", "closed"}
    /\ given \in Config /\ cfg \in Normalized
    /\ old \in Seq(Server) /\ Len(old) <= 2
    /\ ready \in [err: BOOLEAN, need: BOOLEAN]
    /\ cert \in {"none", "good", "bad"} /\ key \in BOOLEAN
    /\ at \in [Server -> {"ready", "checked", "opened", "serving", "failed", "ended"}]
    /\ down \subseteq Server
    /\ what \in [Server -> [kind: {"main", "http"}, addr: Addr, cfg: Normalized,
                              tls: BOOLEAN, lost: BOOLEAN]
                              \cup {NoServer}]
    /\ \A i \in Server : what[i] = NoServer <=> at[i] = "ended"
    /\ foreign \subseteq Addr /\ faults \in 0..MaxFaults

\* What the manager reports to the panel agrees with what it holds, whenever
\* no Apply is under way and whatever the goroutines of this and of earlier
\* servers have reported since: it says running exactly when it holds a main
\* server, that server was not told to shut down and has the configuration of
\* the last Apply, and it asks for no certificate while it serves with one.
StatusTruthful ==
    pc = "idle" =>
        /\ status.running <=> server # Nil
        /\ status.status = "running" <=> server # Nil
        /\ \A i \in Held : i \notin down /\ what[i].cfg = cfg
        /\ server # Nil /\ status.need => ~what[server].tls

\* A server that has its address open and was not told to shut down is one the
\* manager holds, one that Apply or Close is about to shut down, or one that
\* setError made the manager forget: nothing else loses a listener.
NoStrayServer ==
    \A i \in Open \ down : i \in Held \cup ToSet(old) \/ what[i].lost

\* A proxy that serves is shut down only at the end of the process or for another
\* configuration: a reload that brings the one it has does not interrupt it.  Where
\* the certificate domain is empty or an IPv6 address the code makes one exception,
\* a lookup that finds another address than the last time, or none.
NoNeedlessRestart ==
    [][\A i \in Server :
          at[i] = "serving" /\ at'[i] = "ended" /\ what[i].kind = "main" =>
             \/ pc = "exit"
             \/ given.domain = "name" /\ given # what[i].cfg
             \/ given.domain # "name" /\ cfg # what[i].cfg]_vars

\* The proxy serves, or the status says that it does not.
ProxyOrError ==
    \/ server # Nil /\ at[server] = "serving"
    \/ status.status \in {"", "error", "disabled"} /\ ~status.running

\* If the configuration wants a challenge server, it serves, even if the main
\* server has no certificate yet, or the status has an error.
ChallengeOrError ==
    cfg.enabled /\ cfg.profiles = "good" /\ cfg.http # NoAddr =>
        \/ httpServer # Nil /\ at[httpServer] = "serving" /\ what[httpServer].cfg = cfg
        \/ status.err

\* An outage is reported: if configurations stop coming, the proxy and its
\* challenge server end up serving the last one, or the status that setError and
\* setHTTPError leave says that they do not.
OutageReported ==
    <>[](pc = "idle") => <>[](ProxyOrError /\ ChallengeOrError)
=============================================================================
