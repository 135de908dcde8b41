------------------------------ MODULE Realtime ------------------------------
(***************************************************************************)
(* The realtime channel: the panel tells a node over a websocket that its  *)
(* users or its configuration changed, the node acts and sends receipts.   *)
(*                                                                         *)
(* RealtimeClient.run dials, serves one connection after another and       *)
(* sleeps between them.  Each connection has a writer goroutine of its own *)
(* that drains sendCh and pings; the reader hands invalidations to the     *)
(* callback.  A node's callback puts them in one of two bounded channels,  *)
(* which a config worker and a user worker empty; a machine's callback     *)
(* (MachineRealtimeManager) acts inside the reader.  Close cancels the     *)
(* context and waits for run, not for the writers or the workers.          *)
(*                                                                         *)
(* The panel's state is a version for each topic.  What a user sync does   *)
(* with the version it fetched is module UserSync; what a reload does is   *)
(* module Machine.  Here it matters that a fetched version is recorded     *)
(* (known) before it is acted on (seen), so that a version whose           *)
(* application failed is not fetched, nor acted on, a second time.         *)
(***************************************************************************)
EXTENDS Integers, Sequences, SequencesExt

CONSTANTS
    Setups,       \* whose client this is, and bounds: see below
    MaxVer,       \* bound: versions of each topic
    MaxSession,   \* bound: connections
    MaxWire,      \* bound: messages on the wire
    ChanCap,      \* capacity of realtimeConfigCh and realtimeUserCh, 32
    SendCap       \* capacity of sendCh, 64

Topic == {"users", "config"}
Kind  == {"users", "config", "force", "other"}

ASSUME RealtimeAssumption ==
    /\ \A p \in Setups :
          /\ p.machine \in BOOLEAN /\ p.inform \subseteq Kind
          /\ p.sessions \in 1 .. MaxSession
          /\ {p.maxVer, p.maxFaults} \subseteq Nat /\ p.maxVer <= MaxVer
    /\ {MaxVer, MaxWire} \subseteq Nat
    /\ {MaxSession, ChanCap, SendCap} \subseteq Nat \ {0}

VARIABLES
    setup,      \* the member of Setups this behaviour is about
    ver,        \* panel: current version of each topic
    session,    \* number of connections made; the last is the current one
    sock,       \* each connection: "none", "open" or "dead"
    wire,       \* messages on the way to the client on the current one
    reader,     \* where RealtimeClient.run is
    writer,     \* where the writer of each connection is
    hand,       \* the receipt each writer took from sendCh
    sendCh,     \* receipts waiting to be written
    inbox,      \* realtimeConfigCh and realtimeUserCh
    worker,     \* where the worker of each topic is
    job,        \* the message each worker works on
    got,        \* the version its call to the panel returned
    reload,     \* server.ReloadCh is full
    closing,    \* where Controller.Close is
    known,      \* the version the next call is compared with: userRevision and
                \* userList, and the client's responseBodyHash
    seen,       \* the version of each topic the node has acted on: the users
                \* of the core, the configuration a reload was queued for
    last,       \* how the last job of each worker ended
    noted,      \* history: the newest version the callback was told of
    blank,      \* history: the newest version confirmed on a cancelled call
    told,       \* history: the newest version confirmed to the panel
    faults      \* number of faults so far

panelVars  == <<setup, ver>>
socketVars == <<session, sock, wire>>
writerVars == <<writer, hand>>
workVars   == <<inbox, worker, job, got, known, seen, last>>
historyVars == <<noted, blank>>
vars == <<panelVars, socketVars, reader, writerVars, sendCh, workVars, reload,
          closing, historyVars, told, faults>>

\* The client of a MachineRealtimeManager, or of a controller.
InMachine == setup.machine
\* The invalidations the panel sends.
Inform    == setup.inform
\* Bound: failed calls and applications, broken connections.
MaxFaults == setup.maxFaults

Session == 1 .. MaxSession
Message == [kind : Kind, rev : 0 .. MaxVer]
NoMessage == [kind |-> "other", rev |-> 0]
Receipt == [topic : Topic, rev : 0 .. MaxVer,
            status : {"received", "applying", "applied", "failed"}]
NoReceipt == [topic |-> "users", rev |-> 0, status |-> "failed"]

TopicOf(kind) == IF kind = "users" THEN "users" ELSE "config"
Cancelled == closing # "no"
Fault == faults < MaxFaults /\ faults' = faults + 1

-----------------------------------------------------------------------------
(* The panel.                                                              *)

PanelChange(t) ==
    /\ ver[t] < setup.maxVer
    /\ ver' = [ver EXCEPT ![t] = @ + 1]
    /\ UNCHANGED <<setup, socketVars, reader, writerVars, sendCh, workVars, reload,
                   closing, historyVars, told, faults>>

PanelSend(kind) ==
    /\ session > 0 /\ sock[session] = "open"
    /\ Len(wire) < MaxWire
    /\ wire' = Append(wire, [kind |-> kind, rev |-> IF kind = "other" THEN 0
                                                    ELSE ver[TopicOf(kind)]])
    /\ UNCHANGED <<panelVars, session, sock, reader, writerVars, sendCh,
                   workVars, reload, closing, historyVars, told, faults>>

\* The connection breaks; what the client had not received yet is lost.
PeerCloses ==
    /\ session > 0 /\ sock[session] = "open"
    /\ sock' = [sock EXCEPT ![session] = "dead"]
    /\ \E n \in 0 .. Len(wire) : wire' = SubSeq(wire, 1, n)
    /\ UNCHANGED <<panelVars, session, reader, writerVars, sendCh, workVars,
                   reload, closing, historyVars, told>>

\* A client without a writer sends no pings: the panel gives it up.
PeerTimesOut ==
    /\ session > 0 /\ writer[session] = "ended" /\ UNCHANGED faults
    /\ PeerCloses

-----------------------------------------------------------------------------
(* RealtimeClient.run and connectAndServe.                                 *)

RunChecks ==
    /\ reader = "check"
    /\ reader' = IF Cancelled THEN "ended" ELSE "dial"
    /\ UNCHANGED <<panelVars, socketVars, writerVars, sendCh, workVars, reload,
                   closing, historyVars, told, faults>>

Dial ==
    /\ reader = "dial" /\ ~Cancelled
    /\ session < setup.sessions
    /\ session' = session + 1
    /\ sock' = [sock EXCEPT ![session + 1] = "open"]
    /\ wire' = <<>>
    /\ reader' = "hello"
    /\ UNCHANGED <<panelVars, writerVars, sendCh, workVars, reload, closing,
                   historyVars, told, faults>>

\* DialContext fails, at once if the context is cancelled.
DialFails ==
    /\ reader = "dial"
    /\ IF Cancelled THEN UNCHANGED faults ELSE Fault
    /\ reader' = "delay"
    /\ UNCHANGED <<panelVars, socketVars, writerVars, sendCh, workVars, reload,
                   closing, historyVars, told>>

\* connectAndServe returns: the deferred close(done) and conn.Close().
Leave ==
    /\ reader' = "delay"
    /\ sock' = [sock EXCEPT ![session] = "dead"]
    /\ wire' = <<>>

\* The first ping is written and the writer started.
Hello ==
    /\ reader = "hello" /\ sock[session] = "open"
    /\ writer' = [writer EXCEPT ![session] = "select"]
    /\ reader' = "top"
    /\ UNCHANGED <<panelVars, socketVars, hand, sendCh, workVars, reload, closing,
                   historyVars, told, faults>>

HelloFails ==
    /\ reader = "hello"
    /\ IF sock[session] = "dead" THEN UNCHANGED faults ELSE Fault
    /\ Leave
    /\ UNCHANGED <<panelVars, session, writerVars, sendCh, workVars, reload,
                   closing, historyVars, told>>

\* The head of the read loop looks at the context.
ReadLoop ==
    /\ reader = "top"
    /\ IF Cancelled
          THEN Leave
          ELSE reader' = "read" /\ UNCHANGED <<sock, wire>>
    /\ UNCHANGED <<panelVars, session, writerVars, sendCh, workVars, reload,
                   closing, historyVars, told, faults>>

ReadFails ==
    /\ reader = "read" /\ wire = <<>> /\ sock[session] = "dead"
    /\ Leave
    /\ UNCHANGED <<panelVars, session, writerVars, sendCh, workVars, reload,
                   closing, historyVars, told, faults>>

\* Acknowledgements, pings, errors and what is not JSON change nothing, nor do
\* invalidations of users in a machine's client.
ReadOther ==
    /\ reader = "read" /\ wire # <<>>
    /\ Head(wire).kind = "other" \/ (InMachine /\ Head(wire).kind = "users")
    /\ wire' = Tail(wire)
    /\ reader' = "top"
    /\ UNCHANGED <<panelVars, session, sock, writerVars, sendCh, workVars, reload,
                   closing, historyVars, told, faults>>

Note(m) ==
    /\ noted' = [noted EXCEPT ![TopicOf(m.kind)] =
                    IF m.rev > @ THEN m.rev ELSE @]
    /\ UNCHANGED blank

\* Faulty variant: an invalidation that meets a busy worker is taken as known.
EnqueueWhenIdle(m) ==
    LET t == TopicOf(m.kind) IN
    inbox' = IF Len(inbox[t]) < ChanCap /\ worker[t] = "idle"
             THEN [inbox EXCEPT ![t] = Append(@, m)] ELSE inbox

\* enqueueRealtimeConfigCheck and enqueueRealtimeUserSync: a full channel drops.
Enqueue(m) ==
    LET t == TopicOf(m.kind) IN
    inbox' = IF Len(inbox[t]) < ChanCap
             THEN [inbox EXCEPT ![t] = Append(@, m)] ELSE inbox

ReadInvalidate ==
    /\ ~InMachine
    /\ reader = "read" /\ wire # <<>>
    /\ LET m == Head(wire)
       IN  m.kind # "other" /\ Enqueue(m) /\ Note(m)
    /\ wire' = Tail(wire)
    /\ reader' = "top"
    /\ UNCHANGED <<panelVars, session, sock, writerVars, sendCh, worker, job, got,
                   known, seen, last, reload, closing, told, faults>>

\* The callback of a machine's client runs in the reader.
ReadMachineInvalidate ==
    /\ InMachine
    /\ reader = "read" /\ wire # <<>>
    /\ LET m == Head(wire)
       IN  /\ m.kind \in {"config", "force"}
           /\ Note(m)
           /\ worker' = [worker EXCEPT !["config"] = "received"]
           /\ job' = [job EXCEPT !["config"] = m]
    /\ wire' = Tail(wire)
    /\ reader' = "callback"
    /\ UNCHANGED <<panelVars, session, sock, writerVars, sendCh, inbox, got, known,
                   seen, last, reload, closing, told, faults>>

\* The sleep before the next connection, cut short by the context.
Sleep ==
    /\ reader = "delay"
    /\ reader' = IF Cancelled THEN "ended" ELSE "check"
    /\ UNCHANGED <<panelVars, socketVars, writerVars, sendCh, workVars, reload,
                   closing, historyVars, told, faults>>

-----------------------------------------------------------------------------
(* The writer of connection s.  Its select picks any case that is ready.    *)

\* The channel done of connection s is closed.
Done(s) == s < session \/ reader \in {"delay", "check", "dial", "ended"}

\* Faulty variant: the writer does not look at the context and keeps pinging.
WriterEndsOnDone(s) ==
    /\ writer[s] = "select" /\ Done(s)
    /\ writer' = [writer EXCEPT ![s] = "ended"]
    /\ UNCHANGED <<panelVars, socketVars, reader, hand, sendCh, workVars, reload,
                   closing, historyVars, told, faults>>

WriterEnds(s) ==
    /\ writer[s] = "select" /\ (Done(s) \/ Cancelled)
    /\ writer' = [writer EXCEPT ![s] = "ended"]
    /\ UNCHANGED <<panelVars, socketVars, reader, hand, sendCh, workVars, reload,
                   closing, historyVars, told, faults>>

WriterTakes(s) ==
    /\ writer[s] = "select" /\ sendCh # <<>>
    /\ writer' = [writer EXCEPT ![s] = "write"]
    /\ hand' = [hand EXCEPT ![s] = Head(sendCh)]
    /\ sendCh' = Tail(sendCh)
    /\ UNCHANGED <<panelVars, socketVars, reader, workVars, reload, closing,
                   historyVars, told, faults>>

WriterWrites(s) ==
    /\ writer[s] = "write" /\ sock[s] = "open"
    /\ writer' = [writer EXCEPT ![s] = "select"]
    /\ hand' = [hand EXCEPT ![s] = NoReceipt]
    /\ told' = IF hand[s].status = "applied" /\ hand[s].rev > told[hand[s].topic]
               THEN [told EXCEPT ![hand[s].topic] = hand[s].rev] ELSE told
    /\ UNCHANGED <<panelVars, socketVars, reader, sendCh, workVars, reload,
                   closing, historyVars, faults>>

\* A receipt or a ping cannot be written: the writer closes the connection
\* and ends; a receipt it holds is gone.
WriterFails(s) ==
    /\ writer[s] \in {"select", "write"}
    /\ IF sock[s] = "dead" THEN UNCHANGED faults ELSE Fault
    /\ writer' = [writer EXCEPT ![s] = "ended"]
    /\ hand' = [hand EXCEPT ![s] = NoReceipt]
    /\ sock' = [sock EXCEPT ![s] = "dead"]
    /\ wire' = IF s = session THEN <<>> ELSE wire
    /\ UNCHANGED <<panelVars, session, reader, sendCh, workVars, reload, closing,
                   historyVars, told>>

-----------------------------------------------------------------------------
(* The worker of topic t.                                                   *)

\* sendRealtimeReceipt; a receipt's event matters once it says "applied".
Send(t, status) ==
    LET rev == IF status = "applied" THEN job[t].rev ELSE 0
    IN  sendCh' = IF Len(sendCh) < SendCap
                  THEN Append(sendCh, [topic |-> t, rev |-> rev, status |-> status])
                  ELSE sendCh

Goto(t, where) == worker' = [worker EXCEPT ![t] = where]

WorkerEnds(t) ==
    /\ ~InMachine /\ worker[t] = "idle" /\ Cancelled
    /\ Goto(t, "ended")
    /\ UNCHANGED <<panelVars, socketVars, reader, writerVars, sendCh, inbox, job,
                   got, known, seen, last, reload, closing, historyVars, told, faults>>

TakeJob(t) ==
    /\ worker[t] = "idle" /\ inbox[t] # <<>>
    /\ Goto(t, "received")
    /\ job' = [job EXCEPT ![t] = Head(inbox[t])]
    /\ inbox' = [inbox EXCEPT ![t] = Tail(@)]
    /\ UNCHANGED <<panelVars, socketVars, reader, writerVars, sendCh, got, known,
                   seen, last, reload, closing, historyVars, told, faults>>

\* sendRealtimeReceipt "received", then "applying".
Receive(t) ==
    /\ worker[t] \in {"received", "applying"}
    /\ Send(t, worker[t])
    /\ Goto(t, IF worker[t] = "received" THEN "applying" ELSE "call")
    /\ UNCHANGED <<panelVars, socketVars, reader, writerVars, inbox, job, got, known,
                   seen, last, reload, closing, historyVars, told, faults>>

\* enqueueRealtimeReload, and onReload of a machine: the reload will read what
\* the panel has by then.
QueueReload ==
    /\ worker["config"] = "call"
    /\ InMachine \/ job["config"].kind = "force"
    /\ reload' = TRUE
    /\ seen' = [seen EXCEPT !["config"] = ver["config"]]
    /\ Goto("config", "applied")
    /\ UNCHANGED <<panelVars, socketVars, reader, writerVars, sendCh, inbox, job,
                   got, known, last, closing, historyVars, told, faults>>

\* The worker calls executeNodeUserSync or executeNodeConfigCheck.
Calls(t) == ~InMachine /\ worker[t] = "call" /\ job[t].kind # "force"

\* The panel answers.
Answer(t) ==
    /\ Calls(t) /\ ~Cancelled
    /\ got' = [got EXCEPT ![t] = ver[t]]
    /\ Goto(t, "apply")
    /\ UNCHANGED <<panelVars, socketVars, reader, writerVars, sendCh, inbox, job,
                   known, seen, last, reload, closing, historyVars, told, faults>>

\* GetUserDelta and GetNodeInfo return no error when Close cancels the call: for
\* the worker nothing has changed.
CallCancelled(t) ==
    /\ Calls(t) /\ Cancelled
    /\ Goto(t, "blank")
    /\ UNCHANGED <<panelVars, socketVars, reader, writerVars, sendCh, inbox, job, got,
                   known, seen, last, reload, closing, historyVars, told, faults>>

\* The answer holds something new.
News(t) == worker[t] = "apply" /\ got[t] # known[t]

\* The call fails or times out; or the new version is recorded, and then the core
\* does not take the users, or the protocol of the node is not supported.
JobFails(t) ==
    /\ Calls(t) \/ News(t)
    /\ Fault
    /\ known' = [known EXCEPT ![t] = IF News(t) THEN got[t] ELSE @]
    /\ got' = [got EXCEPT ![t] = 0]
    /\ Goto(t, "failed")
    /\ UNCHANGED <<panelVars, socketVars, reader, writerVars, sendCh, inbox, job,
                   seen, last, reload, closing, historyVars, told>>

\* The new users are recorded and do not all reach the core, and still
\* executeNodeUserSync returns without an error: the context ends, by its
\* timeout or by Close, while users are deleted or added, or the answer is a
\* full list without users.
CutShort ==
    /\ News("users")
    /\ IF Cancelled THEN UNCHANGED faults ELSE Fault
    /\ known' = [known EXCEPT !["users"] = got["users"]]
    /\ got' = [got EXCEPT !["users"] = 0]
    /\ Goto("users", "cut")
    /\ UNCHANGED <<panelVars, socketVars, reader, writerVars, sendCh, inbox, job,
                   seen, last, reload, closing, historyVars, told>>

\* The sync applies the difference to what was recorded: a core that lacks users
\* of an earlier version does not get them now.  A configuration that is new to
\* the client queues a reload; the same one again does nothing.
Acted(t) == IF t = "users" THEN seen[t] = known[t] ELSE News(t)

\* The job ends without an error.
JobDone(t) ==
    /\ worker[t] = "apply"
    /\ seen' = [seen EXCEPT ![t] = IF Acted(t) THEN got[t] ELSE @]
    /\ known' = [known EXCEPT ![t] = got[t]]
    /\ reload' = (reload \/ (t = "config" /\ News(t)))
    /\ got' = [got EXCEPT ![t] = 0]
    /\ Goto(t, "applied")
    /\ UNCHANGED <<panelVars, socketVars, reader, writerVars, sendCh, inbox, job,
                   last, closing, historyVars, told, faults>>

\* Faulty variant: the error of the sync is not looked at.
ReportSuccess(t) ==
    /\ worker[t] \in {"applied", "failed", "cut", "blank"}
    /\ Send(t, "applied")
    /\ last' = [last EXCEPT ![t] = IF worker[t] = "applied" THEN "applied" ELSE "failed"]
    /\ blank' = [blank EXCEPT ![t] = IF worker[t] = "blank" /\ job[t].rev > @
                                     THEN job[t].rev ELSE @]
    /\ job' = [job EXCEPT ![t] = NoMessage]
    /\ Goto(t, "idle")
    /\ reader' = IF InMachine THEN "top" ELSE reader
    /\ UNCHANGED <<panelVars, socketVars, writerVars, inbox, got, known, seen, reload,
                   closing, noted, told, faults>>

\* The last receipt: the outcome, which is "applied" without an error.
Report(t) ==
    /\ worker[t] \in {"applied", "failed", "cut", "blank"}
    /\ Send(t, IF worker[t] = "failed" THEN "failed" ELSE "applied")
    /\ last' = [last EXCEPT ![t] = IF worker[t] = "applied" THEN "applied" ELSE "failed"]
    /\ blank' = [blank EXCEPT ![t] = IF worker[t] = "blank" /\ job[t].rev > @
                                     THEN job[t].rev ELSE @]
    /\ job' = [job EXCEPT ![t] = NoMessage]
    /\ Goto(t, "idle")
    /\ reader' = IF InMachine THEN "top" ELSE reader
    /\ UNCHANGED <<panelVars, socketVars, writerVars, inbox, got, known, seen, reload,
                   closing, noted, told, faults>>

\* The server takes the reload signal (module Machine).
TakeReload ==
    /\ reload
    /\ reload' = FALSE
    /\ UNCHANGED <<panelVars, socketVars, reader, writerVars, sendCh, workVars,
                   closing, historyVars, told, faults>>

-----------------------------------------------------------------------------
(* Close.                                                                  *)

Cancel ==
    /\ closing = "no"
    /\ closing' = "wait"
    /\ UNCHANGED <<panelVars, socketVars, reader, writerVars, sendCh, workVars,
                   reload, historyVars, told, faults>>

\* c.wg.Wait() returns once run has.
Closed ==
    /\ closing = "wait" /\ reader = "ended"
    /\ closing' = "done"
    /\ UNCHANGED <<panelVars, socketVars, reader, writerVars, sendCh, workVars,
                   reload, historyVars, told, faults>>

-----------------------------------------------------------------------------

Init ==
    /\ setup \in Setups
    /\ ver = [t \in Topic |-> 0]
    /\ session = 0 /\ sock = [s \in Session |-> "none"] /\ wire = <<>>
    /\ reader = "check"
    /\ writer = [s \in Session |-> "none"]
    /\ hand = [s \in Session |-> NoReceipt] /\ sendCh = <<>>
    /\ inbox = [t \in Topic |-> <<>>]
    /\ worker = [t \in Topic |-> "idle"] /\ job = [t \in Topic |-> NoMessage]
    /\ got = [t \in Topic |-> 0]
    /\ known = [t \in Topic |-> 0] /\ seen = [t \in Topic |-> 0]
    /\ last = [t \in Topic |-> "applied"]
    /\ reload = FALSE /\ closing = "no"
    /\ noted = [t \in Topic |-> 0] /\ blank = [t \in Topic |-> 0]
    /\ told = [t \in Topic |-> 0] /\ faults = 0

Panel ==
    \/ \E kind \in Inform : PanelChange(TopicOf(kind))
    \/ \E kind \in Inform : PanelSend(kind)
    \/ Fault /\ PeerCloses
    \/ PeerTimesOut
    \/ TakeReload

Run ==
    \/ RunChecks \/ Dial \/ DialFails \/ Hello \/ HelloFails \/ ReadLoop
    \/ ReadFails \/ ReadOther \/ ReadInvalidate \/ ReadMachineInvalidate
    \/ Sleep

Writer(s) ==
    WriterEnds(s) \/ WriterTakes(s) \/ WriterWrites(s) \/ WriterFails(s)

Work(t) ==
    \/ WorkerEnds(t) \/ TakeJob(t) \/ Receive(t) \/ Answer(t) \/ CallCancelled(t)
    \/ JobFails(t) \/ JobDone(t) \/ Report(t)

Next ==
    \/ Panel \/ Run \/ Cancel \/ Closed \/ QueueReload \/ CutShort
    \/ \E s \in Session : Writer(s)
    \/ \E t \in Topic : Work(t)

Spec == Init /\ [][Next]_vars

\* The goroutines run; calls have timeouts, so that the panel answers a worker
\* or the call fails.  The panel owes the client nothing else: nothing is
\* assumed about what it sends and when it gives up a connection.
Fairness ==
    /\ WF_vars(Run) /\ WF_vars(Closed) /\ WF_vars(QueueReload)
    /\ \A s \in Session : WF_vars(Writer(s))
    /\ \A t \in Topic : WF_vars(Work(t))

FairSpec == Spec /\ Fairness

-----------------------------------------------------------------------------
(* Properties.                                                             *)

\* Every variable has the shape the code gives it.
TypeOK ==
    /\ ver \in [Topic -> 0 .. MaxVer]
    /\ session \in 0 .. MaxSession /\ sock \in [Session -> {"none", "open", "dead"}]
    /\ wire \in Seq(Message) /\ Len(wire) <= MaxWire
    /\ reader \in {"check", "dial", "hello", "top", "read", "callback", "delay", "ended"}
    /\ writer \in [Session -> {"none", "select", "write", "ended"}]
    /\ hand \in [Session -> Receipt] /\ sendCh \in Seq(Receipt) /\ Len(sendCh) <= SendCap
    /\ inbox \in [Topic -> Seq(Message)] /\ \A t \in Topic : Len(inbox[t]) <= ChanCap
    /\ worker \in [Topic -> {"idle", "received", "applying", "call", "apply",
                             "applied", "failed", "cut", "blank", "ended"}]
    /\ job \in [Topic -> Message] /\ got \in [Topic -> 0 .. MaxVer]
    /\ known \in [Topic -> 0 .. MaxVer]
    /\ reload \in BOOLEAN /\ closing \in {"no", "wait", "done"}
    /\ seen \in [Topic -> 0 .. MaxVer] /\ last \in [Topic -> {"applied", "failed"}]
    /\ noted \in [Topic -> 0 .. MaxVer] /\ blank \in [Topic -> 0 .. MaxVer]
    /\ told \in [Topic -> 0 .. MaxVer] /\ faults \in 0 .. MaxFaults

\* Every receipt "applied", from when it is queued until the panel has read it.
Confirmed(t) ==
    {told[t]} \cup {r.rev : r \in {x \in ToSet(sendCh) \cup Range(hand) :
                                    x.topic = t /\ x.status = "applied"}}

\* A version was recorded and not, or not wholly, acted on.  For users that is
\* so until the controller starts anew.
Behind(t) == seen[t] < known[t]

\* A receipt "applied" confirms nothing that the panel's answers did not hold:
\* the node has acted on a version at least as new.  Two receipts are not true.
\* While the node is behind, because an earlier version failed to apply or was
\* cut short, versions up to the recorded one are confirmed although the core
\* lacks some of it; and a call that Close cancels confirms its message without
\* any answer.
AppliedReceiptsTrue ==
    \A t \in Topic : \A v \in Confirmed(t) :
        \/ v <= seen[t]
        \/ Behind(t) /\ v <= known[t]
        \/ v <= blank[t]

\* What the client is told of is acted on, although a full channel drops
\* invalidations and a worker may be busy with an older one: the ones left in the
\* channel make the worker ask the panel again.  The exceptions are a failed job,
\* a node that is behind and a closed controller.
NoticesHandled ==
    \A t \in Topic : \A v \in 1 .. MaxVer :
        []<>(noted[t] < v \/ seen[t] >= v \/ last[t] = "failed" \/ Behind(t) \/ Cancelled)

\* run is in a ReadMessage on a connection on which nothing comes and which the
\* panel does not close.
Silent == reader = "read" /\ wire = <<>> /\ sock[session] = "open"

\* After Cancel every writer ends, and Close returns with no connection left
\* open unless run is in a read that nobody interrupts: cancelling the context
\* does not close the connection, and the read has no deadline.  Whatever the
\* panel sends, and its closing the connection, ends that read.
CloseEnds ==
    []<>(Cancelled => /\ \A s \in Session : writer[s] \in {"none", "ended"}
                      /\ closing = "done" \/ Silent
                      /\ \A s \in Session : sock[s] = "open" => Silent /\ s = session)

=============================================================================
