--------------------------- MODULE RealtimeProofs ---------------------------
(***************************************************************************)
(* Proofs about module Realtime, for every set of setups, every number of  *)
(* versions and connections and every capacity of the channels:            *)
(*                                                                         *)
(*   TypeCorrect       the type invariant;                                 *)
(*   ReceiptsAreTrue   a receipt "applied" never runs ahead of what the    *)
(*                     node has acted on, but in the two cases that        *)
(*                     AppliedReceiptsTrue names.                          *)
(*                                                                         *)
(* A receipt is about the message that started the job, and what the node  *)
(* acts on is what the panel answered later.  The two are related by the   *)
(* panel's version, which only grows: no message names a version the panel *)
(* has not had (NewsInv), so the answer to a call made for a message is at *)
(* least as new as the message, and no older than what the node had        *)
(* before (WorkInv).  Receipts already on their way stay true because      *)
(* neither seen nor known nor blank ever goes back (ReceiptInv).           *)
(***************************************************************************)
EXTENDS Realtime, TLAPS

-----------------------------------------------------------------------------
(* The inductive invariant.                                                *)

\* The panel has had the version that message m names.
Known(m) == m.rev <= ver[TopicOf(m.kind)]

\* Messages on the wire, in the channels and in the workers' hands are known,
\* and each channel holds messages of its own topic.
NewsInv ==
    /\ \A i \in 1 .. Len(wire) : Known(wire[i])
    /\ \A t \in Topic : \A i \in 1 .. Len(inbox[t]) :
          TopicOf(inbox[t][i].kind) = t /\ Known(inbox[t][i])
    /\ \A t \in Topic : job[t].rev <= ver[t]

\* Where worker t is with its job: the answer it holds is at least as new as
\* the job and as what the node recorded and acted on before; once the job is
\* done or cut short, what is recorded or acted on is as new as the job.
WorkInv ==
    \A t \in Topic :
        /\ got[t] <= ver[t] /\ seen[t] <= ver[t] /\ known[t] <= ver[t]
        /\ worker[t] = "apply" =>
              job[t].rev <= got[t] /\ seen[t] <= got[t] /\ known[t] <= got[t]
        /\ worker[t] \in {"applied", "cut"} =>
              job[t].rev <= seen[t] \/ job[t].rev <= known[t]

\* Version v of topic t may be confirmed.
MayConfirm(t, v) == v <= seen[t] \/ v <= known[t] \/ v <= blank[t]

\* Receipt r may be sent.
Truthful(r) == r.status = "applied" => MayConfirm(r.topic, r.rev)

\* Every receipt is truthful: queued, in the hand of a writer, or read.
ReceiptInv ==
    /\ \A i \in 1 .. Len(sendCh) : Truthful(sendCh[i])
    /\ \A s \in Session : Truthful(hand[s])
    /\ \A t \in Topic : MayConfirm(t, told[t])

\* The types, with the setup of the behaviour.
Types == setup \in Setups /\ TypeOK

RealtimeInv == Types /\ NewsInv /\ WorkInv /\ ReceiptInv

-----------------------------------------------------------------------------
(* Facts about sequences.                                                  *)

\* What Append does to a channel.
LEMMA AppendParts ==
    ASSUME NEW S, NEW q \in Seq(S), NEW e \in S
    PROVE  /\ Append(q, e) \in Seq(S) /\ Len(Append(q, e)) = Len(q) + 1
           /\ \A i \in 1 .. Len(q) : Append(q, e)[i] = q[i]
           /\ Append(q, e)[Len(q) + 1] = e
  OBVIOUS

\* What is left of a channel when its head is taken.
LEMMA TailParts ==
    ASSUME NEW S, NEW q \in Seq(S), q # <<>>
    PROVE  /\ Tail(q) \in Seq(S) /\ Len(Tail(q)) = Len(q) - 1 /\ Len(q) \in Nat \ {0}
           /\ \A i \in 1 .. Len(Tail(q)) : i + 1 \in 1 .. Len(q) /\ Tail(q)[i] = q[i + 1]
           /\ Head(q) = q[1] /\ Head(q) \in S
  OBVIOUS

\* What is left of the wire when the connection breaks.
LEMMA PrefixParts ==
    ASSUME NEW S, NEW q \in Seq(S), NEW n \in 0 .. Len(q)
    PROVE  /\ SubSeq(q, 1, n) \in Seq(S) /\ Len(SubSeq(q, 1, n)) = n
           /\ \A i \in 1 .. n : SubSeq(q, 1, n)[i] = q[i]
  OBVIOUS

-----------------------------------------------------------------------------
(* Types.                                                                  *)

\* The setup of a behaviour and the bounds it keeps.
Bounds ==
    /\ setup.machine \in BOOLEAN /\ setup.inform \subseteq Kind
    /\ setup.sessions \in 1 .. MaxSession
    /\ setup.maxVer \in Nat /\ setup.maxFaults \in Nat /\ setup.maxVer <= MaxVer
    /\ MaxVer \in Nat /\ MaxWire \in Nat
    /\ MaxSession \in Nat \ {0} /\ ChanCap \in Nat \ {0} /\ SendCap \in Nat \ {0}

\* A member of Setups is within the bounds.
LEMMA SetupOK == setup \in Setups => Bounds
  BY RealtimeAssumption DEF Bounds

\* NoMessage and NoReceipt are of the types of the variables that hold them.
LEMMA Nothing ==
    /\ NoMessage \in Message /\ NoReceipt \in Receipt
    /\ NoMessage.rev = 0 /\ NoReceipt.status = "failed"
  BY RealtimeAssumption
     DEF NoMessage, NoReceipt, Message, Receipt, Kind, Topic

\* A kind has a topic.
LEMMA TopicOK == \A k : TopicOf(k) \in Topic
  BY DEF TopicOf, Topic

\* Init gives every variable its type.
LEMMA TypeInit == Init => Types
  <1> SUFFICES ASSUME Init PROVE Types
    OBVIOUS
  <1>1. setup \in Setups /\ MaxFaults \in Nat
    BY RealtimeAssumption DEF Init, MaxFaults
  <1>2. /\ ver \in [Topic -> 0 .. MaxVer] /\ got \in [Topic -> 0 .. MaxVer]
        /\ seen \in [Topic -> 0 .. MaxVer] /\ noted \in [Topic -> 0 .. MaxVer]
        /\ told \in [Topic -> 0 .. MaxVer] /\ known \in [Topic -> 0 .. MaxVer]
        /\ blank \in [Topic -> 0 .. MaxVer]
        /\ session \in 0 .. MaxSession
    BY RealtimeAssumption DEF Init
  <1>3. /\ wire \in Seq(Message) /\ Len(wire) <= MaxWire
        /\ sendCh \in Seq(Receipt) /\ Len(sendCh) <= SendCap
        /\ inbox \in [Topic -> Seq(Message)] /\ \A t \in Topic : Len(inbox[t]) <= ChanCap
    BY RealtimeAssumption DEF Init
  <1>4. hand \in [Session -> Receipt] /\ job \in [Topic -> Message]
    BY Nothing DEF Init
  <1>5. /\ sock \in [Session -> {"none", "open", "dead"}]
        /\ writer \in [Session -> {"none", "select", "write", "ended"}]
        /\ worker \in [Topic -> {"idle", "received", "applying", "call", "apply",
                                 "applied", "failed", "cut", "blank", "ended"}]
        /\ last \in [Topic -> {"applied", "failed"}]
    BY DEF Init
  <1>6. /\ reader \in {"check", "dial", "hello", "top", "read", "callback", "delay", "ended"}
        /\ closing \in {"no", "wait", "done"}
    BY DEF Init
  <1>7. faults \in 0 .. MaxFaults /\ reload \in BOOLEAN
    <2>1. faults \in 0 .. MaxFaults
      BY <1>1 DEF Init
    <2>2. reload \in BOOLEAN
      BY DEF Init
    <2> QED
      BY <2>1, <2>2
  <1> QED
    BY <1>1, <1>2, <1>3, <1>4, <1>5, <1>6, <1>7 DEF Types, TypeOK

\* The panel and the network keep the types.
LEMMA TypePanel ==
    ASSUME Types, Panel
    PROVE  Types'
  <1>0. Bounds
    BY SetupOK DEF Types
  <1> USE DEF Types, TypeOK, panelVars, socketVars, writerVars, workVars, historyVars
  <1>1. ASSUME NEW kind \in Inform, PanelChange(TopicOf(kind))
        PROVE  Types'
    <2>1. TopicOf(kind) \in Topic
      BY TopicOK
    <2>2. ver' \in [Topic -> 0 .. MaxVer]
      <3>1. PICK t \in Topic : t = TopicOf(kind)
        BY <2>1
      <3>2. ver[t] \in 0 .. MaxVer /\ ver[t] < setup.maxVer
        BY <1>1, <3>1 DEF PanelChange
      <3>3. ver[t] + 1 \in 0 .. MaxVer
        <4>1. \A a, b, c \in Nat : a < b /\ b <= c => a + 1 \in 0 .. c
          OBVIOUS
        <4>2. ver[t] \in Nat /\ setup.maxVer \in Nat /\ MaxVer \in Nat /\ setup.maxVer <= MaxVer
          BY <1>0, <3>2 DEF Bounds
        <4> QED
          BY <3>2, <4>1, <4>2
      <3> QED
        BY <1>1, <3>1, <3>3 DEF PanelChange
    <2> QED
      BY <1>1, <2>2 DEF PanelChange, MaxFaults
  <1>2. ASSUME NEW kind \in Inform, PanelSend(kind)
        PROVE  Types'
    <2>1. PICK e : e = [kind |-> kind,
                        rev |-> IF kind = "other" THEN 0 ELSE ver[TopicOf(kind)]]
      OBVIOUS
    <2>2. e \in Message
      <3>1. kind \in Kind /\ TopicOf(kind) \in Topic
        BY <1>0, TopicOK DEF Bounds, Inform
      <3>2. (IF kind = "other" THEN 0 ELSE ver[TopicOf(kind)]) \in 0 .. MaxVer
        BY <1>0, <3>1 DEF Bounds
      <3> QED
        BY <2>1, <3>1, <3>2 DEF Message
    <2>3. wire' = Append(wire, e) /\ Len(wire) < MaxWire
      BY <1>2, <2>1 DEF PanelSend
    <2>4. wire' \in Seq(Message) /\ Len(wire') <= MaxWire
      BY <1>0, <2>2, <2>3, AppendParts DEF Bounds
    <2> QED
      BY <1>2, <2>4 DEF PanelSend, MaxFaults
  <1>3. ASSUME PeerCloses, faults' \in 0 .. MaxFaults
        PROVE  Types'
    <2>1. PICK n \in 0 .. Len(wire) : wire' = SubSeq(wire, 1, n)
      BY <1>3 DEF PeerCloses
    <2>2. wire' \in Seq(Message) /\ Len(wire') <= MaxWire
      BY <1>0, <2>1, PrefixParts DEF Bounds
    <2> QED
      BY <1>3, <2>2 DEF PeerCloses, MaxFaults
  <1>4. CASE Fault /\ PeerCloses
    <2>1. faults' \in 0 .. MaxFaults
      BY <1>0, <1>4 DEF Bounds, Fault, MaxFaults
    <2> QED
      BY <1>3, <1>4, <2>1
  <1>5. CASE PeerTimesOut
    BY <1>3, <1>5 DEF PeerTimesOut
  <1>6. CASE TakeReload
    BY <1>6 DEF TakeReload, MaxFaults
  <1> QED
    BY <1>1, <1>2, <1>4, <1>5, <1>6 DEF Panel

\* run and connectAndServe keep the types.
LEMMA TypeRun ==
    ASSUME Types, Run
    PROVE  Types'
  <1>0. Bounds
    BY SetupOK DEF Types
  <1> USE DEF Types, TypeOK, panelVars, socketVars, writerVars, workVars, historyVars
  <1>e. <<>> \in Seq(Message) /\ Len(<<>>) <= MaxWire
    BY <1>0 DEF Bounds
  <1>f. Fault => faults' \in 0 .. MaxFaults
    BY <1>0 DEF Bounds, Fault, MaxFaults
  <1>t. wire # <<>> => Tail(wire) \in Seq(Message) /\ Len(Tail(wire)) <= MaxWire
    BY <1>0, TailParts DEF Bounds
  <1>l. Leave => /\ wire' \in Seq(Message) /\ Len(wire') <= MaxWire
                 /\ sock' \in [Session -> {"none", "open", "dead"}]
                 /\ reader' = "delay"
    BY <1>e DEF Leave
  <1>m. wire # <<>> => Head(wire) \in Message /\ TopicOf(Head(wire).kind) \in Topic
    BY TailParts, TopicOK
  <1>n. ASSUME NEW m \in Message, Note(m)
        PROVE  noted' \in [Topic -> 0 .. MaxVer] /\ blank' = blank
    <2>1. m.rev \in 0 .. MaxVer /\ TopicOf(m.kind) \in Topic
      BY TopicOK DEF Message
    <2> QED
      BY <1>n, <2>1 DEF Note
  <1>1. CASE RunChecks
    BY <1>1 DEF RunChecks, MaxFaults
  <1>2. CASE Dial
    <2>1. session' \in 0 .. MaxSession
      <3>1. \A a, b, c \in Nat : a < b /\ b <= c => a + 1 \in 0 .. c
        OBVIOUS
      <3>2. /\ session \in Nat /\ setup.sessions \in Nat /\ MaxSession \in Nat
            /\ setup.sessions <= MaxSession
        BY <1>0 DEF Bounds
      <3> QED
        BY <1>2, <3>1, <3>2 DEF Dial
    <2> QED
      BY <1>2, <1>e, <2>1 DEF Dial, MaxFaults
  <1>3. CASE DialFails
    <2>1. faults' \in 0 .. MaxFaults
      BY <1>3, <1>f DEF DialFails
    <2> QED
      BY <1>3, <2>1 DEF DialFails, MaxFaults
  <1>4. CASE Hello
    BY <1>4 DEF Hello, MaxFaults
  <1>5. CASE HelloFails
    <2>1. faults' \in 0 .. MaxFaults
      BY <1>5, <1>f DEF HelloFails
    <2> QED
      BY <1>5, <1>l, <2>1 DEF HelloFails, MaxFaults
  <1>6. CASE ReadLoop
    BY <1>6, <1>l DEF ReadLoop, MaxFaults
  <1>7. CASE ReadFails
    BY <1>7, <1>l DEF ReadFails, MaxFaults
  <1>8. CASE ReadOther
    BY <1>8, <1>t DEF ReadOther, MaxFaults
  <1>9. CASE ReadInvalidate
    <2>1. PICK m \in Message : m = Head(wire) /\ Enqueue(m) /\ Note(m)
      BY <1>9, <1>m DEF ReadInvalidate
    <2>2. PICK t \in Topic : t = TopicOf(m.kind)
      BY TopicOK
    <2>3. /\ Append(inbox[t], m) \in Seq(Message)
          /\ Len(inbox[t]) < ChanCap => Len(Append(inbox[t], m)) <= ChanCap
      <3>1. inbox[t] \in Seq(Message)
        OBVIOUS
      <3> QED
        BY <1>0, <3>1, AppendParts DEF Bounds
    <2>4. inbox' = IF Len(inbox[t]) < ChanCap
                   THEN [inbox EXCEPT ![t] = Append(inbox[t], m)] ELSE inbox
      BY <2>1, <2>2 DEF Enqueue
    <2>5. inbox' \in [Topic -> Seq(Message)] /\ \A u \in Topic : Len(inbox'[u]) <= ChanCap
      BY <2>3, <2>4
    <2>6. noted' \in [Topic -> 0 .. MaxVer] /\ blank' = blank
      BY <1>n, <2>1
    <2> QED
      BY <1>9, <1>t, <2>5, <2>6 DEF ReadInvalidate, MaxFaults
  <1>10. CASE ReadMachineInvalidate
    <2>1. PICK m \in Message :
             /\ Note(m) /\ worker' = [worker EXCEPT !["config"] = "received"]
             /\ job' = [job EXCEPT !["config"] = m]
      BY <1>10, <1>m DEF ReadMachineInvalidate
    <2>2. noted' \in [Topic -> 0 .. MaxVer] /\ blank' = blank
      BY <1>n, <2>1
    <2>3. job' \in [Topic -> Message]
      BY <2>1
    <2> QED
      BY <1>10, <1>t, <2>1, <2>2, <2>3 DEF ReadMachineInvalidate, MaxFaults
  <1>11. CASE Sleep
    BY <1>11 DEF Sleep, MaxFaults
  <1> QED
    BY <1>1, <1>2, <1>3, <1>4, <1>5, <1>6, <1>7, <1>8, <1>9, <1>10, <1>11 DEF Run

\* The writers keep the types.
LEMMA TypeWriter ==
    ASSUME Types, NEW s \in Session, Writer(s)
    PROVE  Types'
  <1>0. Bounds
    BY SetupOK DEF Types
  <1> USE DEF Types, TypeOK, panelVars, socketVars, writerVars, workVars, historyVars
  <1>1. CASE WriterEnds(s)
    BY <1>1 DEF WriterEnds, MaxFaults
  <1>2. CASE WriterTakes(s)
    <2>1. /\ Tail(sendCh) \in Seq(Receipt) /\ Len(Tail(sendCh)) <= SendCap
          /\ Head(sendCh) \in Receipt
      BY <1>0, <1>2, TailParts DEF WriterTakes, Bounds
    <2> QED
      BY <1>2, <2>1 DEF WriterTakes, MaxFaults
  <1>3. CASE WriterWrites(s)
    <2>1. hand[s].topic \in Topic /\ hand[s].rev \in 0 .. MaxVer
      BY DEF Receipt
    <2>2. told' \in [Topic -> 0 .. MaxVer]
      BY <1>3, <2>1 DEF WriterWrites
    <2> QED
      BY <1>3, <2>2, Nothing DEF WriterWrites, MaxFaults
  <1>4. CASE WriterFails(s)
    <2>1. faults' \in 0 .. MaxFaults
      BY <1>0, <1>4 DEF WriterFails, Bounds, Fault, MaxFaults
    <2>2. wire' \in Seq(Message) /\ Len(wire') <= MaxWire
      BY <1>0, <1>4 DEF WriterFails, Bounds
    <2> QED
      BY <1>4, <2>1, <2>2, Nothing DEF WriterFails, MaxFaults
  <1> QED
    BY <1>1, <1>2, <1>3, <1>4 DEF Writer

\* Sending a receipt keeps the type of the channel.
LEMMA TypeSend ==
    ASSUME Types, NEW t \in Topic,
           NEW status \in {"received", "applying", "applied", "failed"}, Send(t, status)
    PROVE  sendCh' \in Seq(Receipt) /\ Len(sendCh') <= SendCap
  <1>0. Bounds
    BY SetupOK DEF Types
  <1>1. PICK rev : rev = IF status = "applied" THEN job[t].rev ELSE 0
    OBVIOUS
  <1>2. rev \in 0 .. MaxVer
    BY <1>0, <1>1 DEF Types, TypeOK, Message, Bounds
  <1>3. PICK r : r = [topic |-> t, rev |-> rev, status |-> status]
    OBVIOUS
  <1>4. r \in Receipt
    BY <1>2, <1>3 DEF Receipt
  <1>5. sendCh' = IF Len(sendCh) < SendCap THEN Append(sendCh, r) ELSE sendCh
    BY <1>1, <1>3 DEF Send
  <1>6. sendCh \in Seq(Receipt) /\ Len(sendCh) <= SendCap
    BY DEF Types, TypeOK
  <1> QED
    BY <1>0, <1>4, <1>5, <1>6, AppendParts DEF Bounds

\* The workers, QueueReload and CutShort keep the types.
LEMMA TypeWork ==
    ASSUME Types, (\E t \in Topic : Work(t)) \/ QueueReload \/ CutShort
    PROVE  Types'
  <1>0. Bounds
    BY SetupOK DEF Types
  <1>s. \A t \in Topic : \A status \in {"received", "applying", "applied", "failed"} :
           Send(t, status) => sendCh' \in Seq(Receipt) /\ Len(sendCh') <= SendCap
    BY TypeSend
  <1>m. \A t \in Topic : job[t].rev \in 0 .. MaxVer
    BY DEF Types, TypeOK, Message
  <1>u. "users" \in Topic /\ "config" \in Topic
    BY DEF Topic
  <1>z. 0 \in 0 .. MaxVer
    BY <1>0 DEF Bounds
  <1> USE DEF Types, TypeOK, panelVars, socketVars, writerVars, workVars, historyVars, Goto
  <1>f. Fault => faults' \in 0 .. MaxFaults
    BY <1>0 DEF Bounds, Fault, MaxFaults
  <1>1. ASSUME NEW t \in Topic, WorkerEnds(t)
        PROVE  Types'
    BY <1>1 DEF WorkerEnds, MaxFaults
  <1>2. ASSUME NEW t \in Topic, TakeJob(t)
        PROVE  Types'
    <2>1. inbox[t] \in Seq(Message) /\ inbox[t] # <<>> /\ Len(inbox[t]) <= ChanCap
      BY <1>2 DEF TakeJob
    <2>2. /\ Head(inbox[t]) \in Message /\ Tail(inbox[t]) \in Seq(Message)
          /\ Len(Tail(inbox[t])) <= ChanCap
      BY <1>0, <2>1, TailParts DEF Bounds
    <2> QED
      BY <1>2, <2>2 DEF TakeJob, MaxFaults
  <1>3. ASSUME NEW t \in Topic, Receive(t)
        PROVE  Types'
    <2>1. sendCh' \in Seq(Receipt) /\ Len(sendCh') <= SendCap
      BY <1>3, <1>s DEF Receive
    <2> QED
      BY <1>3, <2>1 DEF Receive, MaxFaults
  <1>4. ASSUME NEW t \in Topic, Answer(t)
        PROVE  Types'
    BY <1>4 DEF Answer, MaxFaults
  <1>10. ASSUME NEW t \in Topic, CallCancelled(t)
        PROVE  Types'
    BY <1>10 DEF CallCancelled, MaxFaults
  <1>5. ASSUME NEW t \in Topic, JobFails(t)
        PROVE  Types'
    <2>1. faults' \in 0 .. MaxFaults
      BY <1>5, <1>f DEF JobFails, MaxFaults
    <2> QED
      BY <1>5, <1>z, <2>1 DEF JobFails, MaxFaults
  <1>6. ASSUME NEW t \in Topic, JobDone(t)
        PROVE  Types'
    <2>1. reload' \in BOOLEAN
      BY <1>6 DEF JobDone
    <2> QED
      BY <1>6, <1>z, <2>1 DEF JobDone, MaxFaults
  <1>7. ASSUME NEW t \in Topic, Report(t)
        PROVE  Types'
    <2>1. sendCh' \in Seq(Receipt) /\ Len(sendCh') <= SendCap
      BY <1>7, <1>s DEF Report
    <2>2. blank' \in [Topic -> 0 .. MaxVer]
      BY <1>7, <1>m DEF Report
    <2> QED
      BY <1>7, <2>1, <2>2, Nothing DEF Report, MaxFaults
  <1>8. CASE QueueReload
    BY <1>8, <1>u DEF QueueReload, MaxFaults
  <1>9. CASE CutShort
    <2>1. faults' \in 0 .. MaxFaults
      BY <1>9, <1>f DEF CutShort, MaxFaults
    <2> QED
      BY <1>9, <1>u, <1>z, <2>1 DEF CutShort, MaxFaults
  <1> QED
    BY <1>1, <1>2, <1>3, <1>4, <1>5, <1>6, <1>7, <1>8, <1>9, <1>10 DEF Work

\* Every step keeps the types.
LEMMA TypeStep ==
    ASSUME Types, [Next]_vars
    PROVE  Types'
  <1>1. CASE Panel
    BY <1>1, TypePanel
  <1>2. CASE Run
    BY <1>2, TypeRun
  <1>3. CASE Cancel \/ Closed
    BY <1>3 DEF Cancel, Closed, Types, TypeOK, MaxFaults, panelVars, socketVars,
       writerVars, workVars, historyVars
  <1>4. CASE \E s \in Session : Writer(s)
    BY <1>4, TypeWriter
  <1>5. CASE (\E t \in Topic : Work(t)) \/ QueueReload \/ CutShort
    BY <1>5, TypeWork
  <1>6. CASE UNCHANGED vars
    BY <1>6 DEF vars, Types, TypeOK, MaxFaults, panelVars, socketVars, writerVars,
       workVars, historyVars
  <1> QED
    BY <1>1, <1>2, <1>3, <1>4, <1>5, <1>6 DEF Next

-----------------------------------------------------------------------------
(* NewsInv: no message is ahead of the panel.                              *)

\* The panel's versions do not go back, so what is known stays known.
LEMMA VersionsGrow ==
    ASSUME Types, [Next]_vars
    PROVE  /\ \A t \in Topic : ver[t] <= ver'[t]
           /\ (~ Panel) => ver' = ver
  <1> USE DEF panelVars, socketVars, writerVars, workVars, historyVars
  <1>0. \A t \in Topic : ver[t] \in Int
    BY DEF Types, TypeOK
  <1>1. ASSUME NEW kind, PanelChange(TopicOf(kind))
        PROVE  \A t \in Topic : ver[t] <= ver'[t]
    BY <1>0, <1>1 DEF PanelChange, Types, TypeOK
  <1>2. /\ \A kind : PanelSend(kind) => ver' = ver
        /\ PeerCloses \/ PeerTimesOut \/ TakeReload => ver' = ver
    BY DEF PanelSend, PeerCloses, PeerTimesOut, TakeReload
  <1>3. Run => ver' = ver
    BY DEF Run, RunChecks, Dial, DialFails, Hello, HelloFails, ReadLoop, ReadFails,
       ReadOther, ReadInvalidate, ReadMachineInvalidate, Sleep
  <1>4. Cancel \/ Closed \/ QueueReload \/ CutShort \/ UNCHANGED vars => ver' = ver
    BY DEF Cancel, Closed, QueueReload, CutShort, vars
  <1>5. ASSUME NEW s \in Session, Writer(s)
        PROVE  ver' = ver
    BY <1>5 DEF Writer, WriterEnds, WriterTakes, WriterWrites, WriterFails
  <1>6. ASSUME NEW t \in Topic, Work(t)
        PROVE  ver' = ver
    BY <1>6 DEF Work, WorkerEnds, TakeJob, Receive, Answer, CallCancelled, JobFails, JobDone,
                Report
  <1>7. (~ Panel) => ver' = ver
    BY <1>3, <1>4, <1>5, <1>6 DEF Next
  <1>8. CASE Panel
    BY <1>0, <1>1, <1>2, <1>8 DEF Panel
  <1> QED
    BY <1>0, <1>7, <1>8

\* Which steps move messages, and how.
LEMMA MessagesMove ==
    ASSUME [Next]_vars
    PROVE  /\ \/ UNCHANGED wire
              \/ wire' = <<>>
              \/ wire # <<>> /\ wire' = Tail(wire)
              \/ \E n \in 0 .. Len(wire) : wire' = SubSeq(wire, 1, n)
              \/ \E kind \in Inform : PanelSend(kind)
           /\ UNCHANGED inbox \/ ReadInvalidate \/ \E t \in Topic : TakeJob(t)
           /\ \/ UNCHANGED job
              \/ ReadMachineInvalidate
              \/ \E t \in Topic : TakeJob(t) \/ Report(t)
  <1> USE DEF panelVars, socketVars, writerVars, workVars, historyVars
  <1>1. CASE Panel
    BY <1>1 DEF Panel, PanelChange, PanelSend, PeerCloses, PeerTimesOut, TakeReload
  <1>2. CASE Run
    BY <1>2 DEF Run, RunChecks, Dial, DialFails, Hello, HelloFails, ReadLoop,
       ReadFails, ReadOther, ReadInvalidate, ReadMachineInvalidate, Sleep, Leave
  <1>3. CASE Cancel \/ Closed \/ QueueReload \/ CutShort \/ UNCHANGED vars
    BY <1>3 DEF Cancel, Closed, QueueReload, CutShort, vars
  <1>4. ASSUME NEW s \in Session, Writer(s)
        PROVE  /\ UNCHANGED wire \/ wire' = <<>>
               /\ UNCHANGED <<inbox, job>>
    BY <1>4 DEF Writer, WriterEnds, WriterTakes, WriterWrites, WriterFails
  <1>5. ASSUME NEW t \in Topic, Work(t)
        PROVE  /\ UNCHANGED wire
               /\ UNCHANGED inbox \/ TakeJob(t)
               /\ UNCHANGED job \/ TakeJob(t) \/ Report(t)
    BY <1>5 DEF Work, WorkerEnds, Receive, Answer, CallCancelled, JobFails, JobDone, Report,
                TakeJob
  <1> QED
    BY <1>1, <1>2, <1>3, <1>4, <1>5 DEF Next

\* Every step keeps NewsInv.
LEMMA NewsStep ==
    ASSUME Types, NewsInv, [Next]_vars
    PROVE  NewsInv'
  <1>0. Bounds
    BY SetupOK DEF Types
  <1>1. /\ wire \in Seq(Message) /\ \A t \in Topic : inbox[t] \in Seq(Message)
        /\ inbox \in [Topic -> Seq(Message)] /\ job \in [Topic -> Message]
        /\ \A t \in Topic : ver[t] \in Int /\ ver'[t] \in Int
    <2>1. Types'
      BY TypeStep
    <2> QED
      BY <2>1 DEF Types, TypeOK
  <1>2. \A m \in Message : Known(m) => m.rev <= ver'[TopicOf(m.kind)]
    <2> SUFFICES ASSUME NEW m \in Message, Known(m)
                 PROVE  m.rev <= ver'[TopicOf(m.kind)]
      OBVIOUS
    <2>1. PICK t \in Topic : t = TopicOf(m.kind)
      BY TopicOK
    <2>2. m.rev \in Int /\ m.rev <= ver[t] /\ ver[t] <= ver'[t]
      BY <2>1, VersionsGrow DEF Known, Message
    <2> QED
      BY <1>1, <2>1, <2>2
  <1>h. \A i \in 1 .. Len(wire) : wire[i] \in Message /\ Known(wire[i])
    BY <1>1 DEF NewsInv
  <1>3. \A i \in 1 .. Len(wire') : wire'[i].rev <= ver'[TopicOf(wire'[i].kind)]
    <2>1. CASE UNCHANGED wire \/ wire' = <<>>
      BY <1>2, <1>h, <2>1
    <2>2. CASE wire # <<>> /\ wire' = Tail(wire)
      BY <1>1, <1>2, <1>h, <2>2, TailParts
    <2>3. ASSUME NEW n \in 0 .. Len(wire), wire' = SubSeq(wire, 1, n)
          PROVE  \A i \in 1 .. Len(wire') : wire'[i].rev <= ver'[TopicOf(wire'[i].kind)]
      <3>1. Len(wire') = n /\ \A i \in 1 .. n : wire'[i] = wire[i] /\ i \in 1 .. Len(wire)
        BY <1>1, <2>3, PrefixParts
      <3> QED
        BY <1>2, <1>h, <3>1
    <2>4. ASSUME NEW kind \in Inform, PanelSend(kind)
          PROVE  \A i \in 1 .. Len(wire') : wire'[i].rev <= ver'[TopicOf(wire'[i].kind)]
      <3>1. PICK m : m = [kind |-> kind,
                          rev |-> IF kind = "other" THEN 0 ELSE ver[TopicOf(kind)]]
        OBVIOUS
      <3>2. kind \in Kind /\ TopicOf(kind) \in Topic /\ ver[TopicOf(kind)] \in 0 .. MaxVer
        BY <1>0, TopicOK DEF Bounds, Inform, Types, TypeOK
      <3>3. m \in Message /\ Known(m)
        BY <1>0, <3>1, <3>2 DEF Message, Known, Bounds
      <3>4. wire' = Append(wire, m)
        BY <2>4, <3>1 DEF PanelSend
      <3>5. /\ Len(wire') = Len(wire) + 1 /\ wire'[Len(wire) + 1] = m
            /\ \A i \in 1 .. Len(wire) : wire'[i] = wire[i]
        BY <1>1, <3>3, <3>4, AppendParts
      <3>6. Len(wire) \in Nat
        BY <1>1
      <3>7. \A i \in 1 .. Len(wire') : i \in 1 .. Len(wire) \/ i = Len(wire) + 1
        BY <3>5, <3>6
      <3> QED
        BY <1>2, <1>h, <3>3, <3>5, <3>7
    <2> QED
      BY <2>1, <2>2, <2>3, <2>4, MessagesMove
  <1>b. \A t \in Topic : \A i \in 1 .. Len(inbox[t]) :
           /\ inbox[t][i] \in Message /\ Known(inbox[t][i])
           /\ TopicOf(inbox[t][i].kind) = t
    BY <1>1 DEF NewsInv
  <1>4. ASSUME NEW u \in Topic, NEW i \in 1 .. Len(inbox'[u])
        PROVE  /\ TopicOf(inbox'[u][i].kind) = u
               /\ inbox'[u][i].rev <= ver'[TopicOf(inbox'[u][i].kind)]
    <2>1. CASE UNCHANGED inbox
      BY <1>2, <1>b, <2>1
    <2>2. CASE ReadInvalidate
      <3>1. PICK m : m = Head(wire) /\ Enqueue(m) /\ wire # <<>>
        BY <2>2 DEF ReadInvalidate
      <3>2. m \in Message /\ m = wire[1] /\ 1 \in 1 .. Len(wire)
        BY <1>1, <3>1, TailParts
      <3>3. Known(m)
        BY <1>h, <3>2
      <3>4. PICK t \in Topic : t = TopicOf(m.kind)
        BY TopicOK
      <3>5. inbox' = IF Len(inbox[t]) < ChanCap
                     THEN [inbox EXCEPT ![t] = Append(inbox[t], m)] ELSE inbox
        BY <3>1, <3>4 DEF Enqueue
      <3>6. CASE inbox'[u] = inbox[u]
        BY <1>2, <1>b, <3>6
      <3>7. CASE u = t /\ inbox'[u] = Append(inbox[u], m)
        <4>1. /\ Len(inbox'[u]) = Len(inbox[u]) + 1 /\ inbox'[u][Len(inbox[u]) + 1] = m
              /\ \A j \in 1 .. Len(inbox[u]) : inbox'[u][j] = inbox[u][j]
          BY <1>1, <3>2, <3>7, AppendParts
        <4>2. Len(inbox[u]) \in Nat
          BY <1>1
        <4>3. i \in 1 .. Len(inbox[u]) \/ i = Len(inbox[u]) + 1
          BY <4>1, <4>2
        <4> QED
          BY <1>2, <1>b, <3>2, <3>3, <3>4, <3>7, <4>1, <4>3
      <3> QED
        BY <1>1, <3>5, <3>6, <3>7
    <2>3. ASSUME NEW t \in Topic, TakeJob(t)
          PROVE  /\ TopicOf(inbox'[u][i].kind) = u
                 /\ inbox'[u][i].rev <= ver'[TopicOf(inbox'[u][i].kind)]
      <3>1. /\ inbox[t] # <<>>
            /\ inbox' = [inbox EXCEPT ![t] = Tail(inbox[t])]
        BY <2>3 DEF TakeJob
      <3>2. CASE u # t
        <4>1. inbox'[u] = inbox[u]
          BY <1>1, <3>1, <3>2
        <4> QED
          BY <1>2, <1>b, <4>1
      <3>3. CASE u = t
        <4>1. inbox'[u] = Tail(inbox[u]) /\ inbox[u] # <<>>
          BY <1>1, <3>1, <3>3
        <4>2. i + 1 \in 1 .. Len(inbox[u]) /\ inbox'[u][i] = inbox[u][i + 1]
          BY <1>1, <4>1, TailParts
        <4> QED
          BY <1>2, <1>b, <4>2
      <3> QED
        BY <3>2, <3>3
    <2> QED
      BY <2>1, <2>2, <2>3, MessagesMove
  <1>5. ASSUME NEW u \in Topic
        PROVE  job'[u].rev <= ver'[u]
    <2>0. job[u].rev <= ver[u] /\ ver[u] <= ver'[u] /\ job[u].rev \in Int
      BY <1>1, VersionsGrow DEF NewsInv, Message
    <2>1. CASE job'[u] = job[u]
      BY <1>1, <2>0, <2>1
    <2>2. CASE ReadMachineInvalidate
      <3>1. PICK m : /\ m = Head(wire) /\ wire # <<>> /\ m.kind \in {"config", "force"}
                     /\ job' = [job EXCEPT !["config"] = m]
        BY <2>2 DEF ReadMachineInvalidate
      <3>2. m \in Message /\ m = wire[1] /\ 1 \in 1 .. Len(wire)
        BY <1>1, <3>1, TailParts
      <3>3. m.rev <= ver'["config"]
        BY <1>2, <1>h, <3>1, <3>2 DEF TopicOf
      <3> QED
        BY <1>1, <2>1, <3>1, <3>3
    <2>3. ASSUME NEW t \in Topic, TakeJob(t)
          PROVE  job'[u].rev <= ver'[u]
      <3>1. inbox[t] # <<>> /\ job' = [job EXCEPT ![t] = Head(inbox[t])]
        BY <2>3 DEF TakeJob
      <3>2. Head(inbox[t]) = inbox[t][1] /\ 1 \in 1 .. Len(inbox[t])
        BY <1>1, <3>1, TailParts
      <3>3. Head(inbox[t]).rev <= ver'[t]
        BY <1>2, <1>b, <3>2
      <3> QED
        BY <1>1, <2>1, <3>1, <3>3
    <2>4. ASSUME NEW t \in Topic, Report(t)
          PROVE  job'[u].rev <= ver'[u]
      <3>1. job' = [job EXCEPT ![t] = NoMessage]
        BY <2>4 DEF Report
      <3>2. 0 <= ver'[u]
        <4>1. ver[u] \in Nat
          BY <1>0 DEF Types, TypeOK, Bounds
        <4> QED
          BY <1>1, <2>0, <4>1
      <3> QED
        BY <1>1, <2>1, <3>1, <3>2, Nothing
    <2> QED
      BY <2>1, <2>2, <2>3, <2>4, MessagesMove
  <1> QED
    BY <1>3, <1>4, <1>5 DEF NewsInv, Known

-----------------------------------------------------------------------------
(* WorkInv: an answer is no older than the job it is for.                  *)

\* Which steps move the workers, and what they have acted on.
LEMMA WorkersMove ==
    ASSUME [Next]_vars
    PROVE  /\ \/ UNCHANGED <<worker, job, got, known, seen>>
              \/ ReadMachineInvalidate \/ QueueReload \/ CutShort
              \/ \E t \in Topic : Work(t)
           /\ UNCHANGED blank \/ \E t \in Topic : Report(t)
  <1> USE DEF panelVars, socketVars, writerVars, workVars, historyVars
  <1>1. CASE Panel
    BY <1>1 DEF Panel, PanelChange, PanelSend, PeerCloses, PeerTimesOut, TakeReload
  <1>2. CASE Run
    BY <1>2 DEF Run, RunChecks, Dial, DialFails, Hello, HelloFails, ReadLoop,
       ReadFails, ReadOther, ReadInvalidate, ReadMachineInvalidate, Sleep, Leave, Note
  <1>3. CASE Cancel \/ Closed \/ QueueReload \/ CutShort \/ UNCHANGED vars
    BY <1>3 DEF Cancel, Closed, QueueReload, CutShort, vars
  <1>4. ASSUME NEW s \in Session, Writer(s)
        PROVE  UNCHANGED <<worker, job, got, known, seen, blank>>
    BY <1>4 DEF Writer, WriterEnds, WriterTakes, WriterWrites, WriterFails
  <1>5. ASSUME NEW t \in Topic, Work(t)
        PROVE  UNCHANGED blank \/ Report(t)
    BY <1>5 DEF Work, WorkerEnds, Receive, Answer, CallCancelled, JobFails, JobDone, TakeJob
  <1> QED
    BY <1>1, <1>2, <1>3, <1>4, <1>5 DEF Next

\* Every step keeps WorkInv.
LEMMA WorkStep ==
    ASSUME Types, NewsInv, WorkInv, [Next]_vars
    PROVE  WorkInv'
  <1>0. Bounds
    BY SetupOK DEF Types
  <1>1. /\ \A t \in Topic : /\ ver[t] \in Nat /\ got[t] \in Nat /\ seen[t] \in Nat
                            /\ known[t] \in Nat /\ job[t].rev \in Nat
        /\ got \in [Topic -> Nat] /\ seen \in [Topic -> Nat] /\ known \in [Topic -> Nat]
        /\ DOMAIN worker = Topic /\ job \in [Topic -> Message]
    <2>1. /\ \A t \in Topic : /\ ver[t] \in 0 .. MaxVer /\ got[t] \in 0 .. MaxVer
                              /\ seen[t] \in 0 .. MaxVer /\ known[t] \in 0 .. MaxVer
                              /\ job[t] \in Message
          /\ got \in [Topic -> 0 .. MaxVer] /\ seen \in [Topic -> 0 .. MaxVer]
          /\ known \in [Topic -> 0 .. MaxVer]
          /\ DOMAIN worker = Topic /\ job \in [Topic -> Message]
      BY DEF Types, TypeOK
    <2> QED
      BY <1>0, <2>1 DEF Message, Bounds
  <1>2. \A t \in Topic : job[t].rev <= ver[t]
    BY DEF NewsInv
  <1>u. "users" \in Topic /\ "config" \in Topic
    BY DEF Topic
  <1> USE DEF WorkInv, panelVars, Goto
  <1>3. CASE UNCHANGED <<worker, job, got, known, seen>>
    <2>1. \A t \in Topic : ver[t] <= ver'[t] /\ ver'[t] \in Int
      <3>1. Types'
        BY TypeStep
      <3>2. \A t \in Topic : ver'[t] \in Int
        BY <3>1 DEF Types, TypeOK
      <3> QED
        BY <3>2, VersionsGrow
    <2> QED
      BY <1>1, <1>3, <2>1
  <1>4. CASE ReadMachineInvalidate
    <2>1. PICK m : /\ job' = [job EXCEPT !["config"] = m]
                   /\ worker' = [worker EXCEPT !["config"] = "received"]
                   /\ UNCHANGED <<ver, got, known, seen>>
      BY <1>4 DEF ReadMachineInvalidate
    <2> QED
      BY <1>1, <2>1
  <1>5. CASE QueueReload
    BY <1>1, <1>2, <1>5, <1>u DEF QueueReload
  <1>6. CASE CutShort
    BY <1>1, <1>2, <1>6, <1>u DEF CutShort, News
  <1>7. ASSUME NEW t \in Topic, Work(t)
        PROVE  WorkInv'
    <2>1. CASE WorkerEnds(t)
      BY <1>1, <2>1 DEF WorkerEnds
    <2>2. CASE TakeJob(t)
      <3>1. PICK m : /\ job' = [job EXCEPT ![t] = m]
                     /\ worker' = [worker EXCEPT ![t] = "received"]
                     /\ UNCHANGED <<ver, got, known, seen>>
        BY <2>2 DEF TakeJob
      <3> QED
        BY <1>1, <3>1
    <2>3. CASE Receive(t)
      BY <1>1, <2>3 DEF Receive
    <2>4. CASE Answer(t)
      BY <1>1, <1>2, <2>4 DEF Answer
    <2>8. CASE CallCancelled(t)
      BY <1>1, <2>8 DEF CallCancelled
    <2>5. CASE JobFails(t)
      BY <1>1, <2>5 DEF JobFails, News
    <2>6. CASE JobDone(t)
      BY <1>1, <2>6 DEF JobDone
    <2>7. CASE Report(t)
      <3>1. /\ job' = [job EXCEPT ![t] = NoMessage] /\ worker' = [worker EXCEPT ![t] = "idle"]
            /\ UNCHANGED <<ver, got, known, seen>>
        BY <2>7 DEF Report
      <3> QED
        BY <1>1, <3>1
    <2> QED
      BY <1>7, <2>1, <2>2, <2>3, <2>4, <2>5, <2>6, <2>7, <2>8 DEF Work
  <1> QED
    BY <1>3, <1>4, <1>5, <1>6, <1>7, WorkersMove

-----------------------------------------------------------------------------
(* ReceiptInv: what has been confirmed stays true.                         *)

\* The node does not go back to an older version: neither what it has acted on,
\* nor what it has recorded, nor what it confirmed on a cancelled call.
LEMMA NothingUndone ==
    ASSUME Types, WorkInv, [Next]_vars
    PROVE  \A t \in Topic : blank[t] <= blank'[t] /\ seen[t] <= seen'[t] /\ known[t] <= known'[t]
  <1>0. Bounds
    BY SetupOK DEF Types
  <1>1. /\ \A t \in Topic : /\ ver[t] \in Nat /\ got[t] \in Nat /\ seen[t] \in Nat
                            /\ known[t] \in Nat /\ blank[t] \in Nat /\ job[t].rev \in Nat
        /\ seen \in [Topic -> Nat] /\ known \in [Topic -> Nat] /\ blank \in [Topic -> Nat]
    BY <1>0 DEF Types, TypeOK, Message, Bounds
  <1>2. \A t \in Topic : blank[t] <= blank'[t]
    <2>1. CASE UNCHANGED blank
      BY <1>1, <2>1
    <2>2. ASSUME NEW t \in Topic, Report(t)
          PROVE  \A u \in Topic : blank[u] <= blank'[u]
      BY <1>1, <2>2 DEF Report
    <2> QED
      BY <2>1, <2>2, WorkersMove
  <1>3. \A t \in Topic : seen[t] <= seen'[t] /\ known[t] <= known'[t]
    <2>1. CASE UNCHANGED <<worker, job, got, known, seen>> \/ ReadMachineInvalidate
      BY <1>1, <2>1 DEF ReadMachineInvalidate
    <2>2. CASE QueueReload
      BY <1>1, <2>2 DEF QueueReload, WorkInv
    <2>3. CASE CutShort
      <3>1. /\ "users" \in Topic /\ known["users"] <= got["users"] /\ seen' = seen
            /\ known' = [known EXCEPT !["users"] = got["users"]]
        BY <2>3 DEF CutShort, News, WorkInv, Topic
      <3> QED
        BY <1>1, <3>1
    <2>4. ASSUME NEW t \in Topic, Work(t)
          PROVE  \A u \in Topic : seen[u] <= seen'[u] /\ known[u] <= known'[u]
      <3>1. CASE JobDone(t)
        BY <1>1, <3>1 DEF JobDone, WorkInv
      <3>2. CASE JobFails(t)
        BY <1>1, <3>2 DEF JobFails, News, WorkInv
      <3>3. CASE UNCHANGED <<seen, known>>
        BY <1>1, <3>3
      <3> QED
        BY <2>4, <3>1, <3>2, <3>3
           DEF Work, WorkerEnds, TakeJob, Receive, Answer, CallCancelled, Report
    <2> QED
      BY <2>1, <2>2, <2>3, <2>4, WorkersMove
  <1> QED
    BY <1>2, <1>3

\* Which steps move receipts.
LEMMA ReceiptsMove ==
    ASSUME [Next]_vars
    PROVE  /\ \/ UNCHANGED sendCh
              \/ \E s \in Session : WriterTakes(s)
              \/ \E t \in Topic : Receive(t) \/ Report(t)
           /\ \/ UNCHANGED hand
              \/ \E s \in Session : WriterTakes(s) \/ WriterWrites(s) \/ WriterFails(s)
           /\ UNCHANGED told \/ \E s \in Session : WriterWrites(s)
  <1> USE DEF panelVars, socketVars, writerVars, workVars, historyVars
  <1>1. CASE Panel
    BY <1>1 DEF Panel, PanelChange, PanelSend, PeerCloses, PeerTimesOut, TakeReload
  <1>2. CASE Run
    BY <1>2 DEF Run, RunChecks, Dial, DialFails, Hello, HelloFails, ReadLoop,
       ReadFails, ReadOther, ReadInvalidate, ReadMachineInvalidate, Sleep, Leave
  <1>3. CASE Cancel \/ Closed \/ QueueReload \/ CutShort \/ UNCHANGED vars
    BY <1>3 DEF Cancel, Closed, QueueReload, CutShort, vars
  <1>4. ASSUME NEW s \in Session, Writer(s)
        PROVE  /\ UNCHANGED sendCh \/ WriterTakes(s)
               /\ UNCHANGED hand \/ WriterTakes(s) \/ WriterWrites(s) \/ WriterFails(s)
               /\ UNCHANGED told \/ WriterWrites(s)
    BY <1>4 DEF Writer, WriterEnds, WriterTakes, WriterWrites, WriterFails
  <1>5. ASSUME NEW t \in Topic, Work(t)
        PROVE  /\ UNCHANGED sendCh \/ Receive(t) \/ Report(t)
               /\ UNCHANGED hand /\ UNCHANGED told
    BY <1>5 DEF Work, WorkerEnds, Receive, Answer, CallCancelled, JobFails, JobDone, TakeJob,
                Report
  <1> QED
    BY <1>1, <1>2, <1>3, <1>4, <1>5 DEF Next

\* The same as MayConfirm and Truthful, of the state after the step.
ConfirmNext(t, v) == v <= seen'[t] \/ v <= known'[t] \/ v <= blank'[t]
TruthNext(r) == r.status = "applied" => ConfirmNext(r.topic, r.rev)

\* The receipt a worker sends is truthful when it is sent.
LEMMA SendTruthful ==
    ASSUME Types, WorkInv, NEW t \in Topic, Receive(t) \/ Report(t)
    PROVE  \/ UNCHANGED sendCh
           \/ \E r \in Receipt : sendCh' = Append(sendCh, r) /\ TruthNext(r)
  <1>0. Bounds
    BY SetupOK DEF Types
  <1>1. /\ job[t].rev \in 0 .. MaxVer /\ seen[t] \in 0 .. MaxVer
        /\ blank \in [Topic -> 0 .. MaxVer]
    BY DEF Types, TypeOK, Message
  <1>2. PICK v \in 0 .. MaxVer : v = job[t].rev
    BY <1>1
  <1>3. ASSUME NEW status \in {"received", "applying", "applied", "failed"},
               Send(t, status), status = "applied" => ConfirmNext(t, v)
        PROVE  \/ UNCHANGED sendCh
               \/ \E r \in Receipt : sendCh' = Append(sendCh, r) /\ TruthNext(r)
    <2>1. PICK rev \in 0 .. MaxVer : rev = IF status = "applied" THEN v ELSE 0
      BY <1>0 DEF Bounds
    <2>2. PICK r : r = [topic |-> t, rev |-> rev, status |-> status]
      OBVIOUS
    <2>3. r \in Receipt /\ r.topic = t /\ r.rev = rev /\ r.status = status
      BY <2>2 DEF Receipt
    <2>4. UNCHANGED sendCh \/ sendCh' = Append(sendCh, r)
      BY <1>2, <1>3, <2>1, <2>2 DEF Send
    <2>5. TruthNext(r)
      BY <1>3, <2>1, <2>3 DEF TruthNext
    <2> QED
      BY <2>3, <2>4, <2>5
  <1>4. CASE Receive(t)
    BY <1>3, <1>4 DEF Receive
  <1>5. CASE Report(t)
    <2>1. CASE worker[t] = "failed"
      <3>1. Send(t, "failed")
        BY <1>5, <2>1 DEF Report
      <3> QED
        BY <1>3, <3>1
    <2>2. CASE worker[t] \in {"applied", "cut", "blank"}
      <3>1. Send(t, "applied")
        BY <1>5, <2>2 DEF Report
      <3>2. seen' = seen /\ known' = known
        BY <1>5 DEF Report
      <3>3. CASE worker[t] \in {"applied", "cut"}
        <4>1. v <= seen[t] \/ v <= known[t]
          BY <1>2, <3>3 DEF WorkInv
        <4>2. ConfirmNext(t, v)
          BY <3>2, <4>1 DEF ConfirmNext
        <4> QED
          BY <1>3, <3>1, <4>2
      <3>4. CASE worker[t] = "blank"
        <4>1. v <= blank'[t]
          BY <1>0, <1>1, <1>2, <1>5, <3>4 DEF Report, Bounds
        <4>2. ConfirmNext(t, v)
          BY <4>1 DEF ConfirmNext
        <4> QED
          BY <1>3, <3>1, <4>2
      <3> QED
        BY <2>2, <3>3, <3>4
    <2> QED
      BY <1>5, <2>1, <2>2 DEF Report
  <1> QED
    BY <1>4, <1>5

\* Every step keeps ReceiptInv.
LEMMA ReceiptStep ==
    ASSUME Types, WorkInv, ReceiptInv, [Next]_vars
    PROVE  ReceiptInv'
  <1>0. Bounds
    BY SetupOK DEF Types
  <1>1. /\ sendCh \in Seq(Receipt) /\ hand \in [Session -> Receipt]
        /\ told \in [Topic -> 0 .. MaxVer]
        /\ \A t \in Topic : /\ seen[t] \in Int /\ seen'[t] \in Int
                            /\ known[t] \in Int /\ known'[t] \in Int
                            /\ blank[t] \in Int /\ blank'[t] \in Int
    <2>1. Types'
      BY TypeStep
    <2> QED
      BY <2>1 DEF Types, TypeOK
  <1>2. ASSUME NEW t \in Topic, NEW v \in Int, MayConfirm(t, v)
        PROVE  ConfirmNext(t, v)
    <2>1. seen[t] <= seen'[t] /\ known[t] <= known'[t] /\ blank[t] <= blank'[t]
      BY NothingUndone
    <2> QED
      BY <1>1, <1>2, <2>1 DEF MayConfirm, ConfirmNext
  <1>3. ASSUME NEW r \in Receipt, Truthful(r)
        PROVE  TruthNext(r)
    <2>1. r.topic \in Topic /\ r.rev \in Int
      BY <1>0 DEF Receipt, Bounds
    <2> QED
      BY <1>2, <1>3, <2>1 DEF Truthful, TruthNext
  <1>q. \A i \in 1 .. Len(sendCh) : sendCh[i] \in Receipt /\ Truthful(sendCh[i])
    BY <1>1 DEF ReceiptInv
  <1>h. \A s \in Session : hand[s] \in Receipt /\ Truthful(hand[s])
    BY <1>1 DEF ReceiptInv
  <1>4. ASSUME NEW i \in 1 .. Len(sendCh')
        PROVE  TruthNext(sendCh'[i])
    <2>1. CASE UNCHANGED sendCh
      <3>1. PICK r \in Receipt : r = sendCh[i] /\ Truthful(r)
        BY <1>q, <2>1
      <3> QED
        BY <1>3, <2>1, <3>1
    <2>2. ASSUME NEW s \in Session, WriterTakes(s)
          PROVE  TruthNext(sendCh'[i])
      <3>1. sendCh # <<>> /\ sendCh' = Tail(sendCh)
        BY <2>2 DEF WriterTakes
      <3>2. i + 1 \in 1 .. Len(sendCh) /\ sendCh'[i] = sendCh[i + 1]
        BY <1>1, <3>1, TailParts
      <3>3. PICK r \in Receipt : r = sendCh[i + 1] /\ Truthful(r)
        BY <1>q, <3>2
      <3> QED
        BY <1>3, <3>2, <3>3
    <2>3. ASSUME NEW t \in Topic, Receive(t) \/ Report(t)
          PROVE  TruthNext(sendCh'[i])
      <3>1. ASSUME NEW r \in Receipt, sendCh' = Append(sendCh, r), TruthNext(r)
            PROVE  TruthNext(sendCh'[i])
        <4>1. /\ Len(sendCh') = Len(sendCh) + 1 /\ sendCh'[Len(sendCh) + 1] = r
              /\ \A j \in 1 .. Len(sendCh) : sendCh'[j] = sendCh[j]
          BY <1>1, <3>1, AppendParts
        <4>2. Len(sendCh) \in Nat
          BY <1>1
        <4>3. i \in 1 .. Len(sendCh) \/ i = Len(sendCh) + 1
          BY <4>1, <4>2
        <4>4. CASE i \in 1 .. Len(sendCh)
          <5>1. PICK x \in Receipt : x = sendCh[i] /\ Truthful(x)
            BY <1>q, <4>4
          <5> QED
            BY <1>3, <4>1, <4>4, <5>1
        <4>5. CASE i = Len(sendCh) + 1
          BY <3>1, <4>1, <4>5
        <4> QED
          BY <4>3, <4>4, <4>5
      <3> QED
        BY <2>1, <2>3, <3>1, SendTruthful
    <2> QED
      BY <2>1, <2>2, <2>3, ReceiptsMove
  <1>5. ASSUME NEW u \in Session
        PROVE  TruthNext(hand'[u])
    <2>1. CASE hand'[u] = hand[u]
      <3>1. PICK r \in Receipt : r = hand[u] /\ Truthful(r)
        BY <1>h
      <3> QED
        BY <1>3, <2>1, <3>1
    <2>2. ASSUME NEW s \in Session, WriterTakes(s)
          PROVE  TruthNext(hand'[u])
      <3>1. sendCh # <<>> /\ hand' = [hand EXCEPT ![s] = Head(sendCh)]
        BY <2>2 DEF WriterTakes
      <3>2. Head(sendCh) = sendCh[1] /\ 1 \in 1 .. Len(sendCh)
        BY <1>1, <3>1, TailParts
      <3>3. PICK r \in Receipt : r = Head(sendCh) /\ Truthful(r)
        BY <1>q, <3>2
      <3>4. hand'[u] = hand[u] \/ hand'[u] = r
        BY <1>1, <3>1, <3>3
      <3> QED
        BY <1>3, <2>1, <3>3, <3>4
    <2>3. ASSUME NEW s \in Session, WriterWrites(s) \/ WriterFails(s)
          PROVE  TruthNext(hand'[u])
      <3>1. hand' = [hand EXCEPT ![s] = NoReceipt]
        BY <2>3 DEF WriterWrites, WriterFails
      <3>2. hand'[u] = hand[u] \/ hand'[u] = NoReceipt
        BY <1>1, <3>1
      <3>3. CASE hand'[u] = NoReceipt
        BY <3>3, Nothing DEF TruthNext
      <3> QED
        BY <2>1, <3>2, <3>3
    <2> QED
      BY <2>1, <2>2, <2>3, ReceiptsMove
  <1>6. ASSUME NEW t \in Topic
        PROVE  ConfirmNext(t, told'[t])
    <2>1. CASE told'[t] = told[t]
      <3>1. PICK v \in Int : v = told[t] /\ MayConfirm(t, v)
        BY <1>1 DEF ReceiptInv
      <3> QED
        BY <1>2, <2>1, <3>1
    <2>2. ASSUME NEW s \in Session, WriterWrites(s)
          PROVE  ConfirmNext(t, told'[t])
      <3>1. PICK r \in Receipt : r = hand[s] /\ Truthful(r)
        BY <1>h
      <3>2. r.topic \in Topic /\ r.rev \in Int
        BY <1>0, <3>1 DEF Receipt, Bounds
      <3>3. \/ told' = told
            \/ r.status = "applied" /\ told' = [told EXCEPT ![r.topic] = r.rev]
        BY <2>2, <3>1 DEF WriterWrites
      <3>4. CASE t = r.topic /\ r.status = "applied" /\ told'[t] = r.rev
        <4>1. MayConfirm(t, r.rev)
          BY <3>1, <3>4 DEF Truthful
        <4> QED
          BY <1>2, <3>2, <3>4, <4>1
      <3> QED
        BY <1>1, <2>1, <3>2, <3>3, <3>4
    <2> QED
      BY <2>1, <2>2, ReceiptsMove
  <1> QED
    BY <1>4, <1>5, <1>6
       DEF ReceiptInv, Truthful, MayConfirm, TruthNext, ConfirmNext

-----------------------------------------------------------------------------
(* The theorems.                                                           *)

\* RealtimeInv holds in every state of every behaviour of the client, its
\* writers, the workers and Close.
THEOREM Invariant == Spec => []RealtimeInv
  <1>1. Init => RealtimeInv
    <2> SUFFICES ASSUME Init PROVE RealtimeInv
      OBVIOUS
    <2>1. Types
      BY TypeInit
    <2>2. NewsInv
      BY Nothing DEF Init, NewsInv
    <2>3. WorkInv
      BY Nothing DEF Init, WorkInv, Topic
    <2>4. ReceiptInv
      BY Nothing DEF Init, ReceiptInv, Truthful, MayConfirm
    <2> QED
      BY <2>1, <2>2, <2>3, <2>4 DEF RealtimeInv
  <1>2. RealtimeInv /\ [Next]_vars => RealtimeInv'
    BY TypeStep, NewsStep, WorkStep, ReceiptStep DEF RealtimeInv
  <1> QED
    BY <1>1, <1>2, PTL DEF Spec

\* Every variable keeps its type; in particular neither channel grows past the
\* capacity it was made with.
THEOREM TypeCorrect == Spec => []TypeOK
  <1>1. RealtimeInv => TypeOK
    BY DEF RealtimeInv, Types
  <1> QED
    BY <1>1, Invariant, PTL

\* A receipt "applied", queued, being written or read by the panel, confirms no
\* version newer than what the node has acted on, except up to the recorded
\* version of a node that is behind, because an application failed or was cut
\* short, and for the message of a call that Close cancelled.
THEOREM ReceiptsAreTrue == Spec => []AppliedReceiptsTrue
  <1>1. RealtimeInv => AppliedReceiptsTrue
    <2> SUFFICES ASSUME RealtimeInv, NEW t \in Topic, NEW v \in Confirmed(t)
                 PROVE  v <= seen[t] \/ (Behind(t) /\ v <= known[t]) \/ v <= blank[t]
      BY DEF AppliedReceiptsTrue
    <2>0. Bounds
      BY SetupOK DEF RealtimeInv, Types
    <2>1. /\ sendCh \in Seq(Receipt) /\ hand \in [Session -> Receipt]
          /\ told[t] \in Int /\ seen[t] \in Int /\ known[t] \in Int
      BY <2>0 DEF RealtimeInv, Types, TypeOK, Bounds
    <2>2. MayConfirm(t, v) /\ v \in Int
      <3>1. CASE v = told[t]
        BY <2>1, <3>1 DEF RealtimeInv, ReceiptInv
      <3>2. CASE v # told[t]
        <4>1. PICK r \in ToSet(sendCh) \cup Range(hand) :
                 r.topic = t /\ r.status = "applied" /\ v = r.rev
          BY <3>2 DEF Confirmed
        <4>2. Truthful(r) /\ r \in Receipt
          BY <2>1, <4>1 DEF RealtimeInv, ReceiptInv, ToSet, Range
        <4>3. v \in Int
          BY <2>0, <4>1, <4>2 DEF Receipt, Bounds
        <4> QED
          BY <4>1, <4>2, <4>3 DEF Truthful
      <3> QED
        BY <3>1, <3>2
    <2> QED
      BY <2>1, <2>2 DEF MayConfirm, Behind
  <1> QED
    BY <1>1, Invariant, PTL

=============================================================================
